-------------------------- MODULE LidarSourceProofs ---------------------------
(***************************************************************************)
(* Theorems about LidarSource, for every value of its constants: a cloud   *)
(* has one owner and a datagram put together from a recording is whole,    *)
(* always; the points of a packet are in one place from the queue of       *)
(* packets to the topic, the messages on the topic are in order, and       *)
(* packets that are relayed make the same clouds again, until a batch is   *)
(* popped while the queue of packets is cleared.                           *)
(***************************************************************************)
EXTENDS LidarSource, FoldTheorems

-----------------------------------------------------------------------------
(* The places a packet's points can be in.  Nums is of packets that wait: with *)
(* the receiving thread, in the queue, and with the handling thread.  Held is  *)
(* of the clouds that are filled, queued or sent.                              *)

Nums(s) == {s[i].n : i \in DOMAIN s}
Pub == UNION {Numbers(published[k].data) : k \in DOMAIN published}

Filled == IF hpc = "split" \/ point_cloud = NoCloud THEN {} ELSE {point_cloud}
Sent   == IF ppc = "send" THEN {msg} ELSE {}
Live   == {queue[i] : i \in DOMAIN queue} \cup Filled \cup Sent
Held   == [c \in Clouds |-> IF c \in Live THEN In(c) ELSE {}]

\* No number is in two of the places, and each of M is in one.
Apart(P, K, B, X, U, L) ==
  /\ \A n \in P : n \notin K /\ n \notin B /\ n \notin X /\ n \notin U
  /\ \A n \in K : n \notin B /\ n \notin X /\ n \notin U
  /\ \A n \in B : n \notin X /\ n \notin U
  /\ \A n \in X : n \notin U
  /\ \A c \in Clouds : \A n \in L[c] :
       n \notin P /\ n \notin K /\ n \notin B /\ n \notin X /\ n \notin U
  /\ \A c, d \in Clouds : c # d => \A n \in L[c] : n \notin L[d]
Covered(M, P, K, B, X, U, L) ==
  \A n \in M : \/ n \in P \/ n \in K \/ n \in B \/ n \in X \/ n \in U
               \/ \E c \in Clouds : n \in L[c]
Placed(M, P, K, B, X, U, L) == Apart(P, K, B, X, U, L) /\ Covered(M, P, K, B, X, U, L)

\* A new packet is with the receiving thread.
LEMMA PlacedNew ==
  ASSUME NEW M, NEW K, NEW B, NEW X, NEW U, NEW L, NEW n, NEW N,
         Placed(M, {}, K, B, X, U, L), N \subseteq M \cup {n},
         n \notin K, n \notin B, n \notin X, n \notin U, \A c \in Clouds : n \notin L[c]
  PROVE  Placed(N, {n}, K, B, X, U, L)
  BY DEF Placed, Apart, Covered

\* It is put in the queue of packets,
LEMMA PlacedPut ==
  ASSUME NEW M, NEW P, NEW K, NEW B, NEW X, NEW U, NEW L, NEW J,
         Placed(M, P, K, B, X, U, L), \A n : n \in J <=> n \in K \/ n \in P
  PROVE  Placed(M, {}, J, B, X, U, L)
  BY DEF Placed, Apart, Covered

\* or dropped with all that are in it.
LEMMA PlacedOver ==
  ASSUME NEW M, NEW P, NEW K, NEW B, NEW X, NEW U, NEW L, NEW Y,
         Placed(M, P, K, B, X, U, L), \A n : n \in Y <=> n \in X \/ n \in K \/ n \in P
  PROVE  Placed(M, {}, {}, B, Y, U, L)
  BY DEF Placed, Apart, Covered

\* A batch is taken from the queue.
LEMMA PlacedTaken ==
  ASSUME NEW M, NEW P, NEW K, NEW X, NEW U, NEW L, NEW J, NEW C,
         Placed(M, P, K, {}, X, U, L),
         \A n : n \in K <=> n \in J \/ n \in C, \A n \in J : n \notin C
  PROVE  Placed(M, P, J, C, X, U, L)
  BY DEF Placed, Apart, Covered

\* A packet without points leaves the batch.
LEMMA PlacedSkipped ==
  ASSUME NEW M, NEW P, NEW K, NEW B, NEW X, NEW U, NEW L, NEW C, NEW b,
         Placed(M, P, K, B, X, U, L), b \notin M,
         \A n : n \in C <=> n \in B /\ n # b
  PROVE  Placed(M, P, K, C, X, U, L)
  BY DEF Placed, Apart, Covered

\* A cloud is dropped,
LEMMA PlacedDropped ==
  ASSUME NEW M, NEW P, NEW K, NEW B, NEW X, NEW U, NEW L, NEW Y, NEW G, NEW c \in Clouds,
         Placed(M, P, K, B, X, U, L),
         \A n : n \in Y <=> n \in X \/ n \in L[c],
         G[c] = {}, \A d \in Clouds : d # c => G[d] = L[d]
  PROVE  Placed(M, P, K, B, Y, U, G)
  BY DEF Placed, Apart, Covered

\* or published.
LEMMA PlacedPublished ==
  ASSUME NEW M, NEW P, NEW K, NEW B, NEW X, NEW U, NEW L, NEW V, NEW G, NEW c \in Clouds,
         Placed(M, P, K, B, X, U, L),
         \A n : n \in V <=> n \in U \/ n \in L[c],
         G[c] = {}, \A d \in Clouds : d # c => G[d] = L[d]
  PROVE  Placed(M, P, K, B, X, V, G)
  BY DEF Placed, Apart, Covered
-----------------------------------------------------------------------------
(* The inductive invariant *)

Piece   == [gram : Datagram, at : Nat]
Packet  == [n : Nat, kind : Ports \cup {"null"}, begins : BOOLEAN, data : Seq(Piece)]
Cloud   == [seq : Nat, height : Nat, width : Nat, points : Seq(Nat \X Nat)]
Message == [seq : Nat, width : Nat, height : Nat, data : Seq(Nat \X Nat)]

Typed ==
  /\ setup \in Setups
  /\ pos \in Nat
  /\ jumbo \in [ip_id : Nat, buf_off : Nat, buf : Seq(Piece)]
  /\ socks \in [{"msop", "difop", "imu"} -> Nat]
  /\ events \in Seq({"msop", "difop", "imu"})
  /\ arrivals \in Seq(Packet)
  /\ pending \in Seq(Packet) /\ pkts \in Seq(Packet) /\ batch \in Seq(Packet)
  /\ overlapped \in BOOLEAN /\ real_count \in Nat
  /\ content \in [Clouds -> Cloud]
  /\ cloud_seq \in Nat
  /\ queue \in Seq(Clouds) /\ free \in Seq(Clouds)
  /\ msg \in Clouds \cup {NoCloud} /\ point_cloud \in Clouds \cup {NoCloud}
  /\ published \in Seq(Message)

\* What each thread holds, by where it is.
Control ==
  /\ rpc \notin {"put", "clear", "cleared"} => pending = <<>>
  /\ rpc = "fed" => setup.input = "raw"
  /\ hpc \in {"off", "loop", "wait", "pop"} => batch = <<>>
  /\ hpc = "pop" /\ ~overlapped => rpc # "cleared" /\ real_count <= Len(pkts)
  /\ ppc \in {"send", "recycle"} <=> msg # NoCloud
  /\ hpc # "off" => point_cloud # NoCloud
  /\ mpc \notin {"main", "init", "exited"} => point_cloud # NoCloud
  /\ mpc \in {"main", "init"} =>
       /\ ppc = "off" /\ point_cloud = NoCloud
       /\ queue = <<>> /\ free = <<>> /\ \A c \in Clouds : content[c].points = <<>>
  /\ mpc \in {"main", "init", "created", "ready"} => hpc = "off"
  /\ mpc \in {"main", "init", "created", "ready", "starting"} => rpc = "off"

\* Packets are numbered in the order they were put; those that wait are among them,
\* each once, and no other number is anywhere.
Known(s) == \A i \in DOMAIN s : s[i].n \in DOMAIN arrivals /\ s[i] = arrivals[s[i].n]
Once(s)  == \A i, j \in DOMAIN s : s[i].n = s[j].n => i = j
Counted ==
  /\ \A i \in DOMAIN arrivals : arrivals[i].n = i
  /\ Known(pending) /\ Known(pkts) /\ Known(batch)
  /\ Once(pending) /\ Once(pkts) /\ Once(batch)
  /\ lost \subseteq DOMAIN arrivals /\ Pub \subseteq DOMAIN arrivals
  /\ \A c \in Clouds : In(c) \subseteq DOMAIN arrivals

\* A cloud has one owner: a queue, the publishing thread, or the decoder; the queues
\* are bounded, so that there is always a cloud without an owner.
Owned ==
  /\ Len(queue) <= CloudCap /\ Len(free) <= CloudCap
  /\ \A i, j \in DOMAIN queue : queue[i] = queue[j] => i = j
  /\ \A i, j \in DOMAIN free : free[i] = free[j] => i = j
  /\ \A i \in DOMAIN queue : queue[i] # msg /\ \A j \in DOMAIN free : queue[i] # free[j]
  /\ \A j \in DOMAIN free : free[j] # msg
  /\ hpc # "split" =>
       /\ \A i \in DOMAIN queue : queue[i] # point_cloud
       /\ \A j \in DOMAIN free : free[j] # point_cloud
       /\ msg # NoCloud => msg # point_cloud

\* Unless points are dense a cloud has all rings of its packets, and when it leaves
\* the decoder its header says so.
Sized ==
  setup.dense \/
    /\ \A c \in Live : \E w \in Nat : Len(content[c].points) = w * Height
    /\ \A c \in Live \ Filled : /\ content[c].height = Height
                                /\ Len(content[c].points) = content[c].width * Height

Points == Placed(MsopIn(arrivals), Nums(pending), Nums(pkts), Nums(batch), lost, Pub, Held)

\* What Jumbo has of a datagram under way is the beginning of it.
StartOf(j, records) ==
  /\ Len(j.buf) = j.buf_off
  /\ j.ip_id # 0 => \E i \in DOMAIN records :
       /\ records[i].gram.id = j.ip_id
       /\ \A k \in 1..j.buf_off : j.buf[k] = [gram |-> records[i].gram, at |-> k - 1]
Assembled == StartOf(jumbo, setup.records)

\* Once a batch was popped while the queue was cleared, what the slots give may have any
\* number, and so may the points of a cloud.
Accounted == ~overlapped => Counted /\ Points

SourceInv == Typed /\ Control /\ Owned /\ Sized /\ Assembled /\ WholeDatagrams /\ Accounted

-----------------------------------------------------------------------------
(* Steps that move no packet and no cloud *)

LEMMA Quiet ==
  ASSUME SourceInv, Typed', Control', Assembled',
         setup' = setup, arrivals' = arrivals, pending' = pending, pkts' = pkts, batch' = batch,
         point_cloud' = point_cloud, content' = content, queue' = queue, free' = free,
         msg' = msg, published' = published, lost' = lost, overlapped => overlapped',
         hpc' = "split" <=> hpc = "split", ppc' = "send" <=> ppc = "send"
  PROVE  SourceInv'
<1>1. Live' = Live /\ Filled' = Filled
  BY Zenon DEF Live, Filled, Sent
<1>2. Held' = Held /\ Pub' = Pub
  BY <1>1, Zenon DEF Held, Pub, In
<1>3. ASSUME ~overlapped PROVE Counted'
  BY <1>2, <1>3, Zenon DEF SourceInv, Accounted, Counted, Known, Once, In
<1>4. Owned'
  BY Zenon DEF SourceInv, Owned
<1>5. Sized'
  BY <1>1, Zenon DEF SourceInv, Sized
<1>6. ASSUME ~overlapped PROVE Points'
  BY <1>2, <1>6, Zenon DEF SourceInv, Accounted, Points
<1>7. WholeDatagrams'
  BY Zenon DEF SourceInv, WholeDatagrams
<1> QED BY <1>3, <1>4, <1>5, <1>6, <1>7, Zenon DEF SourceInv, Accounted

LEMMA MainQuiet ==
  ASSUME SourceInv,
         \/ LoadConfig \/ RegisterDestinations \/ StartHandle \/ StartInput
         \/ StopInput \/ JoinRecv \/ JoinProcess \/ Destroy
  PROVE  SourceInv'
<1>1. Typed /\ Control /\ Assembled BY Zenon DEF SourceInv
<1>2. /\ setup' = setup /\ arrivals' = arrivals /\ pending' = pending /\ pkts' = pkts
      /\ batch' = batch /\ point_cloud' = point_cloud /\ content' = content /\ queue' = queue
      /\ free' = free /\ msg' = msg /\ published' = published /\ lost' = lost
      /\ ppc' = ppc /\ pos' = pos /\ jumbo' = jumbo /\ socks' = socks /\ events' = events
      /\ cloud_seq' = cloud_seq /\ overlapped' = overlapped /\ real_count' = real_count
  BY Zenon DEF LoadConfig, RegisterDestinations, StartHandle, StartInput, StopInput, JoinRecv,
               JoinProcess, Destroy, inVars, pcVars, pubVars
<1>3. Typed' /\ Assembled'
  BY <1>1, <1>2, Zenon DEF Typed, Assembled
<1>4. rpc' = rpc \/ (mpc = "starting" /\ rpc' \in {"fed", "loop"})
  BY Zenon DEF LoadConfig, RegisterDestinations, StartHandle, StartInput, StopInput, JoinRecv,
               JoinProcess, Destroy, inVars
<1>5. rpc' = "fed" => rpc' = rpc \/ setup.input = "raw"
  BY Zenon DEF LoadConfig, RegisterDestinations, StartHandle, StartInput, StopInput, JoinRecv,
               JoinProcess, Destroy, inVars
<1>6. hpc' = hpc \/ (mpc = "ready" /\ mpc' = "starting" /\ hpc' = "loop")
  BY Zenon DEF LoadConfig, RegisterDestinations, StartHandle, StartInput, StopInput, JoinRecv,
               JoinProcess, Destroy, pcVars
<1>7. \/ mpc = "main" /\ mpc' \in {"init", "exited"}
      \/ mpc = "created" /\ mpc' = "ready"
      \/ mpc = "ready" /\ mpc' = "starting"
      \/ mpc = "starting" /\ mpc' = "spin"
      \/ mpc = "spin" /\ mpc' = "joinRecv"
      \/ mpc = "joinRecv" /\ mpc' = "joinHandle"
      \/ mpc = "joinProcess" /\ mpc' = "stopped"
      \/ mpc = "stopped" /\ mpc' = "terminated"
  BY Zenon DEF LoadConfig, RegisterDestinations, StartHandle, StartInput, StopInput, JoinRecv,
               JoinProcess, Destroy
<1>8. Control'
  <2>1. rpc' \notin {"put", "clear", "cleared"} => pending' = <<>>
    BY <1>1, <1>2, <1>4, <1>7 DEF Control
  <2>2. hpc' \in {"off", "loop", "wait", "pop"} => batch' = <<>>
    BY <1>1, <1>2, <1>6, <1>7 DEF Control
  <2>3. hpc' = "pop" /\ ~overlapped' => rpc' # "cleared" /\ real_count' <= Len(pkts')
    <3>1. hpc' = "pop" => hpc = "pop" /\ (rpc' # "cleared" \/ rpc' = rpc)
      BY <1>4, <1>6
    <3> QED BY <1>1, <1>2, <3>1, Zenon DEF Control
  <2>4. ppc' \in {"send", "recycle"} <=> msg' # NoCloud
    BY <1>1, <1>2, Zenon DEF Control
  <2>5. /\ hpc' # "off" => point_cloud' # NoCloud
        /\ mpc' \notin {"main", "init", "exited"} => point_cloud' # NoCloud
    BY <1>1, <1>2, <1>6, <1>7 DEF Control
  <2>6. mpc' \in {"main", "init"} =>
          /\ ppc' = "off" /\ point_cloud' = NoCloud
          /\ queue' = <<>> /\ free' = <<>> /\ \A c \in Clouds : content'[c].points = <<>>
    <3>1. mpc' \in {"main", "init"} => mpc = "main"
      BY <1>7
    <3> QED BY <1>1, <1>2, <3>1, Zenon DEF Control
  <2>7. mpc' \in {"main", "init", "created", "ready"} => hpc' = "off"
    BY <1>1, <1>6, <1>7 DEF Control
  <2>8. mpc' \in {"main", "init", "created", "ready", "starting"} => rpc' = "off"
    BY <1>1, <1>4, <1>7 DEF Control
  <2>9. rpc' = "fed" => setup'.input = "raw"
    BY <1>1, <1>2, <1>5, Zenon DEF Control
  <2> QED BY <2>1, <2>2, <2>3, <2>4, <2>5, <2>6, <2>7, <2>8, <2>9, Zenon DEF Control
<1>9. hpc' = "split" <=> hpc = "split"
  BY <1>1, <1>6 DEF Control
<1> QED BY <1>2, <1>3, <1>8, <1>9, Quiet, Zenon

\* What epoll reports are names of sockets.
LEMMA EventsTyped ==
  ASSUME NEW S \in SUBSET {"msop", "difop", "imu"}, NEW order \in SetToSeqs(S)
  PROVE  [i \in DOMAIN order |-> IF order[i] = "imu" THEN "difop" ELSE order[i]]
           \in Seq({"msop", "difop", "imu"})
<1>1. IsFiniteSet({"msop", "difop", "imu"})
  <2>1. IsFiniteSet({"msop"}) BY FS_Singleton
  <2>2. IsFiniteSet({"msop"} \cup {"difop"}) BY <2>1, FS_AddElement
  <2>3. IsFiniteSet(({"msop"} \cup {"difop"}) \cup {"imu"}) BY <2>2, FS_AddElement
  <2>4. ({"msop"} \cup {"difop"}) \cup {"imu"} = {"msop", "difop", "imu"} OBVIOUS
  <2> QED BY <2>3, <2>4
<1>2. Cardinality(S) \in Nat
  BY <1>1, FS_Subset, FS_CardinalityType
<1>3. order \in [1..Cardinality(S) -> S]
  BY Zenon DEF SetToSeqs
<1> DEFINE reported == [i \in 1..Cardinality(S) |-> IF order[i] = "imu" THEN "difop" ELSE order[i]]
<1>4. reported \in Seq({"msop", "difop", "imu"})
  <2>1. \A i \in 1..Cardinality(S) : order[i] \in {"msop", "difop", "imu"}
    BY <1>3
  <2>2. reported \in [1..Cardinality(S) -> {"msop", "difop", "imu"}]
    BY <2>1
  <2> HIDE DEF reported
  <2> QED BY <1>2, <2>2, SeqDef
<1>5. DOMAIN order = 1..Cardinality(S)
  BY <1>3
<1> QED BY <1>4, <1>5, Zenon

LEMMA RecvQuiet ==
  ASSUME SourceInv,
         RecvExit \/ RecvEof \/ RecvNull \/ RecvEpoll \/ RecvServed \/ RecvRefused \/ RecvClearHead \/ Arrive
  PROVE  SourceInv'
<1>1. Typed /\ Control /\ Assembled BY Zenon DEF SourceInv
<1>2. /\ setup' = setup /\ arrivals' = arrivals /\ pending' = pending /\ pkts' = pkts
      /\ batch' = batch /\ point_cloud' = point_cloud /\ content' = content /\ queue' = queue
      /\ free' = free /\ msg' = msg /\ published' = published /\ lost' = lost
      /\ ppc' = ppc /\ hpc' = hpc /\ jumbo' = jumbo /\ cloud_seq' = cloud_seq
      /\ real_count' = real_count
  BY Zenon DEF RecvExit, RecvEof, RecvNull, RecvEpoll, RecvServed, RecvRefused, RecvClearHead, Arrive,
               putRest, recvRest, inVars, pcVars, pubVars
<1>3. pos' = pos \/ pos' = 0
  BY Zenon DEF RecvExit, RecvEof, RecvNull, RecvEpoll, RecvServed, RecvRefused, RecvClearHead, Arrive,
               putRest, inVars
<1>4. \/ rpc' = rpc
      \/ rpc \notin {"put", "clear", "cleared", "off"} /\ rpc' \notin {"put", "clear", "cleared", "fed"}
      \/ rpc = "put" /\ rpc' = "clear"
      \/ rpc = "clear" /\ rpc' = "cleared" /\ overlapped' = (overlapped \/ hpc = "pop")
  BY DEF RecvExit, RecvEof, RecvNull, RecvEpoll, RecvServed, RecvRefused, RecvClearHead, Arrive,
               putRest, inVars, Reads
<1>5. overlapped' = overlapped \/ overlapped' = (overlapped \/ hpc = "pop")
  BY Zenon DEF RecvExit, RecvEof, RecvNull, RecvEpoll, RecvServed, RecvRefused, RecvClearHead, Arrive,
               putRest
<1>6. mpc' = mpc \/ (rpc # "off" /\ mpc # "exited" /\ mpc' = "dead")
  BY DEF RecvExit, RecvEof, RecvNull, RecvEpoll, RecvServed, RecvRefused, RecvClearHead, Arrive,
         putRest, Reads, Alive
<1>7. socks' \in [{"msop", "difop", "imu"} -> Nat]
  <2>1. CASE Arrive
    BY <1>1, <2>1, SMTT(20) DEF Arrive, Typed
  <2>2. CASE ~Arrive
    BY <1>1, <2>2, ZenonT(30) DEF RecvExit, RecvEof, RecvNull, RecvEpoll, RecvServed, RecvRefused, RecvClearHead,
                                   putRest, inVars, Typed
  <2> QED BY <2>1, <2>2
<1>8. events' \in Seq({"msop", "difop", "imu"})
  <2>1. CASE RecvEpoll
    <3>1. {s \in DOMAIN socks : socks[s] > 0} \in SUBSET {"msop", "difop", "imu"}
      BY <1>1 DEF Typed
    <3>2. PICK order \in SetToSeqs({s \in DOMAIN socks : socks[s] > 0}) :
            events' = [i \in DOMAIN order |-> IF order[i] = "imu" THEN "difop" ELSE order[i]]
      BY <2>1, Zenon DEF RecvEpoll
    <3> QED BY <3>1, <3>2, EventsTyped, Zenon
  <2>2. CASE ~RecvEpoll
    BY <1>1, <2>2, Zenon DEF RecvExit, RecvEof, RecvNull, RecvServed, RecvRefused, RecvClearHead, Arrive,
               putRest, inVars, Typed
  <2> QED BY <2>1, <2>2
<1>9. Typed'
  <2>1. pos' \in Nat BY <1>1, <1>3 DEF Typed
  <2>2. overlapped' \in BOOLEAN BY <1>1, <1>5, Zenon DEF Typed
  <2> QED BY <1>1, <1>2, <1>7, <1>8, <2>1, <2>2, Zenon DEF Typed
<1>10. Assembled'
  BY <1>1, <1>2, Zenon DEF Assembled
<1>11. Control'
  <2>1. /\ rpc' \notin {"put", "clear", "cleared"} => pending' = <<>>
        /\ rpc' = "fed" => setup'.input = "raw"
    BY <1>1, <1>2, <1>4 DEF Control
  <2>2. hpc' = "pop" /\ ~overlapped' => rpc' # "cleared" /\ real_count' <= Len(pkts')
    BY <1>1, <1>2, <1>4, <1>5 DEF Control
  <2>3. /\ hpc' \in {"off", "loop", "wait", "pop"} => batch' = <<>>
        /\ ppc' \in {"send", "recycle"} <=> msg' # NoCloud
        /\ hpc' # "off" => point_cloud' # NoCloud
    BY <1>1, <1>2, Zenon DEF Control
  <2>4. mpc' \notin {"main", "init", "exited"} => point_cloud' # NoCloud
    BY <1>1, <1>2, <1>6 DEF Control
  <2>5. mpc' \in {"main", "init", "created", "ready", "starting"} => mpc' = mpc /\ rpc' = "off"
    BY <1>1, <1>4, <1>6 DEF Control
  <2>6. mpc' \in {"main", "init"} =>
          /\ ppc' = "off" /\ point_cloud' = NoCloud
          /\ queue' = <<>> /\ free' = <<>> /\ \A c \in Clouds : content'[c].points = <<>>
    BY <1>1, <1>2, <2>5, Zenon DEF Control
  <2>7. mpc' \in {"main", "init", "created", "ready"} => hpc' = "off"
    BY <1>1, <1>2, <2>5, Zenon DEF Control
  <2> QED BY <2>1, <2>2, <2>3, <2>4, <2>5, <2>6, <2>7, Zenon DEF Control
<1>12. overlapped => overlapped'
  BY <1>1, <1>5, Zenon DEF Typed
<1> QED BY <1>2, <1>9, <1>10, <1>11, <1>12, Quiet, Zenon

LEMMA ThreadsQuiet ==
  ASSUME SourceInv, HandleCheck \/ HandleTimeout \/ HandleDone \/ PublishCheck \/ PublishTimeout
  PROVE  SourceInv'
<1>1. Typed /\ Control /\ Assembled BY Zenon DEF SourceInv
<1>2. /\ setup' = setup /\ arrivals' = arrivals /\ pending' = pending /\ pkts' = pkts
      /\ batch' = batch /\ point_cloud' = point_cloud /\ content' = content /\ queue' = queue
      /\ free' = free /\ msg' = msg /\ published' = published /\ lost' = lost
      /\ pos' = pos /\ jumbo' = jumbo /\ socks' = socks /\ events' = events
      /\ cloud_seq' = cloud_seq /\ mpc' = mpc /\ rpc' = rpc
      /\ overlapped' = overlapped /\ real_count' = real_count
  BY Zenon DEF HandleCheck, HandleTimeout, HandleDone, PublishCheck, PublishTimeout, handleRest, pubRest,
               inVars, pcVars, pubVars
<1>3. hpc' = hpc \/ (hpc \in {"loop", "wait"} /\ hpc' \in {"off", "loop", "wait"})
                 \/ (hpc = "decode" /\ batch = <<>> /\ hpc' = "loop")
  BY DEF HandleCheck, HandleTimeout, HandleDone, PublishCheck, PublishTimeout, pubRest, pcVars
<1>4. ppc' = ppc \/ (ppc \in {"loop", "wait"} /\ ppc' \in {"off", "loop", "wait"})
  BY DEF HandleCheck, HandleTimeout, HandleDone, PublishCheck, PublishTimeout, handleRest, pubVars
<1>5. Typed' /\ Assembled'
  BY <1>1, <1>2, Zenon DEF Typed, Assembled
<1>6. Control'
  <2>1. /\ rpc' \notin {"put", "clear", "cleared"} => pending' = <<>>
        /\ rpc' = "fed" => setup'.input = "raw"
        /\ mpc' \in {"main", "init", "created", "ready", "starting"} => rpc' = "off"
        /\ mpc' \notin {"main", "init", "exited"} => point_cloud' # NoCloud
    BY <1>1, <1>2, Zenon DEF Control
  <2>2. hpc' \in {"off", "loop", "wait", "pop"} => batch' = <<>>
    BY <1>1, <1>2, <1>3 DEF Control
  <2>3. hpc' # "off" => point_cloud' # NoCloud
    BY <1>1, <1>2, <1>3 DEF Control
  <2>4. ppc' \in {"send", "recycle"} <=> msg' # NoCloud
    BY <1>1, <1>2, <1>4 DEF Control
  <2>5. mpc' \in {"main", "init", "created", "ready"} => hpc' = "off"
    BY <1>1, <1>2, <1>3 DEF Control
  <2>6. mpc' \in {"main", "init"} => ppc' = ppc
    BY <1>1, <1>2, <1>4 DEF Control
  <2>7. mpc' \in {"main", "init"} =>
          /\ ppc' = "off" /\ point_cloud' = NoCloud
          /\ queue' = <<>> /\ free' = <<>> /\ \A c \in Clouds : content'[c].points = <<>>
    BY <1>1, <1>2, <2>6, Zenon DEF Control
  <2>8. hpc' = "pop" /\ ~overlapped' => rpc' # "cleared" /\ real_count' <= Len(pkts')
    <3>1. hpc' = "pop" => hpc = "pop" BY <1>3
    <3> QED BY <1>1, <1>2, <3>1, Zenon DEF Control
  <2> QED BY <2>1, <2>2, <2>3, <2>4, <2>5, <2>7, <2>8, Zenon DEF Control
<1>7. hpc' = "split" <=> hpc = "split"
  BY <1>3
<1>8. ppc' = "send" <=> ppc = "send"
  BY <1>4
<1> QED BY <1>2, <1>5, <1>6, <1>7, <1>8, Quiet, Zenon

\* popBatch counts, which overlaps a clear() that is between its two stores.
LEMMA HandlePollStep ==
  ASSUME SourceInv, HandlePoll
  PROVE  SourceInv'
<1>1. Typed /\ Control /\ Assembled BY Zenon DEF SourceInv
<1>2. /\ setup' = setup /\ arrivals' = arrivals /\ pending' = pending /\ pkts' = pkts
      /\ batch' = batch /\ point_cloud' = point_cloud /\ content' = content /\ queue' = queue
      /\ free' = free /\ msg' = msg /\ published' = published /\ lost' = lost
      /\ pos' = pos /\ jumbo' = jumbo /\ socks' = socks /\ events' = events
      /\ cloud_seq' = cloud_seq /\ mpc' = mpc /\ rpc' = rpc /\ ppc' = ppc
      /\ hpc = "wait" /\ hpc' = "pop" /\ ~overlapped /\ overlapped' = (rpc = "cleared")
      /\ real_count' = IF Len(pkts) < Batch THEN Len(pkts) ELSE Batch
  BY Zenon DEF HandlePoll, handleRest, inVars, pubVars
<1>3. real_count' \in Nat /\ real_count' <= Len(pkts)
  <2>1. Len(pkts) \in Nat /\ Batch \in Nat BY <1>1, SourceAssumption DEF Typed
  <2> QED BY <1>2, <2>1
<1>4. Typed'
  <2>1. overlapped' \in BOOLEAN BY <1>2
  <2> QED BY <1>1, <1>2, <1>3, <2>1, Zenon DEF Typed
<1>5. Assembled'
  BY <1>1, <1>2, Zenon DEF Assembled
<1>6. Control'
  <2>1. batch = <<>> /\ mpc \notin {"main", "init", "created", "ready"} /\ point_cloud # NoCloud
    BY <1>1, <1>2 DEF Control
  <2>2. ~overlapped' => rpc' # "cleared" /\ real_count' <= Len(pkts')
    BY <1>2, <1>3, Zenon
  <2> QED BY <1>1, <1>2, <2>1, <2>2, Zenon DEF Control
<1>7. hpc' = "split" <=> hpc = "split"
  BY <1>2
<1> QED BY <1>2, <1>4, <1>5, <1>6, <1>7, Quiet, Zenon

\* A slot that was never written ends the process.
LEMMA HandleNullStep ==
  ASSUME SourceInv, HandleNull
  PROVE  SourceInv'
<1>1. Typed /\ Control /\ Assembled BY Zenon DEF SourceInv
<1>2. /\ setup' = setup /\ arrivals' = arrivals /\ pending' = pending /\ pkts' = pkts
      /\ batch' = batch /\ point_cloud' = point_cloud /\ content' = content /\ queue' = queue
      /\ free' = free /\ msg' = msg /\ published' = published /\ lost' = lost
      /\ pos' = pos /\ jumbo' = jumbo /\ socks' = socks /\ events' = events
      /\ cloud_seq' = cloud_seq /\ rpc' = rpc /\ hpc' = hpc /\ ppc' = ppc
      /\ overlapped' = overlapped /\ real_count' = real_count /\ hpc = "decode" /\ mpc' = "dead"
  BY Zenon DEF HandleNull, inVars, pcVars, pubVars
<1>3. Typed' /\ Assembled'
  BY <1>1, <1>2, Zenon DEF Typed, Assembled
<1>4. Control'
  <2>1. mpc' \notin {"main", "init", "created", "ready", "starting"} /\ point_cloud # NoCloud
    BY <1>1, <1>2 DEF Control
  <2> QED BY <1>1, <1>2, <2>1, Zenon DEF Control
<1> QED BY <1>2, <1>3, <1>4, Quiet, Zenon

LEMMA Unchanged ==
  ASSUME SourceInv, UNCHANGED vars
  PROVE  SourceInv'
<1>1. /\ setup' = setup /\ arrivals' = arrivals /\ pending' = pending /\ pkts' = pkts
      /\ batch' = batch /\ point_cloud' = point_cloud /\ content' = content /\ queue' = queue
      /\ free' = free /\ msg' = msg /\ published' = published /\ lost' = lost
      /\ pos' = pos /\ jumbo' = jumbo /\ socks' = socks /\ events' = events
      /\ cloud_seq' = cloud_seq /\ mpc' = mpc /\ rpc' = rpc /\ hpc' = hpc /\ ppc' = ppc
      /\ overlapped' = overlapped /\ real_count' = real_count
  BY Zenon DEF vars, inVars, pcVars, pubVars
<1>2. Typed' /\ Assembled' /\ Control'
  BY <1>1, Zenon DEF SourceInv, Typed, Assembled, Control
<1> QED BY <1>1, <1>2, Quiet, Zenon

-----------------------------------------------------------------------------
(* The receiving thread *)

\* Steps that leave the clouds alone.
LEMMA CloudsStay ==
  ASSUME SourceInv,
         setup' = setup, point_cloud' = point_cloud, content' = content, queue' = queue,
         free' = free, msg' = msg, published' = published,
         hpc' = "split" <=> hpc = "split", ppc' = "send" <=> ppc = "send"
  PROVE  Held' = Held /\ Pub' = Pub /\ Owned' /\ Sized' /\ \A c \in Clouds : In(c)' = In(c)
<1>1. Live' = Live /\ Filled' = Filled
  BY Zenon DEF Live, Filled, Sent
<1>2. Held' = Held /\ Pub' = Pub /\ \A c \in Clouds : In(c)' = In(c)
  BY <1>1, Zenon DEF Held, Pub, In
<1>3. Owned'
  BY Zenon DEF SourceInv, Owned
<1>4. Sized'
  BY <1>1, Zenon DEF SourceInv, Sized
<1> QED BY <1>2, <1>3, <1>4, Zenon

\* A number that was not given yet is nowhere.
LEMMA NextIsNew ==
  ASSUME SourceInv, ~overlapped, NEW n, n \notin DOMAIN arrivals
  PROVE  /\ n \notin Nums(pending) /\ n \notin Nums(pkts) /\ n \notin Nums(batch)
         /\ n \notin lost /\ n \notin Pub /\ \A c \in Clouds : n \notin Held[c]
<1>1. Counted BY Zenon DEF SourceInv, Accounted
<1>2. n \notin Nums(pending) /\ n \notin Nums(pkts) /\ n \notin Nums(batch)
  <2>1. \A s : Known(s) => n \notin Nums(s)
    BY DEF Known, Nums
  <2> QED BY <1>1, <2>1, Zenon DEF Counted
<1>3. n \notin lost /\ n \notin Pub
  BY <1>1, Zenon DEF Counted
<1>4. \A c \in Clouds : n \notin Held[c]
  BY <1>1 DEF Counted, Held
<1> QED BY <1>2, <1>3, <1>4, Zenon

\* A packet that is put gets the next number.
LEMMA NewPut ==
  ASSUME SourceInv, NEW p \in Packet, p.n = Len(arrivals) + 1, pending = <<>>,
         pending' = <<p>>, arrivals' = Append(arrivals, p),
         setup' = setup, pkts' = pkts, batch' = batch, lost' = lost,
         point_cloud' = point_cloud, content' = content, queue' = queue, free' = free,
         msg' = msg, published' = published, hpc' = hpc, ppc' = ppc
  PROVE  Owned' /\ Sized' /\ (~overlapped => Counted' /\ Points')
<1>1. Typed /\ (~overlapped => Counted /\ Points) BY Zenon DEF SourceInv, Accounted
<1>2. Held' = Held /\ Pub' = Pub /\ Owned' /\ Sized' /\ \A c \in Clouds : In(c)' = In(c)
  BY CloudsStay
<1>3. arrivals \in Seq(Packet) BY <1>1, Zenon DEF Typed
<1>4. /\ DOMAIN arrivals = 1..Len(arrivals) /\ Len(arrivals) \in Nat
      /\ DOMAIN arrivals' = 1..(Len(arrivals) + 1)
      /\ \A i \in DOMAIN arrivals : i \in DOMAIN arrivals' /\ arrivals'[i] = arrivals[i]
      /\ arrivals'[Len(arrivals) + 1] = p
  BY <1>3
<1>5. p.n \in DOMAIN arrivals' /\ p.n \notin DOMAIN arrivals /\ arrivals'[p.n] = p
  BY <1>4
<1>6. \A i \in DOMAIN arrivals' : i \in DOMAIN arrivals \/ i = p.n
  BY <1>4
<1>7. ASSUME ~overlapped PROVE Counted'
  <2>1. \A i \in DOMAIN arrivals' : arrivals'[i].n = i
    BY <1>1, <1>4, <1>5, <1>6, <1>7 DEF Counted
  <2>2. Known(pkts)' /\ Known(batch)'
    BY <1>1, <1>4, <1>7, ZenonT(30) DEF Counted, Known
  <2>3. Known(pending)' /\ Once(pending)'
    <3>1. DOMAIN pending' = {1} /\ pending'[1] = p
      OBVIOUS
    <3> QED BY <1>5, <3>1 DEF Known, Once
  <2>4. Once(pkts)' /\ Once(batch)'
    BY <1>1, <1>7, Zenon DEF Counted, Once
  <2>5. lost' \subseteq DOMAIN arrivals' /\ Pub' \subseteq DOMAIN arrivals'
    BY <1>1, <1>2, <1>4, <1>7, Zenon DEF Counted
  <2>6. \A c \in Clouds : In(c)' \subseteq DOMAIN arrivals'
    BY <1>1, <1>2, <1>4, <1>7, Zenon DEF Counted
  <2> QED BY <2>1, <2>2, <2>3, <2>4, <2>5, <2>6, Zenon DEF Counted
<1>8. ASSUME ~overlapped PROVE Points'
  <2>1. Nums(pending) = {} /\ Nums(pending') = {p.n}
    <3>1. DOMAIN pending' = {1} /\ pending'[1] = p /\ DOMAIN pending = {}
      OBVIOUS
    <3> QED BY <3>1 DEF Nums
  <2>2. MsopIn(arrivals') \subseteq MsopIn(arrivals) \cup {p.n}
    BY <1>3 DEF MsopIn, Range
  <2>3. Placed(MsopIn(arrivals), {}, Nums(pkts), Nums(batch), lost, Pub, Held)
    BY <1>1, <1>8, <2>1, Zenon DEF Points
  <2>4. Placed(MsopIn(arrivals'), {p.n}, Nums(pkts), Nums(batch), lost, Pub, Held)
    BY <1>5, <2>2, <2>3, <1>8, NextIsNew, PlacedNew
  <2> QED BY <1>2, <2>1, <2>4, Zenon DEF Points
<1> QED BY <1>2, <1>7, <1>8, Zenon

\* A step of the receiving thread either puts a packet
LEMMA Puts ==
  ASSUME SourceInv, NEW p \in Packet, p.n = Len(arrivals) + 1, PutNext(p),
         rpc \notin {"put", "clear", "cleared", "off"},
         UNCHANGED <<recvRest, mpc, pkts, overlapped, lost>>,
         pos' \in Nat, jumbo' \in [ip_id : Nat, buf_off : Nat, buf : Seq(Piece)],
         socks' \in [{"msop", "difop", "imu"} -> Nat],
         events' \in Seq({"msop", "difop", "imu"}),
         Assembled', WholeDatagrams'
  PROVE  SourceInv'
<1>1. Typed /\ Control BY Zenon DEF SourceInv
<1>2. /\ overlapped' = overlapped /\ real_count' = real_count
      /\ setup' = setup /\ pkts' = pkts /\ batch' = batch /\ lost' = lost
      /\ point_cloud' = point_cloud /\ content' = content /\ queue' = queue /\ free' = free
      /\ msg' = msg /\ published' = published /\ hpc' = hpc /\ ppc' = ppc /\ mpc' = mpc
      /\ cloud_seq' = cloud_seq
  BY Zenon DEF recvRest, pcVars, pubVars
<1>3. overlapped' <=> overlapped
  BY <1>2
<1>4. pending' = <<p>> /\ rpc' = "put" /\ arrivals' = Append(arrivals, p)
  BY Zenon DEF PutNext
<1>5. pending = <<>> /\ mpc \notin {"main", "init", "created", "ready", "starting"}
  BY <1>1, Zenon DEF Control
<1>6. Owned' /\ Sized' /\ (~overlapped => Counted' /\ Points')
  BY <1>2, <1>4, <1>5, NewPut, Zenon
<1>7. Typed'
  <2>1. pending' \in Seq(Packet) /\ arrivals' \in Seq(Packet)
    BY <1>1, <1>4 DEF Typed
  <2> QED BY <1>1, <1>2, <2>1, Zenon DEF Typed
<1>8. Control'
  <2>1. rpc' = "put" /\ rpc' # "cleared" /\ rpc' # "fed" BY <1>4
  <2>2. hpc' = "pop" /\ ~overlapped' => real_count' <= Len(pkts')
    BY <1>1, <1>2, <1>3 DEF Control
  <2> QED BY <1>1, <1>2, <1>5, <2>1, <2>2 DEF Control
<1>9. Accounted'
  BY <1>3, <1>6, Zenon DEF Accounted
<1> QED BY <1>6, <1>7, <1>8, <1>9, Zenon DEF SourceInv

\* or puts none.
LEMMA PutsNone ==
  ASSUME SourceInv, arrivals' = arrivals, pending' = pending,
         rpc' = rpc \/ (rpc \notin {"put", "clear", "cleared", "off"} /\ rpc' = "off"),
         UNCHANGED <<recvRest, mpc, pkts, overlapped, lost>>,
         pos' \in Nat, jumbo' \in [ip_id : Nat, buf_off : Nat, buf : Seq(Piece)],
         socks' \in [{"msop", "difop", "imu"} -> Nat],
         events' \in Seq({"msop", "difop", "imu"}), Assembled'
  PROVE  SourceInv'
<1>1. Typed /\ Control BY Zenon DEF SourceInv
<1>2. /\ overlapped' = overlapped /\ real_count' = real_count
      /\ setup' = setup /\ pkts' = pkts /\ batch' = batch /\ lost' = lost
      /\ point_cloud' = point_cloud /\ content' = content /\ queue' = queue /\ free' = free
      /\ msg' = msg /\ published' = published /\ hpc' = hpc /\ ppc' = ppc /\ mpc' = mpc
      /\ cloud_seq' = cloud_seq
  BY Zenon DEF recvRest, pcVars, pubVars
<1>3. overlapped' <=> overlapped
  BY <1>2
<1>4. Typed'
  BY <1>1, <1>2, Zenon DEF Typed
<1>5. Control'
  <2>1. CASE rpc' = rpc
    <3>1. hpc' = "pop" /\ ~overlapped' => rpc' # "cleared" /\ real_count' <= Len(pkts')
      BY <1>1, <1>2, <1>3, <2>1 DEF Control
    <3> QED BY <1>1, <1>2, <2>1, <3>1, Zenon DEF Control
  <2>2. CASE rpc \notin {"put", "clear", "cleared", "off"} /\ rpc' = "off"
    <3>1. pending = <<>>
      BY <1>1, <2>2 DEF Control
    <3>2. rpc' # "cleared" /\ rpc' # "fed"
      BY <2>2
    <3>3. hpc' = "pop" /\ ~overlapped' => real_count' <= Len(pkts')
      BY <1>1, <1>2, <1>3 DEF Control
    <3> QED BY <1>1, <1>2, <2>2, <3>1, <3>2, <3>3 DEF Control
  <2> QED BY <2>1, <2>2, Zenon
<1> QED BY <1>2, <1>3, <1>4, <1>5, Quiet, Zenon

\* A packet that is not of a jumbo capture has no fragments.
LEMMA PlainPacket ==
  ASSUME SourceInv, NEW g, g.kind \in Ports, g.begins \in BOOLEAN,
         PutNext(PacketOf(g, <<>>))
  PROVE  PacketOf(g, <<>>) \in Packet /\ PacketOf(g, <<>>).n = Len(arrivals) + 1 /\ WholeDatagrams'
<1>1. Len(arrivals) \in Nat BY DEF SourceInv, Typed
<1>2. PacketOf(g, <<>>) \in Packet
  BY <1>1 DEF PacketOf, Packet
<1>3. PacketOf(g, <<>>).data = <<>> /\ PacketOf(g, <<>>).n = Len(arrivals) + 1
  BY DEF PacketOf
<1>4. pending' = <<PacketOf(g, <<>>)>>
  BY Zenon DEF PutNext
<1>5. \A p \in Range(pending') : p = PacketOf(g, <<>>)
  BY <1>4 DEF Range
<1>6. WholeDatagrams'
  BY <1>3, <1>5, Zenon DEF WholeDatagrams
<1> QED BY <1>2, <1>3, <1>6

LEMMA RecordTyped ==
  ASSUME SourceInv, setup.input # "pcapJumbo", pos < Len(setup.records)
  PROVE  setup.records[pos + 1] \in Record
<1>1. setup \in Setups /\ pos \in Nat BY DEF SourceInv, Typed
<1>2. setup.records \in Seq(Record)
  BY <1>1, SourceAssumption, Zenon DEF IsSetup
<1> QED BY <1>1, <1>2

LEMMA RecvPcapStep ==
  ASSUME SourceInv, RecvPcap
  PROVE  SourceInv'
<1>1. Typed /\ Assembled BY Zenon DEF SourceInv
<1> DEFINE r == setup.records[pos + 1]
<1>2. /\ rpc = "loop" /\ setup.input = "pcap" /\ pos < Len(setup.records)
      /\ pos' = pos + 1 /\ jumbo' = jumbo /\ socks' = socks /\ events' = events /\ setup' = setup
      /\ UNCHANGED <<recvRest, mpc, pkts, overlapped, lost>>
  BY Zenon DEF RecvPcap, Reads, recvRest
<1>3. r \in Record
  BY <1>2, RecordTyped
<1>4. PutNext(PacketOf(r, <<>>)) \/ UNCHANGED <<rpc, pending, arrivals>>
  BY Zenon DEF RecvPcap
<1>5. /\ pos' \in Nat /\ jumbo' \in [ip_id : Nat, buf_off : Nat, buf : Seq(Piece)]
      /\ socks' \in [{"msop", "difop", "imu"} -> Nat]
      /\ events' \in Seq({"msop", "difop", "imu"})
  BY <1>1, <1>2 DEF Typed
<1>6. Assembled'
  BY <1>1, <1>2, Zenon DEF Assembled
<1>7. CASE PutNext(PacketOf(r, <<>>))
  <2>1. r.kind \in Ports /\ r.begins \in BOOLEAN BY <1>3 DEF Record
  <2> HIDE DEF r
  <2>2. PacketOf(r, <<>>) \in Packet /\ PacketOf(r, <<>>).n = Len(arrivals) + 1 /\ WholeDatagrams'
    BY <1>7, <2>1, PlainPacket, Zenon
  <2>3. rpc \notin {"put", "clear", "cleared", "off"} BY <1>2
  <2> QED BY <1>2, <1>5, <1>6, <1>7, <2>2, <2>3, Puts, Zenon
<1>8. CASE UNCHANGED <<rpc, pending, arrivals>>
  BY <1>2, <1>5, <1>6, <1>8, PutsNone, Zenon
<1> QED BY <1>4, <1>7, <1>8

LEMMA FeedStep ==
  ASSUME SourceInv, Feed
  PROVE  SourceInv'
<1>1. Typed /\ Assembled BY Zenon DEF SourceInv
<1> DEFINE r == setup.records[pos + 1]
<1>2. /\ rpc = "fed" /\ pos < Len(setup.records)
      /\ pos' = pos + 1 /\ jumbo' = jumbo /\ socks' = socks /\ events' = events /\ setup' = setup
      /\ UNCHANGED <<recvRest, mpc, pkts, overlapped, lost>>
  BY Zenon DEF Feed, recvRest
<1>3. r \in Record
  BY <1>2, RecordTyped DEF SourceInv, Control
<1>4. PutNext(PacketOf(r, <<>>))
  BY DEF Feed, ToRsMsg, ToRosPacket
<1>5. /\ pos' \in Nat /\ jumbo' \in [ip_id : Nat, buf_off : Nat, buf : Seq(Piece)]
      /\ socks' \in [{"msop", "difop", "imu"} -> Nat]
      /\ events' \in Seq({"msop", "difop", "imu"})
  BY <1>1, <1>2 DEF Typed
<1>6. Assembled'
  BY <1>1, <1>2, Zenon DEF Assembled
<1>7. r.kind \in Ports /\ r.begins \in BOOLEAN BY <1>3 DEF Record
<1> HIDE DEF r
<1>8. PacketOf(r, <<>>) \in Packet /\ PacketOf(r, <<>>).n = Len(arrivals) + 1 /\ WholeDatagrams'
  BY <1>4, <1>7, PlainPacket, Zenon
<1>9. rpc \notin {"put", "clear", "cleared", "off"} BY <1>2
<1> QED BY <1>2, <1>4, <1>5, <1>6, <1>8, <1>9, Puts, Zenon

LEMMA RecvFromStep ==
  ASSUME SourceInv, RecvFrom
  PROVE  SourceInv'
<1>1. Typed /\ Assembled BY Zenon DEF SourceInv
<1> DEFINE s == Head(events)
<1>2. /\ rpc = "events" /\ events # <<>>
      /\ pos' = pos /\ jumbo' = jumbo /\ setup' = setup
      /\ UNCHANGED <<recvRest, mpc, pkts, overlapped, lost>>
  BY Zenon DEF RecvFrom, recvRest
<1>3. s \in {"msop", "difop", "imu"} /\ Tail(events) \in Seq({"msop", "difop", "imu"})
  BY <1>1, <1>2 DEF Typed
<1>4. \/ rpc' = "off" /\ UNCHANGED <<socks, events, pending, arrivals>>
      \/ /\ socks[s] # 0 /\ socks' = [socks EXCEPT ![s] = @ - 1] /\ events' = Tail(events)
         /\ \/ \E begins \in BOOLEAN : PutNext(PacketOf([kind |-> s, begins |-> begins], <<>>))
            \/ UNCHANGED <<rpc, pending, arrivals>>
  BY Zenon DEF RecvFrom
<1> HIDE DEF s
<1>5. pos' \in Nat /\ jumbo' \in [ip_id : Nat, buf_off : Nat, buf : Seq(Piece)]
  BY <1>1, <1>2 DEF Typed
<1>6. /\ socks' \in [{"msop", "difop", "imu"} -> Nat]
      /\ events' \in Seq({"msop", "difop", "imu"})
  <2>1. socks \in [{"msop", "difop", "imu"} -> Nat] /\ events \in Seq({"msop", "difop", "imu"})
    BY <1>1, Zenon DEF Typed
  <2>2. [socks EXCEPT ![s] = @ - 1] \in [{"msop", "difop", "imu"} -> Nat] \/ socks[s] = 0
    BY <1>3, <2>1
  <2> QED BY <1>3, <1>4, <2>1, <2>2, Zenon
<1>7. Assembled'
  BY <1>1, <1>2, Zenon DEF Assembled
<1>8. rpc \notin {"put", "clear", "cleared", "off"} BY <1>2
<1>9. ASSUME NEW begins \in BOOLEAN, PutNext(PacketOf([kind |-> s, begins |-> begins], <<>>))
      PROVE  SourceInv'
  <2> DEFINE g == [kind |-> s, begins |-> begins]
  <2>1. g.kind \in Ports /\ g.begins \in BOOLEAN /\ PutNext(PacketOf(g, <<>>))
    BY <1>3, <1>9 DEF Ports
  <2> HIDE DEF g
  <2>2. PacketOf(g, <<>>) \in Packet /\ PacketOf(g, <<>>).n = Len(arrivals) + 1 /\ WholeDatagrams'
    BY <2>1, PlainPacket, Zenon
  <2> QED BY <1>2, <1>5, <1>6, <1>7, <1>8, <2>1, <2>2, Puts, Zenon
<1>10. CASE arrivals' = arrivals /\ pending' = pending /\ (rpc' = rpc \/ rpc' = "off")
  BY <1>2, <1>5, <1>6, <1>7, <1>8, <1>10, PutsNone, Zenon
<1> QED BY <1>4, <1>9, <1>10, Zenon

-----------------------------------------------------------------------------
(* Datagrams put together from fragments *)

Assembly == [ip_id : Nat, buf_off : Nat, buf : Seq(Piece)]

LEMMA FragmentData ==
  ASSUME NEW fr \in Fragment
  PROVE  /\ IpData(fr) \in Seq(Piece) /\ Len(IpData(fr)) = fr.len
         /\ \A k \in 1..fr.len : IpData(fr)[k] = [gram |-> fr.gram, at |-> fr.off + k - 1]
<1>1. fr.len \in Nat /\ fr.off \in Nat /\ fr.gram \in Datagram
  BY DEF Fragment
<1>2. \A k \in 1..fr.len : [gram |-> fr.gram, at |-> fr.off + k - 1] \in Piece
  BY <1>1 DEF Piece
<1>3. IpData(fr) = [i \in 1..fr.len |-> [gram |-> fr.gram, at |-> fr.off + i - 1]]
  BY DEF IpData
<1> QED BY <1>1, <1>2, <1>3

\* The next fragment continues what is there.
LEMMA Joined ==
  ASSUME NEW j \in Assembly, Len(j.buf) = j.buf_off, NEW fr \in Fragment, fr.off = j.buf_off
  PROVE  /\ j.buf \o IpData(fr) \in Seq(Piece)
         /\ Len(j.buf \o IpData(fr)) = fr.off + fr.len
         /\ \A k \in 1..fr.off : (j.buf \o IpData(fr))[k] = j.buf[k]
         /\ \A k \in (fr.off + 1)..(fr.off + fr.len) :
              (j.buf \o IpData(fr))[k] = [gram |-> fr.gram, at |-> k - 1]
<1>1. fr.len \in Nat /\ fr.off \in Nat
  BY DEF Fragment
<1>2. j.buf \in Seq(Piece)
  BY DEF Assembly
<1> DEFINE d == IpData(fr)
           b == j.buf
<1>3. /\ d \in Seq(Piece) /\ Len(d) = fr.len
      /\ \A k \in 1..fr.len : d[k] = [gram |-> fr.gram, at |-> fr.off + k - 1]
  BY FragmentData
<1>4. b \in Seq(Piece) /\ Len(b) = fr.off
  BY <1>2
<1> HIDE DEF d, b
<1>5. b \o d \in Seq(Piece) /\ Len(b \o d) = fr.off + fr.len
  <2>1. b \o d \in Seq(Piece) /\ Len(b \o d) = Len(b) + Len(d)
    BY <1>3, <1>4, ConcatProperties, Zenon
  <2> QED BY <1>3, <1>4, <2>1, Zenon
<1>6. \A k \in 1..fr.off : (b \o d)[k] = b[k]
  BY <1>1, <1>3, <1>4
<1>7. ASSUME NEW k \in (fr.off + 1)..(fr.off + fr.len)
      PROVE  (b \o d)[k] = [gram |-> fr.gram, at |-> k - 1]
  <2>1. k - fr.off \in 1..fr.len /\ fr.off + (k - fr.off) - 1 = k - 1
    BY <1>1
  <2>2. (b \o d)[k] = d[k - fr.off]
    BY <1>1, <1>3, <1>4
  <2> QED BY <1>3, <2>1, <2>2
<1> QED BY <1>5, <1>6, <1>7 DEF b, d

\* Without the UDP header the units of a datagram are numbered from one.
LEMMA WholeTail ==
  ASSUME NEW g \in Datagram, NEW buf \in Seq(Piece), Len(buf) = g.len,
         \A k \in 1..Len(buf) : buf[k] = [gram |-> g, at |-> k - 1]
  PROVE  /\ Tail(buf) \in Seq(Piece) /\ Tail(buf) # <<>> /\ Tail(buf)[1].gram = g
         /\ \A i \in DOMAIN Tail(buf) : Tail(buf)[i] = [gram |-> g, at |-> i]
         /\ Len(Tail(buf)) = g.len - 1
<1>1. g.len \in Nat /\ g.len >= 2
  BY DEF Datagram
<1>2. /\ Tail(buf) \in Seq(Piece) /\ Len(Tail(buf)) = g.len - 1
      /\ \A i \in 1..(g.len - 1) : Tail(buf)[i] = buf[i + 1]
  BY <1>1
<1>3. \A i \in 1..(g.len - 1) : Tail(buf)[i] = [gram |-> g, at |-> i]
  <2>1. \A i \in 1..(g.len - 1) : i + 1 \in 1..Len(buf) /\ (i + 1) - 1 = i
    BY <1>1
  <2> QED BY <1>2, <2>1
<1>4. DOMAIN Tail(buf) = 1..(g.len - 1) /\ 1 \in 1..(g.len - 1)
  BY <1>1, <1>2
<1>5. Tail(buf) # <<>>
  BY <1>1, <1>2
<1>6. Tail(buf)[1].gram = g
  <2>1. Tail(buf)[1] = [gram |-> g, at |-> 1]
    BY <1>3, <1>4, Zenon
  <2>2. [gram |-> g, at |-> 1].gram = g
    OBVIOUS
  <2> QED BY <2>1, <2>2, Zenon
<1> QED BY <1>2, <1>3, <1>4, <1>5, <1>6, Zenon

\* A datagram as Jumbo returns it, without its header: all of one, or with units
\* whose id does not tell.
Whole(d) ==
  /\ d \in Seq(Piece) /\ d # <<>>
  /\ (\A i \in DOMAIN d : d[i].gram.id # 0) =>
       /\ \A i \in DOMAIN d : d[i] = [gram |-> d[1].gram, at |-> i]
       /\ Len(d) = d[1].gram.len - 1

Tells(records) ==
  /\ records \in Seq(Fragment)
  /\ \A i \in DOMAIN records : Cut(records[i])
  /\ \A i, j \in DOMAIN records :
       records[i].gram.id = records[j].gram.id /\ records[i].gram.id # 0 =>
         records[i].gram = records[j].gram

LEMMA WholeOfTail ==
  ASSUME NEW g \in Datagram, NEW buf \in Seq(Piece), Len(buf) = g.len,
         \A k \in 1..Len(buf) : buf[k] = [gram |-> g, at |-> k - 1]
  PROVE  Whole(Tail(buf))
<1> DEFINE d == Tail(buf)
<1>1. /\ d \in Seq(Piece) /\ d # <<>> /\ d[1].gram = g
      /\ \A i \in DOMAIN d : d[i] = [gram |-> g, at |-> i]
      /\ Len(d) = g.len - 1
  BY WholeTail
<1> HIDE DEF d
<1>2. Whole(d)
  BY <1>1, Zenon DEF Whole
<1> QED BY <1>2 DEF d

LEMMA BeginWhole ==
  ASSUME NEW records, Tells(records), NEW p \in DOMAIN records,
         NEW j \in Assembly, StartOf(j, records)
  PROVE  LET r == Begin(j, records[p])
         IN r.jumbo \in Assembly /\ StartOf(r.jumbo, records) /\ (r.new => Whole(r.data))
<1> DEFINE fr == records[p]
           r == Begin(j, fr)
<1>1. fr \in Fragment /\ Cut(fr)
  BY DEF Tells
<1>2. /\ IpData(fr) \in Seq(Piece) /\ Len(IpData(fr)) = fr.len
      /\ \A k \in 1..fr.len : IpData(fr)[k] = [gram |-> fr.gram, at |-> fr.off + k - 1]
  BY <1>1, FragmentData
<1>3. /\ fr.gram \in Datagram /\ fr.gram.id \in Nat /\ fr.len \in Nat /\ fr.gram.len \in Nat
      /\ fr.more \in BOOLEAN
  BY <1>1 DEF Fragment, Datagram
<1>4. CASE fr.off # 0
  BY <1>4 DEF Begin, NoPacket
<1>5. CASE fr.off = 0 /\ fr.more
  <2> DEFINE k == [ip_id |-> fr.gram.id, buf_off |-> fr.len, buf |-> IpData(fr)]
  <2>1. r = NoPacket(k)
    BY <1>5 DEF Begin
  <2>2. r.jumbo = k /\ ~r.new
    BY <2>1 DEF NoPacket
  <2>3. k \in Assembly
    BY <1>2, <1>3 DEF Assembly
  <2>4. \A i \in 1..fr.len : IpData(fr)[i] = [gram |-> fr.gram, at |-> i - 1]
    <3>1. \A i \in 1..fr.len : fr.off + i - 1 = i - 1
      BY <1>5
    <3> QED BY <1>2, <3>1
  <2>5. k.buf = IpData(fr) /\ k.buf_off = fr.len /\ k.ip_id = fr.gram.id
    OBVIOUS
  <2> HIDE DEF k
  <2>6. StartOf(k, records)
    BY <1>2, <2>4, <2>5, Zenon DEF StartOf
  <2> QED BY <2>2, <2>3, <2>6, Zenon
<1>6. CASE fr.off = 0 /\ ~fr.more
  <2>1. r = NewPacket(j, IpData(fr))
    BY <1>6 DEF Begin
  <2>2. r.jumbo = j /\ r.data = Tail(IpData(fr))
    BY <2>1 DEF NewPacket
  <2>3. fr.len = fr.gram.len
    BY <1>1, <1>3, <1>6 DEF Cut
  <2>4. \A i \in 1..fr.len : IpData(fr)[i] = [gram |-> fr.gram, at |-> i - 1]
    <3>1. \A i \in 1..fr.len : fr.off + i - 1 = i - 1
      BY <1>6
    <3> QED BY <1>2, <3>1
  <2> DEFINE b == IpData(fr)
             g == fr.gram
  <2>5. /\ g \in Datagram /\ b \in Seq(Piece) /\ Len(b) = g.len
        /\ \A i \in 1..Len(b) : b[i] = [gram |-> g, at |-> i - 1]
    BY <1>2, <1>3, <2>3, <2>4, Zenon
  <2> HIDE DEF b, g
  <2>6. Whole(Tail(b))
    BY <2>5, WholeOfTail, Zenon
  <2> QED BY <2>2, <2>6, Zenon DEF b
<1> QED BY <1>3, <1>4, <1>5, <1>6

LEMMA ContinueWhole ==
  ASSUME NEW records, Tells(records), NEW p \in DOMAIN records,
         NEW j \in Assembly, StartOf(j, records), records[p].gram.id = j.ip_id
  PROVE  LET r == Continue(j, records[p])
         IN r.jumbo \in Assembly /\ StartOf(r.jumbo, records) /\ (r.new => Whole(r.data))
<1> DEFINE fr == records[p]
           r == Continue(j, fr)
           b == j.buf \o IpData(fr)
           k == [j EXCEPT !.buf = @ \o IpData(fr), !.buf_off = @ + fr.len]
<1>1. fr \in Fragment /\ Cut(fr)
  BY DEF Tells
<1>2. /\ fr.gram \in Datagram /\ fr.gram.id \in Nat /\ fr.len \in Nat \ {0} /\ fr.gram.len \in Nat \ {0, 1}
      /\ fr.more \in BOOLEAN /\ fr.off \in Nat
  BY <1>1 DEF Fragment, Datagram
<1>3. /\ j.ip_id \in Nat /\ j.buf_off \in Nat /\ j.buf \in Seq(Piece) /\ Len(j.buf) = j.buf_off
  BY DEF Assembly, StartOf
<1>4. CASE fr.off # j.buf_off
  BY <1>4 DEF Continue, NoPacket
<1>5. ASSUME fr.off = j.buf_off
      PROVE  /\ b \in Seq(Piece) /\ Len(b) = fr.off + fr.len
             /\ \A i \in 1..fr.off : b[i] = j.buf[i]
             /\ \A i \in (fr.off + 1)..(fr.off + fr.len) : b[i] = [gram |-> fr.gram, at |-> i - 1]
  BY <1>1, <1>3, <1>5, Joined
<1>6. ASSUME fr.off = j.buf_off
      PROVE  k \in Assembly /\ k.ip_id = j.ip_id /\ k.buf_off = fr.off + fr.len /\ k.buf = b
  <2>1. \A x \in Seq(Piece), y \in Nat :
          LET l == [j EXCEPT !.buf = x, !.buf_off = y]
          IN l \in Assembly /\ l.ip_id = j.ip_id /\ l.buf_off = y /\ l.buf = x
    BY DEF Assembly
  <2>2. k = [j EXCEPT !.buf = b, !.buf_off = fr.off + fr.len]
    BY <1>6, Zenon
  <2>3. b \in Seq(Piece) /\ fr.off + fr.len \in Nat
    BY <1>2, <1>5, <1>6
  <2> HIDE DEF b, k
  <2> QED BY <2>1, <2>2, <2>3, ZenonT(30)
<1>7. ASSUME fr.off = j.buf_off, j.ip_id # 0
      PROVE  \A i \in 1..(fr.off + fr.len) : b[i] = [gram |-> fr.gram, at |-> i - 1]
  <2>1. PICK q \in DOMAIN records :
          /\ records[q].gram.id = j.ip_id
          /\ \A i \in 1..j.buf_off : j.buf[i] = [gram |-> records[q].gram, at |-> i - 1]
    BY <1>7, Zenon DEF StartOf
  <2>2. records[q].gram = fr.gram
    BY <1>7, <2>1, Zenon DEF Tells
  <2>3. \A i \in 1..fr.off : b[i] = [gram |-> fr.gram, at |-> i - 1]
    BY <1>5, <1>7, <2>1, <2>2, Zenon
  <2>4. \A i \in 1..(fr.off + fr.len) : i \in 1..fr.off \/ i \in (fr.off + 1)..(fr.off + fr.len)
    BY <1>2
  <2> QED BY <1>5, <1>7, <2>3, <2>4, Zenon
<1>8. CASE fr.off = j.buf_off /\ fr.more
  <2>1. r = NoPacket(k)
    BY <1>8 DEF Continue
  <2>2. r.jumbo = k /\ ~r.new
    BY <2>1 DEF NoPacket
  <2>3. k \in Assembly /\ k.ip_id = j.ip_id /\ k.buf_off = fr.off + fr.len /\ k.buf = b
    BY <1>6, <1>8
  <2> HIDE DEF k, b
  <2>4. StartOf(k, records)
    BY <1>5, <1>7, <1>8, <2>3, Zenon DEF StartOf
  <2> QED BY <2>2, <2>3, <2>4, Zenon
<1>9. CASE fr.off = j.buf_off /\ ~fr.more
  <2> DEFINE e == [k EXCEPT !.ip_id = 0]
  <2>1. r = NewPacket(e, k.buf)
    BY <1>9 DEF Continue
  <2>2. r.jumbo = e /\ r.data = Tail(b)
    BY <1>6, <1>9, <2>1 DEF NewPacket
  <2>3. e \in Assembly /\ e.ip_id = 0 /\ e.buf_off = fr.off + fr.len /\ e.buf = b
    <3>1. k \in Assembly /\ k.buf_off = fr.off + fr.len /\ k.buf = b
      BY <1>6, <1>9
    <3> HIDE DEF b, k
    <3> QED BY <3>1 DEF Assembly
  <2>4. StartOf(e, records)
    <3> HIDE DEF e, b
    <3> QED BY <1>5, <1>9, <2>3, Zenon DEF StartOf
  <2>5. fr.off + fr.len = fr.gram.len /\ Len(b) = fr.gram.len
    <3>1. fr.off + fr.len = fr.gram.len
      BY <1>1, <1>2, <1>9 DEF Cut
    <3> QED BY <1>5, <1>9, <3>1, Zenon
  <2>6. CASE j.ip_id # 0
    <3>1. \A i \in 1..Len(b) : b[i] = [gram |-> fr.gram, at |-> i - 1]
      BY <1>5, <1>7, <1>9, <2>6, Zenon
    <3> DEFINE g == fr.gram
    <3>2. g \in Datagram /\ b \in Seq(Piece) /\ Len(b) = g.len
      BY <1>2, <1>5, <1>9, <2>5, Zenon
    <3> HIDE DEF b, g
    <3>3. Whole(Tail(b))
      BY <3>1, <3>2, WholeOfTail, Zenon DEF g
    <3> QED BY <2>2, <2>3, <2>4, <3>3, Zenon
  <2>7. CASE j.ip_id = 0
    <3> HIDE DEF b
    <3>1. b \in Seq(Piece) /\ Len(b) \in Nat /\ Len(b) >= 2
      BY <1>2, <1>5, <1>9, <2>5
    <3>2. b[Len(b)] = [gram |-> fr.gram, at |-> Len(b) - 1]
      <4>1. Len(b) \in (fr.off + 1)..(fr.off + fr.len)
        BY <1>2, <2>5, <3>1
      <4> QED BY <1>5, <1>9, <4>1, Zenon
    <3>3. /\ Tail(b) \in Seq(Piece) /\ Tail(b) # <<>>
          /\ Len(b) - 1 \in DOMAIN Tail(b) /\ Tail(b)[Len(b) - 1] = b[Len(b)]
      <4>1. Tail(b) \in Seq(Piece) /\ Len(Tail(b)) = Len(b) - 1
        BY <3>1
      <4>2. DOMAIN Tail(b) = 1..(Len(b) - 1)
        BY <4>1
      <4>3. \A i \in 1..(Len(b) - 1) : Tail(b)[i] = b[i + 1]
        BY <3>1
      <4>4. Len(b) - 1 \in 1..(Len(b) - 1) /\ (Len(b) - 1) + 1 = Len(b)
        BY <3>1
      <4>5. Tail(b) # <<>>
        BY <3>1, <4>1
      <4> QED BY <4>1, <4>2, <4>3, <4>4, <4>5
    <3>4. Tail(b)[Len(b) - 1].gram.id = 0
      <4>1. b[Len(b)].gram = fr.gram
        BY <3>2
      <4> QED BY <2>7, <3>3, <4>1, Zenon
    <3>5. Whole(Tail(b))
      BY <3>3, <3>4, Zenon DEF Whole
    <3> QED BY <2>2, <2>3, <2>4, <3>5, Zenon
  <2> QED BY <2>6, <2>7
<1> QED BY <1>2, <1>4, <1>8, <1>9

LEMMA FragmentWhole ==
  ASSUME NEW records, Tells(records), NEW p \in DOMAIN records,
         NEW j \in Assembly, StartOf(j, records)
  PROVE  LET r == NewFragment(j, records[p])
         IN r.jumbo \in Assembly /\ StartOf(r.jumbo, records) /\ (r.new => Whole(r.data))
<1>1. CASE ~records[p].gram.udp
  BY <1>1 DEF NewFragment, NoPacket
<1>2. CASE records[p].gram.udp /\ records[p].gram.id = j.ip_id
  BY <1>2, ContinueWhole DEF NewFragment
<1>3. CASE records[p].gram.udp /\ records[p].gram.id # j.ip_id
  BY <1>3, BeginWhole DEF NewFragment
<1> QED BY <1>1, <1>2, <1>3

LEMMA RecvPcapJumboStep ==
  ASSUME SourceInv, RecvPcapJumbo
  PROVE  SourceInv'
<1>1. Typed /\ Assembled BY Zenon DEF SourceInv
<1> DEFINE r == NewFragment(jumbo, setup.records[pos + 1])
           p == PacketOf(r.data[1].gram, r.data)
<1>2. /\ rpc = "loop" /\ setup.input = "pcapJumbo" /\ pos < Len(setup.records)
      /\ pos' = pos + 1 /\ socks' = socks /\ events' = events /\ setup' = setup
      /\ UNCHANGED <<recvRest, mpc, pkts, overlapped, lost>>
  BY Zenon DEF RecvPcapJumbo, Reads, recvRest
<1>3. jumbo' = r.jumbo /\ ((r.new /\ PutNext(p)) \/ UNCHANGED <<rpc, pending, arrivals>>)
  BY Zenon DEF RecvPcapJumbo
<1>4. Tells(setup.records)
  <2>1. IsSetup(setup) BY <1>1, SourceAssumption, Zenon DEF Typed
  <2> QED BY <1>2, <2>1, Zenon DEF IsSetup, Tells
<1>5. pos + 1 \in DOMAIN setup.records
  <2>1. pos \in Nat /\ setup.records \in Seq(Fragment) BY <1>1, <1>4 DEF Typed, Tells
  <2> QED BY <1>2, <2>1
<1>6. jumbo \in Assembly /\ StartOf(jumbo, setup.records)
  BY <1>1, Zenon DEF Typed, Assembly, Assembled
<1>7. r.jumbo \in Assembly /\ StartOf(r.jumbo, setup.records) /\ (r.new => Whole(r.data))
  BY <1>4, <1>5, <1>6, FragmentWhole
<1> HIDE DEF r
<1>8. /\ pos' \in Nat /\ jumbo' \in [ip_id : Nat, buf_off : Nat, buf : Seq(Piece)]
      /\ socks' \in [{"msop", "difop", "imu"} -> Nat]
      /\ events' \in Seq({"msop", "difop", "imu"})
  <2>1. pos' \in Nat BY <1>1, <1>2 DEF Typed
  <2> QED BY <1>1, <1>2, <1>3, <1>7, <2>1, Zenon DEF Typed, Assembly
<1>9. Assembled'
  BY <1>2, <1>3, <1>7, Zenon DEF Assembled
<1>10. CASE r.new /\ PutNext(p)
  <2> DEFINE d == r.data
             g == r.data[1].gram
  <2>1. Whole(d) BY <1>7, <1>10
  <2>2. d \in Seq(Piece) /\ g \in Datagram
    <3>1. d \in Seq(Piece) /\ d # <<>> BY <2>1 DEF Whole
    <3> HIDE DEF d
    <3>2. d[1] \in Piece BY <3>1
    <3>3. d[1].gram \in Datagram BY <3>2 DEF Piece
    <3> QED BY <3>1, <3>3 DEF d
  <2>3. Len(arrivals) \in Nat BY <1>1 DEF Typed
  <2>4. g.kind \in Ports /\ g.begins \in BOOLEAN
    BY <2>2 DEF Datagram
  <2> HIDE DEF d, g
  <2>5. p = [n |-> Len(arrivals) + 1, kind |-> g.kind, begins |-> g.begins, data |-> d]
    BY Zenon DEF PacketOf, d, g
  <2>6. p \in Packet /\ p.n = Len(arrivals) + 1 /\ p.data = d
    BY <2>2, <2>3, <2>4, <2>5 DEF Packet
  <2> HIDE DEF p
  <2>7. WholeDatagrams'
    <3>1. pending' = <<p>> BY <1>10, Zenon DEF PutNext
    <3>2. \A q \in Range(pending') : q = p BY <3>1 DEF Range
    <3> QED BY <2>1, <2>6, <3>2, Zenon DEF WholeDatagrams, Whole
  <2>8. rpc \notin {"put", "clear", "cleared", "off"} BY <1>2
  <2> QED BY <1>2, <1>8, <1>9, <1>10, <2>6, <2>7, <2>8, Puts, Zenon
<1>11. CASE UNCHANGED <<rpc, pending, arrivals>>
  BY <1>2, <1>8, <1>9, <1>11, PutsNone, Zenon
<1> QED BY <1>3, <1>10, <1>11, Zenon

-----------------------------------------------------------------------------
(* The queue of packets *)

LEMMA ConcatElements ==
  ASSUME NEW T, NEW s \in Seq(T), NEW t \in Seq(T)
  PROVE  /\ \A i \in DOMAIN (s \o t) :
              \/ i \in DOMAIN s /\ (s \o t)[i] = s[i]
              \/ i - Len(s) \in DOMAIN t /\ i = Len(s) + (i - Len(s)) /\ (s \o t)[i] = t[i - Len(s)]
         /\ \A i \in DOMAIN s : i \in DOMAIN (s \o t) /\ (s \o t)[i] = s[i]
         /\ \A i \in DOMAIN t : Len(s) + i \in DOMAIN (s \o t) /\ (s \o t)[Len(s) + i] = t[i]
  OBVIOUS

LEMMA ConcatKnown ==
  ASSUME NEW s \in Seq(Packet), NEW t \in Seq(Packet), Known(s), Known(t), Once(s), Once(t),
         \A n \in Nums(t) : n \notin Nums(s)
  PROVE  /\ Known(s \o t) /\ Once(s \o t)
         /\ \A n : n \in Nums(s \o t) <=> n \in Nums(s) \/ n \in Nums(t)
<1> DEFINE u == s \o t
<1>1. /\ \A i \in DOMAIN u :
           \/ i \in DOMAIN s /\ u[i] = s[i]
           \/ i - Len(s) \in DOMAIN t /\ i = Len(s) + (i - Len(s)) /\ u[i] = t[i - Len(s)]
      /\ \A i \in DOMAIN s : i \in DOMAIN u /\ u[i] = s[i]
      /\ \A i \in DOMAIN t : Len(s) + i \in DOMAIN u /\ u[Len(s) + i] = t[i]
  BY ConcatElements
<1> HIDE DEF u
<1>2. Known(u)
  BY <1>1 DEF Known
<1>3. \A n : n \in Nums(u) <=> n \in Nums(s) \/ n \in Nums(t)
  BY <1>1 DEF Nums
<1>4. Once(u)
  <2>1. SUFFICES ASSUME NEW i \in DOMAIN u, NEW j \in DOMAIN u, u[i].n = u[j].n PROVE i = j
    BY DEF Once
  <2>2. \A k \in DOMAIN s, l \in DOMAIN t : s[k].n # t[l].n
    BY DEF Nums
  <2>3. CASE i \in DOMAIN s /\ u[i] = s[i]
    BY <1>1, <2>1, <2>2, <2>3 DEF Once
  <2>4. CASE i - Len(s) \in DOMAIN t /\ i = Len(s) + (i - Len(s)) /\ u[i] = t[i - Len(s)]
    <3>1. j - Len(s) \in DOMAIN t /\ j = Len(s) + (j - Len(s)) /\ u[j] = t[j - Len(s)]
      BY <1>1, <2>1, <2>2, <2>4
    <3>2. i - Len(s) = j - Len(s)
      BY <2>1, <2>4, <3>1 DEF Once
    <3> QED BY <2>4, <3>1, <3>2, Zenon
  <2> QED BY <1>1, <2>3, <2>4
<1> QED BY <1>2, <1>3, <1>4 DEF u

\* The packet is put in the queue, unless it is refused.
LEMMA RecvPutStep ==
  ASSUME SourceInv, RecvPut \/ RecvClearTail
  PROVE  SourceInv'
<1>1. /\ Typed /\ Control /\ Assembled /\ WholeDatagrams
      /\ (~overlapped => Counted /\ Points)
  BY Zenon DEF SourceInv, Accounted
<1>2. /\ setup' = setup /\ batch' = batch /\ arrivals' = arrivals /\ jumbo' = jumbo /\ pos' = pos
      /\ point_cloud' = point_cloud /\ content' = content /\ queue' = queue /\ free' = free
      /\ msg' = msg /\ published' = published /\ hpc' = hpc /\ ppc' = ppc /\ mpc' = mpc
      /\ cloud_seq' = cloud_seq /\ socks' = socks /\ events' = events
      /\ rpc \in {"put", "cleared"} /\ pending' = <<>> /\ rpc' = AfterPut
      /\ overlapped' = overlapped /\ real_count' = real_count
  BY DEF RecvPut, RecvClearTail, putRest, recvRest, pcVars, pubVars
<1>3. \/ pkts' = pkts \o pending /\ lost' = lost /\ rpc = "put"
      \/ pkts' = <<>> /\ lost' = lost \cup {p.n : p \in Range(pkts \o pending)} /\ rpc = "cleared"
      \/ overlapped /\ pkts' = pkts
  BY Zenon DEF RecvPut, RecvClearTail
<1>4. rpc' \notin {"put", "clear", "cleared"} /\ (rpc' = "fed" => setup.input = "raw")
  BY <1>2 DEF AfterPut
<1>5. Held' = Held /\ Pub' = Pub /\ Owned' /\ Sized' /\ \A c \in Clouds : In(c)' = In(c)
  BY <1>2, CloudsStay, Zenon
<1>6. pkts \in Seq(Packet) /\ pending \in Seq(Packet)
  BY <1>1, Zenon DEF Typed
<1>7. ASSUME ~overlapped PROVE \A n \in Nums(pending) : n \notin Nums(pkts)
  BY <1>1, <1>7, Zenon DEF Points, Placed, Apart
<1> DEFINE u == pkts \o pending
<1>8. ASSUME ~overlapped
      PROVE  Known(u) /\ Once(u) /\ \A n : n \in Nums(u) <=> n \in Nums(pkts) \/ n \in Nums(pending)
  BY <1>1, <1>6, <1>7, <1>8, ConcatKnown, Zenon DEF Counted
<1>9. u \in Seq(Packet)
  BY <1>6, ConcatProperties, Zenon
<1> HIDE DEF u
<1>10. Nums(<<>>) = {} /\ Known(<<>>) /\ Once(<<>>)
  BY DEF Nums, Known, Once
<1>11. {p.n : p \in Range(u)} = Nums(u)
  BY DEF Nums, Range
<1>12. Typed'
  <2>1. pkts' \in Seq(Packet) /\ pending' \in Seq(Packet)
    <3>1. <<>> \in Seq(Packet) OBVIOUS
    <3> QED BY <1>2, <1>3, <1>6, <1>9, <3>1, Zenon DEF u
  <2> QED BY <1>1, <1>2, <2>1, Zenon DEF Typed
<1>13. Control'
  <2>1. mpc \notin {"main", "init", "created", "ready", "starting"}
    BY <1>1, <1>2 DEF Control
  <2>2. hpc = "pop" /\ ~overlapped => real_count <= Len(pkts')
    <3>1. SUFFICES ASSUME hpc = "pop", ~overlapped PROVE real_count <= Len(pkts')
      OBVIOUS
    <3>2. pkts' = u /\ real_count <= Len(pkts) /\ real_count \in Nat
      BY <1>1, <1>3, <3>1, Zenon DEF Control, Typed, u
    <3>3. Len(u) = Len(pkts) + Len(pending) /\ Len(pkts) \in Nat /\ Len(pending) \in Nat
      BY <1>6 DEF u
    <3> QED BY <3>2, <3>3
  <2> QED BY <1>1, <1>2, <1>4, <2>1, <2>2, Zenon DEF Control
<1>14. ASSUME ~overlapped PROVE Counted'
  <2>1. \A i \in DOMAIN arrivals' : arrivals'[i].n = i
    BY <1>1, <1>2, <1>14, Zenon DEF Counted
  <2>2. Known(pkts') /\ Once(pkts')
    BY <1>3, <1>8, <1>10, <1>14, Zenon DEF u
  <2>3. Known(pkts)' /\ Once(pkts)'
    BY <1>2, <2>2, Zenon DEF Known, Once
  <2>4. Known(pending)' /\ Once(pending)' /\ Known(batch)' /\ Once(batch)'
    BY <1>1, <1>2, <1>10, <1>14, ZenonT(40) DEF Counted, Known, Once
  <2>5. lost' \subseteq DOMAIN arrivals'
    <3>1. Nums(u) \subseteq DOMAIN arrivals
      BY <1>8, <1>14 DEF Known, Nums
    <3> QED BY <1>1, <1>14, <1>2, <1>3, <1>11, <3>1, Zenon DEF Counted, u
  <2>6. Pub' \subseteq DOMAIN arrivals' /\ \A c \in Clouds : In(c)' \subseteq DOMAIN arrivals'
    BY <1>1, <1>2, <1>5, <1>14, Zenon DEF Counted
  <2> QED BY <2>1, <2>3, <2>4, <2>5, <2>6, Zenon DEF Counted
<1>15. ASSUME ~overlapped PROVE Points'
  <2>1. Placed(MsopIn(arrivals), Nums(pending), Nums(pkts), Nums(batch), lost, Pub, Held)
    BY <1>1, <1>15, Zenon DEF Points
  <2>2. CASE pkts' = u /\ lost' = lost
    <3>1. Placed(MsopIn(arrivals), {}, Nums(u), Nums(batch), lost, Pub, Held)
      BY <1>8, <1>15, <2>1, PlacedPut
    <3> QED BY <1>2, <1>5, <1>10, <2>2, <3>1, Zenon DEF Points
  <2>3. CASE pkts' = <<>> /\ lost' = lost \cup Nums(u)
    <3>1. Placed(MsopIn(arrivals), {}, {}, Nums(batch), lost', Pub, Held)
      BY <1>8, <1>15, <2>1, <2>3, PlacedOver
    <3> QED BY <1>2, <1>5, <1>10, <2>3, <3>1, Zenon DEF Points
  <2> QED BY <1>3, <1>11, <1>15, <2>2, <2>3, Zenon DEF u
<1>16. Assembled'
  BY <1>1, <1>2, Zenon DEF Assembled
<1>17. WholeDatagrams'
  <2>1. Range(pending') = {} BY <1>2 DEF Range
  <2> QED BY <2>1, Zenon DEF WholeDatagrams
<1> QED BY <1>2, <1>5, <1>12, <1>13, <1>14, <1>15, <1>16, <1>17, Zenon DEF SourceInv, Accounted

LEMMA HandleBatchStep ==
  ASSUME SourceInv, HandleBatch
  PROVE  SourceInv'
<1>1. /\ Typed /\ Control /\ Assembled /\ WholeDatagrams
      /\ (~overlapped => Counted /\ Points)
  BY Zenon DEF SourceInv, Accounted
<1> DEFINE n == real_count
           s == SubSeq(pkts, 1, n)
           t == SubSeq(pkts, n + 1, Len(pkts))
<1>2. /\ overlapped' = overlapped /\ real_count' = real_count
      /\ setup' = setup /\ arrivals' = arrivals /\ jumbo' = jumbo /\ pos' = pos /\ pending' = pending
      /\ point_cloud' = point_cloud /\ content' = content /\ queue' = queue /\ free' = free
      /\ msg' = msg /\ published' = published /\ ppc' = ppc /\ mpc' = mpc /\ rpc' = rpc
      /\ cloud_seq' = cloud_seq /\ socks' = socks /\ events' = events /\ lost' = lost
      /\ hpc = "pop" /\ ~overlapped /\ hpc' = "decode"
  BY Zenon DEF HandleBatch, handleRest, inVars, pubVars
<1>3. batch' = s /\ pkts' = t
  BY Zenon DEF HandleBatch
<1>4. Held' = Held /\ Pub' = Pub /\ Owned' /\ Sized' /\ \A c \in Clouds : In(c)' = In(c)
  <2>1. hpc' = "split" <=> hpc = "split" BY <1>2
  <2> QED BY <1>2, <2>1, CloudsStay, Zenon
<1>5. pkts \in Seq(Packet) /\ n \in Nat /\ n <= Len(pkts)
  BY <1>1, <1>2, Zenon DEF Typed, Control
<1> HIDE DEF n
<1>6. /\ s \in Seq(Packet) /\ DOMAIN s = 1..n /\ \A i \in 1..n : s[i] = pkts[i]
      /\ t \in Seq(Packet) /\ DOMAIN t = 1..(Len(pkts) - n)
      /\ \A i \in 1..(Len(pkts) - n) : t[i] = pkts[n + i]
  BY <1>5, SubSeqProperties
<1>7. DOMAIN pkts = 1..Len(pkts) /\ Len(pkts) \in Nat
  BY <1>5
<1> HIDE DEF s, t
<1>8. Counted /\ Points BY <1>1, <1>2, Zenon
<1>9. /\ Known(s) /\ Known(t) /\ Once(s) /\ Once(t)
  <2>1. Known(pkts) /\ Once(pkts) BY <1>8, Zenon DEF Counted
  <2>2. Known(s) BY <1>5, <1>6, <1>7, <2>1 DEF Known
  <2>3. Known(t)
    <3>1. \A i \in DOMAIN t : n + i \in DOMAIN pkts /\ t[i] = pkts[n + i]
      BY <1>5, <1>6, <1>7
    <3> QED BY <2>1, <3>1 DEF Known
  <2>4. Once(s) BY <1>5, <1>6, <1>7, <2>1 DEF Once
  <2>5. Once(t)
    <3>1. SUFFICES ASSUME NEW i \in DOMAIN t, NEW j \in DOMAIN t, t[i].n = t[j].n PROVE i = j
      BY DEF Once
    <3>2. n + i \in DOMAIN pkts /\ n + j \in DOMAIN pkts /\ pkts[n + i].n = pkts[n + j].n
      BY <1>5, <1>6, <1>7, <3>1
    <3>3. n + i = n + j BY <2>1, <3>2 DEF Once
    <3> QED BY <1>5, <1>6, <3>3
  <2> QED BY <2>2, <2>3, <2>4, <2>5
<1>10. \A x : x \in Nums(pkts) <=> x \in Nums(t) \/ x \in Nums(s)
  <2>1. \A i \in DOMAIN pkts : i \in DOMAIN s \/ (i - n \in DOMAIN t /\ n + (i - n) = i)
    BY <1>5, <1>6, <1>7
  <2>2. \A i \in DOMAIN s : i \in DOMAIN pkts
    BY <1>5, <1>6, <1>7
  <2>3. \A i \in DOMAIN t : n + i \in DOMAIN pkts
    BY <1>5, <1>6, <1>7
  <2>4. \A x \in Nums(pkts) : x \in Nums(t) \/ x \in Nums(s)
    BY <1>6, <2>1 DEF Nums
  <2>5. \A x \in Nums(s) : x \in Nums(pkts)
    BY <1>6, <2>2 DEF Nums
  <2>6. \A x \in Nums(t) : x \in Nums(pkts)
    BY <1>6, <2>3 DEF Nums
  <2> QED BY <2>4, <2>5, <2>6
<1>11. \A x \in Nums(t) : x \notin Nums(s)
  <2>1. SUFFICES ASSUME NEW i \in DOMAIN t, NEW j \in DOMAIN s, t[i].n = s[j].n PROVE FALSE
    BY DEF Nums
  <2>2. n + i \in DOMAIN pkts /\ j \in DOMAIN pkts /\ pkts[n + i].n = pkts[j].n
    BY <1>5, <1>6, <1>7, <2>1
  <2>3. n + i = j BY <1>8, <2>2 DEF Counted, Once
  <2> QED BY <1>5, <1>6, <2>3
<1>12. Typed'
  BY <1>1, <1>2, <1>3, <1>6, Zenon DEF Typed
<1>13. Control'
  <2>1. mpc \notin {"main", "init", "created", "ready"} /\ point_cloud # NoCloud
    BY <1>1, <1>2 DEF Control
  <2> QED BY <1>1, <1>2, <2>1, Zenon DEF Control
<1>14. Counted'
  BY <1>2, <1>3, <1>4, <1>8, <1>9, ZenonT(40) DEF Counted, Known, Once
<1>15. Points'
  <2>1. Nums(batch) = {}
    <3>1. batch = <<>> BY <1>1, <1>2 DEF Control
    <3> QED BY <3>1 DEF Nums
  <2>2. Placed(MsopIn(arrivals), Nums(pending), Nums(pkts), {}, lost, Pub, Held)
    BY <1>8, <2>1, Zenon DEF Points
  <2>3. Placed(MsopIn(arrivals), Nums(pending), Nums(t), Nums(s), lost, Pub, Held)
    BY <1>10, <1>11, <2>2, PlacedTaken
  <2> QED BY <1>2, <1>3, <1>4, <2>3, Zenon DEF Points
<1>16. Assembled' /\ WholeDatagrams'
  BY <1>1, <1>2, Zenon DEF Assembled, WholeDatagrams
<1> QED BY <1>2, <1>4, <1>12, <1>13, <1>14, <1>15, <1>16, Zenon DEF SourceInv, Accounted

-----------------------------------------------------------------------------
(* The handling thread *)

\* The slots of a queue that was cleared meanwhile are packets too, or null.
LEMMA HandleStraysStep ==
  ASSUME SourceInv, HandleStrays
  PROVE  SourceInv'
<1>1. Typed /\ Control /\ Owned /\ Sized /\ Assembled /\ WholeDatagrams
  BY Zenon DEF SourceInv
<1>2. /\ overlapped' = overlapped /\ overlapped /\ real_count' = real_count
      /\ setup' = setup /\ arrivals' = arrivals /\ jumbo' = jumbo /\ pos' = pos /\ pending' = pending
      /\ point_cloud' = point_cloud /\ content' = content /\ queue' = queue /\ free' = free
      /\ msg' = msg /\ published' = published /\ ppc' = ppc /\ mpc' = mpc /\ rpc' = rpc
      /\ cloud_seq' = cloud_seq /\ socks' = socks /\ events' = events /\ lost' = lost /\ pkts' = pkts
      /\ hpc \in {"wait", "pop"} /\ hpc' = "decode"
  BY Zenon DEF HandleStrays, handleRest, inVars, pubVars
<1>3. batch' \in Seq(Packet)
  <2>1. PICK n \in 0..Batch : batch' \in [1..n -> Stray]
    BY Zenon DEF HandleStrays
  <2>2. Stray \subseteq Packet
    <3>1. \A p \in Stray : p.n \in Nat /\ p.data = <<>> /\ <<>> \in Seq(Piece)
      BY DEF Stray
    <3> QED BY <3>1 DEF Stray, Packet
  <2>3. n \in Nat BY SourceAssumption
  <2>4. batch' \in [1..n -> Packet] BY <2>1, <2>2
  <2> QED BY <2>3, <2>4
<1>4. Held' = Held /\ Pub' = Pub /\ Owned' /\ Sized' /\ \A c \in Clouds : In(c)' = In(c)
  <2>1. hpc' = "split" <=> hpc = "split" BY <1>2
  <2> QED BY <1>2, <2>1, CloudsStay, Zenon
<1>5. Typed'
  BY <1>1, <1>2, <1>3, Zenon DEF Typed
<1>6. Control'
  <2>1. mpc \notin {"main", "init", "created", "ready"} /\ point_cloud # NoCloud
    BY <1>1, <1>2 DEF Control
  <2> QED BY <1>1, <1>2, <2>1, Zenon DEF Control
<1>7. Assembled' /\ WholeDatagrams'
  BY <1>1, <1>2, Zenon DEF Assembled, WholeDatagrams
<1> QED BY <1>2, <1>4, <1>5, <1>6, <1>7, Zenon DEF SourceInv, Accounted

LEMMA Header ==
  ASSUME NEW c \in Cloud, NEW seq \in Nat
  PROVE  LET d == SetPointCloudHeader(c, seq)
         IN /\ d \in Cloud /\ d.points = c.points
            /\ ~setup.dense =>
                 /\ d.height = Height
                 /\ \A w \in Nat : Len(c.points) = w * Height => Len(d.points) = d.width * Height
<1> DEFINE h == IF setup.dense THEN 1 ELSE Height
           v == Len(c.points) \div h
           d == [c EXCEPT !.seq = seq, !.height = h, !.width = v]
<1>1. h \in Nat \ {0} /\ Height \in Nat \ {0}
  BY SourceAssumption
<1>2. Len(c.points) \in Nat
  BY DEF Cloud
<1>3. v \in Nat
  <2>1. \A n \in Nat, m \in Nat \ {0} : n \div m \in Nat
    BY SMTT(20)
  <2> HIDE DEF h
  <2> QED BY <1>1, <1>2, <2>1
<1>4. ~setup.dense => \A w \in Nat : Len(c.points) = w * Height => v = w
  <2>1. \A m \in Nat \ {0} : \A w \in Nat : (w * m) \div m = w
    BY SMTT(20)
  <2> QED BY <1>1, <2>1, Zenon
<1>5. SetPointCloudHeader(c, seq) = d
  BY Zenon DEF SetPointCloudHeader
<1> HIDE DEF h, v
<1>6. d \in Cloud /\ d.points = c.points /\ d.height = h /\ d.width = v
  BY <1>1, <1>3 DEF Cloud
<1> HIDE DEF d
<1>7. ~setup.dense => h = Height
  BY DEF h
<1> QED BY <1>4, <1>5, <1>6, <1>7, Zenon

LEMMA HandleSplitStep ==
  ASSUME SourceInv, HandleSplit
  PROVE  SourceInv'
<1>1. /\ Typed /\ Control /\ Owned /\ Sized /\ Assembled /\ WholeDatagrams
      /\ (~overlapped => Counted /\ Points)
  BY Zenon DEF SourceInv, Accounted
<1>2. /\ overlapped' = overlapped /\ real_count' = real_count
      /\ setup' = setup /\ arrivals' = arrivals /\ jumbo' = jumbo /\ pos' = pos /\ pending' = pending
      /\ point_cloud' = point_cloud /\ free' = free /\ pkts' = pkts /\ batch' = batch
      /\ msg' = msg /\ published' = published /\ ppc' = ppc /\ mpc' = mpc /\ rpc' = rpc
      /\ socks' = socks /\ events' = events /\ hpc = "decode" /\ hpc' = "split"
      /\ cloud_seq' = cloud_seq + 1
  BY Zenon DEF HandleSplit, handleRest, inVars, pubVars
<1> DEFINE pc == point_cloud
           d == SetPointCloudHeader(content[pc], cloud_seq)
<1>3. content' = [content EXCEPT ![pc] = d]
  BY Zenon DEF HandleSplit
<1>4. \/ Len(queue) < CloudCap /\ queue' = Append(queue, pc) /\ lost' = lost
      \/ lost' = lost \cup In(pc) /\ queue' = queue
  BY Zenon DEF HandleSplit
<1>5. pc \in Clouds /\ pc # NoCloud
  BY <1>1, <1>2, Zenon DEF Typed, Control
<1>6. content \in [Clouds -> Cloud] /\ cloud_seq \in Nat
  BY <1>1, Zenon DEF Typed
<1>7. /\ d \in Cloud /\ d.points = content[pc].points
      /\ ~setup.dense =>
           /\ d.height = Height
           /\ \A w \in Nat : Len(content[pc].points) = w * Height => Len(d.points) = d.width * Height
  BY <1>5, <1>6, Header
<1> HIDE DEF d
<1>8. /\ content' \in [Clouds -> Cloud] /\ content'[pc] = d
      /\ \A c \in Clouds : c # pc => content'[c] = content[c]
  BY <1>3, <1>5, <1>6, <1>7
<1>9. \A c \in Clouds : content'[c].points = content[c].points
  BY <1>7, <1>8, Zenon
<1>10. (\A c \in Clouds : In(c)' = In(c)) /\ Pub' = Pub
  BY <1>2, <1>9, Zenon DEF In, Pub
<1>11. queue \in Seq(Clouds)
  BY <1>1, Zenon DEF Typed
<1>12. /\ DOMAIN queue = 1..Len(queue) /\ Len(queue) \in Nat
       /\ \A i \in DOMAIN queue : queue[i] \in Clouds /\ queue[i] # pc
       /\ (msg # NoCloud => msg # pc)
  BY <1>1, <1>2, <1>11 DEF Owned
<1>13. ASSUME queue' = Append(queue, pc)
       PROVE  /\ DOMAIN queue' = 1..(Len(queue) + 1) /\ queue'[Len(queue) + 1] = pc
              /\ \A i \in DOMAIN queue : i \in DOMAIN queue' /\ queue'[i] = queue[i]
              /\ \A i \in DOMAIN queue' : i \in DOMAIN queue \/ i = Len(queue) + 1
              /\ Len(queue') = Len(queue) + 1 /\ queue' \in Seq(Clouds)
  BY <1>5, <1>11, <1>13
<1>14. Filled = {pc} /\ Filled' = {} /\ Sent' = Sent /\ (Sent = {} \/ (msg # NoCloud /\ Sent = {msg}))
  BY <1>1, <1>2, <1>5 DEF Filled, Sent, Control
<1>15. pc \notin Live \ Filled /\ pc \in Live
  BY <1>14 DEF Live
<1>16. /\ queue' = Append(queue, pc) => Live' = Live
       /\ queue' = queue => Live' = Live \ {pc}
  <2>1. ASSUME queue' = Append(queue, pc) PROVE Live' = Live
    <3>1. {queue'[i] : i \in DOMAIN queue'} = {queue[i] : i \in DOMAIN queue} \cup {pc}
      BY <1>12, <1>13, <2>1
    <3> QED BY <1>14, <3>1 DEF Live
  <2>2. ASSUME queue' = queue PROVE Live' = Live \ {pc}
    <3>1. pc \notin {queue[i] : i \in DOMAIN queue} /\ pc \notin Sent
      BY <1>12, <1>14
    <3>2. Live' = {queue[i] : i \in DOMAIN queue} \cup Sent
      BY <1>14, <2>2 DEF Live
    <3> QED BY <1>14, <3>1, <3>2 DEF Live
  <2> QED BY <2>1, <2>2
<1>17. Typed'
  <2>1. queue' \in Seq(Clouds)
    BY <1>4, <1>11, <1>13, Zenon
  <2>2. cloud_seq' \in Nat
    BY <1>2, <1>6
  <2> QED BY <1>1, <1>2, <1>8, <2>1, <2>2, Zenon DEF Typed
<1>18. Control'
  <2>1. mpc \notin {"main", "init", "created", "ready"}
    BY <1>1, <1>2, Zenon DEF Control
  <2> QED BY <1>1, <1>2, <2>1, Zenon DEF Control
<1>19. ASSUME ~overlapped PROVE Counted'
  <2>1. lost' \subseteq DOMAIN arrivals
    BY <1>1, <1>4, <1>5, <1>19, Zenon DEF Counted
  <2> QED BY <1>1, <1>19, <1>2, <1>10, <2>1, ZenonT(40) DEF Counted, Known, Once
<1>20. Owned'
  <2>1. CASE queue' = queue
    BY <1>1, <1>2, <2>1, Zenon DEF Owned
  <2>2. CASE Len(queue) < CloudCap /\ queue' = Append(queue, pc)
    <3>1. /\ \A i, j \in DOMAIN queue : queue[i] = queue[j] => i = j
          /\ \A i \in DOMAIN queue : queue[i] # msg /\ \A j \in DOMAIN free : queue[i] # free[j]
          /\ \A i \in DOMAIN queue : queue[i] # pc
          /\ \A j \in DOMAIN free : free[j] # pc
      BY <1>1, <1>2, Zenon DEF Owned
    <3>2. \A i, j \in DOMAIN queue' : queue'[i] = queue'[j] => i = j
      BY <1>13, <2>2, <3>1
    <3>3. pc # msg
      BY <1>5, <1>12, Zenon
    <3>4. \A i \in DOMAIN queue' : queue'[i] # msg /\ \A j \in DOMAIN free : queue'[i] # free[j]
      BY <1>13, <2>2, <3>1, <3>3
    <3>5. Len(queue') <= CloudCap
      <4>1. CloudCap \in Nat BY SourceAssumption
      <4> QED BY <1>12, <1>13, <2>2, <4>1
    <3> QED BY <1>1, <1>2, <3>2, <3>4, <3>5, Zenon DEF Owned
  <2> QED BY <1>4, <2>1, <2>2
<1>21. Sized'
  <2>1. SUFFICES ASSUME ~setup.dense PROVE Sized'
    BY <1>2, Zenon DEF Sized
  <2>2. /\ \A c \in Live : \E w \in Nat : Len(content[c].points) = w * Height
        /\ \A c \in Live \ Filled : /\ content[c].height = Height
                                    /\ Len(content[c].points) = content[c].width * Height
    BY <1>1, <2>1, Zenon DEF Sized
  <2>3. Live' \subseteq Live /\ \A c \in Live' : c \in Clouds
    <3>1. Live' \subseteq Live
      BY <1>4, <1>16
    <3>2. msg \in Clouds \cup {NoCloud}
      BY <1>1, Zenon DEF Typed
    <3>3. \A c \in Live : c \in Clouds
      BY <1>5, <1>12, <1>14, <3>2 DEF Live
    <3> QED BY <3>1, <3>3, Zenon
  <2>4. \A c \in Live' : \E w \in Nat : Len(content'[c].points) = w * Height
    BY <1>9, <2>2, <2>3, Zenon
  <2>5. ASSUME NEW c \in Live' PROVE /\ content'[c].height = Height
                                     /\ Len(content'[c].points) = content'[c].width * Height
    <3>1. CASE c = pc
      BY <1>7, <1>8, <1>15, <2>1, <2>2, <3>1, Zenon
    <3>2. CASE c # pc
      <4>1. c \in Live \ Filled BY <1>14, <2>3, <3>2
      <4> QED BY <1>8, <2>2, <2>3, <3>2, <4>1, Zenon
    <3> QED BY <3>1, <3>2
  <2> QED BY <2>4, <2>5, Zenon DEF Sized
<1>22. ASSUME ~overlapped PROVE Points'
  <2>1. Placed(MsopIn(arrivals), Nums(pending), Nums(pkts), Nums(batch), lost, Pub, Held)
    BY <1>1, <1>22, Zenon DEF Points
  <2>2. CASE Live' = Live /\ lost' = lost
    <3>1. Held' = Held BY <1>10, <2>2, Zenon DEF Held
    <3> QED BY <1>2, <1>10, <2>1, <2>2, <3>1, Zenon DEF Points
  <2>3. CASE Live' = Live \ {pc} /\ lost' = lost \cup In(pc)
    <3>1. Held'[pc] = {} /\ Held[pc] = In(pc) /\ \A c \in Clouds : c # pc => Held'[c] = Held[c]
      BY <1>5, <1>10, <1>15, <2>3 DEF Held
    <3>2. \A n : n \in lost' <=> n \in lost \/ n \in Held[pc]
      BY <2>3, <3>1
    <3> DEFINE G == Held'
    <3> HIDE DEF G
    <3>3. Placed(MsopIn(arrivals), Nums(pending), Nums(pkts), Nums(batch), lost', Pub, G)
      BY <1>5, <2>1, <3>1, <3>2, PlacedDropped DEF G
    <3> QED BY <1>2, <1>10, <3>3, Zenon DEF Points, G
  <2> QED BY <1>4, <1>16, <2>2, <2>3, Zenon
<1>23. Assembled' /\ WholeDatagrams'
  BY <1>1, <1>2, Zenon DEF Assembled, WholeDatagrams
<1> QED BY <1>2, <1>17, <1>18, <1>19, <1>20, <1>21, <1>22, <1>23, Zenon DEF SourceInv, Accounted

\* A sequence has no more elements than places.
LEMMA RangeSmall ==
  ASSUME NEW T, NEW s \in Seq(T)
  PROVE  IsFiniteSet(Range(s)) /\ Cardinality(Range(s)) \in Nat /\ Cardinality(Range(s)) <= Len(s)
<1>1. s \in Surjection(1..Len(s), Range(s))
  BY DEF Surjection, Range
<1>2. ExistsSurjection(1..Len(s), Range(s)) /\ Len(s) \in Nat
  BY <1>1 DEF ExistsSurjection
<1>3. IsFiniteSet(Range(s))
  BY <1>2, FS_NatSurjection
<1> QED BY <1>2, <1>3, FS_CountingElements, FS_CardinalityType, FS_SurjCardinalityBound

\* With no cloud free there is one that nobody has.
LEMMA SpareCloud ==
  ASSUME SourceInv, free = <<>>
  PROVE  \E c \in Clouds : c \notin Referenced
<1>1. Typed /\ Owned BY Zenon DEF SourceInv
<1>2. queue \in Seq(Clouds) /\ Len(queue) <= CloudCap /\ Len(queue) \in Nat
  BY <1>1 DEF Typed, Owned
<1>3. CloudCap \in Nat /\ IsFiniteSet(Clouds) /\ Cardinality(Clouds) >= CloudCap * 2 + 3
  BY SourceAssumption
<1> DEFINE Q == Range(queue)
           S == (Q \cup {point_cloud}) \cup {msg}
<1>4. IsFiniteSet(Q) /\ Cardinality(Q) \in Nat /\ Cardinality(Q) <= Len(queue)
  BY <1>2, RangeSmall, Zenon
<1> HIDE DEF Q
<1>5. /\ IsFiniteSet(Q \cup {point_cloud}) /\ Cardinality(Q \cup {point_cloud}) \in Nat
      /\ Cardinality(Q \cup {point_cloud}) <= Len(queue) + 1
  <2>1. /\ IsFiniteSet(Q \cup {point_cloud})
        /\ \/ Cardinality(Q \cup {point_cloud}) = Cardinality(Q)
           \/ Cardinality(Q \cup {point_cloud}) = Cardinality(Q) + 1
    BY <1>4, FS_AddElement, Zenon
  <2> QED BY <1>2, <1>4, <2>1
<1>6. IsFiniteSet(S) /\ Cardinality(S) \in Nat /\ Cardinality(S) <= Len(queue) + 2
  <2> DEFINE R == Q \cup {point_cloud}
  <2> HIDE DEF R
  <2>1. /\ IsFiniteSet(R \cup {msg})
        /\ \/ Cardinality(R \cup {msg}) = Cardinality(R)
           \/ Cardinality(R \cup {msg}) = Cardinality(R) + 1
    BY <1>5, FS_AddElement, Zenon DEF R
  <2>2. S = R \cup {msg} BY DEF R
  <2>3. Cardinality(R) \in Nat /\ Cardinality(R) <= Len(queue) + 1 BY <1>5 DEF R
  <2> HIDE DEF S
  <2> QED BY <1>2, <2>1, <2>2, <2>3
<1> HIDE DEF S
<1>7. Cardinality(S) < Cardinality(Clouds) /\ Cardinality(Clouds) \in Nat
  BY <1>2, <1>3, <1>6, FS_CardinalityType
<1>8. ~(Clouds \subseteq S)
  BY <1>6, <1>7, FS_Subset
<1>9. Range(free) = {}
  BY DEF Range
<1>10. Referenced = S
  BY <1>9 DEF Referenced, S, Q
<1> QED BY <1>8, <1>10

\* The decoder gets a cloud nobody else has.
LEMMA NewCloud ==
  ASSUME SourceInv
  PROVE  /\ GetPointCloud \in Clouds /\ GetPointCloud # msg
         /\ \A i \in DOMAIN queue : queue[i] # GetPointCloud
         /\ \A i \in DOMAIN FreeAfterGet : FreeAfterGet[i] # GetPointCloud
         /\ FreeAfterGet \in Seq(Clouds) /\ Len(FreeAfterGet) <= Len(free)
         /\ \A i, j \in DOMAIN FreeAfterGet : FreeAfterGet[i] = FreeAfterGet[j] => i = j
         /\ \A i \in DOMAIN FreeAfterGet : \E j \in DOMAIN free : FreeAfterGet[i] = free[j]
<1>1. Typed /\ Owned BY Zenon DEF SourceInv
<1>2. queue \in Seq(Clouds) /\ free \in Seq(Clouds)
  BY <1>1, Zenon DEF Typed
<1>3. /\ \A i, j \in DOMAIN free : free[i] = free[j] => i = j
      /\ \A i \in DOMAIN queue : \A j \in DOMAIN free : queue[i] # free[j]
      /\ \A j \in DOMAIN free : free[j] # msg
  BY <1>1, Zenon DEF Owned
<1>4. CASE free = <<>>
  <2> DEFINE c == CHOOSE c \in Clouds : c \notin Referenced
  <2>1. c \in Clouds /\ c \notin Referenced
    BY <1>4, SpareCloud
  <2>2. GetPointCloud = c /\ FreeAfterGet = <<>>
    BY <1>4 DEF GetPointCloud, FreeAfterGet
  <2> HIDE DEF c
  <2>3. c # msg /\ \A i \in DOMAIN queue : queue[i] # c
    BY <2>1 DEF Referenced, Range
  <2>4. <<>> \in Seq(Clouds) /\ Len(<<>>) <= Len(free) /\ DOMAIN <<>> = {}
    BY <1>2, <1>4
  <2> QED BY <2>1, <2>2, <2>3, <2>4, Zenon
<1>5. CASE free # <<>>
  <2>1. GetPointCloud = Head(free) /\ FreeAfterGet = Tail(free)
    BY <1>5 DEF GetPointCloud, FreeAfterGet
  <2> DEFINE t == Tail(free)
  <2>2. /\ t \in Seq(Clouds) /\ Len(t) <= Len(free) /\ 1 \in DOMAIN free /\ Head(free) = free[1]
        /\ \A i \in DOMAIN t : i + 1 \in DOMAIN free /\ t[i] = free[i + 1] /\ i \in Nat /\ i # 0
        /\ free[1] \in Clouds
    BY <1>2, <1>5
  <2> HIDE DEF t
  <2>3. \A i \in DOMAIN t : t[i] # free[1]
    BY <1>3, <2>2
  <2>4. \A i, j \in DOMAIN t : t[i] = t[j] => i = j
    BY <1>3, <2>2
  <2>5. \A i \in DOMAIN t : \E j \in DOMAIN free : t[i] = free[j]
    BY <2>2
  <2>6. \A i \in DOMAIN queue : queue[i] # free[1]
    BY <1>3, <2>2
  <2>7. free[1] # msg
    BY <1>3, <2>2
  <2> QED BY <2>1, <2>2, <2>3, <2>4, <2>5, <2>6, <2>7, Zenon DEF t
<1> QED BY <1>4, <1>5

LEMMA LiveClouds ==
  ASSUME SourceInv
  PROVE  Live \subseteq Clouds
<1>1. Typed /\ Control BY Zenon DEF SourceInv
<1>2. /\ queue \in Seq(Clouds) /\ msg \in Clouds \cup {NoCloud}
      /\ point_cloud \in Clouds \cup {NoCloud}
  BY <1>1, Zenon DEF Typed
<1>3. {queue[i] : i \in DOMAIN queue} \subseteq Clouds
  BY <1>2
<1>4. ppc = "send" => msg # NoCloud
  BY <1>1 DEF Control
<1> QED BY <1>2, <1>3, <1>4 DEF Live, Filled, Sent

LEMMA NumbersOfNone == Numbers(<<>>) = {}
  BY DEF Numbers

\* A cloud is emptied.
LEMMA Emptied ==
  ASSUME SourceInv, NEW g \in Clouds, content' = [content EXCEPT ![g].points = <<>>]
  PROVE  /\ content' \in [Clouds -> Cloud] /\ content'[g].points = <<>>
         /\ \A c \in Clouds : c # g => content'[c] = content[c]
         /\ \A c \in Clouds : IF c = g THEN In(c)' = {} ELSE In(c)' = In(c)
<1>1. content \in [Clouds -> Cloud]
  BY Zenon DEF SourceInv, Typed
<1>2. <<>> \in Seq(Nat \X Nat)
  OBVIOUS
<1> DEFINE e == [content[g] EXCEPT !.points = <<>>]
<1>3. e \in Cloud /\ e.points = <<>>
  BY <1>1, <1>2 DEF Cloud
<1>4. content' = [content EXCEPT ![g] = e]
  BY Zenon
<1> HIDE DEF e
<1>5. /\ content' \in [Clouds -> Cloud] /\ content'[g].points = <<>>
      /\ \A c \in Clouds : c # g => content'[c] = content[c]
  BY <1>1, <1>3, <1>4
<1>6. \A c \in Clouds : IF c = g THEN In(c)' = {} ELSE In(c)' = In(c)
  BY <1>5, NumbersOfNone, Zenon DEF In
<1> QED BY <1>5, <1>6

LEMMA HandleNewCloudStep ==
  ASSUME SourceInv, HandleNewCloud
  PROVE  SourceInv'
<1>1. /\ Typed /\ Control /\ Owned /\ Sized /\ Assembled /\ WholeDatagrams
      /\ (~overlapped => Counted /\ Points)
  BY Zenon DEF SourceInv, Accounted
<1> DEFINE g == GetPointCloud
           rest == FreeAfterGet
<1>2. /\ overlapped' = overlapped /\ real_count' = real_count
      /\ setup' = setup /\ arrivals' = arrivals /\ jumbo' = jumbo /\ pos' = pos /\ pending' = pending
      /\ queue' = queue /\ pkts' = pkts /\ batch' = batch /\ cloud_seq' = cloud_seq
      /\ msg' = msg /\ published' = published /\ ppc' = ppc /\ mpc' = mpc /\ rpc' = rpc
      /\ socks' = socks /\ events' = events /\ hpc = "split" /\ hpc' = "points"
      /\ lost' = lost
  BY Zenon DEF HandleNewCloud, handleRest, inVars, pubVars
<1>3. point_cloud' = g /\ free' = rest /\ content' = [content EXCEPT ![g].points = <<>>]
  BY Zenon DEF HandleNewCloud
<1>4. /\ g \in Clouds /\ g # msg
      /\ \A i \in DOMAIN queue : queue[i] # g
      /\ \A i \in DOMAIN rest : rest[i] # g
      /\ rest \in Seq(Clouds) /\ Len(rest) <= Len(free)
      /\ \A i, j \in DOMAIN rest : rest[i] = rest[j] => i = j
      /\ \A i \in DOMAIN rest : \E j \in DOMAIN free : rest[i] = free[j]
  BY NewCloud
<1> HIDE DEF g, rest
<1>5. g # NoCloud
  BY <1>4, SourceAssumption
<1>6. content \in [Clouds -> Cloud]
  BY <1>1, Zenon DEF Typed
<1>7. /\ content' \in [Clouds -> Cloud] /\ content'[g].points = <<>>
      /\ \A c \in Clouds : c # g => content'[c] = content[c]
      /\ \A c \in Clouds : IF c = g THEN In(c)' = {} ELSE In(c)' = In(c)
  BY <1>3, <1>4, Emptied, Zenon
<1>8. Pub' = Pub
  BY <1>2, Zenon DEF Pub
<1>9. Filled = {} /\ Filled' = {g} /\ Sent' = Sent /\ Sent \subseteq {msg}
  BY <1>2, <1>3, <1>5 DEF Filled, Sent
<1>10. Live' = Live \cup {g} /\ g \notin Live
  BY <1>2, <1>4, <1>9 DEF Live
<1>11. Held' = Held
  <2>1. \A c \in Clouds : Held'[c] = Held[c]
    BY <1>7, <1>10 DEF Held
  <2> QED BY <2>1, Zenon DEF Held
<1>12. Typed'
  <2>1. point_cloud' \in Clouds \cup {NoCloud} /\ free' \in Seq(Clouds)
    BY <1>3, <1>4
  <2> QED BY <1>1, <1>2, <1>7, <2>1, Zenon DEF Typed
<1>13. Control'
  <2>1. mpc \notin {"main", "init", "created", "ready"}
    BY <1>1, <1>2, Zenon DEF Control
  <2> QED BY <1>1, <1>2, <1>3, <1>5, <2>1, Zenon DEF Control
<1>14. ASSUME ~overlapped PROVE Counted'
  <2>1. \A c \in Clouds : In(c)' \subseteq DOMAIN arrivals
    BY <1>1, <1>7, <1>14 DEF Counted
  <2> QED BY <1>1, <1>14, <1>2, <1>8, <2>1, ZenonT(40) DEF Counted, Known, Once
<1>15. Owned'
  <2>1. /\ Len(queue) <= CloudCap /\ Len(free) <= CloudCap
        /\ \A i, j \in DOMAIN queue : queue[i] = queue[j] => i = j
        /\ \A i \in DOMAIN queue : queue[i] # msg /\ \A j \in DOMAIN free : queue[i] # free[j]
        /\ \A j \in DOMAIN free : free[j] # msg
    BY <1>1, Zenon DEF Owned
  <2>2. Len(rest) <= CloudCap
    <3>1. /\ Len(rest) \in Nat /\ Len(free) \in Nat /\ CloudCap \in Nat
      <4>1. free \in Seq(Clouds) BY <1>1, Zenon DEF Typed
      <4>2. CloudCap \in Nat BY SourceAssumption
      <4> QED BY <1>4, <4>1, <4>2
    <3> QED BY <1>4, <2>1, <3>1
  <2>3. \A i \in DOMAIN queue : \A j \in DOMAIN rest : queue[i] # rest[j]
    BY <1>4, <2>1
  <2>4. \A j \in DOMAIN rest : rest[j] # msg
    BY <1>4, <2>1
  <2>5. Len(free') <= CloudCap /\ \A i, j \in DOMAIN free' : free'[i] = free'[j] => i = j
    BY <1>3, <1>4, <2>2
  <2>6. \A i \in DOMAIN queue : \A j \in DOMAIN free' : queue[i] # free'[j]
    BY <1>3, <2>3
  <2>7. \A j \in DOMAIN free' : free'[j] # msg /\ free'[j] # g
    BY <1>3, <1>4, <2>4
  <2> QED BY <1>2, <1>3, <1>4, <2>1, <2>5, <2>6, <2>7, Zenon DEF Owned
<1>16. Sized'
  <2>1. SUFFICES ASSUME ~setup.dense PROVE Sized'
    BY <1>2, Zenon DEF Sized
  <2>2. /\ \A c \in Live : \E w \in Nat : Len(content[c].points) = w * Height
        /\ \A c \in Live \ Filled : /\ content[c].height = Height
                                    /\ Len(content[c].points) = content[c].width * Height
    BY <1>1, <2>1, Zenon DEF Sized
  <2>3. \A c \in Live : c \in Clouds /\ c # g
    BY <1>10, LiveClouds
  <2>4. Len(content'[g].points) = 0 * Height /\ 0 \in Nat
    BY <1>7, SourceAssumption
  <2>5. \A c \in Live' : \E w \in Nat : Len(content'[c].points) = w * Height
    BY <1>7, <1>10, <2>2, <2>3, <2>4, Zenon
  <2>6. Live' \ Filled' = Live \ Filled
    BY <1>9, <1>10
  <2>7. \A c \in Live' \ Filled' : /\ content'[c].height = Height
                                   /\ Len(content'[c].points) = content'[c].width * Height
    BY <1>7, <2>2, <2>3, <2>6
  <2> QED BY <2>5, <2>7, Zenon DEF Sized
<1>17. ASSUME ~overlapped PROVE Points'
  BY <1>1, <1>2, <1>8, <1>11, <1>17, Zenon DEF Points
<1>18. Assembled' /\ WholeDatagrams'
  BY <1>1, <1>2, Zenon DEF Assembled, WholeDatagrams
<1> QED BY <1>2, <1>12, <1>13, <1>14, <1>15, <1>16, <1>17, <1>18, Zenon DEF SourceInv, Accounted

\* The first of a sequence of packets and the others.
LEMMA TailKnown ==
  ASSUME NEW s \in Seq(Packet), s # <<>>, Known(s), Once(s)
  PROVE  /\ Head(s) \in Packet /\ Head(s).n \in Nums(s)
         /\ Head(s).n \in DOMAIN arrivals /\ Head(s) = arrivals[Head(s).n]
         /\ Tail(s) \in Seq(Packet) /\ Known(Tail(s)) /\ Once(Tail(s))
         /\ \A n : n \in Nums(Tail(s)) <=> n \in Nums(s) /\ n # Head(s).n
<1> DEFINE t == Tail(s)
           h == Head(s)
<1>1. /\ h \in Packet /\ 1 \in DOMAIN s /\ h = s[1] /\ t \in Seq(Packet)
      /\ \A i \in DOMAIN t : i + 1 \in DOMAIN s /\ t[i] = s[i + 1] /\ i \in Nat /\ i # 0
      /\ \A i \in DOMAIN s : i = 1 \/ (i - 1 \in DOMAIN t /\ (i - 1) + 1 = i)
  OBVIOUS
<1> HIDE DEF t, h
<1>2. h.n \in Nums(s) /\ h.n \in DOMAIN arrivals /\ h = arrivals[h.n]
  BY <1>1 DEF Nums, Known
<1>3. Known(t)
  BY <1>1 DEF Known
<1>4. Once(t)
  <2>1. SUFFICES ASSUME NEW i \in DOMAIN t, NEW j \in DOMAIN t, t[i].n = t[j].n PROVE i = j
    BY DEF Once
  <2>2. i + 1 = j + 1
    BY <1>1, <2>1 DEF Once
  <2> QED BY <1>1, <2>2
<1>5. \A n : n \in Nums(t) => n \in Nums(s) /\ n # h.n
  <2>1. SUFFICES ASSUME NEW i \in DOMAIN t PROVE t[i].n \in Nums(s) /\ t[i].n # h.n
    BY DEF Nums
  <2>2. t[i].n \in Nums(s)
    BY <1>1 DEF Nums
  <2>3. i + 1 # 1
    BY <1>1
  <2>4. t[i].n # h.n
    BY <1>1, <2>3 DEF Once
  <2> QED BY <2>2, <2>4
<1>6. \A n : n \in Nums(s) /\ n # h.n => n \in Nums(t)
  <2>1. SUFFICES ASSUME NEW i \in DOMAIN s, s[i].n # h.n PROVE s[i].n \in Nums(t)
    BY DEF Nums
  <2>2. i # 1
    BY <1>1, <2>1
  <2>3. i - 1 \in DOMAIN t /\ t[i - 1] = s[i]
    BY <1>1, <2>2
  <2> QED BY <2>3 DEF Nums
<1> QED BY <1>1, <1>2, <1>3, <1>4, <1>5, <1>6 DEF t, h

\* A packet's points all have its number, and there are some.
LEMMA PacketPoints ==
  ASSUME NEW p \in Packet, NEW s \in Seq(Nat \X Nat)
  PROVE  /\ s \o PointsOf(p) \in Seq(Nat \X Nat)
         /\ ~setup.dense => Len(s \o PointsOf(p)) = Len(s) + Height
         /\ \A n : n \in Numbers(s \o PointsOf(p)) <=> n \in Numbers(s) \/ n = p.n
<1> DEFINE h == IF setup.dense THEN Height - 1 ELSE Height
           t == PointsOf(p)
           u == s \o t
<1>1. h \in Nat \ {0} /\ p.n \in Nat
  BY SourceAssumption DEF Packet
<1> HIDE DEF h
<1>2. t = [i \in 1..h |-> <<p.n, i>>]
  BY DEF PointsOf, h
<1>3. t \in Seq(Nat \X Nat) /\ DOMAIN t = 1..h /\ Len(t) = h /\ \A i \in 1..h : t[i][1] = p.n
  BY <1>1, <1>2
<1>4. /\ \A i \in DOMAIN u :
           \/ i \in DOMAIN s /\ u[i] = s[i]
           \/ i - Len(s) \in DOMAIN t /\ i = Len(s) + (i - Len(s)) /\ u[i] = t[i - Len(s)]
      /\ \A i \in DOMAIN s : i \in DOMAIN u /\ u[i] = s[i]
      /\ \A i \in DOMAIN t : Len(s) + i \in DOMAIN u /\ u[Len(s) + i] = t[i]
  <2> DEFINE pt == Nat \X Nat
  <2>1. s \in Seq(pt) /\ t \in Seq(pt)
    BY <1>3
  <2> HIDE DEF t, pt
  <2> QED BY <2>1, ConcatElements
<1>5. u \in Seq(Nat \X Nat) /\ Len(u) = Len(s) + h
  <2> HIDE DEF t
  <2>1. u \in Seq(Nat \X Nat) /\ Len(u) = Len(s) + Len(t)
    BY <1>3, ConcatProperties, Zenon
  <2> QED BY <1>3, <2>1, Zenon
<1> HIDE DEF u, t
<1>6. \A n : n \in Numbers(u) => n \in Numbers(s) \/ n = p.n
  BY <1>3, <1>4 DEF Numbers
<1>7. \A n : n \in Numbers(s) => n \in Numbers(u)
  BY <1>4 DEF Numbers
<1>8. p.n \in Numbers(u)
  <2>1. 1 \in DOMAIN t /\ t[1][1] = p.n
    BY <1>1, <1>3
  <2> QED BY <1>4, <2>1 DEF Numbers
<1>9. ~setup.dense => h = Height
  BY DEF h
<1> QED BY <1>5, <1>6, <1>7, <1>8, <1>9, Zenon DEF u, t

LEMMA HandlePacketStep ==
  ASSUME SourceInv, HandlePacket
  PROVE  SourceInv'
<1>1. /\ Typed /\ Control /\ Owned /\ Sized /\ Assembled /\ WholeDatagrams
      /\ (~overlapped => Counted /\ Points)
  BY Zenon DEF SourceInv, Accounted
<1> DEFINE p == Head(batch)
           rest == Tail(batch)
           pc == point_cloud
<1>2. /\ overlapped' = overlapped /\ real_count' = real_count
      /\ setup' = setup /\ arrivals' = arrivals /\ jumbo' = jumbo /\ pos' = pos /\ pending' = pending
      /\ queue' = queue /\ free' = free /\ pkts' = pkts /\ cloud_seq' = cloud_seq
      /\ msg' = msg /\ published' = published /\ ppc' = ppc /\ mpc' = mpc /\ rpc' = rpc
      /\ socks' = socks /\ events' = events /\ lost' = lost /\ point_cloud' = point_cloud
      /\ hpc \in {"decode", "points"} /\ hpc' = "decode" /\ batch # <<>> /\ batch' = rest
  BY Zenon DEF HandlePacket, handleRest, inVars, pubVars
<1>3. content' = IF p.kind = "msop" THEN [content EXCEPT ![pc].points = @ \o PointsOf(p)] ELSE content
  BY Zenon DEF HandlePacket
<1>4. hpc # "split" /\ hpc # "off"
  BY <1>2
<1>5. pc \in Clouds /\ pc # NoCloud /\ content \in [Clouds -> Cloud] /\ batch \in Seq(Packet)
  BY <1>1, <1>4, Zenon DEF Typed, Control
<1>6. p \in Packet /\ rest \in Seq(Packet)
  BY <1>2, <1>5
<1>7. ASSUME ~overlapped
      PROVE  /\ p.n \in Nums(batch) /\ p.n \in DOMAIN arrivals /\ p = arrivals[p.n]
             /\ Known(rest) /\ Once(rest)
             /\ \A n : n \in Nums(rest) <=> n \in Nums(batch) /\ n # p.n
  BY <1>1, <1>2, <1>5, <1>7, TailKnown, Zenon DEF Counted
<1> HIDE DEF p, rest
<1>8. Pub' = Pub
  BY <1>2, Zenon DEF Pub
<1>9. Filled = {pc} /\ Filled' = {pc} /\ Live' = Live /\ pc \in Live
  BY <1>2, <1>4, <1>5 DEF Filled, Live, Sent
<1>10. Control'
  <2>1. mpc \notin {"main", "init", "created", "ready"}
    BY <1>1, <1>4, Zenon DEF Control
  <2> QED BY <1>1, <1>2, <1>4, <2>1, Zenon DEF Control
<1>11. Owned'
  BY <1>1, <1>2, <1>4, Zenon DEF Owned
<1>12. Assembled' /\ WholeDatagrams'
  BY <1>1, <1>2, Zenon DEF Assembled, WholeDatagrams
<1>13. ASSUME ~overlapped
       PROVE  Placed(MsopIn(arrivals), Nums(pending), Nums(pkts), Nums(batch), lost, Pub, Held)
  BY <1>1, <1>13, Zenon DEF Points
<1>14. Nums(batch') = Nums(rest)
  BY <1>2, Zenon
<1>15. ASSUME ~overlapped
       PROVE  /\ \A i \in DOMAIN arrivals : arrivals[i].n = i
              /\ Known(pending) /\ Known(pkts) /\ Once(pending) /\ Once(pkts)
              /\ lost \subseteq DOMAIN arrivals /\ Pub \subseteq DOMAIN arrivals
              /\ \A c \in Clouds : In(c) \subseteq DOMAIN arrivals
  BY <1>1, <1>15, Zenon DEF Counted
<1>16. CASE p.kind = "msop"
  <2> DEFINE old == content[pc].points
             new == old \o PointsOf(p)
             e == [content[pc] EXCEPT !.points = new]
  <2>1. old \in Seq(Nat \X Nat)
    BY <1>5 DEF Cloud
  <2>2. /\ new \in Seq(Nat \X Nat)
        /\ ~setup.dense => Len(new) = Len(old) + Height
        /\ \A n : n \in Numbers(new) <=> n \in Numbers(old) \/ n = p.n
    <3> HIDE DEF old
    <3> QED BY <1>6, <2>1, PacketPoints
  <2>3. content' = [content EXCEPT ![pc] = e]
    BY <1>3, <1>16, Zenon
  <2> HIDE DEF new
  <2>4. e \in Cloud /\ e.points = new
    BY <1>5, <2>2 DEF Cloud
  <2> HIDE DEF e
  <2>5. /\ content' \in [Clouds -> Cloud] /\ content'[pc].points = new
        /\ \A c \in Clouds : c # pc => content'[c] = content[c]
    BY <1>5, <2>3, <2>4
  <2>6. /\ \A c \in Clouds : c # pc => In(c)' = In(c)
        /\ \A c \in Clouds : c = pc => \A n : n \in In(c)' <=> n \in In(c) \/ n = p.n
    BY <2>2, <2>5, Zenon DEF In
  <2>7. Typed'
    BY <1>1, <1>2, <1>6, <2>5, Zenon DEF Typed
  <2>8. ASSUME ~overlapped PROVE Counted'
    <3>1. \A c \in Clouds : In(c)' \subseteq DOMAIN arrivals
      BY <1>7, <1>15, <2>6, <2>8
    <3> QED BY <1>2, <1>7, <1>8, <1>15, <2>8, <3>1, ZenonT(40) DEF Counted, Known, Once
  <2>9. Sized'
    <3>1. SUFFICES ASSUME ~setup.dense PROVE Sized'
      BY <1>2, Zenon DEF Sized
    <3>2. /\ \A c \in Live : \E w \in Nat : Len(content[c].points) = w * Height
          /\ \A c \in Live \ Filled : /\ content[c].height = Height
                                      /\ Len(content[c].points) = content[c].width * Height
      BY <1>1, <3>1, Zenon DEF Sized
    <3>3. PICK w \in Nat : Len(old) = w * Height
      BY <1>9, <3>2
    <3>4. Len(new) = (w + 1) * Height /\ w + 1 \in Nat
      <4>1. \A m \in Nat, k \in Nat : m * k + k = (m + 1) * k
        OBVIOUS
      <4>2. Height \in Nat BY SourceAssumption
      <4> HIDE DEF old
      <4> QED BY <2>2, <3>1, <3>3, <4>1, <4>2
    <3>5. \A c \in Live : c \in Clouds
      BY LiveClouds
    <3>6. \A c \in Live : \E v \in Nat : Len(content'[c].points) = v * Height
      BY <2>5, <3>2, <3>4, <3>5, Zenon
    <3>7. \A c \in Live \ Filled : /\ content'[c].height = Height
                                   /\ Len(content'[c].points) = content'[c].width * Height
      BY <1>9, <2>5, <3>2, <3>5
    <3> QED BY <1>9, <3>6, <3>7, Zenon DEF Sized
  <2>10. ASSUME ~overlapped PROVE Points'
    <3> DEFINE G == Held'
    <3>1. /\ \A n : n \in G[pc] <=> n \in Held[pc] \/ n = p.n
          /\ \A c \in Clouds : c # pc => G[c] = Held[c]
      BY <1>5, <1>9, <2>6 DEF Held
    <3> HIDE DEF G
    <3>2. Placed(MsopIn(arrivals), Nums(pending), Nums(pkts), Nums(rest), lost, Pub, G)
      <4>1. p.n \in Nums(batch) /\ (\A n : n \in Nums(rest) <=> n \in Nums(batch) /\ n # p.n)
        BY <1>7, <2>10
      <4> HIDE DEF pc
      <4>2. pc \in Clouds BY <1>5
      <4> QED BY <1>13, <2>10, <3>1, <4>1, <4>2 DEF Placed, Apart, Covered
    <3> QED BY <1>2, <1>8, <1>14, <3>2, Zenon DEF Points, G
  <2> QED BY <1>2, <1>10, <1>11, <1>12, <2>7, <2>8, <2>9, <2>10, Zenon DEF SourceInv, Accounted
<1>17. CASE p.kind # "msop"
  <2>1. content' = content
    BY <1>3, <1>17
  <2>2. Held' = Held /\ \A c \in Clouds : In(c)' = In(c)
    BY <1>9, <2>1, Zenon DEF Held, In
  <2>3. Typed'
    BY <1>1, <1>2, <1>6, <2>1, Zenon DEF Typed
  <2>4. ASSUME ~overlapped PROVE Counted'
    BY <1>2, <1>7, <2>4, <1>8, <1>15, <2>2, ZenonT(40) DEF Counted, Known, Once
  <2>5. Sized'
    BY <1>1, <1>2, <1>9, <2>1, Zenon DEF Sized
  <2>6. ASSUME ~overlapped PROVE p.n \notin MsopIn(arrivals)
    BY <1>7, <1>15, <1>17, <2>6 DEF MsopIn, Range
  <2>7. ASSUME ~overlapped
        PROVE  Placed(MsopIn(arrivals), Nums(pending), Nums(pkts), Nums(rest), lost, Pub, Held)
    BY <1>7, <1>13, <2>6, <2>7, PlacedSkipped
  <2>8. ASSUME ~overlapped PROVE Points'
    BY <2>8, <1>2, <1>8, <1>14, <2>2, <2>7, Zenon DEF Points
  <2> QED BY <1>2, <1>10, <1>11, <1>12, <2>3, <2>4, <2>5, <2>8, Zenon DEF SourceInv, Accounted
<1> QED BY <1>16, <1>17

-----------------------------------------------------------------------------
(* The publishing thread *)

\* Where toRosMsg finds the k-th point of a message that goes by rows.
Place(k, w, h) == (k - 1) \div w + ((k - 1) % w) * h + 1

\* The places are those of the cloud,
LEMMA PlaceInside ==
  ASSUME NEW w \in Nat, NEW h \in Nat, NEW k \in 1..(w * h)
  PROVE  Place(k, w, h) \in 1..(w * h)
<1>1. w * h \in Nat /\ w # 0 /\ k - 1 \in Nat /\ k - 1 < w * h
  OBVIOUS
<1> DEFINE q == (k - 1) % w
           r == (k - 1) \div w
<1>2. q \in 0..(w - 1) /\ r \in Nat /\ k - 1 = r * w + q
  BY <1>1, Division
<1>3. r * w + q < h * w
  BY <1>1, <1>2
<1> HIDE DEF q, r
<1>4. r < h
  BY <1>1, <1>2, <1>3, Division
<1>5. q * h + r \in 0..(w * h - 1)
  BY <1>2, <1>4, Division
<1>6. r + q * h + 1 \in 1..(w * h)
  BY <1>1, <1>2, <1>5
<1> QED BY <1>6, Zenon DEF Place, q, r

\* and each of them is one.
LEMMA PlaceOnto ==
  ASSUME NEW w \in Nat, NEW h \in Nat, NEW j \in 1..(w * h)
  PROVE  \E k \in 1..(w * h) : Place(k, w, h) = j
<1>1. w * h \in Nat /\ w # 0 /\ h # 0 /\ j - 1 \in Nat /\ j - 1 < w * h
  OBVIOUS
<1> DEFINE q == (j - 1) \div h
           r == (j - 1) % h
           k == r * w + q + 1
<1>2. r \in 0..(h - 1) /\ q \in Nat /\ j - 1 = q * h + r
  BY <1>1, Division
<1> HIDE DEF q, r
<1>3. q < w
  BY <1>1, <1>2, Division
<1>4. r * w + q \in 0..(h * w - 1)
  BY <1>2, <1>3, Division
<1>5. k \in 1..(w * h) /\ k - 1 = r * w + q
  BY <1>1, <1>2, <1>3, <1>4
<1>6. (k - 1) \div w = r /\ (k - 1) % w = q
  <2>1. r \in Nat /\ q \in 0..(w - 1) BY <1>2, <1>3
  <2> HIDE DEF k
  <2> QED BY <1>1, <1>5, <2>1, Division
<1> HIDE DEF k
<1>7. Place(k, w, h) = j
  BY <1>1, <1>2, <1>6 DEF Place
<1> QED BY <1>5, <1>7

\* By rows or not, a message has the cloud's points.
LEMMA MessageOfCloud ==
  ASSUME NEW c \in Cloud, NEW byRows \in BOOLEAN,
         byRows => c.height = Height /\ Len(c.points) = c.width * Height
  PROVE  /\ ToRosMsg(c, byRows) \in Message
         /\ \A n : n \in Numbers(ToRosMsg(c, byRows).data) <=> n \in Numbers(c.points)
<1> DEFINE w == c.width
           h == c.height
           s == c.points
           turned == [k \in 1..(w * h) |-> s[Place(k, w, h)]]
           d == IF byRows THEN turned ELSE s
           pt == Nat \X Nat
<1>1. c.seq \in Nat /\ w \in Nat /\ h \in Nat /\ s \in Seq(pt)
  BY DEF Cloud
<1>2. ToRosMsg(c, byRows) =
        [seq |-> c.seq, width |-> IF byRows THEN w ELSE h, height |-> IF byRows THEN h ELSE w, data |-> d]
  BY DEF ToRosMsg, Place
<1> HIDE DEF pt
<1>3. ASSUME byRows
      PROVE  turned \in Seq(pt) /\ \A n : n \in Numbers(turned) <=> n \in Numbers(s)
  <2>1. Len(s) = w * h
    BY <1>3
  <2> HIDE DEF w, h, s
  <2>2. \A k \in 1..(w * h) : Place(k, w, h) \in 1..(w * h)
    BY <1>1, PlaceInside
  <2>3. DOMAIN s = 1..(w * h) /\ w * h \in Nat
    BY <1>1, <2>1
  <2>4. turned \in [1..(w * h) -> pt]
    BY <1>1, <2>2, <2>3, SMTT(20)
  <2>5. DOMAIN turned = 1..(w * h) /\ \A k \in 1..(w * h) : turned[k] = s[Place(k, w, h)]
    BY Zenon
  <2>6. \A j \in 1..(w * h) : \E k \in 1..(w * h) : Place(k, w, h) = j
    BY <1>1, PlaceOnto
  <2> HIDE DEF turned
  <2>7. turned \in Seq(pt)
    BY <2>3, <2>4
  <2>8. \A n : n \in Numbers(turned) => n \in Numbers(s)
    BY <2>2, <2>3, <2>5 DEF Numbers
  <2>9. \A n : n \in Numbers(s) => n \in Numbers(turned)
    <3>1. SUFFICES ASSUME NEW j \in 1..(w * h) PROVE s[j][1] \in Numbers(turned)
      BY <2>3 DEF Numbers
    <3>2. PICK k \in 1..(w * h) : Place(k, w, h) = j
      BY <2>6
    <3> QED BY <2>5, <3>2, Zenon DEF Numbers
  <2> QED BY <2>7, <2>8, <2>9
<1>4. d \in Seq(pt) /\ \A n : n \in Numbers(d) <=> n \in Numbers(s)
  <2> HIDE DEF turned, s
  <2> QED BY <1>1, <1>3
<1> HIDE DEF d, w, h
<1>5. ToRosMsg(c, byRows).data = d
  BY <1>2
<1>6. ToRosMsg(c, byRows) \in Message
  BY <1>1, <1>2, <1>4 DEF Message, pt
<1> QED BY <1>4, <1>5, <1>6, Zenon

LEMMA PublishTakeStep ==
  ASSUME SourceInv, PublishTake
  PROVE  SourceInv'
<1>1. /\ Typed /\ Control /\ Owned /\ Sized /\ Assembled /\ WholeDatagrams
      /\ (~overlapped => Counted /\ Points)
  BY Zenon DEF SourceInv, Accounted
<1> DEFINE q == Head(queue)
           t == Tail(queue)
<1>2. /\ overlapped' = overlapped /\ real_count' = real_count
      /\ setup' = setup /\ arrivals' = arrivals /\ jumbo' = jumbo /\ pos' = pos /\ pending' = pending
      /\ free' = free /\ pkts' = pkts /\ batch' = batch /\ cloud_seq' = cloud_seq
      /\ published' = published /\ mpc' = mpc /\ rpc' = rpc /\ hpc' = hpc /\ content' = content
      /\ socks' = socks /\ events' = events /\ lost' = lost /\ point_cloud' = point_cloud
      /\ ppc = "wait" /\ ppc' = "send" /\ queue # <<>> /\ msg' = q /\ queue' = t
  BY Zenon DEF PublishTake, pubRest, inVars, pcVars
<1>3. queue \in Seq(Clouds)
  BY <1>1, Zenon DEF Typed
<1>4. /\ q \in Clouds /\ 1 \in DOMAIN queue /\ q = queue[1] /\ t \in Seq(Clouds)
      /\ \A i \in DOMAIN t : i + 1 \in DOMAIN queue /\ t[i] = queue[i + 1] /\ i \in Nat /\ i # 0
      /\ \A i \in DOMAIN queue : i = 1 \/ (i - 1 \in DOMAIN t /\ (i - 1) + 1 = i)
      /\ Len(t) = Len(queue) - 1 /\ Len(queue) \in Nat
  BY <1>2, <1>3
<1> HIDE DEF q, t
<1>5. q # NoCloud
  BY <1>4, SourceAssumption
<1>6. msg = NoCloud /\ mpc \notin {"main", "init"}
  BY <1>1, <1>2 DEF Control
<1>7. Sent = {} /\ Sent' = {q} /\ Filled' = Filled
  BY <1>2 DEF Sent, Filled
<1>8. {queue[i] : i \in DOMAIN queue} = {t[i] : i \in DOMAIN t} \cup {q}
  <2>1. \A i \in DOMAIN queue : queue[i] = q \/ \E j \in DOMAIN t : queue[i] = t[j]
    BY <1>4
  <2>2. \A i \in DOMAIN t : \E j \in DOMAIN queue : t[i] = queue[j]
    BY <1>4
  <2>3. q \in {queue[i] : i \in DOMAIN queue}
    BY <1>4
  <2> QED BY <2>1, <2>2, <2>3
<1>9. Live' = Live
  BY <1>2, <1>7, <1>8 DEF Live
<1>10. Held' = Held /\ Pub' = Pub /\ \A c \in Clouds : In(c)' = In(c)
  BY <1>2, <1>9, Zenon DEF Held, In, Pub
<1>11. Typed'
  BY <1>1, <1>2, <1>4, Zenon DEF Typed
<1>12. Control'
  <2>1. ppc' \in {"send", "recycle"} <=> msg' # NoCloud
    BY <1>2, <1>5
  <2> QED BY <1>1, <1>2, <1>6, <2>1, Zenon DEF Control
<1>13. ASSUME ~overlapped PROVE Counted'
  BY <1>1, <1>2, <1>10, <1>13, ZenonT(40) DEF Counted, Known, Once
<1>14. Owned'
  <2>1. /\ Len(queue) <= CloudCap /\ Len(free) <= CloudCap
        /\ \A i, j \in DOMAIN queue : queue[i] = queue[j] => i = j
        /\ \A i, j \in DOMAIN free : free[i] = free[j] => i = j
        /\ \A i \in DOMAIN queue : \A j \in DOMAIN free : queue[i] # free[j]
        /\ hpc # "split" =>
             /\ \A i \in DOMAIN queue : queue[i] # point_cloud
             /\ \A j \in DOMAIN free : free[j] # point_cloud
    BY <1>1, Zenon DEF Owned
  <2>2. Len(t) <= CloudCap
    <3>1. CloudCap \in Nat BY SourceAssumption
    <3> QED BY <1>4, <2>1, <3>1
  <2>3. \A i, j \in DOMAIN t : t[i] = t[j] => i = j
    BY <1>4, <2>1
  <2>4. \A i \in DOMAIN t : t[i] # q
    <3>1. \A i \in DOMAIN t : i + 1 # 1 BY <1>4
    <3> QED BY <1>4, <2>1, <3>1
  <2>5. \A i \in DOMAIN t : \A j \in DOMAIN free : t[i] # free[j]
    BY <1>4, <2>1
  <2>6. \A j \in DOMAIN free : free[j] # q
    BY <1>4, <2>1
  <2>7. hpc # "split" =>
           /\ \A i \in DOMAIN t : t[i] # point_cloud
           /\ \A j \in DOMAIN free : free[j] # point_cloud
           /\ q # point_cloud
    BY <1>4, <2>1
  <2> QED BY <1>2, <2>1, <2>2, <2>3, <2>4, <2>5, <2>6, <2>7, Zenon DEF Owned
<1>15. Sized'
  BY <1>1, <1>2, <1>7, <1>9, Zenon DEF Sized
<1>16. ASSUME ~overlapped PROVE Points'
  BY <1>1, <1>2, <1>10, <1>16, Zenon DEF Points
<1>17. Assembled' /\ WholeDatagrams'
  BY <1>1, <1>2, Zenon DEF Assembled, WholeDatagrams
<1> QED BY <1>2, <1>11, <1>12, <1>13, <1>14, <1>15, <1>16, <1>17, Zenon DEF SourceInv, Accounted

LEMMA PublishSendStep ==
  ASSUME SourceInv, PublishSend
  PROVE  SourceInv'
<1>1. /\ Typed /\ Control /\ Owned /\ Sized /\ Assembled /\ WholeDatagrams
      /\ (~overlapped => Counted /\ Points)
  BY Zenon DEF SourceInv, Accounted
<1> DEFINE m == ToRosMsg(content[msg], SendByRows)
<1>2. /\ overlapped' = overlapped /\ real_count' = real_count
      /\ setup' = setup /\ arrivals' = arrivals /\ jumbo' = jumbo /\ pos' = pos /\ pending' = pending
      /\ free' = free /\ pkts' = pkts /\ batch' = batch /\ cloud_seq' = cloud_seq
      /\ queue' = queue /\ mpc' = mpc /\ rpc' = rpc /\ hpc' = hpc /\ content' = content
      /\ socks' = socks /\ events' = events /\ lost' = lost /\ point_cloud' = point_cloud
      /\ ppc = "send" /\ ppc' = "recycle" /\ msg' = msg /\ published' = Append(published, m)
  BY Zenon DEF PublishSend, pubRest, inVars, pcVars
<1>3. /\ content \in [Clouds -> Cloud] /\ queue \in Seq(Clouds) /\ msg \in Clouds \cup {NoCloud}
      /\ published \in Seq(Message)
  BY <1>1, Zenon DEF Typed
<1>4. msg # NoCloud /\ mpc \notin {"main", "init"}
  BY <1>1, <1>2 DEF Control
<1>5. msg \in Clouds /\ content[msg] \in Cloud
  BY <1>3, <1>4
<1>6. /\ \A i \in DOMAIN queue : queue[i] # msg
      /\ hpc # "split" => msg # point_cloud
  BY <1>1, <1>4, Zenon DEF Owned
<1>7. msg \notin Filled /\ Filled' = Filled /\ Sent = {msg} /\ Sent' = {}
  BY <1>2, <1>4, <1>6 DEF Filled, Sent
<1>8. msg \in Live /\ Live' = Live \ {msg}
  BY <1>2, <1>6, <1>7 DEF Live
<1>9. SendByRows \in BOOLEAN /\ (SendByRows => ~setup.dense)
  BY DEF SendByRows
<1>10. ~setup.dense => content[msg].height = Height
                       /\ Len(content[msg].points) = content[msg].width * Height
  BY <1>1, <1>7, <1>8 DEF Sized
<1>11. m \in Message /\ \A n : n \in Numbers(m.data) <=> n \in In(msg)
  <2> DEFINE b == SendByRows
  <2>1. b \in BOOLEAN /\ (b => content[msg].height = Height
                              /\ Len(content[msg].points) = content[msg].width * Height)
    BY <1>9, <1>10, Zenon
  <2> HIDE DEF b
  <2>2. /\ ToRosMsg(content[msg], b) \in Message
        /\ \A n : n \in Numbers(ToRosMsg(content[msg], b).data) <=> n \in Numbers(content[msg].points)
    BY <1>5, <2>1, MessageOfCloud, Zenon
  <2> QED BY <2>2, Zenon DEF b, In
<1> HIDE DEF m
<1>12. /\ published' \in Seq(Message)
       /\ DOMAIN published' = 1..(Len(published) + 1) /\ DOMAIN published = 1..Len(published)
       /\ published'[Len(published) + 1] = m /\ Len(published) \in Nat
       /\ \A i \in DOMAIN published : published'[i] = published[i]
  BY <1>2, <1>3, <1>11
<1>13. \A n : n \in Pub' <=> n \in Pub \/ n \in In(msg)
  <2> DEFINE N(i) == Numbers(published'[i].data)
  <2>1. Pub' = UNION {N(i) : i \in 1..(Len(published) + 1)}
    BY <1>12, Zenon DEF Pub, Numbers
  <2>2. Pub = UNION {N(i) : i \in 1..Len(published)}
    BY <1>12 DEF Pub
  <2>3. \A n : n \in N(Len(published) + 1) <=> n \in In(msg)
    BY <1>11, <1>12, Zenon
  <2>4. \A i : i \in 1..(Len(published) + 1) <=> i \in 1..Len(published) \/ i = Len(published) + 1
    BY <1>12
  <2> HIDE DEF N
  <2> QED BY <2>1, <2>2, <2>3, <2>4
<1>14. \A c \in Clouds : In(c)' = In(c)
  BY <1>2, Zenon DEF In
<1>15. Typed'
  BY <1>1, <1>2, <1>12, Zenon DEF Typed
<1>16. Control'
  <2>1. ppc' \in {"send", "recycle"} <=> msg' # NoCloud
    BY <1>2, <1>4
  <2> QED BY <1>1, <1>2, <1>4, <2>1, Zenon DEF Control
<1>17. ASSUME ~overlapped PROVE Counted'
  <2>1. Pub' \subseteq DOMAIN arrivals
    BY <1>1, <1>5, <1>13, <1>17 DEF Counted
  <2> QED BY <1>1, <1>17, <1>2, <1>14, <2>1, ZenonT(40) DEF Counted, Known, Once
<1>18. Owned'
  BY <1>1, <1>2, Zenon DEF Owned
<1>19. Sized'
  BY <1>1, <1>2, <1>7, <1>8 DEF Sized
<1>20. ASSUME ~overlapped PROVE Points'
  <2> DEFINE G == Held'
  <2>1. G[msg] = {} /\ Held[msg] = In(msg) /\ \A c \in Clouds : c # msg => G[c] = Held[c]
    BY <1>5, <1>8, <1>14 DEF Held
  <2>2. Placed(MsopIn(arrivals), Nums(pending), Nums(pkts), Nums(batch), lost, Pub, Held)
    BY <1>1, <1>20, Zenon DEF Points
  <2>3. \A n : n \in Pub' <=> n \in Pub \/ n \in Held[msg]
    BY <1>13, <2>1
  <2> HIDE DEF G
  <2>4. Placed(MsopIn(arrivals), Nums(pending), Nums(pkts), Nums(batch), lost, Pub', G)
    BY <1>5, <2>1, <2>2, <2>3, PlacedPublished
  <2> QED BY <1>2, <2>4, Zenon DEF Points, G
<1>21. Assembled' /\ WholeDatagrams'
  BY <1>1, <1>2, Zenon DEF Assembled, WholeDatagrams
<1> QED BY <1>2, <1>15, <1>16, <1>17, <1>18, <1>19, <1>20, <1>21, Zenon DEF SourceInv, Accounted

LEMMA PublishRecycleStep ==
  ASSUME SourceInv, PublishRecycle
  PROVE  SourceInv'
<1>1. /\ Typed /\ Control /\ Owned /\ Sized /\ Assembled /\ WholeDatagrams
      /\ (~overlapped => Counted /\ Points)
  BY Zenon DEF SourceInv, Accounted
<1>2. /\ overlapped' = overlapped /\ real_count' = real_count
      /\ setup' = setup /\ arrivals' = arrivals /\ jumbo' = jumbo /\ pos' = pos /\ pending' = pending
      /\ pkts' = pkts /\ batch' = batch /\ cloud_seq' = cloud_seq /\ published' = published
      /\ queue' = queue /\ mpc' = mpc /\ rpc' = rpc /\ hpc' = hpc /\ content' = content
      /\ socks' = socks /\ events' = events /\ lost' = lost /\ point_cloud' = point_cloud
      /\ ppc = "recycle" /\ ppc' = "loop" /\ msg' = NoCloud
  BY Zenon DEF PublishRecycle, pubRest, inVars, pcVars
<1>3. free' = free \/ (Len(free) < CloudCap /\ free' = Append(free, msg))
  BY Zenon DEF PublishRecycle
<1>4. queue \in Seq(Clouds) /\ free \in Seq(Clouds) /\ msg \in Clouds \cup {NoCloud}
  BY <1>1, Zenon DEF Typed
<1>5. msg # NoCloud /\ mpc \notin {"main", "init"}
  BY <1>1, <1>2 DEF Control
<1>6. Filled' = Filled /\ Sent = {} /\ Sent' = {}
  BY <1>2 DEF Filled, Sent
<1>7. Live' = Live
  BY <1>2, <1>6, Zenon DEF Live
<1>8. Held' = Held /\ Pub' = Pub /\ \A c \in Clouds : In(c)' = In(c)
  BY <1>2, <1>7, Zenon DEF Held, In, Pub
<1>9. /\ Len(queue) <= CloudCap /\ Len(free) <= CloudCap
      /\ \A i, j \in DOMAIN queue : queue[i] = queue[j] => i = j
      /\ \A i, j \in DOMAIN free : free[i] = free[j] => i = j
      /\ \A i \in DOMAIN queue : queue[i] # msg /\ \A j \in DOMAIN free : queue[i] # free[j]
      /\ \A j \in DOMAIN free : free[j] # msg
      /\ hpc # "split" =>
           /\ \A i \in DOMAIN queue : queue[i] # point_cloud
           /\ \A j \in DOMAIN free : free[j] # point_cloud
           /\ msg # point_cloud
  BY <1>1, <1>5, Zenon DEF Owned
<1>10. /\ free' \in Seq(Clouds) /\ Len(free') <= CloudCap
       /\ \A i, j \in DOMAIN free' : free'[i] = free'[j] => i = j
       /\ \A i \in DOMAIN free' : free'[i] = msg \/ \E j \in DOMAIN free : free'[i] = free[j]
  <2>1. CASE free' = free
    BY <1>4, <1>9, <2>1
  <2>2. CASE Len(free) < CloudCap /\ free' = Append(free, msg)
    <3>1. msg \in Clouds BY <1>4, <1>5
    <3>2. /\ free' \in Seq(Clouds) /\ Len(free') = Len(free) + 1
          /\ DOMAIN free' = 1..(Len(free) + 1) /\ DOMAIN free = 1..Len(free) /\ Len(free) \in Nat
          /\ free'[Len(free) + 1] = msg /\ \A i \in DOMAIN free : free'[i] = free[i]
      BY <1>4, <2>2, <3>1
    <3>3. \A i \in DOMAIN free' : i \in DOMAIN free \/ i = Len(free) + 1
      BY <3>2
    <3>4. \A i \in DOMAIN free' : free'[i] = msg \/ \E j \in DOMAIN free : free'[i] = free[j]
      BY <3>2, <3>3
    <3>5. \A j \in DOMAIN free : free[j] # msg
      BY <1>9
    <3>6. \A i, j \in DOMAIN free' : free'[i] = free'[j] => i = j
      <4>1. \A i, j \in DOMAIN free : free[i] = free[j] => i = j
        BY <1>9
      <4> QED BY <3>2, <3>3, <3>5, <4>1
    <3>7. CloudCap \in Nat BY SourceAssumption
    <3>8. Len(free') <= CloudCap
      BY <2>2, <3>2, <3>7
    <3> QED BY <3>2, <3>4, <3>6, <3>8
  <2> QED BY <1>3, <2>1, <2>2
<1>11. Typed'
  BY <1>1, <1>2, <1>10 DEF Typed
<1>12. Control'
  <2>1. ppc' \in {"send", "recycle"} <=> msg' # NoCloud
    BY <1>2
  <2> QED BY <1>1, <1>2, <1>5, <2>1, Zenon DEF Control
<1>13. ASSUME ~overlapped PROVE Counted'
  BY <1>1, <1>2, <1>8, <1>13, ZenonT(40) DEF Counted, Known, Once
<1>14. Owned'
  <2>1. \A i \in DOMAIN queue : queue[i] # NoCloud
    BY <1>4, SourceAssumption
  <2>2. \A j \in DOMAIN free' : free'[j] # NoCloud
    BY <1>10, SourceAssumption
  <2>3. \A i \in DOMAIN queue : \A j \in DOMAIN free' : queue[i] # free'[j]
    BY <1>9, <1>10
  <2>4. hpc # "split" => \A j \in DOMAIN free' : free'[j] # point_cloud
    BY <1>9, <1>10
  <2> QED BY <1>2, <1>9, <1>10, <2>1, <2>2, <2>3, <2>4, Zenon DEF Owned
<1>15. Sized'
  BY <1>1, <1>2, <1>6, <1>7, Zenon DEF Sized
<1>16. ASSUME ~overlapped PROVE Points'
  BY <1>1, <1>2, <1>8, <1>16, Zenon DEF Points
<1>17. Assembled' /\ WholeDatagrams'
  BY <1>1, <1>2, Zenon DEF Assembled, WholeDatagrams
<1> QED BY <1>2, <1>11, <1>12, <1>13, <1>14, <1>15, <1>16, <1>17, Zenon DEF SourceInv, Accounted

-----------------------------------------------------------------------------
(* The main thread, when it sets up the source and when it stops it *)

LEMMA InitSourceStep ==
  ASSUME SourceInv, InitSource
  PROVE  SourceInv'
<1>1. /\ Typed /\ Control /\ Owned /\ Sized /\ Assembled /\ WholeDatagrams
      /\ (~overlapped => Counted /\ Points)
  BY Zenon DEF SourceInv, Accounted
<1> DEFINE g == CHOOSE c \in Clouds : TRUE
<1>2. /\ overlapped' = overlapped /\ real_count' = real_count
      /\ setup' = setup /\ arrivals' = arrivals /\ jumbo' = jumbo /\ pos' = pos /\ pending' = pending
      /\ free' = free /\ pkts' = pkts /\ batch' = batch /\ cloud_seq' = cloud_seq
      /\ queue' = queue /\ rpc' = rpc /\ hpc' = hpc /\ content' = content
      /\ socks' = socks /\ events' = events /\ lost' = lost /\ published' = published
      /\ msg' = msg /\ mpc = "init" /\ ppc' = "loop" /\ point_cloud' = g
  BY Zenon DEF InitSource
<1>3. mpc' = "created" \/ mpc' = "exited"
  BY Zenon DEF InitSource
<1>4. g \in Clouds
  <2>1. Clouds # {}
    <3>1. IsFiniteSet(Clouds) /\ CloudCap \in Nat /\ Cardinality(Clouds) >= CloudCap * 2 + 3
      BY SourceAssumption
    <3>2. Cardinality({}) = 0
      BY FS_EmptySet
    <3> QED BY <3>1, <3>2
  <2> QED BY <2>1
<1> HIDE DEF g
<1>5. g # NoCloud
  BY <1>4, SourceAssumption
<1>6. /\ ppc = "off" /\ point_cloud = NoCloud /\ queue = <<>> /\ free = <<>> /\ hpc = "off"
      /\ rpc = "off" /\ \A c \in Clouds : content[c].points = <<>>
  BY <1>1, <1>2, Zenon DEF Control
<1>7. msg = NoCloud
  BY <1>1, <1>6 DEF Control
<1>8. \A c \in Clouds : In(c) = {} /\ In(c)' = {}
  BY <1>2, <1>6, NumbersOfNone, Zenon DEF In
<1>9. Live' = {g} /\ Filled' = {g} /\ Live = {}
  BY <1>2, <1>5, <1>6 DEF Live, Filled, Sent
<1>10. Held' = Held /\ Pub' = Pub
  <2>1. \A c \in Clouds : Held'[c] = Held[c]
    BY <1>8, <1>9 DEF Held
  <2>2. Held' = Held
    BY <2>1, Zenon DEF Held
  <2> QED BY <1>2, <2>2, Zenon DEF Pub
<1>11. Typed'
  <2>1. point_cloud' \in Clouds \cup {NoCloud} BY <1>2, <1>4
  <2> QED BY <1>1, <1>2, <2>1, Zenon DEF Typed
<1>12. Control'
  <2>1. /\ mpc' \notin {"main", "init"} /\ ppc' \notin {"send", "recycle"}
        /\ rpc' = "off" /\ hpc' = "off"
    BY <1>2, <1>3, <1>6
  <2> QED BY <1>1, <1>2, <1>5, <1>6, <1>7, <2>1, Zenon DEF Control
<1>13. ASSUME ~overlapped PROVE Counted'
  <2>1. \A c \in Clouds : In(c)' = In(c) BY <1>8
  <2> QED BY <1>1, <1>13, <1>2, <1>10, <2>1, ZenonT(40) DEF Counted, Known, Once
<1>14. Owned'
  <2>1. DOMAIN queue = {} /\ DOMAIN free = {}
    BY <1>6
  <2> QED BY <1>1, <1>2, <1>7, <2>1 DEF Owned
<1>15. Sized'
  <2>1. Len(content'[g].points) = 0 * Height /\ 0 \in Nat
    BY <1>2, <1>4, <1>6, SourceAssumption
  <2> QED BY <1>9, <2>1 DEF Sized
<1>16. ASSUME ~overlapped PROVE Points'
  BY <1>1, <1>2, <1>10, <1>16, Zenon DEF Points
<1>17. Assembled' /\ WholeDatagrams'
  BY <1>1, <1>2, Zenon DEF Assembled, WholeDatagrams
<1> QED BY <1>2, <1>11, <1>12, <1>13, <1>14, <1>15, <1>16, <1>17, Zenon DEF SourceInv, Accounted

LEMMA JoinHandleStep ==
  ASSUME SourceInv, JoinHandle
  PROVE  SourceInv'
<1>1. /\ Typed /\ Control /\ Owned /\ Sized /\ Assembled /\ WholeDatagrams
      /\ (~overlapped => Counted /\ Points)
  BY Zenon DEF SourceInv, Accounted
<1> DEFINE pc == point_cloud
<1>2. /\ overlapped' = overlapped /\ real_count' = real_count
      /\ setup' = setup /\ arrivals' = arrivals /\ jumbo' = jumbo /\ pos' = pos /\ pending' = pending
      /\ free' = free /\ pkts' = pkts /\ batch' = batch /\ cloud_seq' = cloud_seq
      /\ queue' = queue /\ rpc' = rpc /\ hpc' = hpc /\ point_cloud' = point_cloud
      /\ socks' = socks /\ events' = events /\ published' = published
      /\ msg' = msg /\ ppc' = ppc /\ mpc = "joinHandle" /\ mpc' = "joinProcess" /\ hpc = "off"
      /\ lost' = lost \cup In(pc) /\ content' = [content EXCEPT ![pc].points = <<>>]
  BY Zenon DEF JoinHandle, inVars, pcVars, pubVars
<1>3. pc \in Clouds /\ pc # NoCloud
  BY <1>1, <1>2 DEF Typed, Control
<1>4. /\ content' \in [Clouds -> Cloud] /\ content'[pc].points = <<>>
      /\ \A c \in Clouds : c # pc => content'[c] = content[c]
      /\ \A c \in Clouds : IF c = pc THEN In(c)' = {} ELSE In(c)' = In(c)
  BY <1>2, <1>3, Emptied, Zenon
<1>5. Filled = {pc} /\ Filled' = {pc} /\ Live' = Live /\ pc \in Live
  BY <1>2, <1>3 DEF Live, Filled, Sent
<1>6. Pub' = Pub
  BY <1>2, Zenon DEF Pub
<1>7. Typed'
  BY <1>1, <1>2, <1>4, Zenon DEF Typed
<1>8. Control'
  BY <1>1, <1>2, <1>3 DEF Control
<1>9. ASSUME ~overlapped PROVE Counted'
  <2>1. \A c \in Clouds : In(c)' \subseteq DOMAIN arrivals
    BY <1>1, <1>4, <1>9 DEF Counted
  <2>2. lost' \subseteq DOMAIN arrivals
    BY <1>1, <1>2, <1>3, <1>9 DEF Counted
  <2> QED BY <1>1, <1>9, <1>2, <1>6, <2>1, <2>2, ZenonT(40) DEF Counted, Known, Once
<1>10. Owned'
  BY <1>1, <1>2, Zenon DEF Owned
<1>11. Sized'
  <2>1. SUFFICES ASSUME ~setup.dense PROVE Sized'
    BY <1>2, Zenon DEF Sized
  <2>2. /\ \A c \in Live : \E w \in Nat : Len(content[c].points) = w * Height
        /\ \A c \in Live \ Filled : /\ content[c].height = Height
                                    /\ Len(content[c].points) = content[c].width * Height
    BY <1>1, <2>1, Zenon DEF Sized
  <2>3. \A c \in Live : c \in Clouds
    BY LiveClouds
  <2>4. Len(content'[pc].points) = 0 * Height /\ 0 \in Nat
    BY <1>4, SourceAssumption
  <2>5. \A c \in Live : \E w \in Nat : Len(content'[c].points) = w * Height
    BY <1>4, <2>2, <2>3, <2>4, Zenon
  <2>6. \A c \in Live \ Filled : /\ content'[c].height = Height
                                 /\ Len(content'[c].points) = content'[c].width * Height
    BY <1>4, <1>5, <2>2, <2>3
  <2> QED BY <1>5, <2>5, <2>6, Zenon DEF Sized
<1>12. ASSUME ~overlapped PROVE Points'
  <2> DEFINE G == Held'
  <2>1. G[pc] = {} /\ Held[pc] = In(pc) /\ \A c \in Clouds : c # pc => G[c] = Held[c]
    BY <1>3, <1>4, <1>5 DEF Held
  <2>2. Placed(MsopIn(arrivals), Nums(pending), Nums(pkts), Nums(batch), lost, Pub, Held)
    BY <1>1, <1>12, Zenon DEF Points
  <2>3. \A n : n \in lost' <=> n \in lost \/ n \in Held[pc]
    BY <1>2, <2>1
  <2> HIDE DEF G
  <2>4. Placed(MsopIn(arrivals), Nums(pending), Nums(pkts), Nums(batch), lost', Pub, G)
    BY <1>3, <2>1, <2>2, <2>3, PlacedDropped
  <2> QED BY <1>2, <1>6, <2>4, Zenon DEF Points, G
<1>13. Assembled' /\ WholeDatagrams'
  BY <1>1, <1>2, Zenon DEF Assembled, WholeDatagrams
<1> QED BY <1>2, <1>7, <1>8, <1>9, <1>10, <1>11, <1>12, <1>13, Zenon DEF SourceInv, Accounted

-----------------------------------------------------------------------------
(* The theorems *)

LEMMA InitInv ==
  ASSUME SourceInit
  PROVE  SourceInv
<1>1. /\ setup \in Setups /\ mpc = "main" /\ pos = 0 /\ jumbo = NewJumbo
      /\ socks = [s \in {"msop", "difop", "imu"} |-> 0] /\ events = <<>>
      /\ rpc = "off" /\ pending = <<>> /\ pkts = <<>> /\ overlapped = FALSE /\ real_count = 0
      /\ hpc = "off" /\ batch = <<>> /\ point_cloud = NoCloud
      /\ content = [c \in Clouds |-> Empty] /\ cloud_seq = 0
      /\ queue = <<>> /\ free = <<>> /\ ppc = "off" /\ msg = NoCloud
      /\ published = <<>> /\ arrivals = <<>> /\ lost = {}
  BY Zenon DEF SourceInit
<1>2. \A c \in Clouds : content[c].points = <<>> /\ In(c) = {}
  <2>1. \A c \in Clouds : content[c] = Empty BY <1>1
  <2>2. Empty.points = <<>> BY DEF Empty
  <2> QED BY <2>1, <2>2, NumbersOfNone, Zenon DEF In
<1>3. Live = {} /\ Pub = {}
  BY <1>1 DEF Live, Filled, Sent, Pub
<1>4. Typed
  <2>1. Empty \in Cloud
    <3>1. <<>> \in Seq(Nat \X Nat) OBVIOUS
    <3> QED BY <3>1 DEF Empty, Cloud
  <2>2. jumbo \in [ip_id : Nat, buf_off : Nat, buf : Seq(Piece)]
    BY <1>1 DEF NewJumbo
  <2>3. content \in [Clouds -> Cloud]
    BY <1>1, <2>1
  <2>4. /\ events \in Seq({"msop", "difop", "imu"}) /\ arrivals \in Seq(Packet)
        /\ pending \in Seq(Packet) /\ pkts \in Seq(Packet) /\ batch \in Seq(Packet)
        /\ queue \in Seq(Clouds) /\ free \in Seq(Clouds) /\ published \in Seq(Message)
    BY <1>1
  <2>5. socks \in [{"msop", "difop", "imu"} -> Nat] /\ pos \in Nat /\ cloud_seq \in Nat
    BY <1>1
  <2> QED BY <1>1, <2>2, <2>3, <2>4, <2>5 DEF Typed
<1>5. Control
  BY <1>1, <1>2 DEF Control
<1>6. Counted
  BY <1>1, <1>2, <1>3 DEF Counted, Known, Once
<1>7. Owned
  <2>1. Len(queue) = 0 /\ Len(free) = 0 /\ CloudCap \in Nat
    BY <1>1, SourceAssumption
  <2> QED BY <1>1, <2>1 DEF Owned
<1>8. Sized
  BY <1>3 DEF Sized
<1>9. Points
  <2>1. Nums(<<>>) = {} /\ MsopIn(<<>>) = {}
    BY DEF Nums, MsopIn, Range
  <2>2. \A c \in Clouds : Held[c] = {}
    BY <1>3 DEF Held
  <2> QED BY <1>1, <1>3, <2>1, <2>2 DEF Points, Placed, Apart, Covered
<1>10. Assembled
  BY <1>1 DEF Assembled, StartOf, NewJumbo
<1>11. WholeDatagrams
  BY <1>1 DEF WholeDatagrams, Range
<1> QED BY <1>4, <1>5, <1>6, <1>7, <1>8, <1>9, <1>10, <1>11 DEF SourceInv, Accounted

LEMMA NextInv ==
  ASSUME SourceInv, [SourceNext]_vars
  PROVE  SourceInv'
<1>1. CASE Main
  BY <1>1, MainQuiet, InitSourceStep, JoinHandleStep, Zenon DEF Main
<1>2. CASE Recv
  BY <1>2, RecvQuiet, RecvPcapStep, RecvPcapJumboStep, RecvFromStep, RecvPutStep,
     Zenon DEF Recv
<1>3. CASE Feed \/ Arrive
  BY <1>3, FeedStep, RecvQuiet, Zenon
<1>4. CASE Handle
  BY <1>4, ThreadsQuiet, HandlePollStep, HandleBatchStep, HandleStraysStep, HandleNullStep,
     HandleSplitStep, HandleNewCloudStep, HandlePacketStep, Zenon DEF Handle
<1>5. CASE Publish
  BY <1>5, ThreadsQuiet, PublishTakeStep, PublishSendStep, PublishRecycleStep, Zenon DEF Publish
<1>6. CASE Stopped \/ UNCHANGED vars
  BY <1>6, Unchanged, Zenon DEF Stopped
<1> QED BY <1>1, <1>2, <1>3, <1>4, <1>5, <1>6, Zenon DEF SourceNext

\* The invariant holds in every state of the node: what the threads hold, that clouds have
\* one owner and all rings, and, unless a batch was popped while the queue was cleared, that
\* every packet has its number and the points of one are in one place.
THEOREM SourceInvariance == SourceSpec => []SourceInv
  BY InitInv, NextInv, PTL DEF SourceSpec

\* A datagram that comes out of the fragments of a recording is one the lidar sent,
\* whatever fragments are missing, early or of another sender.
THEOREM DatagramsWhole == SourceSpec => []WholeDatagrams
<1>1. SourceInv => WholeDatagrams
  BY Zenon DEF SourceInv
<1> QED BY <1>1, SourceInvariance, PTL

\* A cloud is with the queues, the publishing thread and the decoder in turn, never
\* with two of them, so that no thread writes a cloud another one reads.
THEOREM CloudsHaveOneOwner == SourceSpec => []Owned
<1>1. SourceInv => Owned
  BY Zenon DEF SourceInv
<1> QED BY <1>1, SourceInvariance, PTL

\* Eight sets without a common element, as a tuple.
LEMMA EightApart ==
  ASSUME NEW a, NEW b, NEW c, NEW d, NEW e, NEW f, NEW g, NEW h,
         \A n \in a : n \notin b /\ n \notin c /\ n \notin d /\ n \notin e /\ n \notin f /\ n \notin g /\ n \notin h,
         \A n \in b : n \notin c /\ n \notin d /\ n \notin e /\ n \notin f /\ n \notin g /\ n \notin h,
         \A n \in c : n \notin d /\ n \notin e /\ n \notin f /\ n \notin g /\ n \notin h,
         \A n \in d : n \notin e /\ n \notin f /\ n \notin g /\ n \notin h,
         \A n \in e : n \notin f /\ n \notin g /\ n \notin h,
         \A n \in f : n \notin g /\ n \notin h,
         \A n \in g : n \notin h
  PROVE  LET p == <<a, b, c, d, e, f, g, h>>
         IN \A i, j \in DOMAIN p : i # j => p[i] \cap p[j] = {}
<1> DEFINE p == <<a, b, c, d, e, f, g, h>>
<1>1. /\ DOMAIN p = 1..8 /\ p[1] = a /\ p[2] = b /\ p[3] = c /\ p[4] = d
      /\ p[5] = e /\ p[6] = f /\ p[7] = g /\ p[8] = h
  OBVIOUS
<1> HIDE DEF p
<1>2. \A i, j \in 1..8 : i < j => \A n \in p[i] : n \notin p[j]
  <2>1. \A j \in 2..8 : \A n \in p[1] : n \notin p[j] BY <1>1
  <2>2. \A j \in 3..8 : \A n \in p[2] : n \notin p[j] BY <1>1
  <2>3. \A j \in 4..8 : \A n \in p[3] : n \notin p[j] BY <1>1
  <2>4. \A j \in 5..8 : \A n \in p[4] : n \notin p[j] BY <1>1
  <2>5. \A j \in 6..8 : \A n \in p[5] : n \notin p[j] BY <1>1
  <2>6. \A j \in 7..8 : \A n \in p[6] : n \notin p[j] BY <1>1
  <2>7. \A j \in 8..8 : \A n \in p[7] : n \notin p[j] BY <1>1
  <2> QED BY <2>1, <2>2, <2>3, <2>4, <2>5, <2>6, <2>7
<1>3. \A i, j \in 1..8 : i # j => i < j \/ j < i
  OBVIOUS
<1>4. \A i, j \in 1..8 : i # j => p[i] \cap p[j] = {}
  BY <1>2, <1>3
<1> QED BY <1>1, <1>4 DEF p

LEMMA InvPlaces ==
  ASSUME SourceInv
  PROVE  PointsInOnePlace
<1> SUFFICES ASSUME ~overlapped PROVE PointsInOnePlace
  BY Zenon DEF PointsInOnePlace
<1>1. Counted /\ Owned /\ Control /\ Placed(MsopIn(arrivals), Nums(pending), Nums(pkts), Nums(batch), lost, Pub, Held)
  BY Zenon DEF SourceInv, Accounted, Points
<1> DEFINE e == UNION {In(queue[i]) : i \in DOMAIN queue}
           f == IF ppc = "send" THEN In(msg) ELSE {}
           g == IF hpc = "split" \/ point_cloud = NoCloud THEN {} ELSE In(point_cloud)
           Q == {queue[i] : i \in DOMAIN queue}
<1>2. \A s : MsopIn(s) \subseteq Nums(s)
  BY DEF MsopIn, Nums, Range
<1>3. \A s : Known(s) => \A n \in Nums(s) : n \in MsopIn(arrivals) => n \in MsopIn(s)
  <2>1. SUFFICES ASSUME NEW s, Known(s), NEW i \in DOMAIN s, s[i].n \in MsopIn(arrivals)
                 PROVE  s[i].n \in MsopIn(s)
    BY DEF Nums
  <2>2. s[i] = arrivals[s[i].n]
    BY <2>1 DEF Known
  <2>3. PICK j \in DOMAIN arrivals : arrivals[j].kind = "msop" /\ arrivals[j].n = s[i].n
    BY <2>1 DEF MsopIn, Range
  <2>4. arrivals[j].n = j
    BY <1>1 DEF Counted
  <2>5. s[i].kind = "msop"
    BY <2>2, <2>3, <2>4
  <2> QED BY <2>5 DEF MsopIn, Range
<1>4. Live \subseteq Clouds /\ Q \subseteq Live
  BY LiveClouds DEF Live
<1>5. /\ \A n : n \in e <=> \E c \in Q : n \in In(c)
      /\ \A c \in Q : c \in Clouds /\ Held[c] = In(c)
  BY <1>4 DEF Held
<1>6. /\ \A n : n \in f <=> \E c \in Sent : n \in In(c)
      /\ \A c \in Sent : c \in Clouds /\ Held[c] = In(c)
  BY <1>4 DEF Sent, Live, Held
<1>7. /\ \A n : n \in g <=> \E c \in Filled : n \in In(c)
      /\ \A c \in Filled : c \in Clouds /\ Held[c] = In(c)
  BY <1>4 DEF Filled, Live, Held
<1>8. /\ \A c \in Q : c \notin Sent /\ c \notin Filled
      /\ \A c \in Sent : c \notin Filled
  <2>1. \A c \in Q : c \notin Sent /\ c \notin Filled
    BY <1>1 DEF Owned, Sent, Filled
  <2>2. ppc = "send" => msg # NoCloud
    BY <1>1 DEF Control
  <2>3. \A c \in Sent : c \notin Filled
    BY <1>1, <2>2 DEF Owned, Sent, Filled
  <2> QED BY <2>1, <2>3
<1>9. Pub = UNION {Numbers(published[k].data) : k \in DOMAIN published}
  BY DEF Pub
<1> DEFINE a == MsopIn(pending)
           b == MsopIn(pkts)
           d == MsopIn(batch)
<1>10. Places = <<a, b, d, lost, e, f, g, Pub>>
  BY <1>9, Zenon DEF Places
<1>11. a \subseteq Nums(pending) /\ b \subseteq Nums(pkts) /\ d \subseteq Nums(batch)
  BY <1>2
<1>12. \A n \in MsopIn(arrivals) :
         /\ n \in Nums(pending) => n \in a
         /\ n \in Nums(pkts) => n \in b
         /\ n \in Nums(batch) => n \in d
  BY <1>1, <1>3 DEF Counted
<1> HIDE DEF a, b, d, e, f, g, Q
<1>13. Apart(Nums(pending), Nums(pkts), Nums(batch), lost, Pub, Held)
  BY <1>1 DEF Placed
<1>14. \A i, j \in DOMAIN Places : i # j => Places[i] \cap Places[j] = {}
  <2>1. /\ \A n \in a : n \notin b /\ n \notin d /\ n \notin lost /\ n \notin Pub
        /\ \A n \in b : n \notin d /\ n \notin lost /\ n \notin Pub
        /\ \A n \in d : n \notin lost /\ n \notin Pub
        /\ \A n \in lost : n \notin Pub
    BY <1>11, <1>13 DEF Apart
  <2>2. \A c \in Clouds : \A n \in Held[c] :
          n \notin a /\ n \notin b /\ n \notin d /\ n \notin lost /\ n \notin Pub
    BY <1>11, <1>13 DEF Apart
  <2>3. \A c, k \in Clouds : c # k => \A n \in Held[c] : n \notin Held[k]
    BY <1>13 DEF Apart
  <2>4. \A n : n \in e \/ n \in f \/ n \in g =>
          n \notin a /\ n \notin b /\ n \notin d /\ n \notin lost /\ n \notin Pub
    BY <1>5, <1>6, <1>7, <2>2
  <2>5. \A n \in e : n \notin f /\ n \notin g
    BY <1>5, <1>6, <1>7, <1>8, <2>3
  <2>6. \A n \in f : n \notin g
    BY <1>6, <1>7, <1>8, <2>3
  <2>7. LET p == <<a, b, d, lost, e, f, g, Pub>>
        IN \A i, j \in DOMAIN p : i # j => p[i] \cap p[j] = {}
    BY <2>1, <2>4, <2>5, <2>6, EightApart
  <2> QED BY <1>10, <2>7
<1>15. MsopIn(arrivals) \subseteq UNION Range(Places)
  <2> DEFINE p == <<a, b, d, lost, e, f, g, Pub>>
  <2>1. /\ DOMAIN p = 1..8 /\ p[1] = a /\ p[2] = b /\ p[3] = d /\ p[4] = lost
        /\ p[5] = e /\ p[6] = f /\ p[7] = g /\ p[8] = Pub
    OBVIOUS
  <2> HIDE DEF p
  <2>2. \A n : n \in a \/ n \in b \/ n \in d \/ n \in lost \/ n \in e \/ n \in f \/ n \in g \/ n \in Pub
               => n \in UNION Range(p)
    BY <2>1 DEF Range
  <2>3. \A n \in MsopIn(arrivals) :
          \/ n \in a \/ n \in b \/ n \in d \/ n \in lost \/ n \in Pub \/ \E c \in Clouds : n \in Held[c]
    BY <1>1, <1>12 DEF Placed, Covered
  <2>4. \A c \in Clouds : \A n \in Held[c] : n \in In(c) /\ c \in Live
    BY DEF Held
  <2>5. \A c \in Live : c \in Q \/ c \in Sent \/ c \in Filled
    BY DEF Live, Q
  <2>6. \A c \in Clouds : \A n \in Held[c] : n \in e \/ n \in f \/ n \in g
    BY <1>5, <1>6, <1>7, <2>4, <2>5
  <2>7. MsopIn(arrivals) \subseteq UNION Range(p)
    BY <2>2, <2>3, <2>6
  <2> QED BY <1>10, <2>7 DEF p
<1> QED BY <1>14, <1>15 DEF PointsInOnePlace

\* The points of a packet are in one place, from the queue of packets to the topic:
\* only a full queue and stop() drop any, unless a batch was popped while the queue was
\* cleared.
THEOREM PointsStayInOnePlace == SourceSpec => []PointsInOnePlace
  BY InvPlaces, SourceInvariance, PTL

-----------------------------------------------------------------------------
(* The points of a cloud, as the packets with numbers ns left them.  A place in *)
(* it is of the q-th packet and the r-th ring, both counted from 0.             *)

RingCount == IF setup.dense THEN Height - 1 ELSE Height

LEMMA RingCountType ==
  /\ RingCount \in Nat \ {0} /\ Rings = 1..RingCount
  /\ ~setup.dense => RingCount = Height
  BY SourceAssumption DEF RingCount, Rings

Increases(ns) == \A i, j \in DOMAIN ns : i < j => ns[i] < ns[j]

MadeOf(s, ns) ==
  /\ ns \in Seq(Nat) /\ Increases(ns) /\ Len(s) = Len(ns) * RingCount
  /\ \A q \in 0..(Len(ns) - 1), r \in 0..(RingCount - 1) : s[q * RingCount + r + 1] = <<ns[q + 1], r + 1>>

Regular(s) == \E ns : MadeOf(s, ns)

\* What can be said of products and quotients without knowing them.
LEMMA Products ==
  /\ \A a \in Nat, b \in Nat, h \in Nat \ {0} : a * h = b * h => a = b
  /\ \A a \in Nat, b \in Nat, h \in Nat \ {0} : a * h < b * h => a < b
  /\ \A a \in Nat, h \in Nat : (a + 1) * h = a * h + h
  /\ \A a \in Nat, b \in Nat : a * b \in Nat /\ a * b = b * a
<1>1. \A a \in Nat, b \in Nat, h \in Nat \ {0} : a * h = b * h => a = b
  BY SMTT(20)
<1>2. \A a \in Nat, b \in Nat, h \in Nat \ {0} : a * h < b * h => a < b
  BY SMTT(20)
<1>3. \A a \in Nat, h \in Nat : (a + 1) * h = a * h + h
  BY SMTT(20)
<1>4. \A a \in Nat, b \in Nat : a * b \in Nat /\ a * b = b * a
  BY SMTT(20)
<1> QED BY <1>1, <1>2, <1>3, <1>4

\* Every place of a table with w columns and h rows, k-th of all, is in one column
\* and one row.
LEMMA Cell ==
  ASSUME NEW w \in Nat, NEW h \in Nat \ {0}, NEW k \in 1..(w * h)
  PROVE  \E q \in 0..(w - 1), r \in 0..(h - 1) :
           k = q * h + r + 1 /\ (k - 1) \div h = q /\ (k - 1) % h = r
<1>1. w * h \in Nat /\ k - 1 \in Nat /\ k - 1 < w * h
  BY Products
<1> DEFINE q == (k - 1) \div h
           r == (k - 1) % h
<1>2. r \in 0..(h - 1) /\ q \in Nat /\ k - 1 = q * h + r
  BY <1>1, Division
<1>3. q * h \in Nat BY <1>2, Products
<1> HIDE DEF q, r
<1>4. q < w
  BY <1>1, <1>2, Division
<1>5. k = q * h + r + 1 /\ q \in 0..(w - 1)
  BY <1>2, <1>3, <1>4
<1> QED BY <1>2, <1>5 DEF q, r

\* And each column and row have a place.
LEMMA CellInside ==
  ASSUME NEW w \in Nat, NEW h \in Nat \ {0}, NEW q \in 0..(w - 1), NEW r \in 0..(h - 1)
  PROVE  q * h + r + 1 \in 1..(w * h)
<1>1. q * h + r \in 0..(w * h - 1) BY Division
<1>2. w * h \in Nat BY Products
<1> DEFINE a == q * h
           b == w * h
<1>3. a \in Nat BY Products
<1> HIDE DEF a, b
<1>4. a + r + 1 \in 1..b BY <1>1, <1>2, <1>3 DEF a, b
<1> QED BY <1>4 DEF a, b

LEMMA MadeNone == Regular(<<>>)
<1>1. Len(<<>>) = 0 /\ 0 * RingCount = 0 /\ <<>> \in Seq(Nat) /\ DOMAIN <<>> = {}
  BY RingCountType
<1>2. Increases(<<>>) BY DEF Increases
<1>3. 0..(Len(<<>>) - 1) = {} BY <1>1
<1>4. MadeOf(<<>>, <<>>) BY <1>1, <1>2, <1>3, Zenon DEF MadeOf
<1> QED BY <1>4, Zenon DEF Regular

\* A packet's points follow those of packets before it.
LEMMA MadeMore ==
  ASSUME NEW s \in Seq(Nat \X Nat), Regular(s), NEW p \in Packet, \A n \in Numbers(s) : n < p.n
  PROVE  Regular(s \o PointsOf(p))
<1> DEFINE t == PointsOf(p)
           u == s \o t
           R == RingCount
<1>1. PICK ns : MadeOf(s, ns) BY Zenon DEF Regular
<1> DEFINE w == Len(ns)
           ms == Append(ns, p.n)
<1>2. R \in Nat \ {0} BY RingCountType
<1>3. /\ ns \in Seq(Nat) /\ Increases(ns) /\ Len(s) = w * R
      /\ \A q \in 0..(w - 1), r \in 0..(R - 1) : s[q * R + r + 1] = <<ns[q + 1], r + 1>>
  BY <1>1, Zenon DEF MadeOf
<1>4. p.n \in Nat BY DEF Packet
<1>5. t = [i \in 1..R |-> <<p.n, i>>]
  BY DEF PointsOf, RingCount
<1> HIDE DEF t, R
<1>6. t \in Seq(Nat \X Nat) /\ Len(t) = R /\ \A i \in 1..R : t[i] = <<p.n, i>>
  BY <1>2, <1>4, <1>5
<1>7. /\ ms \in Seq(Nat) /\ Len(ms) = w + 1 /\ w \in Nat
      /\ ms[w + 1] = p.n /\ \A i \in 1..w : ms[i] = ns[i] /\ ns[i] \in Nat
      /\ DOMAIN ns = 1..w /\ DOMAIN ms = 1..(w + 1)
  BY <1>3, <1>4
<1>8. w * R \in Nat /\ (w + 1) * R = w * R + R
  BY <1>2, <1>7, Products
<1>9. \A i \in 1..w : ns[i] < p.n
  <2> SUFFICES ASSUME NEW i \in 1..w PROVE ns[i] < p.n OBVIOUS
  <2>1. i - 1 \in 0..(w - 1) /\ 0 \in 0..(R - 1) /\ (i - 1) + 1 = i
    BY <1>2, <1>7
  <2>2. s[(i - 1) * R + 0 + 1] = <<ns[(i - 1) + 1], 0 + 1>>
    BY <1>3, <2>1, Zenon
  <2>3. (i - 1) * R + 0 + 1 \in 1..(w * R)
    BY <1>2, <1>7, <2>1, CellInside
  <2>4. DOMAIN s = 1..(w * R) BY <1>3
  <2>5. s[(i - 1) * R + 0 + 1][1] = ns[i] BY <2>1, <2>2
  <2>6. ns[i] \in Numbers(s) BY <2>3, <2>4, <2>5, Zenon DEF Numbers
  <2> QED BY <2>6
<1> HIDE DEF w, ms
<1>10. Increases(ms)
  <2> SUFFICES ASSUME NEW i \in 1..(w + 1), NEW j \in 1..(w + 1), i < j PROVE ms[i] < ms[j]
    BY <1>7 DEF Increases
  <2>1. i \in 1..w BY <1>7
  <2>2. CASE j \in 1..w BY <1>3, <1>7, <2>1, <2>2 DEF Increases
  <2>3. CASE j = w + 1 BY <1>7, <1>9, <2>1, <2>3
  <2> QED BY <1>7, <2>2, <2>3
<1>11. /\ Len(u) = (w + 1) * R
       /\ \A i \in 1..(w * R) : u[i] = s[i]
       /\ \A i \in 1..R : u[w * R + i] = t[i]
  <2> DEFINE pt == Nat \X Nat
  <2>1. s \in Seq(pt) /\ t \in Seq(pt) BY <1>6
  <2> HIDE DEF pt
  <2>2. /\ \A i \in DOMAIN s : i \in DOMAIN u /\ u[i] = s[i]
        /\ \A i \in DOMAIN t : Len(s) + i \in DOMAIN u /\ u[Len(s) + i] = t[i]
    BY <2>1, ConcatElements
  <2>3. Len(u) = Len(s) + Len(t) BY <2>1, ConcatProperties, Zenon
  <2>4. DOMAIN s = 1..(w * R) /\ DOMAIN t = 1..R BY <1>3, <1>6, <2>1 DEF w
  <2>5. Len(s) = w * R BY <1>3 DEF w
  <2> QED BY <1>6, <1>8, <2>2, <2>3, <2>4, <2>5, Zenon
<1> HIDE DEF u
<1>12. ASSUME NEW q \in 0..((w + 1) - 1), NEW r \in 0..(R - 1)
       PROVE  u[q * R + r + 1] = <<ms[q + 1], r + 1>>
  <2>1. CASE q \in 0..(w - 1)
    <3>1. q * R + r + 1 \in 1..(w * R) BY <1>2, <1>7, <2>1, CellInside
    <3>2. s[q * R + r + 1] = <<ns[q + 1], r + 1>> BY <1>3, <2>1 DEF w
    <3>3. ms[q + 1] = ns[q + 1]
      <4>1. q + 1 \in 1..w BY <1>7, <2>1
      <4> QED BY <1>7, <4>1
    <3> QED BY <1>11, <3>1, <3>2, <3>3
  <2>2. CASE q = w
    <3>1. r + 1 \in 1..R BY <1>2
    <3>2. u[w * R + (r + 1)] = <<p.n, r + 1>> BY <1>6, <1>11, <3>1
    <3>3. w * R + (r + 1) = w * R + r + 1 BY <1>8, <3>1
    <3> QED BY <1>7, <2>2, <3>2, <3>3, Zenon
  <2> QED BY <1>7, <2>1, <2>2
<1>13. MadeOf(u, ms)
  BY <1>7, <1>10, <1>11, <1>12, Zenon DEF MadeOf, R
<1> QED BY <1>13, Zenon DEF Regular, u, t

\* The header a cloud gets when it leaves the decoder.
Headed(c) ==
  /\ c.points # <<>> /\ c.height = IF setup.dense THEN 1 ELSE Height
  /\ Len(c.points) = c.width * c.height

LEMMA HeaderRight ==
  ASSUME NEW c \in Cloud, NEW seq \in Nat, Regular(c.points), c.points # <<>>
  PROVE  LET d == SetPointCloudHeader(c, seq)
         IN d.points = c.points /\ d.seq = seq /\ Headed(d)
<1> DEFINE h == IF setup.dense THEN 1 ELSE Height
           v == Len(c.points) \div h
           d == SetPointCloudHeader(c, seq)
<1>1. h \in Nat \ {0} BY SourceAssumption
<1>2. Len(c.points) \in Nat BY DEF Cloud
<1>3. \E w \in Nat : Len(c.points) = w * h
  <2>1. CASE setup.dense
    <3>1. h = 1 BY <2>1
    <3>2. Len(c.points) = Len(c.points) * 1 BY <1>2
    <3> QED BY <1>2, <3>1, <3>2, Zenon
  <2>2. CASE ~setup.dense
    <3>1. PICK ns : MadeOf(c.points, ns) BY Zenon DEF Regular
    <3>2. h = RingCount BY <2>2, RingCountType
    <3>3. Len(ns) \in Nat /\ Len(c.points) = Len(ns) * RingCount BY <3>1 DEF MadeOf
    <3> QED BY <3>2, <3>3, Zenon
  <2> QED BY <2>1, <2>2
<1>4. PICK w \in Nat : Len(c.points) = w * h BY <1>3
<1>5. v = w
  <2>1. \A m \in Nat \ {0} : \A x \in Nat : (x * m) \div m = x BY SMTT(20)
  <2> HIDE DEF h
  <2> QED BY <1>1, <1>4, <2>1, Zenon
<1>6. d = [c EXCEPT !.seq = seq, !.height = h, !.width = v]
  BY Zenon DEF SetPointCloudHeader
<1> HIDE DEF h, v
<1>7. d.points = c.points /\ d.seq = seq /\ d.height = h /\ d.width = v
  BY <1>6 DEF Cloud
<1> HIDE DEF d
<1>8. Headed(d)
  <2>1. Len(d.points) = d.width * d.height /\ d.points # <<>>
    BY <1>4, <1>5, <1>7, Zenon
  <2> QED BY <1>7, <2>1, Zenon DEF Headed, h
<1> QED BY <1>7, <1>8 DEF d

\* What is in the columns of ns and the rows of the rings is in order, whether the
\* k-th of all is the next of its column or of its row.
LEMMA ColumnsInOrder ==
  ASSUME NEW d \in Seq(Nat \X Nat), NEW ns, MadeOf(d, ns)
  PROVE  /\ \A i \in DOMAIN d, r \in Rings : \E j \in DOMAIN d : d[j] = <<d[i][1], r>>
         /\ \A i, j \in DOMAIN d : i < j /\ d[i][2] = d[j][2] => d[i][1] < d[j][1]
<1> DEFINE w == Len(ns)
           h == RingCount
<1>1. h \in Nat \ {0} /\ Rings = 1..h BY RingCountType
<1>2. /\ ns \in Seq(Nat) /\ Increases(ns) /\ DOMAIN d = 1..(w * h) /\ w \in Nat
      /\ \A q \in 0..(w - 1), r \in 0..(h - 1) : d[q * h + r + 1] = <<ns[q + 1], r + 1>>
  <2>1. MadeOf(d, ns) OBVIOUS
  <2>2. /\ ns \in Seq(Nat) /\ Increases(ns) /\ Len(d) = w * h
        /\ \A q \in 0..(w - 1), r \in 0..(h - 1) : d[q * h + r + 1] = <<ns[q + 1], r + 1>>
    BY <2>1, Zenon DEF MadeOf
  <2>3. w \in Nat BY <2>2
  <2>4. DOMAIN d = 1..Len(d) OBVIOUS
  <2> QED BY <2>2, <2>3, <2>4, Zenon
<1>3. DOMAIN ns = 1..w BY <1>2
<1> HIDE DEF w, h
<1>4. \A i \in DOMAIN d : \E q \in 0..(w - 1), r \in 0..(h - 1) : i = q * h + r + 1
  <2> SUFFICES ASSUME NEW i \in 1..(w * h)
               PROVE  \E q \in 0..(w - 1), r \in 0..(h - 1) : i = q * h + r + 1
    BY <1>2
  <2>1. \E q \in 0..(w - 1), r \in 0..(h - 1) :
          i = q * h + r + 1 /\ (i - 1) \div h = q /\ (i - 1) % h = r
    BY <1>1, <1>2, Cell, Zenon
  <2> QED BY <2>1
<1>5. ASSUME NEW i \in DOMAIN d, NEW r \in Rings PROVE \E j \in DOMAIN d : d[j] = <<d[i][1], r>>
  <2>1. PICK q \in 0..(w - 1), x \in 0..(h - 1) : i = q * h + x + 1 BY <1>4
  <2>2. r - 1 \in 0..(h - 1) /\ (r - 1) + 1 = r BY <1>1
  <2>3. q * h + (r - 1) + 1 \in DOMAIN d BY <1>1, <1>2, <2>2, CellInside
  <2>4. d[q * h + (r - 1) + 1] = <<ns[q + 1], (r - 1) + 1>> BY <1>2, <2>2, Zenon
  <2>5. d[i][1] = ns[q + 1]
    <3>1. d[i] = <<ns[q + 1], x + 1>> BY <1>2, <2>1, Zenon
    <3> QED BY <3>1
  <2> QED BY <2>2, <2>3, <2>4, <2>5, Zenon
<1>6. ASSUME NEW i \in DOMAIN d, NEW j \in DOMAIN d, i < j, d[i][2] = d[j][2]
      PROVE  d[i][1] < d[j][1]
  <2>1. PICK q \in 0..(w - 1), x \in 0..(h - 1) : i = q * h + x + 1 BY <1>4
  <2>2. PICK p \in 0..(w - 1), y \in 0..(h - 1) : j = p * h + y + 1 BY <1>4
  <2>3. d[i] = <<ns[q + 1], x + 1>> BY <1>2, <2>1, Zenon
  <2>4. d[j] = <<ns[p + 1], y + 1>> BY <1>2, <2>2, Zenon
  <2>5. d[i][1] = ns[q + 1] /\ d[j][1] = ns[p + 1] /\ x = y BY <1>6, <2>3, <2>4
  <2>6. q < p
    <3>1. q * h \in Nat /\ p * h \in Nat BY <1>1, <1>2, Products
    <3>2. q * h < p * h BY <1>6, <2>1, <2>2, <2>5, <3>1
    <3> QED BY <1>1, <1>2, <3>2, Products
  <2>7. q + 1 \in DOMAIN ns /\ p + 1 \in DOMAIN ns /\ q + 1 < p + 1 BY <1>2, <1>3, <2>6
  <2> QED BY <1>2, <2>5, <2>7, Zenon DEF Increases
<1> QED BY <1>5, <1>6

ByRows(d, w) ==
  /\ \A i \in DOMAIN d, r \in Rings : \E j \in DOMAIN d : d[j] = <<d[i][1], r>>
  /\ \A i, j \in DOMAIN d : i < j /\ d[i][2] = d[j][2] => d[i][1] < d[j][1]
  /\ \A i \in DOMAIN d : d[i][2] = (i - 1) \div w + 1

LEMMA RowsInOrder ==
  ASSUME NEW w \in Nat, NEW ns, Increases(ns), DOMAIN ns = 1..w,
         NEW d, DOMAIN d = 1..(RingCount * w),
         \A r \in 0..(RingCount - 1), q \in 0..(w - 1) : d[r * w + q + 1] = <<ns[q + 1], r + 1>>
  PROVE  ByRows(d, w)
<1> DEFINE h == RingCount
<1>1. h \in Nat \ {0} /\ Rings = 1..h BY RingCountType
<1> HIDE DEF h
<1>2. /\ DOMAIN d = 1..(h * w)
      /\ \A r \in 0..(h - 1), q \in 0..(w - 1) : d[r * w + q + 1] = <<ns[q + 1], r + 1>>
  BY Zenon DEF h
<1>3. ASSUME NEW i \in DOMAIN d
      PROVE  w # 0 /\ \E r \in 0..(h - 1), q \in 0..(w - 1) : i = r * w + q + 1 /\ (i - 1) \div w = r
  <2>1. w # 0
    <3>1. h * 0 = 0 BY <1>1
    <3>2. 1..0 = {} OBVIOUS
    <3> QED BY <1>2, <3>1, <3>2
  <2>2. i \in 1..(h * w) /\ w \in Nat \ {0} /\ h \in Nat BY <1>1, <1>2, <2>1
  <2>3. \E r \in 0..(h - 1), q \in 0..(w - 1) :
          i = r * w + q + 1 /\ (i - 1) \div w = r /\ (i - 1) % w = q
    BY <2>2, Cell, Zenon
  <2> QED BY <2>1, <2>3
<1>4. ASSUME NEW i \in DOMAIN d, NEW r \in Rings PROVE \E j \in DOMAIN d : d[j] = <<d[i][1], r>>
  <2>1. PICK x \in 0..(h - 1), q \in 0..(w - 1) : i = x * w + q + 1 BY <1>3
  <2>2. r - 1 \in 0..(h - 1) /\ (r - 1) + 1 = r /\ w # 0 BY <1>1, <1>3
  <2>3. (r - 1) * w + q + 1 \in DOMAIN d BY <1>1, <1>2, <2>2, CellInside
  <2>4. d[(r - 1) * w + q + 1] = <<ns[q + 1], (r - 1) + 1>> BY <1>2, <2>2, Zenon
  <2>5. d[i][1] = ns[q + 1]
    <3>1. d[i] = <<ns[q + 1], x + 1>> BY <1>2, <2>1, Zenon
    <3> QED BY <3>1
  <2> QED BY <2>2, <2>3, <2>4, <2>5, Zenon
<1>5. ASSUME NEW i \in DOMAIN d, NEW j \in DOMAIN d, i < j, d[i][2] = d[j][2]
      PROVE  d[i][1] < d[j][1]
  <2>1. PICK x \in 0..(h - 1), q \in 0..(w - 1) : i = x * w + q + 1 BY <1>3
  <2>2. PICK y \in 0..(h - 1), p \in 0..(w - 1) : j = y * w + p + 1 BY <1>3
  <2>3. d[i] = <<ns[q + 1], x + 1>> BY <1>2, <2>1, Zenon
  <2>4. d[j] = <<ns[p + 1], y + 1>> BY <1>2, <2>2, Zenon
  <2>5. d[i][1] = ns[q + 1] /\ d[j][1] = ns[p + 1] /\ x = y BY <1>5, <2>3, <2>4
  <2>6. q < p
    <3>1. x * w \in Nat BY <1>1, Products
    <3> QED BY <1>5, <2>1, <2>2, <2>5, <3>1
  <2>7. q + 1 \in DOMAIN ns /\ p + 1 \in DOMAIN ns /\ q + 1 < p + 1 BY <2>6
  <2> QED BY <2>5, <2>7, Zenon DEF Increases
<1>6. ASSUME NEW i \in DOMAIN d PROVE d[i][2] = (i - 1) \div w + 1
  <2>1. PICK x \in 0..(h - 1), q \in 0..(w - 1) : i = x * w + q + 1 /\ (i - 1) \div w = x BY <1>3
  <2>2. d[i] = <<ns[q + 1], x + 1>> BY <1>2, <2>1, Zenon
  <2> QED BY <2>1, <2>2
<1> QED BY <1>4, <1>5, <1>6, Zenon DEF ByRows

\* The message made of a cloud with a header.
LEMMA MessageInOrder ==
  ASSUME NEW c \in Cloud, Regular(c.points), Headed(c)
  PROVE  InOrder(ToRosMsg(c, SendByRows)) /\ ToRosMsg(c, SendByRows).seq = c.seq
<1> DEFINE m == ToRosMsg(c, SendByRows)
           s == c.points
           R == RingCount
<1>1. /\ s \in Seq(Nat \X Nat) /\ c.width \in Nat /\ c.height \in Nat /\ s # <<>>
      /\ Len(s) = c.width * c.height /\ Len(s) \in Nat \ {0}
  BY DEF Cloud, Headed
<1>2. R \in Nat \ {0} BY RingCountType
<1>3. PICK ns : MadeOf(s, ns) BY Zenon DEF Regular
<1>4. m.seq = c.seq BY DEF ToRosMsg
<1>5. CASE ~SendByRows
  <2>1. m.data = s /\ m.width = c.height /\ m.height = c.width BY <1>5 DEF ToRosMsg
  <2>2. m.width * m.height = Len(m.data) BY <1>1, <2>1, Products
  <2>3. /\ \A i \in DOMAIN s, r \in Rings : \E j \in DOMAIN s : s[j] = <<s[i][1], r>>
        /\ \A i, j \in DOMAIN s : i < j /\ s[i][2] = s[j][2] => s[i][1] < s[j][1]
    BY <1>1, <1>3, ColumnsInOrder, Zenon
  <2> HIDE DEF m, s
  <2> QED BY <1>1, <1>4, <1>5, <2>1, <2>2, <2>3, Zenon DEF InOrder, m
<1>6. CASE SendByRows
  <2> DEFINE w == Len(ns)
  <2>1. ~setup.dense BY <1>6 DEF SendByRows
  <2>2. c.height = R BY <2>1, RingCountType DEF Headed
  <2>3. /\ ns \in Seq(Nat) /\ Increases(ns) /\ Len(s) = w * R
        /\ \A q \in 0..(w - 1), r \in 0..(R - 1) : s[q * R + r + 1] = <<ns[q + 1], r + 1>>
    BY <1>3, Zenon DEF MadeOf
  <2>4. w \in Nat /\ DOMAIN ns = 1..w BY <2>3
  <2> HIDE DEF R
  <2>5. c.width = w
    <3>1. c.width * R = w * R BY <1>1, <2>2, <2>3
    <3> QED BY <1>1, <1>2, <2>4, <3>1, Products
  <2>6. /\ m.width = w /\ m.height = R
        /\ m.data = [k \in 1..(w * R) |-> s[(k - 1) \div w + ((k - 1) % w) * R + 1]]
    BY <1>6, <2>2, <2>5 DEF ToRosMsg
  <2> DEFINE d == m.data
  <2> HIDE DEF m, s, w, d
  <2>7. R * w = w * R /\ w * R \in Nat BY <1>2, <2>4, Products
  <2>8. /\ DOMAIN d = 1..(R * w)
        /\ \A k \in 1..(R * w) : d[k] = s[(k - 1) \div w + ((k - 1) % w) * R + 1]
    BY <2>6, <2>7 DEF d
  <2>9. ASSUME NEW r \in 0..(R - 1), NEW q \in 0..(w - 1)
        PROVE  d[r * w + q + 1] = <<ns[q + 1], r + 1>>
    <3>1. w \in Nat \ {0} BY <2>4
    <3>2. r * w + q + 1 \in 1..(R * w) BY <1>2, <3>1, CellInside
    <3>3. r * w \in Nat /\ q * R \in Nat BY <1>2, <2>4, Products
    <3> DEFINE k == r * w + q + 1
    <3>4. k - 1 = r * w + q /\ r \in Nat BY <1>2, <2>4, <3>3
    <3>5. (k - 1) \div w = r /\ (k - 1) % w = q
      <4>1. (r * w + q) \div w = r /\ (r * w + q) % w = q BY <3>1, <3>4, Division
      <4> HIDE DEF k
      <4> QED BY <3>4, <4>1, Zenon
    <3>6. d[k] = s[r + q * R + 1]
      <4>1. k \in 1..(R * w) BY <3>2
      <4> HIDE DEF k
      <4>2. d[k] = s[(k - 1) \div w + ((k - 1) % w) * R + 1] BY <2>8, <4>1, Zenon
      <4> QED BY <3>5, <4>2, Zenon
    <3>7. r + q * R + 1 = q * R + r + 1 BY <3>3, <3>4
    <3>8. s[q * R + r + 1] = <<ns[q + 1], r + 1>> BY <2>3 DEF w
    <3> QED BY <3>6, <3>7, <3>8, Zenon
  <2>10. /\ \A i \in DOMAIN d, r \in Rings : \E j \in DOMAIN d : d[j] = <<d[i][1], r>>
         /\ \A i, j \in DOMAIN d : i < j /\ d[i][2] = d[j][2] => d[i][1] < d[j][1]
         /\ \A i \in DOMAIN d : d[i][2] = (i - 1) \div w + 1
    <3>1. DOMAIN d = 1..(RingCount * w) BY <2>8, Zenon DEF R
    <3>2. \A r \in 0..(RingCount - 1), q \in 0..(w - 1) : d[r * w + q + 1] = <<ns[q + 1], r + 1>>
      BY <2>9, Zenon DEF R
    <3>3. w \in Nat /\ Increases(ns) /\ DOMAIN ns = 1..w BY <2>3, <2>4
    <3>4. ByRows(d, w) BY <3>1, <3>2, <3>3, RowsInOrder, Zenon
    <3> QED BY <3>4, Zenon DEF ByRows
  <2>11. Len(d) = w * R
    <3>1. d = [k \in 1..(w * R) |-> s[(k - 1) \div w + ((k - 1) % w) * R + 1]] BY <2>6 DEF d
    <3> QED BY <2>7, <3>1
  <2>12. d # <<>>
    <3>1. Len(d) # 0 BY <1>1, <2>3, <2>11 DEF w
    <3> QED BY <3>1
  <2> QED BY <1>4, <2>6, <2>10, <2>11, <2>12, Zenon DEF InOrder, m, d
<1> QED BY <1>5, <1>6

-----------------------------------------------------------------------------
(* The second invariant: numbers and sequence numbers grow along the way of a   *)
(* packet, from those that wait, over the cloud that is filled and the ones     *)
(* that are queued or sent, to the topic.                                       *)

Out == {queue[i] : i \in DOMAIN queue} \cup Sent

Ordered ==
  /\ \A c \in Clouds : Regular(content[c].points)
  /\ \A c \in Out : Headed(content[c])
  /\ \A k \in DOMAIN published : InOrder(published[k])

Lined ==
  /\ \A k, l \in DOMAIN published : k < l =>
       published[k].seq < published[l].seq /\ Below(Numbers(published[k].data), Numbers(published[l].data))
  /\ \A k \in DOMAIN published : \A c \in Out :
       published[k].seq < content[c].seq /\ Below(Numbers(published[k].data), In(c))
  /\ \A i, j \in DOMAIN queue : i < j => content[queue[i]].seq < content[queue[j]].seq
  /\ \A c \in Sent : \A i \in DOMAIN queue : content[c].seq < content[queue[i]].seq
  /\ \A c, d \in Out : content[c].seq < content[d].seq => Below(In(c), In(d))
  /\ \A c \in Out : content[c].seq < cloud_seq
  /\ \A k \in DOMAIN published : published[k].seq < cloud_seq
  /\ \A c \in Out, d \in Filled : Below(In(c), In(d))
  /\ \A k \in DOMAIN published : \A d \in Filled : Below(Numbers(published[k].data), In(d))

Rising(s) == \A i, j \in DOMAIN s : i < j => s[i].n < s[j].n
Drawn == Pub \cup UNION {In(c) : c \in Live}
InTurn(D, B, K, P) ==
  /\ Below(D, B) /\ Below(D, K) /\ Below(D, P)
  /\ Below(B, K) /\ Below(B, P) /\ Below(K, P)
Waiting ==
  /\ Rising(batch) /\ Rising(pkts) /\ Rising(pending)
  /\ InTurn(Drawn, Nums(batch), Nums(pkts), Nums(pending))

OrderInv == Ordered /\ Lined /\ Waiting

LEMMA RegularStays ==
  ASSUME setup' = setup, NEW s, Regular(s)
  PROVE  Regular(s)'
<1>1. RingCount' = RingCount BY Zenon DEF RingCount
<1>2. PICK ns : MadeOf(s, ns) BY Zenon DEF Regular
<1>3. MadeOf(s, ns)' BY <1>1, <1>2, Zenon DEF MadeOf
<1> QED BY <1>3, Zenon DEF Regular

LEMMA InOrderStays ==
  ASSUME setup' = setup, NEW m, InOrder(m)
  PROVE  InOrder(m)'
<1>1. Rings' = Rings /\ (SendByRows' <=> SendByRows) BY Zenon DEF Rings, SendByRows
<1> QED BY <1>1, Zenon DEF InOrder

LEMMA HeadedStays ==
  ASSUME setup' = setup, NEW c, Headed(c)
  PROVE  Headed(c)'
  BY Zenon DEF Headed

LEMMA OrderedStays ==
  ASSUME Ordered, setup' = setup, content' = content, published' = published, Out' \subseteq Out
  PROVE  Ordered'
<1>1. \A c \in Clouds : Regular(content[c].points)'
  BY RegularStays, Zenon DEF Ordered
<1>2. \A c \in Out' : Headed(content[c])'
  BY HeadedStays, Zenon DEF Ordered
<1>3. \A k \in DOMAIN published' : InOrder(published[k])'
  BY InOrderStays, Zenon DEF Ordered
<1> QED BY <1>1, <1>2, <1>3, Zenon DEF Ordered

LEMMA LinedStays ==
  ASSUME Lined, content' = content, published' = published, queue' = queue, cloud_seq' = cloud_seq,
         Sent' = Sent, Filled' = Filled
  PROVE  Lined'
<1>1. Out' = Out BY Zenon DEF Out
<1>2. \A c : In(c)' = In(c) BY Zenon DEF In
<1> QED BY <1>1, <1>2, Zenon DEF Lined

LEMMA DrawnStays ==
  ASSUME content' = content, published' = published, queue' = queue, Sent' = Sent, Filled' = Filled
  PROVE  Drawn' = Drawn /\ Out' = Out
<1>1. Out' = Out /\ Live' = Live BY Zenon DEF Out, Live
<1>2. Pub' = Pub BY Zenon DEF Pub
<1> QED BY <1>1, <1>2, Zenon DEF Drawn, In

\* Steps that leave all clouds alone,
LEMMA CloudsInOrder ==
  ASSUME OrderInv, setup' = setup, content' = content, published' = published, queue' = queue,
         cloud_seq' = cloud_seq, Sent' = Sent, Filled' = Filled
  PROVE  Ordered' /\ Lined' /\ Drawn' = Drawn
<1>1. Ordered /\ Lined BY Zenon DEF OrderInv
<1>2. Drawn' = Drawn /\ Out' = Out BY DrawnStays, Zenon
<1>3. Out' \subseteq Out BY <1>2
<1>4. Ordered' BY <1>1, <1>3, OrderedStays
<1>5. Lined' BY <1>1, LinedStays, Zenon
<1> QED BY <1>2, <1>4, <1>5

\* and those that leave the packets alone, too.
LEMMA OrderQuiet ==
  ASSUME OrderInv, setup' = setup, content' = content, published' = published, queue' = queue,
         cloud_seq' = cloud_seq, Sent' = Sent, Filled' = Filled,
         pending' = pending, pkts' = pkts, batch' = batch
  PROVE  OrderInv'
<1>1. Ordered' /\ Lined' /\ Drawn' = Drawn BY CloudsInOrder, Zenon
<1>2. Waiting' BY <1>1, Zenon DEF OrderInv, Waiting, Rising
<1> QED BY <1>1, <1>2, Zenon DEF OrderInv

LEMMA OrderQuietSteps ==
  ASSUME SourceInv, OrderInv,
         \/ LoadConfig \/ RegisterDestinations \/ StartHandle \/ StartInput
         \/ StopInput \/ JoinRecv \/ JoinProcess \/ Destroy
         \/ RecvExit \/ RecvEof \/ RecvNull \/ RecvEpoll \/ RecvServed
         \/ RecvRefused \/ RecvClearHead \/ Arrive
         \/ HandleCheck \/ HandleTimeout \/ HandlePoll \/ HandleNull \/ HandleDone
         \/ PublishCheck \/ PublishTimeout
         \/ PublishRecycle \/ UNCHANGED vars
  PROVE  OrderInv'
<1>1. /\ setup' = setup /\ content' = content /\ published' = published /\ queue' = queue
      /\ cloud_seq' = cloud_seq /\ pending' = pending /\ pkts' = pkts /\ batch' = batch
      /\ point_cloud' = point_cloud
  <2>1. CASE \/ LoadConfig \/ RegisterDestinations \/ StartHandle \/ StartInput
             \/ StopInput \/ JoinRecv \/ JoinProcess \/ Destroy
    BY <2>1, Zenon DEF LoadConfig, RegisterDestinations, StartHandle, StartInput, StopInput, JoinRecv,
                       JoinProcess, Destroy, inVars, pcVars, pubVars
  <2>2. CASE \/ RecvExit \/ RecvEof \/ RecvNull \/ RecvEpoll \/ RecvServed
             \/ RecvRefused \/ RecvClearHead \/ Arrive
    BY <2>2, Zenon DEF RecvExit, RecvEof, RecvNull, RecvEpoll, RecvServed, RecvRefused,
                       RecvClearHead, Arrive, putRest, recvRest, inVars,
                       pcVars, pubVars
  <2>3. CASE \/ HandleCheck \/ HandleTimeout \/ HandlePoll \/ HandleNull \/ HandleDone
             \/ PublishCheck \/ PublishTimeout
             \/ PublishRecycle \/ UNCHANGED vars
    BY <2>3, Zenon DEF HandleCheck, HandleTimeout, HandlePoll, HandleNull, HandleDone,
                       PublishCheck, PublishTimeout,
                       PublishRecycle, handleRest, pubRest, vars, inVars, pcVars, pubVars
  <2> QED BY <2>1, <2>2, <2>3, Zenon
<1>2. hpc' = "split" <=> hpc = "split"
  <2>1. Control BY Zenon DEF SourceInv
  <2>2. CASE \/ LoadConfig \/ RegisterDestinations \/ StartHandle \/ StartInput
             \/ StopInput \/ JoinRecv \/ JoinProcess \/ Destroy
    <3>1. hpc' = hpc \/ (mpc = "ready" /\ hpc' = "loop")
      BY <2>2, Zenon DEF LoadConfig, RegisterDestinations, StartHandle, StartInput, StopInput, JoinRecv,
                         JoinProcess, Destroy, pcVars
    <3> QED BY <2>1, <3>1 DEF Control
  <2>3. CASE \/ RecvExit \/ RecvEof \/ RecvNull \/ RecvEpoll \/ RecvServed
             \/ RecvRefused \/ RecvClearHead \/ Arrive
    BY <2>3, Zenon DEF RecvExit, RecvEof, RecvNull, RecvEpoll, RecvServed, RecvRefused,
                       RecvClearHead, Arrive, putRest, recvRest, pcVars
  <2>4. CASE HandleCheck \/ HandleTimeout \/ HandlePoll \/ HandleNull \/ HandleDone
    <3>1. CASE HandleNull BY <3>1, Zenon DEF HandleNull, pcVars
    <3>2. CASE ~HandleNull
      BY <2>4, <3>2 DEF HandleCheck, HandleTimeout, HandlePoll, HandleDone
    <3> QED BY <3>1, <3>2
  <2>5. CASE PublishCheck \/ PublishTimeout \/ PublishRecycle \/ UNCHANGED vars
    BY <2>5, Zenon DEF PublishCheck, PublishTimeout, PublishRecycle, pubRest, vars, pcVars
  <2> QED BY <2>2, <2>3, <2>4, <2>5, Zenon
<1>3. (ppc' = ppc /\ msg' = msg) \/ (ppc # "send" /\ ppc' # "send")
  <2>1. CASE \/ LoadConfig \/ RegisterDestinations \/ StartHandle \/ StartInput
             \/ StopInput \/ JoinRecv \/ JoinProcess \/ Destroy
    BY <2>1, Zenon DEF LoadConfig, RegisterDestinations, StartHandle, StartInput, StopInput, JoinRecv,
                       JoinProcess, Destroy, pubVars
  <2>2. CASE \/ RecvExit \/ RecvEof \/ RecvNull \/ RecvEpoll \/ RecvServed
             \/ RecvRefused \/ RecvClearHead \/ Arrive
    BY <2>2, Zenon DEF RecvExit, RecvEof, RecvNull, RecvEpoll, RecvServed, RecvRefused,
                       RecvClearHead, Arrive, putRest, recvRest, pubVars
  <2>3. CASE HandleCheck \/ HandleTimeout \/ HandlePoll \/ HandleNull \/ HandleDone \/ UNCHANGED vars
    BY <2>3, Zenon DEF HandleCheck, HandleTimeout, HandlePoll, HandleNull, HandleDone, handleRest, vars, pubVars
  <2>4. CASE PublishCheck \/ PublishTimeout \/ PublishRecycle
    BY <2>4 DEF PublishCheck, PublishTimeout, PublishRecycle
  <2> QED BY <2>1, <2>2, <2>3, <2>4, Zenon
<1>4. Sent' = Sent /\ Filled' = Filled
  BY <1>1, <1>2, <1>3, Zenon DEF Sent, Filled
<1> QED BY <1>1, <1>4, OrderQuiet, Zenon

-----------------------------------------------------------------------------
(* Packets that wait *)

\* What is somewhere has a number that was given.
LEMMA NumbersGiven ==
  ASSUME SourceInv, ~overlapped
  PROVE  /\ \A n \in Drawn \cup Nums(batch) \cup Nums(pkts) \cup Nums(pending) : n \in DOMAIN arrivals
         /\ DOMAIN arrivals = 1..Len(arrivals) /\ Len(arrivals) \in Nat
<1>1. Counted /\ Typed BY Zenon DEF SourceInv, Accounted
<1>2. DOMAIN arrivals = 1..Len(arrivals) /\ Len(arrivals) \in Nat
  <2>1. arrivals \in Seq(Packet) BY <1>1, Zenon DEF Typed
  <2> QED BY <2>1
<1>3. \A s : Known(s) => \A n \in Nums(s) : n \in DOMAIN arrivals
  BY DEF Known, Nums
<1>4. \A n \in Drawn : n \in DOMAIN arrivals
  BY <1>1, LiveClouds DEF Drawn, Counted
<1>5. \A n \in Nums(batch) \cup Nums(pkts) \cup Nums(pending) : n \in DOMAIN arrivals
  BY <1>1, <1>3 DEF Counted
<1> QED BY <1>2, <1>4, <1>5

\* The number of a new packet is above all others.
LEMMA OrderPut ==
  ASSUME SourceInv, ~overlapped, OrderInv, NEW p, p.n = Len(arrivals) + 1, PutNext(p),
         UNCHANGED <<recvRest, mpc, pkts, overlapped, lost>>
  PROVE  OrderInv'
<1>1. /\ setup' = setup /\ pkts' = pkts /\ batch' = batch
      /\ point_cloud' = point_cloud /\ content' = content /\ queue' = queue
      /\ msg' = msg /\ published' = published /\ hpc' = hpc /\ ppc' = ppc /\ cloud_seq' = cloud_seq
  BY Zenon DEF recvRest, pcVars, pubVars
<1>2. Sent' = Sent /\ Filled' = Filled
  BY <1>1, Zenon DEF Sent, Filled
<1>3. Ordered' /\ Lined' /\ Drawn' = Drawn BY <1>1, <1>2, CloudsInOrder, Zenon
<1>4. pending' = <<p>> BY Zenon DEF PutNext
<1>5. DOMAIN pending' = {1} /\ pending'[1] = p BY <1>4
<1>6. Nums(pending') = {p.n} BY <1>5 DEF Nums
<1>7. Rising(pending)'
  <2>1. \A i, j \in DOMAIN pending' : ~(i < j) BY <1>5
  <2> QED BY <2>1 DEF Rising
<1>8. /\ Rising(batch) /\ Rising(pkts) /\ Below(Drawn, Nums(batch)) /\ Below(Drawn, Nums(pkts))
      /\ Below(Nums(batch), Nums(pkts))
  BY Zenon DEF OrderInv, Waiting, InTurn
<1>9. Rising(batch)' /\ Rising(pkts)' BY <1>1, <1>8, Zenon DEF Rising
<1>10. Below(Drawn, {p.n}) /\ Below(Nums(batch), {p.n}) /\ Below(Nums(pkts), {p.n})
  BY NumbersGiven DEF Below
<1>11. InTurn(Drawn, Nums(batch), Nums(pkts), {p.n})
  BY <1>8, <1>10, Zenon DEF InTurn
<1>12. InTurn(Drawn', Nums(batch'), Nums(pkts'), Nums(pending'))
  BY <1>1, <1>3, <1>6, <1>11, Zenon
<1>13. Waiting' BY <1>7, <1>9, <1>12, Zenon DEF Waiting
<1> QED BY <1>3, <1>13, Zenon DEF OrderInv

LEMMA OrderPutNone ==
  ASSUME OrderInv, pending' = pending, UNCHANGED <<recvRest, mpc, pkts, overlapped, lost>>
  PROVE  OrderInv'
<1>1. /\ setup' = setup /\ pkts' = pkts /\ batch' = batch
      /\ point_cloud' = point_cloud /\ content' = content /\ queue' = queue
      /\ msg' = msg /\ published' = published /\ hpc' = hpc /\ ppc' = ppc /\ cloud_seq' = cloud_seq
  BY Zenon DEF recvRest, pcVars, pubVars
<1>2. Sent' = Sent /\ Filled' = Filled
  BY <1>1, Zenon DEF Sent, Filled
<1> QED BY <1>1, <1>2, OrderQuiet, Zenon

LEMMA OrderRecv ==
  ASSUME SourceInv, ~overlapped, OrderInv, RecvPcap \/ RecvPcapJumbo \/ RecvFrom \/ Feed
  PROVE  OrderInv'
<1>1. UNCHANGED <<recvRest, mpc, pkts, overlapped, lost>>
  BY Zenon DEF RecvPcap, RecvPcapJumbo, RecvFrom, Feed
<1>2. pending' = pending \/ \E g, d : PutNext(PacketOf(g, d))
  <2>1. CASE RecvPcap BY <2>1, Zenon DEF RecvPcap
  <2>2. CASE RecvPcapJumbo BY <2>2, Zenon DEF RecvPcapJumbo
  <2>3. CASE RecvFrom BY <2>3, Zenon DEF RecvFrom
  <2>4. CASE Feed
    <3> DEFINE p == PacketOf(setup.records[pos + 1], <<>>)
    <3>1. PutNext(ToRsMsg(ToRosPacket(p, pos))) BY <2>4, Zenon DEF Feed
    <3> HIDE DEF p
    <3>2. ToRsMsg(ToRosPacket(p, pos)) = p BY DEF ToRsMsg, ToRosPacket
    <3>3. PutNext(p) BY <3>1, <3>2, Zenon
    <3> QED BY <3>3, Zenon DEF p
  <2> QED BY <2>1, <2>2, <2>3, <2>4
<1>3. CASE pending' = pending
  BY <1>1, <1>3, OrderPutNone, Zenon
<1>4. ASSUME NEW g, NEW d, PutNext(PacketOf(g, d)) PROVE OrderInv'
  <2> DEFINE p == PacketOf(g, d)
  <2>1. p.n = Len(arrivals) + 1 BY DEF PacketOf
  <2>2. PutNext(p) BY <1>4
  <2> HIDE DEF p
  <2> QED BY <1>1, <2>1, <2>2, OrderPut, Zenon
<1> QED BY <1>2, <1>3, <1>4, Zenon

LEMMA RisingConcat ==
  ASSUME NEW s \in Seq(Packet), NEW t \in Seq(Packet), Rising(s), Rising(t), Below(Nums(s), Nums(t))
  PROVE  Rising(s \o t) /\ \A n \in Nums(s \o t) : n \in Nums(s) \/ n \in Nums(t)
<1> DEFINE u == s \o t
<1>1. \A i \in DOMAIN u :
        \/ i \in DOMAIN s /\ u[i] = s[i]
        \/ i - Len(s) \in DOMAIN t /\ i = Len(s) + (i - Len(s)) /\ u[i] = t[i - Len(s)]
  BY ConcatElements
<1>2. Len(s) \in Nat /\ DOMAIN s = 1..Len(s) /\ DOMAIN t = 1..Len(t) /\ Len(t) \in Nat
  OBVIOUS
<1> HIDE DEF u
<1>3. \A n \in Nums(u) : n \in Nums(s) \/ n \in Nums(t)
  BY <1>1 DEF Nums
<1>4. Rising(u)
  <2> SUFFICES ASSUME NEW i \in DOMAIN u, NEW j \in DOMAIN u, i < j PROVE u[i].n < u[j].n
    BY DEF Rising
  <2>1. CASE i \in DOMAIN s /\ u[i] = s[i]
    <3>1. CASE j \in DOMAIN s /\ u[j] = s[j] BY <2>1, <3>1 DEF Rising
    <3>2. CASE j - Len(s) \in DOMAIN t /\ u[j] = t[j - Len(s)]
      BY <2>1, <3>2 DEF Below, Nums
    <3> QED BY <1>1, <3>1, <3>2
  <2>2. CASE i - Len(s) \in DOMAIN t /\ i = Len(s) + (i - Len(s)) /\ u[i] = t[i - Len(s)]
    <3>1. i > Len(s) /\ i \in Nat BY <1>2, <2>2
    <3>2. j \notin DOMAIN s
      <4>1. \A k \in DOMAIN s : k \in Nat /\ k <= Len(s) BY <1>2
      <4>2. \A k \in Nat : k <= Len(s) => ~(i < k) BY <1>2, <3>1
      <4> QED BY <4>1, <4>2
    <3>3. j - Len(s) \in DOMAIN t /\ j = Len(s) + (j - Len(s)) /\ u[j] = t[j - Len(s)] BY <1>1, <3>2
    <3>4. i - Len(s) < j - Len(s) BY <1>2, <2>2, <3>3
    <3> QED BY <2>2, <3>3, <3>4 DEF Rising
  <2> QED BY <1>1, <2>1, <2>2
<1> QED BY <1>3, <1>4 DEF u

LEMMA OrderRecvPut ==
  ASSUME SourceInv, OrderInv, RecvPut \/ RecvClearTail, ~overlapped
  PROVE  OrderInv'
<1>1. /\ setup' = setup /\ batch' = batch /\ pending' = <<>>
      /\ point_cloud' = point_cloud /\ content' = content /\ queue' = queue
      /\ msg' = msg /\ published' = published /\ hpc' = hpc /\ ppc' = ppc /\ cloud_seq' = cloud_seq
      /\ pkts' = pkts \o pending \/ pkts' = <<>>
  BY Zenon DEF RecvPut, RecvClearTail, putRest, recvRest, pcVars, pubVars
<1>2. Sent' = Sent /\ Filled' = Filled
  BY <1>1, Zenon DEF Sent, Filled
<1>3. Ordered' /\ Lined' /\ Drawn' = Drawn BY <1>1, <1>2, CloudsInOrder, Zenon
<1>4. /\ Rising(batch) /\ Rising(pkts) /\ Rising(pending)
      /\ InTurn(Drawn, Nums(batch), Nums(pkts), Nums(pending))
  BY Zenon DEF OrderInv, Waiting
<1>5. pkts \in Seq(Packet) /\ pending \in Seq(Packet) BY DEF SourceInv, Typed
<1>6. Nums(<<>>) = {} /\ Rising(<<>>) BY DEF Nums, Rising
<1> DEFINE u == pkts \o pending
<1>7. Rising(u) /\ \A n \in Nums(u) : n \in Nums(pkts) \/ n \in Nums(pending)
  BY <1>4, <1>5, RisingConcat, Zenon DEF InTurn
<1> HIDE DEF u
<1>8. Rising(pkts') /\ \A n \in Nums(pkts') : n \in Nums(pkts) \/ n \in Nums(pending)
  <2>1. \A n \in Nums(<<>>) : FALSE BY <1>6
  <2> QED BY <1>1, <1>6, <1>7, <2>1, Zenon DEF u
<1> DEFINE K == Nums(pkts')
<1> HIDE DEF K
<1>9. InTurn(Drawn, Nums(batch), K, {})
  BY <1>4, <1>8 DEF InTurn, Below, K
<1>10. InTurn(Drawn', Nums(batch'), Nums(pkts'), Nums(pending'))
  BY <1>1, <1>3, <1>6, <1>9, Zenon DEF K
<1>11. Rising(batch)' /\ Rising(pkts)' /\ Rising(pending)'
  BY <1>1, <1>4, <1>6, <1>8, Zenon DEF Rising
<1>12. Waiting' BY <1>10, <1>11, Zenon DEF Waiting
<1> QED BY <1>3, <1>12, Zenon DEF OrderInv

LEMMA RisingParts ==
  ASSUME NEW s \in Seq(Packet), Rising(s), NEW n \in Nat, n <= Len(s)
  PROVE  LET a == SubSeq(s, 1, n)
             b == SubSeq(s, n + 1, Len(s))
         IN /\ Rising(a) /\ Rising(b) /\ Below(Nums(a), Nums(b))
            /\ \A x : x \in Nums(a) \/ x \in Nums(b) => x \in Nums(s)
<1> DEFINE a == SubSeq(s, 1, n)
           b == SubSeq(s, n + 1, Len(s))
<1>1. /\ DOMAIN a = 1..n /\ \A i \in 1..n : a[i] = s[i]
      /\ DOMAIN b = 1..(Len(s) - n) /\ \A i \in 1..(Len(s) - n) : b[i] = s[n + i]
  BY SubSeqProperties
<1>2. DOMAIN s = 1..Len(s) /\ Len(s) \in Nat OBVIOUS
<1> HIDE DEF a, b
<1>3. Rising(a) BY <1>1, <1>2 DEF Rising
<1>4. \A i \in DOMAIN b : n + i \in DOMAIN s /\ b[i] = s[n + i] /\ i \in Nat /\ i # 0 BY <1>1, <1>2
<1>5. \A i \in DOMAIN a : i \in DOMAIN s /\ a[i] = s[i] /\ i \in Nat /\ i <= n BY <1>1, <1>2
<1>6. Rising(b)
  <2> SUFFICES ASSUME NEW i \in DOMAIN b, NEW j \in DOMAIN b, i < j PROVE b[i].n < b[j].n
    BY DEF Rising
  <2>1. n + i < n + j BY <1>4
  <2> QED BY <1>4, <2>1 DEF Rising
<1>7. Below(Nums(a), Nums(b))
  <2> SUFFICES ASSUME NEW i \in DOMAIN a, NEW j \in DOMAIN b PROVE a[i].n < b[j].n
    BY DEF Below, Nums
  <2>1. i < n + j BY <1>4, <1>5
  <2> QED BY <1>4, <1>5, <2>1 DEF Rising
<1>8. \A x : x \in Nums(a) \/ x \in Nums(b) => x \in Nums(s)
  BY <1>4, <1>5 DEF Nums
<1> QED BY <1>3, <1>6, <1>7, <1>8 DEF a, b

LEMMA OrderBatch ==
  ASSUME SourceInv, OrderInv, HandleBatch, ~overlapped
  PROVE  OrderInv'
<1> DEFINE n == real_count
           s == SubSeq(pkts, 1, n)
           t == SubSeq(pkts, n + 1, Len(pkts))
<1>1. /\ setup' = setup /\ batch' = s /\ pkts' = t /\ pending' = pending
      /\ point_cloud' = point_cloud /\ content' = content /\ queue' = queue
      /\ msg' = msg /\ published' = published /\ ppc' = ppc /\ cloud_seq' = cloud_seq
  BY Zenon DEF HandleBatch, handleRest, inVars, pubVars
<1>2. Sent' = Sent /\ Filled' = Filled
  <2>1. hpc # "split" /\ hpc' # "split" BY DEF HandleBatch
  <2> QED BY <1>1, <2>1, Zenon DEF Sent, Filled
<1>3. Ordered' /\ Lined' /\ Drawn' = Drawn BY <1>1, <1>2, CloudsInOrder, Zenon
<1>4. /\ Rising(pkts) /\ Rising(pending)
      /\ InTurn(Drawn, Nums(batch), Nums(pkts), Nums(pending))
  BY Zenon DEF OrderInv, Waiting
<1>5. pkts \in Seq(Packet) /\ n \in Nat /\ n <= Len(pkts)
  <2>1. pkts \in Seq(Packet) BY DEF SourceInv, Typed
  <2>2. n \in Nat /\ n <= Len(pkts)
    BY Zenon DEF HandleBatch, SourceInv, Typed, Control
  <2> QED BY <2>1, <2>2
<1> HIDE DEF n
<1>6. /\ Rising(s) /\ Rising(t) /\ Below(Nums(s), Nums(t))
      /\ \A x : x \in Nums(s) \/ x \in Nums(t) => x \in Nums(pkts)
  BY <1>4, <1>5, RisingParts
<1> HIDE DEF s, t
<1>7. InTurn(Drawn, Nums(s), Nums(t), Nums(pending))
  BY <1>4, <1>6 DEF InTurn, Below
<1>8. InTurn(Drawn', Nums(batch'), Nums(pkts'), Nums(pending'))
  BY <1>1, <1>3, <1>7, Zenon
<1>9. Rising(batch)' /\ Rising(pkts)' /\ Rising(pending)'
  BY <1>1, <1>4, <1>6, Zenon DEF Rising
<1>10. Waiting' BY <1>8, <1>9, Zenon DEF Waiting
<1> QED BY <1>3, <1>10, Zenon DEF OrderInv

-----------------------------------------------------------------------------
(* Clouds *)

\* A cloud that was queued is not filled.
LEMMA OutClouds ==
  ASSUME SourceInv
  PROVE  /\ Out \subseteq Clouds /\ Live = Out \cup Filled
         /\ \A c \in Out : c \notin Filled /\ (hpc # "split" => c # point_cloud)
<1>1. Owned /\ Control BY Zenon DEF SourceInv
<1>2. Live = Out \cup Filled BY DEF Live, Out
<1>3. \A c \in Out : hpc # "split" => c # point_cloud
  <2>1. \A c \in Sent : msg # NoCloud /\ c = msg BY <1>1 DEF Sent, Control
  <2> QED BY <1>1, <2>1 DEF Out, Owned
<1>4. \A c \in Out : c \notin Filled BY <1>3 DEF Filled
<1> QED BY <1>2, <1>3, <1>4, LiveClouds

LEMMA DrawnOf == \A n : n \in Drawn <=> n \in Pub \/ \E c \in Live : n \in In(c)
  BY DEF Drawn

\* Numbers of packets that wait stay above those of clouds.
LEMMA WaitingStays ==
  ASSUME OrderInv, Drawn' \subseteq Drawn, pending' = pending, pkts' = pkts, batch' = batch
  PROVE  Waiting'
<1>1. /\ Rising(batch) /\ Rising(pkts) /\ Rising(pending)
      /\ InTurn(Drawn, Nums(batch), Nums(pkts), Nums(pending))
  BY Zenon DEF OrderInv, Waiting
<1> DEFINE D == Drawn'
<1> HIDE DEF D
<1>2. D \subseteq Drawn BY DEF D
<1>3. InTurn(D, Nums(batch), Nums(pkts), Nums(pending))
  BY <1>1, <1>2 DEF InTurn, Below
<1>4. InTurn(Drawn', Nums(batch'), Nums(pkts'), Nums(pending'))
  BY <1>3, Zenon DEF D
<1>5. Rising(batch)' /\ Rising(pkts)' /\ Rising(pending)'
  BY <1>1, Zenon DEF Rising
<1> QED BY <1>4, <1>5, Zenon DEF Waiting

\* The cloud that is filled gets other points, above those of all clouds before it.
LEMMA FilledChanges ==
  ASSUME SourceInv, OrderInv, NEW g \in Clouds, g \notin Out, Filled' = {g},
         setup' = setup, published' = published, queue' = queue, cloud_seq' = cloud_seq, Sent' = Sent,
         \A c \in Clouds : c # g => content'[c] = content[c],
         NEW s, content'[g].points = s, Regular(s),
         \A c \in Out : Below(In(c), Numbers(s)),
         \A k \in DOMAIN published : Below(Numbers(published[k].data), Numbers(s))
  PROVE  Ordered' /\ Lined'
<1>1. Ordered /\ Lined BY Zenon DEF OrderInv
<1>2. Out' = Out BY Zenon DEF Out
<1>3. \A c \in Out : c \in Clouds /\ c # g /\ content'[c] = content[c]
  BY OutClouds
<1>4. \A c \in Out : In(c)' = In(c) BY <1>3, Zenon DEF In
<1>5. In(g)' = Numbers(s) BY Zenon DEF In
<1>6. Ordered'
  <2>1. \A c \in Clouds : Regular(content[c].points)'
    <3>1. \A c \in Clouds : c = g => Regular(content[c].points)' BY RegularStays, Zenon
    <3>2. \A c \in Clouds : c # g => Regular(content[c].points)'
      BY <1>1, RegularStays, Zenon DEF Ordered
    <3> QED BY <3>1, <3>2, Zenon
  <2>2. \A c \in Out' : Headed(content[c])'
    BY <1>1, <1>2, <1>3, HeadedStays, Zenon DEF Ordered
  <2>3. \A k \in DOMAIN published' : InOrder(published[k])'
    BY <1>1, InOrderStays, Zenon DEF Ordered
  <2> QED BY <2>1, <2>2, <2>3, Zenon DEF Ordered
<1>7. Lined'
  <2>1. \A k, l \in DOMAIN published' : k < l =>
          /\ published'[k].seq < published'[l].seq
          /\ Below(Numbers(published'[k].data), Numbers(published'[l].data))
    BY <1>1, Zenon DEF Lined
  <2>2. \A k \in DOMAIN published' : \A c \in Out' :
          published'[k].seq < content'[c].seq /\ Below(Numbers(published'[k].data), In(c)')
    BY <1>1, <1>2, <1>3, <1>4, Zenon DEF Lined
  <2>3. \A i \in DOMAIN queue : queue[i] \in Out BY DEF Out
  <2>4. /\ \A i, j \in DOMAIN queue' : i < j => content'[queue'[i]].seq < content'[queue'[j]].seq
        /\ \A c \in Sent' : \A i \in DOMAIN queue' : content'[c].seq < content'[queue'[i]].seq
    <3>1. \A c \in Sent : c \in Out BY DEF Out
    <3>2. \A i \in DOMAIN queue : content'[queue[i]].seq = content[queue[i]].seq BY <1>3, <2>3, Zenon
    <3>3. \A c \in Sent : content'[c].seq = content[c].seq BY <1>3, <3>1, Zenon
    <3>4. /\ \A i, j \in DOMAIN queue : i < j => content[queue[i]].seq < content[queue[j]].seq
          /\ \A c \in Sent : \A i \in DOMAIN queue : content[c].seq < content[queue[i]].seq
      BY <1>1, Zenon DEF Lined
    <3>5. \A i, j \in DOMAIN queue : i < j => content'[queue[i]].seq < content'[queue[j]].seq
      BY <3>2, <3>4, Zenon
    <3>6. \A c \in Sent : \A i \in DOMAIN queue : content'[c].seq < content'[queue[i]].seq
      BY <3>2, <3>3, <3>4, Zenon
    <3> QED BY <3>5, <3>6, Zenon
  <2>5. \A c, d \in Out' : content'[c].seq < content'[d].seq => Below(In(c)', In(d)')
    BY <1>1, <1>2, <1>3, <1>4, Zenon DEF Lined
  <2>6. /\ \A c \in Out' : content'[c].seq < cloud_seq'
        /\ \A k \in DOMAIN published' : published'[k].seq < cloud_seq'
    BY <1>1, <1>2, <1>3, Zenon DEF Lined
  <2>7. \A d \in Filled' : In(d)' = Numbers(s)
    <3>1. \A d \in Filled' : d = g OBVIOUS
    <3> QED BY <1>5, <3>1, Zenon DEF In
  <2>8. /\ \A c \in Out', d \in Filled' : Below(In(c)', In(d)')
        /\ \A k \in DOMAIN published' : \A d \in Filled' : Below(Numbers(published'[k].data), In(d)')
    BY <1>2, <1>4, <2>7, Zenon
  <2> QED BY <2>1, <2>2, <2>4, <2>5, <2>6, <2>8, Zenon DEF Lined
<1> QED BY <1>6, <1>7

\* It is empty.
LEMMA FilledEmpty ==
  ASSUME SourceInv, OrderInv, NEW g \in Clouds, g \notin Out, Filled' = {g},
         setup' = setup, published' = published, queue' = queue, cloud_seq' = cloud_seq, Sent' = Sent,
         \A c \in Clouds : c # g => content'[c] = content[c], content'[g].points = <<>>,
         pending' = pending, pkts' = pkts, batch' = batch
  PROVE  OrderInv'
<1>1. /\ \A c \in Out : Below(In(c), Numbers(<<>>))
      /\ \A k \in DOMAIN published : Below(Numbers(published[k].data), Numbers(<<>>))
  BY NumbersOfNone DEF Below
<1>2. Ordered' /\ Lined'
  <2> DEFINE s == <<>>
  <2>1. /\ content'[g].points = s /\ Regular(s)
        /\ \A c \in Out : Below(In(c), Numbers(s))
        /\ \A k \in DOMAIN published : Below(Numbers(published[k].data), Numbers(s))
    BY <1>1, MadeNone, Zenon
  <2> HIDE DEF s
  <2> QED BY <2>1, FilledChanges, Zenon
<1>3. Out' = Out /\ Pub' = Pub BY Zenon DEF Out, Pub
<1>4. \A c \in Out : c \in Clouds /\ c # g /\ In(c)' = In(c)
  <2>1. \A c \in Out : c \in Clouds /\ c # g BY OutClouds
  <2> QED BY <2>1, Zenon DEF In
<1>5. In(g)' = {} BY NumbersOfNone, Zenon DEF In
<1>6. Live' = Out \cup {g} BY <1>3 DEF Live, Out
<1>7. Drawn' \subseteq Drawn
  <2> DEFINE L == Live'
             N(c) == In(c)'
  <2>1. Drawn' = Pub \cup UNION {N(c) : c \in L} BY <1>3, Zenon DEF Drawn
  <2>2. \A c \in L : (c = g /\ N(c) = {}) \/ (c \in Out /\ N(c) = In(c))
    BY <1>4, <1>5, <1>6
  <2> HIDE DEF L, N
  <2>3. Live = Out \cup Filled BY OutClouds
  <2>4. \A n : n \in Drawn' => n \in Drawn
    BY <2>1, <2>2, <2>3, DrawnOf
  <2> QED BY <2>4
<1>8. Waiting' BY <1>7, WaitingStays, Zenon
<1> QED BY <1>2, <1>8, Zenon DEF OrderInv

LEMMA OrderNewCloud ==
  ASSUME SourceInv, OrderInv, HandleNewCloud
  PROVE  OrderInv'
<1> DEFINE g == GetPointCloud
<1>1. /\ setup' = setup /\ pending' = pending /\ pkts' = pkts /\ batch' = batch
      /\ queue' = queue /\ cloud_seq' = cloud_seq /\ msg' = msg /\ published' = published
      /\ ppc' = ppc /\ hpc' = "points" /\ point_cloud' = g
      /\ content' = [content EXCEPT ![g].points = <<>>]
  BY Zenon DEF HandleNewCloud, handleRest, inVars, pubVars
<1>2. g \in Clouds /\ g # msg /\ \A i \in DOMAIN queue : queue[i] # g
  BY NewCloud
<1> HIDE DEF g
<1>3. /\ content'[g].points = <<>> /\ \A c \in Clouds : c # g => content'[c] = content[c]
  BY <1>1, <1>2, Emptied, Zenon
<1>4. g # NoCloud BY <1>2, SourceAssumption
<1>5. Filled' = {g} /\ Sent' = Sent /\ g \notin Out
  BY <1>1, <1>2, <1>4 DEF Filled, Sent, Out
<1> QED BY <1>1, <1>2, <1>3, <1>5, FilledEmpty, Zenon

LEMMA OrderJoinHandle ==
  ASSUME SourceInv, OrderInv, JoinHandle
  PROVE  OrderInv'
<1> DEFINE pc == point_cloud
<1>1. /\ setup' = setup /\ pending' = pending /\ pkts' = pkts /\ batch' = batch
      /\ queue' = queue /\ cloud_seq' = cloud_seq /\ msg' = msg /\ published' = published
      /\ ppc' = ppc /\ hpc' = hpc /\ point_cloud' = pc /\ mpc = "joinHandle" /\ hpc = "off"
      /\ content' = [content EXCEPT ![pc].points = <<>>]
  BY Zenon DEF JoinHandle, inVars, pcVars, pubVars
<1>2. pc \in Clouds /\ pc # NoCloud
  <2>1. Typed /\ Control BY Zenon DEF SourceInv
  <2> QED BY <1>1, <2>1 DEF Typed, Control
<1>3. /\ content'[pc].points = <<>> /\ \A c \in Clouds : c # pc => content'[c] = content[c]
  BY <1>1, <1>2, Emptied, Zenon
<1>4. hpc # "split" /\ hpc' # "split" BY <1>1
<1>5. Filled' = {pc} /\ Sent' = Sent BY <1>1, <1>2, <1>4 DEF Filled, Sent
<1>6. pc \notin Out BY <1>4, OutClouds
<1> HIDE DEF pc
<1> QED BY <1>1, <1>2, <1>3, <1>5, <1>6, FilledEmpty, Zenon

LEMMA OrderInitSource ==
  ASSUME SourceInv, OrderInv, InitSource
  PROVE  OrderInv'
<1> DEFINE g == CHOOSE c \in Clouds : TRUE
<1>1. /\ setup' = setup /\ pending' = pending /\ pkts' = pkts /\ batch' = batch
      /\ queue' = queue /\ cloud_seq' = cloud_seq /\ msg' = msg /\ published' = published
      /\ content' = content /\ mpc = "init" /\ ppc' = "loop" /\ hpc' = hpc /\ point_cloud' = g
  BY Zenon DEF InitSource
<1>2. Control BY Zenon DEF SourceInv
<1>3. /\ ppc = "off" /\ queue = <<>> /\ hpc = "off"
      /\ \A c \in Clouds : content[c].points = <<>>
  BY <1>1, <1>2 DEF Control
<1>4. g \in Clouds
  <2>1. IsFiniteSet(Clouds) /\ CloudCap \in Nat /\ Cardinality(Clouds) >= CloudCap * 2 + 3
    BY SourceAssumption
  <2>2. Cardinality({}) = 0 BY FS_EmptySet
  <2>3. Clouds # {} BY <2>1, <2>2
  <2> QED BY <2>3
<1> HIDE DEF g
<1>5. g # NoCloud BY <1>4, SourceAssumption
<1>6. Sent' = Sent /\ Sent = {} /\ Filled' = {g} BY <1>1, <1>3, <1>5 DEF Sent, Filled
<1>7. g \notin Out BY <1>3, <1>6 DEF Out
<1>8. content'[g].points = <<>> /\ \A c \in Clouds : c # g => content'[c] = content[c]
  BY <1>1, <1>3, <1>4, Zenon
<1> QED BY <1>1, <1>4, <1>6, <1>7, <1>8, FilledEmpty, Zenon

\* The points of the packet go to the cloud that is filled.
LEMMA RisingTail ==
  ASSUME NEW s \in Seq(Packet), s # <<>>, Rising(s)
  PROVE  Rising(Tail(s)) /\ \A n \in Nums(Tail(s)) : Head(s).n < n
<1> DEFINE t == Tail(s)
           h == Head(s)
<1>1. /\ 1 \in DOMAIN s /\ h = s[1]
      /\ \A i \in DOMAIN t : i + 1 \in DOMAIN s /\ t[i] = s[i + 1] /\ i \in Nat /\ i # 0
  OBVIOUS
<1> HIDE DEF t, h
<1>2. Rising(t)
  <2> SUFFICES ASSUME NEW i \in DOMAIN t, NEW j \in DOMAIN t, i < j PROVE t[i].n < t[j].n
    BY DEF Rising
  <2>1. i + 1 < j + 1 BY <1>1
  <2> QED BY <1>1, <2>1 DEF Rising
<1>3. \A n \in Nums(t) : h.n < n
  <2> SUFFICES ASSUME NEW i \in DOMAIN t PROVE h.n < t[i].n
    BY DEF Nums
  <2>1. 1 < i + 1 BY <1>1
  <2> QED BY <1>1, <2>1 DEF Rising
<1> QED BY <1>2, <1>3 DEF t, h

LEMMA OrderPacket ==
  ASSUME SourceInv, ~overlapped, OrderInv, HandlePacket
  PROVE  OrderInv'
<1>1. Typed /\ Control /\ Counted BY Zenon DEF SourceInv, Accounted
<1> DEFINE p == Head(batch)
           rest == Tail(batch)
           pc == point_cloud
<1>2. /\ setup' = setup /\ pending' = pending /\ pkts' = pkts /\ batch' = rest
      /\ queue' = queue /\ cloud_seq' = cloud_seq /\ msg' = msg /\ published' = published
      /\ ppc' = ppc /\ point_cloud' = pc /\ batch # <<>> /\ hpc \in {"decode", "points"} /\ hpc' = "decode"
  BY Zenon DEF HandlePacket, handleRest, inVars, pubVars
<1>3. content' = IF p.kind = "msop" THEN [content EXCEPT ![pc].points = @ \o PointsOf(p)] ELSE content
  BY Zenon DEF HandlePacket
<1>4. hpc # "split" /\ hpc # "off" BY <1>2
<1>5. pc \in Clouds /\ pc # NoCloud /\ content \in [Clouds -> Cloud] /\ batch \in Seq(Packet)
  BY <1>1, <1>4, Zenon DEF Typed, Control
<1>6. /\ p \in Packet /\ p.n \in Nums(batch)
      /\ \A n : n \in Nums(rest) <=> n \in Nums(batch) /\ n # p.n
  BY <1>1, <1>2, <1>5, TailKnown, Zenon DEF Counted
<1>7. /\ Rising(batch) /\ Rising(pkts) /\ Rising(pending)
      /\ InTurn(Drawn, Nums(batch), Nums(pkts), Nums(pending))
  BY Zenon DEF OrderInv, Waiting
<1>8. Rising(rest) /\ \A n \in Nums(rest) : p.n < n
  BY <1>2, <1>5, <1>7, RisingTail, Zenon
<1> HIDE DEF p, rest
<1>9. Filled = {pc} /\ Filled' = {pc} /\ Sent' = Sent
  BY <1>2, <1>4, <1>5 DEF Filled, Sent
<1>10. pc \notin Out /\ Live = Out \cup {pc} BY <1>4, <1>9, OutClouds
<1>11. Out' = Out /\ Live' = Live /\ Pub' = Pub
  BY <1>2, <1>9, Zenon DEF Out, Live, Pub
<1>12. Ordered /\ Lined BY Zenon DEF OrderInv
<1>13. \A n \in Drawn : n < p.n
  BY <1>6, <1>7 DEF InTurn, Below
<1>14. /\ \A c \in Live : \A n \in In(c) : n < p.n
       /\ \A n \in Pub : n < p.n
  BY <1>13, DrawnOf
<1>15. /\ Ordered' /\ Lined'
       /\ \A n \in Drawn' : n \in Drawn \/ n = p.n
  <2>1. CASE p.kind = "msop"
    <3> DEFINE old == content[pc].points
               new == old \o PointsOf(p)
               e == [content[pc] EXCEPT !.points = new]
    <3>1. old \in Seq(Nat \X Nat) BY <1>5 DEF Cloud
    <3>2. In(pc) = Numbers(old) BY Zenon DEF In
    <3>3. Regular(old) BY <1>5, <1>12, Zenon DEF Ordered
    <3>4. \A n \in Numbers(old) : n < p.n BY <1>10, <1>14, <3>2
    <3> HIDE DEF old
    <3>5. Regular(new) BY <1>6, <3>1, <3>3, <3>4, MadeMore, Zenon
    <3>6. new \in Seq(Nat \X Nat) /\ \A n : n \in Numbers(new) <=> n \in Numbers(old) \/ n = p.n
      BY <1>6, <3>1, PacketPoints, Zenon
    <3>7. content' = [content EXCEPT ![pc] = e] BY <1>3, <2>1, Zenon DEF old
    <3> HIDE DEF new
    <3>8. e \in Cloud /\ e.points = new BY <1>5, <3>6 DEF Cloud
    <3> HIDE DEF e
    <3>9. content'[pc].points = new /\ \A c \in Clouds : c # pc => content'[c] = content[c]
      BY <1>5, <3>7, <3>8
    <3>10. \A c \in Out : Below(In(c), Numbers(new))
      <4>1. \A c \in Out : Below(In(c), Numbers(old))
        BY <1>9, <1>12, <3>2, Zenon DEF Lined
      <4>2. \A c \in Out : \A n \in In(c) : n < p.n BY <1>10, <1>14
      <4> QED BY <3>6, <4>1, <4>2 DEF Below
    <3>11. \A k \in DOMAIN published : Below(Numbers(published[k].data), Numbers(new))
      <4>1. \A k \in DOMAIN published : Below(Numbers(published[k].data), Numbers(old))
        BY <1>9, <1>12, <3>2, Zenon DEF Lined
      <4>2. \A k \in DOMAIN published : \A n \in Numbers(published[k].data) : n < p.n
        BY <1>14 DEF Pub
      <4> QED BY <3>6, <4>1, <4>2 DEF Below
    <3>12. Ordered' /\ Lined'
      <4> HIDE DEF pc
      <4> QED BY <1>2, <1>5, <1>9, <1>10, <3>5, <3>9, <3>10, <3>11, FilledChanges, Zenon
    <3>13. \A n \in Drawn' : n \in Drawn \/ n = p.n
      <4> DEFINE N(c) == In(c)'
      <4>1. Drawn' = Pub \cup UNION {N(c) : c \in Live} BY <1>11, Zenon DEF Drawn
      <4>2. \A c \in Out : N(c) = In(c)
        <5>1. \A c \in Out : c \in Clouds /\ c # pc BY <1>10, OutClouds
        <5> QED BY <3>9, <5>1, Zenon DEF In
      <4>3. N(pc) = Numbers(new) BY <1>2, <3>9, Zenon DEF In
      <4> HIDE DEF N
      <4>4. \A c \in Live : \A n \in N(c) : n \in In(c) \/ n = p.n
        BY <1>10, <3>2, <3>6, <4>2, <4>3
      <4> QED BY <4>1, <4>4, DrawnOf
    <3> QED BY <3>12, <3>13
  <2>2. CASE p.kind # "msop"
    <3>1. content' = content BY <1>3, <2>2
    <3>2. Ordered' /\ Lined' /\ Drawn' = Drawn
      BY <1>2, <1>9, <3>1, CloudsInOrder, Zenon
    <3> QED BY <3>2
  <2> QED BY <2>1, <2>2
<1>16. Waiting'
  <2> DEFINE D == Drawn'
  <2> HIDE DEF D
  <2>1. \A n \in D : n \in Drawn \/ n = p.n BY <1>15 DEF D
  <2>2. InTurn(D, Nums(rest), Nums(pkts), Nums(pending))
    BY <1>6, <1>7, <1>8, <2>1 DEF InTurn, Below
  <2>3. InTurn(Drawn', Nums(batch'), Nums(pkts'), Nums(pending')) BY <1>2, <2>2, Zenon DEF D
  <2>4. Rising(batch)' /\ Rising(pkts)' /\ Rising(pending)' BY <1>2, <1>7, <1>8, Zenon DEF Rising
  <2> QED BY <2>3, <2>4, Zenon DEF Waiting
<1> QED BY <1>15, <1>16, Zenon DEF OrderInv

LEMMA OrderSplit ==
  ASSUME SourceInv, OrderInv, HandleSplit
  PROVE  OrderInv'
<1>1. Typed /\ Control /\ Owned BY Zenon DEF SourceInv
<1>2. Ordered /\ Lined BY Zenon DEF OrderInv
<1> DEFINE pc == point_cloud
           d == SetPointCloudHeader(content[pc], cloud_seq)
<1>3. /\ setup' = setup /\ pending' = pending /\ pkts' = pkts /\ batch' = batch
      /\ msg' = msg /\ published' = published /\ ppc' = ppc /\ point_cloud' = pc
      /\ hpc = "decode" /\ hpc' = "split" /\ content[pc].points # <<>>
      /\ cloud_seq' = cloud_seq + 1 /\ content' = [content EXCEPT ![pc] = d]
      /\ queue' = Append(queue, pc) \/ queue' = queue
  BY Zenon DEF HandleSplit, handleRest, inVars, pubVars
<1>4. /\ pc \in Clouds /\ pc # NoCloud /\ content \in [Clouds -> Cloud] /\ cloud_seq \in Nat
      /\ queue \in Seq(Clouds)
  BY <1>1, <1>3, Zenon DEF Typed, Control
<1>5. content[pc] \in Cloud /\ Regular(content[pc].points)
  BY <1>2, <1>4, Zenon DEF Ordered
<1>6. d.points = content[pc].points /\ d.seq = cloud_seq /\ Headed(d)
  <2> DEFINE c == content[pc]
  <2>1. c \in Cloud /\ cloud_seq \in Nat /\ Regular(c.points) /\ c.points # <<>> BY <1>3, <1>4, <1>5
  <2> HIDE DEF c
  <2> QED BY <2>1, HeaderRight DEF c
<1> HIDE DEF d
<1>7. content'[pc] = d /\ \A c \in Clouds : c # pc => content'[c] = content[c]
  BY <1>3, <1>4
<1>8. \A c \in Clouds : content'[c].points = content[c].points BY <1>6, <1>7, Zenon
<1>9. \A c \in Clouds : In(c)' = In(c) BY <1>8, Zenon DEF In
<1>10. Filled = {pc} /\ Filled' = {} /\ Sent' = Sent
  BY <1>3, <1>4 DEF Filled, Sent
<1>11. hpc # "split" BY <1>3
<1>12. Out \subseteq Clouds /\ pc \notin Out /\ Live = Out \cup {pc}
  BY <1>10, <1>11, OutClouds
<1>13. /\ DOMAIN queue = 1..Len(queue) /\ Len(queue) \in Nat
       /\ \A i \in DOMAIN queue' : (i \in DOMAIN queue /\ queue'[i] = queue[i])
                                   \/ (i = Len(queue) + 1 /\ queue'[i] = pc)
  <2>1. DOMAIN queue = 1..Len(queue) /\ Len(queue) \in Nat BY <1>4
  <2>2. CASE queue' = queue BY <2>2
  <2>3. CASE queue' = Append(queue, pc)
    <3> HIDE DEF pc
    <3>1. /\ DOMAIN queue' = 1..(Len(queue) + 1)
          /\ \A i \in 1..Len(queue) : queue'[i] = queue[i]
          /\ queue'[Len(queue) + 1] = pc
      BY <1>4, <2>3
    <3>2. \A i \in 1..(Len(queue) + 1) : i \in 1..Len(queue) \/ i = Len(queue) + 1 BY <2>1
    <3> QED BY <2>1, <3>1, <3>2
  <2> QED BY <1>3, <2>1, <2>2, <2>3
<1> HIDE DEF pc
<1>14. \A c \in Out' : c \in Out \/ c = pc
  <2> DEFINE Q == {queue'[i] : i \in DOMAIN queue'}
  <2>1. Out' = Q \cup Sent BY <1>10, Zenon DEF Out
  <2>2. \A c \in Q : c = pc \/ \E i \in DOMAIN queue : c = queue[i] BY <1>13
  <2> HIDE DEF Q
  <2> QED BY <2>1, <2>2 DEF Out
<1>15. \A c \in Out : content'[c] = content[c] /\ c \in Clouds /\ c # pc BY <1>7, <1>12
<1>16. Ordered'
  <2>1. \A c \in Clouds : Regular(content[c].points)'
    <3>1. \A c \in Clouds : Regular(content[c].points) BY <1>2, Zenon DEF Ordered
    <3> QED BY <1>3, <1>8, <3>1, RegularStays, Zenon
  <2>2. \A c \in Out' : Headed(content[c])'
    <3>1. \A c : c = pc => Headed(content[c])' BY <1>3, <1>6, <1>7, HeadedStays, Zenon
    <3>2. \A c \in Out : Headed(content[c])'
      BY <1>2, <1>3, <1>15, HeadedStays, Zenon DEF Ordered
    <3> QED BY <1>14, <3>1, <3>2, Zenon
  <2>3. \A k \in DOMAIN published' : InOrder(published[k])'
    BY <1>2, <1>3, InOrderStays, Zenon DEF Ordered
  <2> QED BY <2>1, <2>2, <2>3, Zenon DEF Ordered
<1>17. /\ \A c \in Out : content[c].seq < cloud_seq /\ content[c].seq \in Nat
       /\ \A k \in DOMAIN published : published[k].seq < cloud_seq /\ published[k].seq \in Nat
  <2>1. \A c \in Clouds : content[c].seq \in Nat BY <1>4 DEF Cloud
  <2>2. \A k \in DOMAIN published : published[k].seq \in Nat
    <3>1. published \in Seq(Message) BY <1>1, Zenon DEF Typed
    <3>2. \A k \in DOMAIN published : published[k] \in Message BY <3>1
    <3> QED BY <3>2 DEF Message
  <2> QED BY <1>2, <1>12, <2>1, <2>2 DEF Lined
<1> DEFINE A(c) == content'[c].seq
           B(c) == In(c)'
<1>18. /\ \A c \in Out : A(c) = content[c].seq /\ B(c) = In(c)
       /\ A(pc) = cloud_seq /\ B(pc) = In(pc)
  <2>1. A(pc) = cloud_seq /\ \A c \in Out : A(c) = content[c].seq BY <1>6, <1>7, <1>15, Zenon
  <2>2. \A c \in Clouds : B(c) = In(c) BY <1>9
  <2> HIDE DEF A, B
  <2> QED BY <1>4, <1>12, <2>1, <2>2
<1>19. /\ \A c \in Out : Below(In(c), In(pc))
       /\ \A k \in DOMAIN published : Below(Numbers(published[k].data), In(pc))
  BY <1>2, <1>10, Zenon DEF Lined
<1>20. Lined'
  <2> HIDE DEF A, B
  <2>1. \A k, l \in DOMAIN published : k < l =>
          /\ published[k].seq < published[l].seq
          /\ Below(Numbers(published[k].data), Numbers(published[l].data))
    BY <1>2, Zenon DEF Lined
  <2>2. \A k \in DOMAIN published : \A c \in Out' :
          published[k].seq < A(c) /\ Below(Numbers(published[k].data), B(c))
    <3>1. \A k \in DOMAIN published : \A c \in Out :
            published[k].seq < content[c].seq /\ Below(Numbers(published[k].data), In(c))
      BY <1>2, Zenon DEF Lined
    <3> QED BY <1>14, <1>17, <1>18, <1>19, <3>1, Zenon
  <2>3. \A i \in DOMAIN queue : queue[i] \in Out BY DEF Out
  <2>4. \A i, j \in DOMAIN queue' : i < j => A(queue'[i]) < A(queue'[j])
    <3>1. SUFFICES ASSUME NEW i \in DOMAIN queue', NEW j \in DOMAIN queue', i < j
                   PROVE  A(queue'[i]) < A(queue'[j])
      OBVIOUS
    <3>2. i \in DOMAIN queue /\ queue'[i] = queue[i]
      <4>1. j \in Nat /\ j <= Len(queue) + 1 BY <1>13
      <4>2. i # Len(queue) + 1 BY <1>13, <3>1, <4>1
      <4> QED BY <1>13, <4>2
    <3>3. A(queue'[i]) = content[queue[i]].seq /\ queue[i] \in Out BY <1>18, <2>3, <3>2, Zenon
    <3>4. CASE j \in DOMAIN queue /\ queue'[j] = queue[j]
      <4>1. content[queue[i]].seq < content[queue[j]].seq BY <1>2, <3>1, <3>2, <3>4, Zenon DEF Lined
      <4>2. A(queue'[j]) = content[queue[j]].seq BY <1>18, <2>3, <3>4, Zenon
      <4> QED BY <3>3, <4>1, <4>2, Zenon
    <3>5. CASE queue'[j] = pc BY <1>17, <1>18, <3>3, <3>5, Zenon
    <3> QED BY <1>13, <3>4, <3>5
  <2>5. \A c \in Sent : \A i \in DOMAIN queue' : A(c) < A(queue'[i])
    <3>1. SUFFICES ASSUME NEW c \in Sent, NEW i \in DOMAIN queue' PROVE A(c) < A(queue'[i])
      OBVIOUS
    <3>2. c \in Out BY DEF Out
    <3>3. CASE i \in DOMAIN queue /\ queue'[i] = queue[i]
      <4>1. content[c].seq < content[queue[i]].seq BY <1>2, <3>3, Zenon DEF Lined
      <4> QED BY <1>18, <2>3, <3>2, <3>3, <4>1, Zenon
    <3>4. CASE queue'[i] = pc BY <1>17, <1>18, <3>2, <3>4, Zenon
    <3> QED BY <1>13, <3>3, <3>4, Zenon
  <2>6. \A c, e \in Out' : A(c) < A(e) => Below(B(c), B(e))
    <3>1. SUFFICES ASSUME NEW c \in Out', NEW e \in Out', A(c) < A(e) PROVE Below(B(c), B(e))
      OBVIOUS
    <3>2. c \in Out
      <4>1. SUFFICES ASSUME c = pc PROVE FALSE BY <1>14
      <4>2. CASE e = pc BY <1>4, <1>18, <3>1, <4>1, <4>2
      <4>3. CASE e \in Out
        <5>1. content[e].seq < cloud_seq /\ content[e].seq \in Nat /\ A(e) = content[e].seq
          BY <1>17, <1>18, <4>3, Zenon
        <5> QED BY <1>4, <1>18, <3>1, <4>1, <5>1
      <4> QED BY <1>14, <4>2, <4>3
    <3>3. CASE e = pc BY <1>18, <1>19, <3>2, <3>3, Zenon
    <3>4. CASE e \in Out
      <4>1. content[c].seq < content[e].seq BY <1>18, <3>1, <3>2, <3>4, Zenon
      <4>2. Below(In(c), In(e)) BY <1>2, <3>2, <3>4, <4>1, Zenon DEF Lined
      <4> QED BY <1>18, <3>2, <3>4, <4>2, Zenon
    <3> QED BY <1>14, <3>3, <3>4, Zenon
  <2>7. /\ \A c \in Out' : A(c) < cloud_seq'
        /\ \A k \in DOMAIN published : published[k].seq < cloud_seq'
    <3>1. \A c \in Out' : A(c) \in Nat /\ A(c) <= cloud_seq BY <1>4, <1>14, <1>17, <1>18
    <3> QED BY <1>3, <1>4, <1>17, <3>1
  <2> QED BY <1>3, <1>10, <2>1, <2>2, <2>4, <2>5, <2>6, <2>7, Zenon DEF Lined, A, B
<1>21. Drawn' \subseteq Drawn
  <2> HIDE DEF A, B
  <2>1. Live' = Out' BY <1>10 DEF Live, Out
  <2>2. Pub' = Pub BY <1>3, Zenon DEF Pub
  <2>3. Drawn' = Pub \cup UNION {B(c) : c \in Out'} BY <2>1, <2>2, Zenon DEF Drawn, B
  <2> DEFINE L == Out'
  <2>4. \A c \in L : c \in Live /\ B(c) = In(c) BY <1>12, <1>14, <1>18
  <2> HIDE DEF L
  <2> QED BY <2>3, <2>4, DrawnOf DEF L
<1>22. Waiting' BY <1>3, <1>21, WaitingStays, Zenon
<1> QED BY <1>16, <1>20, <1>22, Zenon DEF OrderInv

LEMMA OrderTake ==
  ASSUME SourceInv, OrderInv, PublishTake
  PROVE  OrderInv'
<1> DEFINE q == Head(queue)
           t == Tail(queue)
<1>1. /\ setup' = setup /\ pending' = pending /\ pkts' = pkts /\ batch' = batch
      /\ published' = published /\ content' = content /\ point_cloud' = point_cloud
      /\ cloud_seq' = cloud_seq /\ hpc' = hpc /\ ppc = "wait" /\ ppc' = "send"
      /\ queue # <<>> /\ msg' = q /\ queue' = t
  BY Zenon DEF PublishTake, pubRest, inVars, pcVars
<1>2. queue \in Seq(Clouds) BY DEF SourceInv, Typed
<1>3. /\ 1 \in DOMAIN queue /\ q = queue[1]
      /\ \A i \in DOMAIN t : i + 1 \in DOMAIN queue /\ t[i] = queue[i + 1] /\ i \in Nat /\ i # 0
      /\ \A i \in DOMAIN queue : i = 1 \/ (i - 1 \in DOMAIN t /\ (i - 1) + 1 = i)
  BY <1>1, <1>2
<1> HIDE DEF q, t
<1>4. Sent = {} /\ Sent' = {q} /\ Filled' = Filled BY <1>1 DEF Sent, Filled
<1>5. Out' = Out
  <2>1. Out = {queue[i] : i \in DOMAIN queue} BY <1>4 DEF Out
  <2>2. Out' = {t[i] : i \in DOMAIN t} \cup {q} BY <1>1, <1>4 DEF Out
  <2>3. \A i \in DOMAIN queue : queue[i] = q \/ \E j \in DOMAIN t : queue[i] = t[j] BY <1>3
  <2>4. \A i \in DOMAIN t : \E j \in DOMAIN queue : t[i] = queue[j] BY <1>3
  <2>5. q \in {queue[i] : i \in DOMAIN queue} BY <1>3
  <2> QED BY <2>1, <2>2, <2>3, <2>4, <2>5
<1>6. Ordered /\ Lined BY Zenon DEF OrderInv
<1>7. Ordered'
  <2>1. Out' \subseteq Out BY <1>5
  <2> QED BY <1>1, <1>6, <2>1, OrderedStays, Zenon
<1>8. Lined'
  <2>1. \A i, j \in DOMAIN queue : i < j => content[queue[i]].seq < content[queue[j]].seq
    BY <1>6, Zenon DEF Lined
  <2>2. \A i, j \in DOMAIN t : i < j => content[t[i]].seq < content[t[j]].seq
    <3>1. \A i, j \in DOMAIN t : i < j => i + 1 < j + 1 BY <1>3
    <3> QED BY <1>3, <2>1, <3>1, Zenon
  <2>3. \A c \in {q} : \A i \in DOMAIN t : content[c].seq < content[t[i]].seq
    <3>1. \A i \in DOMAIN t : 1 < i + 1 BY <1>3
    <3>2. \A i \in DOMAIN t : content[q].seq < content[t[i]].seq BY <1>3, <2>1, <3>1, Zenon
    <3> QED BY <3>2
  <2>4. \A c : In(c)' = In(c) BY <1>1, Zenon DEF In
  <2>5. /\ \A i, j \in DOMAIN queue' : i < j => content'[queue'[i]].seq < content'[queue'[j]].seq
        /\ \A c \in Sent' : \A i \in DOMAIN queue' : content'[c].seq < content'[queue'[i]].seq
    BY <1>1, <1>4, <2>2, <2>3, Zenon
  <2> QED BY <1>1, <1>4, <1>5, <1>6, <2>4, <2>5, Zenon DEF Lined
<1>9. Drawn' \subseteq Drawn
  <2>1. Live' = Live
    <3>1. Live = Out \cup Filled BY OutClouds
    <3>2. Live' = Out' \cup Filled' BY DEF Live, Out
    <3> QED BY <1>4, <1>5, <3>1, <3>2, Zenon
  <2>2. Drawn' = Drawn BY <1>1, <2>1, Zenon DEF Drawn, Pub, In
  <2> QED BY <2>2
<1>10. Waiting' BY <1>1, <1>9, WaitingStays, Zenon
<1> QED BY <1>7, <1>8, <1>10, Zenon DEF OrderInv

\* A message has the packets of its cloud.
LEMMA SentNumbers ==
  ASSUME SourceInv, OrderInv, msg \in Out
  PROVE  Numbers(ToRosMsg(content[msg], SendByRows).data) = In(msg)
<1> DEFINE c == content[msg]
           b == SendByRows
<1>1. msg \in Clouds BY OutClouds
<1>2. c \in Cloud BY <1>1 DEF SourceInv, Typed
<1>3. Headed(c) BY DEF OrderInv, Ordered
<1>4. b => c.height = Height /\ Len(c.points) = c.width * Height
  BY <1>3 DEF Headed, SendByRows
<1>5. b \in BOOLEAN BY DEF SendByRows
<1>6. In(msg) = Numbers(c.points) BY Zenon DEF In
<1> HIDE DEF c, b
<1>7. \A n : n \in Numbers(ToRosMsg(c, b).data) <=> n \in Numbers(c.points)
  BY <1>2, <1>4, <1>5, MessageOfCloud, Zenon
<1> QED BY <1>6, <1>7 DEF c, b

LEMMA OrderSend ==
  ASSUME SourceInv, OrderInv, PublishSend
  PROVE  OrderInv'
<1>1. Typed /\ Control /\ Owned BY Zenon DEF SourceInv
<1>2. Ordered /\ Lined BY Zenon DEF OrderInv
<1> DEFINE m == ToRosMsg(content[msg], SendByRows)
<1>3. /\ setup' = setup /\ pending' = pending /\ pkts' = pkts /\ batch' = batch
      /\ content' = content /\ point_cloud' = point_cloud /\ queue' = queue
      /\ cloud_seq' = cloud_seq /\ hpc' = hpc /\ ppc = "send" /\ ppc' = "recycle"
      /\ published' = Append(published, m)
  BY Zenon DEF PublishSend, pubRest, inVars, pcVars
<1>4. Sent = {msg} /\ Sent' = {} /\ Filled' = Filled BY <1>3 DEF Sent, Filled
<1>5. msg \in Out BY <1>4 DEF Out
<1>6. Out' \subseteq Out /\ Out' = {queue[i] : i \in DOMAIN queue} BY <1>3, <1>4 DEF Out
<1>7. msg \in Clouds BY <1>5, OutClouds
<1>8. content[msg] \in Cloud /\ published \in Seq(Message) BY <1>1, <1>7 DEF Typed
<1>9. Regular(content[msg].points) /\ Headed(content[msg])
  BY <1>2, <1>5, <1>7, Zenon DEF Ordered
<1>10. InOrder(m) /\ m.seq = content[msg].seq
  <2> DEFINE c == content[msg]
  <2>1. c \in Cloud /\ Regular(c.points) /\ Headed(c) BY <1>8, <1>9
  <2> HIDE DEF c
  <2> QED BY <2>1, MessageInOrder DEF c
<1>11. Numbers(m.data) = In(msg) BY <1>5, SentNumbers
<1> HIDE DEF m
<1>12. /\ Len(published) \in Nat /\ DOMAIN published = 1..Len(published)
       /\ \A k \in DOMAIN published' : (k \in DOMAIN published /\ published'[k] = published[k])
                                       \/ (k = Len(published) + 1 /\ published'[k] = m)
  BY <1>3, <1>8
<1>13. Ordered'
  <2>1. \A c \in Clouds : Regular(content[c].points)'
    BY <1>2, <1>3, RegularStays, Zenon DEF Ordered
  <2>2. \A c \in Out' : Headed(content[c])'
    <3>1. \A c \in Out' : Headed(content[c]) BY <1>2, <1>6 DEF Ordered
    <3> QED BY <1>3, <3>1, HeadedStays, Zenon
  <2>3. \A k \in DOMAIN published' : InOrder(published[k])'
    <3>1. \A k : published'[k] = m => InOrder(published[k])' BY <1>3, <1>10, InOrderStays, Zenon
    <3>2. \A k \in DOMAIN published : published'[k] = published[k] => InOrder(published[k])'
      BY <1>2, <1>3, InOrderStays, Zenon DEF Ordered
    <3> QED BY <1>12, <3>1, <3>2, Zenon
  <2> QED BY <2>1, <2>2, <2>3, Zenon DEF Ordered
<1> DEFINE N(k) == Numbers(published'[k].data)
           T(k) == published'[k].seq
<1>14. \A k \in DOMAIN published' :
         \/ k \in DOMAIN published /\ T(k) = published[k].seq /\ N(k) = Numbers(published[k].data)
         \/ k = Len(published) + 1 /\ T(k) = content[msg].seq /\ N(k) = In(msg)
  BY <1>10, <1>11, <1>12, Zenon
<1> HIDE DEF N, T
<1>15. \A c : In(c)' = In(c) BY <1>3, Zenon DEF In
<1>16. \A k \in DOMAIN published :
         published[k].seq < content[msg].seq /\ Below(Numbers(published[k].data), In(msg))
  BY <1>2, <1>5, Zenon DEF Lined
<1>17. Lined'
  <2>1. \A k, l \in DOMAIN published' : k < l => T(k) < T(l) /\ Below(N(k), N(l))
    <3>1. SUFFICES ASSUME NEW k \in DOMAIN published', NEW l \in DOMAIN published', k < l
                   PROVE  T(k) < T(l) /\ Below(N(k), N(l))
      OBVIOUS
    <3>2. k \in DOMAIN published /\ T(k) = published[k].seq /\ N(k) = Numbers(published[k].data)
      <4>1. l \in Nat /\ l <= Len(published) + 1 BY <1>12
      <4>2. k # Len(published) + 1 BY <1>12, <3>1, <4>1
      <4> QED BY <1>14, <4>2
    <3>3. CASE l \in DOMAIN published /\ T(l) = published[l].seq /\ N(l) = Numbers(published[l].data)
      <4>1. published[k].seq < published[l].seq /\ Below(Numbers(published[k].data), Numbers(published[l].data))
        BY <1>2, <3>1, <3>2, <3>3, Zenon DEF Lined
      <4> QED BY <3>2, <3>3, <4>1, Zenon
    <3>4. CASE T(l) = content[msg].seq /\ N(l) = In(msg) BY <1>16, <3>2, <3>4, Zenon
    <3> QED BY <1>14, <3>3, <3>4, Zenon
  <2>2. \A i \in DOMAIN queue : content[msg].seq < content[queue[i]].seq /\ queue[i] \in Out
    <3>1. msg \in Sent BY <1>4
    <3>2. \A i \in DOMAIN queue : queue[i] \in Out BY DEF Out
    <3> QED BY <1>2, <3>1, <3>2, Zenon DEF Lined
  <2>3. \A c \in Out' : c \in Out /\ content[msg].seq < content[c].seq BY <1>6, <2>2
  <2>4. \A c \in Out' : Below(In(msg), In(c)) BY <1>2, <1>5, <2>3, Zenon DEF Lined
  <2>5. \A k \in DOMAIN published' : \A c \in Out' : T(k) < content[c].seq /\ Below(N(k), In(c))
    <3>1. \A k \in DOMAIN published : \A c \in Out :
            published[k].seq < content[c].seq /\ Below(Numbers(published[k].data), In(c))
      BY <1>2, Zenon DEF Lined
    <3> QED BY <1>14, <2>3, <2>4, <3>1, Zenon
  <2>6. /\ \A i, j \in DOMAIN queue' : i < j => content'[queue'[i]].seq < content'[queue'[j]].seq
        /\ \A c \in Sent' : FALSE
    BY <1>2, <1>3, <1>4, Zenon DEF Lined
  <2>7. \A c, d \in Out' : content[c].seq < content[d].seq => Below(In(c), In(d))
    BY <1>2, <2>3, Zenon DEF Lined
  <2>8. /\ \A c \in Out' : content[c].seq < cloud_seq
        /\ \A k \in DOMAIN published' : T(k) < cloud_seq
    BY <1>2, <1>5, <1>14, <2>3, Zenon DEF Lined
  <2>9. /\ \A c \in Out', d \in Filled : Below(In(c), In(d))
        /\ \A k \in DOMAIN published' : \A d \in Filled : Below(N(k), In(d))
    BY <1>2, <1>5, <1>14, <2>3, Zenon DEF Lined
  <2> QED BY <1>3, <1>4, <1>15, <2>1, <2>5, <2>6, <2>7, <2>8, <2>9, Zenon DEF Lined, T, N
<1>18. Drawn' \subseteq Drawn
  <2> DEFINE P == Pub'
             L == Live'
  <2>1. L \subseteq Live
    <3>1. L = Out' \cup Filled' BY DEF Live, Out
    <3>2. Live = Out \cup Filled BY OutClouds
    <3> QED BY <1>4, <1>6, <3>1, <3>2
  <2>2. msg \in Live BY <1>5, OutClouds
  <2>3. P = UNION {N(k) : k \in DOMAIN published'} BY Zenon DEF Pub, N
  <2> HIDE DEF P, L
  <2>4. \A n \in P : n \in Pub \/ n \in In(msg)
    <3>1. \A k \in DOMAIN published' : \A n \in N(k) : n \in Pub \/ n \in In(msg)
      BY <1>14 DEF Pub
    <3> QED BY <2>3, <3>1
  <2>5. Drawn' = P \cup UNION {In(c) : c \in L} BY <1>15, Zenon DEF Drawn, P, L
  <2> QED BY <2>1, <2>2, <2>4, <2>5, DrawnOf
<1>19. Waiting' BY <1>3, <1>18, WaitingStays, Zenon
<1> QED BY <1>13, <1>17, <1>19, Zenon DEF OrderInv

-----------------------------------------------------------------------------

LEMMA InitOrder ==
  ASSUME SourceInit
  PROVE  OrderInv
<1>1. /\ pending = <<>> /\ pkts = <<>> /\ batch = <<>> /\ queue = <<>> /\ published = <<>>
      /\ ppc = "off" /\ point_cloud = NoCloud /\ content = [c \in Clouds |-> Empty]
  BY Zenon DEF SourceInit
<1>2. Sent = {} /\ Filled = {} BY <1>1 DEF Sent, Filled
<1>3. Out = {} /\ Live = {} /\ Pub = {} BY <1>1, <1>2 DEF Out, Live, Pub
<1>4. DOMAIN published = {} /\ DOMAIN queue = {} BY <1>1
<1>5. Ordered
  <2>1. \A c \in Clouds : content[c].points = <<>> BY <1>1 DEF Empty
  <2> QED BY <1>3, <1>4, <2>1, MadeNone DEF Ordered
<1>6. Lined BY <1>2, <1>3, <1>4 DEF Lined
<1>7. Waiting
  <2>1. Nums(<<>>) = {} /\ Rising(<<>>) BY DEF Nums, Rising
  <2>2. InTurn(Drawn, {}, {}, {}) BY DEF InTurn, Below
  <2> QED BY <1>1, <2>1, <2>2, Zenon DEF Waiting
<1> QED BY <1>5, <1>6, <1>7, Zenon DEF OrderInv

\* A clear() and a popBatch() that have been under way at once are not forgotten.
LEMMA OverlapStays ==
  ASSUME SourceInv, [SourceNext]_vars, overlapped
  PROVE  overlapped'
<1>1. CASE Main
  BY <1>1, Zenon DEF Main, LoadConfig, InitSource, RegisterDestinations, StartHandle, StartInput,
                     StopInput, JoinRecv, JoinHandle, JoinProcess, Destroy
<1>2. CASE Recv \/ Feed \/ Arrive
  BY <1>2, Zenon DEF Recv, RecvExit, RecvEof, RecvNull, RecvPcap, RecvPcapJumbo, RecvEpoll, RecvFrom,
                     RecvServed, RecvPut, RecvRefused, RecvClearHead, RecvClearTail, putRest, Feed, Arrive
<1>3. CASE Handle
  BY <1>3, Zenon DEF Handle, HandleCheck, HandleTimeout, HandlePoll, HandleBatch, HandleStrays,
                     HandleNull, HandleSplit, HandleNewCloud, HandlePacket, HandleDone
<1>4. CASE Publish
  BY <1>4, Zenon DEF Publish, PublishCheck, PublishTimeout, PublishTake, PublishSend, PublishRecycle,
                     pubRest
<1>5. CASE Stopped \/ UNCHANGED vars
  BY <1>5, Zenon DEF Stopped, vars
<1> QED BY <1>1, <1>2, <1>3, <1>4, <1>5, Zenon DEF SourceNext

LEMMA NextOrder ==
  ASSUME SourceInv, ~overlapped, OrderInv, [SourceNext]_vars
  PROVE  OrderInv'
<1>1. CASE Main
  BY <1>1, OrderQuietSteps, OrderInitSource, OrderJoinHandle, Zenon DEF Main
<1>2. CASE Recv \/ Feed \/ Arrive
  BY <1>2, OrderQuietSteps, OrderRecv, OrderRecvPut, Zenon DEF Recv
<1>3. CASE Handle
  BY <1>3, OrderQuietSteps, OrderBatch, OrderSplit, OrderNewCloud, OrderPacket, Zenon DEF Handle,
                     HandleStrays
<1>4. CASE Publish
  BY <1>4, OrderQuietSteps, OrderTake, OrderSend, Zenon DEF Publish
<1>5. CASE Stopped \/ UNCHANGED vars
  BY <1>5, OrderQuietSteps, Zenon DEF Stopped
<1> QED BY <1>1, <1>2, <1>3, <1>4, <1>5, Zenon DEF SourceNext

LEMMA InvPublished ==
  ASSUME SourceInv, OrderInv
  PROVE  PublishedInOrder
<1>1. published \in Seq(Message) BY DEF SourceInv, Typed
<1>2. \A k \in 2..Len(published) : k - 1 \in DOMAIN published /\ k \in DOMAIN published /\ k - 1 < k
  BY <1>1
<1> QED BY <1>2, Zenon DEF OrderInv, Ordered, Lined, PublishedInOrder

\* The messages on the topic of clouds are in order, later ones have later packets
\* and higher numbers, and each has its points in every ring, in the order they were
\* fired: no thread of the node changes the order in which packets came, until one pops
\* a batch while another clears the queue.
THEOREM MessagesInOrder == SourceSpec => []PublishedInOrder
<1> DEFINE Inv == ~overlapped => OrderInv
<1>1. SourceInit => Inv BY InitOrder
<1>2. SourceInv /\ Inv /\ [SourceNext]_vars => Inv' BY NextOrder, OverlapStays
<1>3. SourceInv /\ Inv => PublishedInOrder BY InvPublished, Zenon DEF PublishedInOrder
<1> HIDE DEF Inv
<1> QED BY <1>1, <1>2, <1>3, SourceInvariance, PTL DEF SourceSpec
-----------------------------------------------------------------------------
(* Clouds of packets that come one after the other.  M are the packets so far, B *)
(* those that begin a frame; x comes after all of M, and C is B or B and x.      *)

After(M, x) == \A m \in M : m < x

LEMMA FollowsStays ==
  ASSUME NEW M \in SUBSET Nat, NEW x \in Nat, After(M, x), NEW i \in M, NEW j \in M
  PROVE  Follows(M \cup {x}, i, j) <=> Follows(M, i, j)
<1>1. i < x /\ j < x /\ i \in Nat /\ j \in Nat BY DEF After
<1>2. ~(i < x /\ x < j) BY <1>1
<1> QED BY <1>2 DEF Follows

LEMMA BeginsStays ==
  ASSUME NEW M \in SUBSET Nat, NEW x \in Nat, After(M, x), NEW B, NEW C,
         C = B \/ C = B \cup {x}, NEW i \in M
  PROVE  BeginsCloud(M \cup {x}, C, i) <=> BeginsCloud(M, B, i)
<1>1. i < x /\ i \in Nat BY DEF After
<1>2. i # x /\ i <= x BY <1>1
<1> QED BY <1>2 DEF BeginsCloud

\* A cloud that was ended before x.
LEMMA CloudStays ==
  ASSUME NEW M \in SUBSET Nat, NEW x \in Nat, After(M, x), NEW B, NEW C,
         C = B \/ C = B \cup {x}, NEW S \in SUBSET M, MakesCloud(M, B, S),
         x \in C \/ \A i \in S : \E m \in M : i < m
  PROVE  MakesCloud(M \cup {x}, C, S)
<1> DEFINE N == M \cup {x}
<1>1. \A i \in S : i \in M /\ i \in Nat /\ i < x BY DEF After
<1>2. ASSUME NEW i \in S
      PROVE  BeginsCloud(N, C, i) <=> \A j \in S : ~Follows(N, j, i)
  <2>1. BeginsCloud(M, B, i) <=> \A j \in S : ~Follows(M, j, i) BY DEF MakesCloud
  <2>2. BeginsCloud(N, C, i) <=> BeginsCloud(M, B, i) BY <1>1, BeginsStays
  <2>3. \A j \in S : Follows(N, j, i) <=> Follows(M, j, i) BY <1>1, FollowsStays
  <2> QED BY <2>1, <2>2, <2>3, Zenon
<1>3. ASSUME NEW i \in S, NEW j \in N, Follows(N, i, j)
      PROVE  BeginsCloud(N, C, j) <=> j \notin S
  <2>1. CASE j \in M
    <3>1. Follows(M, i, j) BY <1>1, <1>3, <2>1, FollowsStays
    <3>2. BeginsCloud(M, B, j) <=> j \notin S BY <2>1, <3>1 DEF MakesCloud
    <3> QED BY <2>1, <3>2, BeginsStays
  <2>2. CASE j = x
    <3>1. x \notin S BY <1>1
    <3>2. x \in C
      <4> SUFFICES ASSUME NEW m \in M, i < m PROVE FALSE BY DEF After
      <4>1. m \in N /\ m < x BY DEF After
      <4> QED BY <1>3, <2>2, <4>1 DEF Follows
    <3> QED BY <2>2, <3>1, <3>2 DEF BeginsCloud
  <2> QED BY <2>1, <2>2
<1>4. \A i, j \in S, k \in N : i < k /\ k < j => k \in S
  <2>1. \A j \in S : ~(x < j) BY <1>1
  <2>2. \A i, j \in S, k \in M : i < k /\ k < j => k \in S BY Zenon DEF MakesCloud
  <2> QED BY <2>1, <2>2
<1> QED BY <1>2, <1>3, <1>4, Zenon DEF MakesCloud

\* x belongs to the cloud of the packet before it.
LEMMA CloudGrows ==
  ASSUME NEW M \in SUBSET Nat, NEW x \in Nat, After(M, x), NEW B, x \notin B,
         NEW S \in SUBSET M, MakesCloud(M, B, S), NEW l \in S, \A m \in M : m <= l
  PROVE  MakesCloud(M \cup {x}, B, S \cup {x})
<1> DEFINE N == M \cup {x}
           T == S \cup {x}
<1>1. \A i \in M : i \in Nat /\ i < x /\ ~(x < i) /\ i # x BY DEF After
<1>2. l \in M /\ Follows(N, l, x) /\ ~(x <= l)
  <2>1. l \in M /\ l \in Nat /\ l < x BY <1>1
  <2>2. \A k \in N : ~(l < k /\ k < x) BY <1>1, <2>1
  <2> QED BY <2>1, <2>2 DEF Follows
<1>3. ~BeginsCloud(N, B, x) BY <1>2 DEF BeginsCloud
<1>4. \A j \in N : ~Follows(N, x, j) BY <1>1 DEF Follows
<1>5. ASSUME NEW i \in S
      PROVE  BeginsCloud(N, B, i) <=> \A j \in T : ~Follows(N, j, i)
  <2>1. BeginsCloud(M, B, i) <=> \A j \in S : ~Follows(M, j, i) BY DEF MakesCloud
  <2>2. BeginsCloud(N, B, i) <=> BeginsCloud(M, B, i)
    <3>1. i \in M OBVIOUS
    <3> QED BY <3>1, BeginsStays, Zenon
  <2>3. \A j \in S : Follows(N, j, i) <=> Follows(M, j, i)
    <3>1. i \in M /\ \A j \in S : j \in M OBVIOUS
    <3> QED BY <3>1, FollowsStays, Zenon
  <2>4. ~Follows(N, x, i) BY <1>4
  <2> QED BY <2>1, <2>2, <2>3, <2>4
<1>6. ASSUME NEW i \in T, NEW j \in N, Follows(N, i, j)
      PROVE  BeginsCloud(N, B, j) <=> j \notin T
  <2>1. CASE j = x BY <1>3, <2>1
  <2>2. CASE i \in S /\ j \in M
    <3>1. i \in M BY <2>2
    <3>2. Follows(M, i, j) BY <1>6, <2>2, <3>1, FollowsStays, Zenon
    <3>3. BeginsCloud(M, B, j) <=> j \notin S BY <2>2, <3>2, Zenon DEF MakesCloud
    <3>4. BeginsCloud(N, B, j) <=> BeginsCloud(M, B, j) BY <2>2, BeginsStays, Zenon
    <3>5. j # x BY <1>1, <2>2
    <3> QED BY <3>3, <3>4, <3>5
  <2>3. CASE i = x BY <1>4, <1>6, <2>3
  <2> QED BY <2>1, <2>2, <2>3
<1>7. BeginsCloud(N, B, x) <=> \A j \in T : ~Follows(N, j, x) BY <1>2, <1>3
<1>8. \A i \in T : BeginsCloud(N, B, i) <=> \A j \in T : ~Follows(N, j, i) BY <1>5, <1>7
<1>9. ASSUME NEW i \in T, NEW j \in T, NEW k \in N, i < k, k < j
      PROVE  k \in T
  <2>1. \A a, b \in S, m \in M : a < m /\ m < b => m \in S BY Zenon DEF MakesCloud
  <2>2. CASE k = x BY <2>2
  <2>3. CASE k \in M /\ i \in S
    <3>1. k = l \/ k < l BY <1>1, <1>2, <2>3
    <3>2. l \in S /\ i < k BY <1>9
    <3> QED BY <2>1, <2>3, <3>1, <3>2
  <2>4. CASE k \in M /\ i = x BY <1>1, <1>9, <2>4
  <2> QED BY <2>2, <2>3, <2>4
<1> HIDE DEF N, T
<1>10. MakesCloud(N, B, T) BY <1>6, <1>8, <1>9, Zenon DEF MakesCloud
<1> QED BY <1>10 DEF N, T

\* x is the first of a cloud.
LEMMA CloudBegins ==
  ASSUME NEW M \in SUBSET Nat, NEW x \in Nat, After(M, x), NEW C, x \in C \/ M = {}
  PROVE  MakesCloud(M \cup {x}, C, {x})
<1> DEFINE N == M \cup {x}
<1>1. \A j \in N : ~Follows(N, x, j) BY DEF Follows, After
<1>2. BeginsCloud(N, C, x) BY DEF BeginsCloud
<1> HIDE DEF N
<1>3. x \in N BY DEF N
<1>4. \A i, j \in {x}, k \in N : ~(i < k /\ k < j) BY DEF N
<1> QED BY <1>1, <1>2, <1>3, <1>4 DEF MakesCloud, N

LEMMA NoneMakesCloud == \A M, B : MakesCloud(M, B, {})
  BY DEF MakesCloud

-----------------------------------------------------------------------------
(* The third invariant: what is relayed is what was decoded, cloud by cloud. *)

RosPacket == [seq : Nat, is_difop : BOOLEAN, is_frame_begin : BOOLEAN, data : Packet]

\* The packets relayed are numbered in the order in which they came, below all that wait.
RelayedInTurn ==
  /\ relayed \in Seq(RosPacket)
  /\ \A i, j \in DOMAIN relayed : i < j => relayed[i].data.n < relayed[j].data.n
  /\ \A i \in DOMAIN relayed : relayed[i].data.n \in DOMAIN arrivals
  /\ \A i \in DOMAIN relayed : \A n \in Nums(batch) \cup Nums(pkts) \cup Nums(pending) :
       relayed[i].data.n < n

\* A cloud is split off by a packet that begins a frame and is not decoded yet.
Splitting ==
  /\ hpc \in {"split", "points"} => batch # <<>> /\ Head(batch).kind = "msop" /\ Head(batch).begins
  /\ hpc = "points" => In(point_cloud) = {}

\* Nothing is relayed, and there is no cloud, before the driver knows whether to relay.
NothingEarly ==
  mpc \in {"main", "init", "created", "ready"} =>
    /\ relayed = <<>> /\ published = <<>> /\ Out = {}
    /\ \A c \in Clouds : In(c) = {}

\* A cloud with the packets S has what a decoder makes of the packets relayed.
Relays(S) ==
  /\ \A n \in S : \E i \in RelayedMsop : relayed[i].data.n = n
  /\ MakesCloud(RelayedMsop, RelayedBegin, RelayedOf(S))

\* When the packet that ended a cloud is decoded, it comes after the cloud's.
Closed(S) ==
  /\ Relays(S)
  /\ hpc \notin {"split", "points"} => \A i \in RelayedOf(S) : \E j \in RelayedMsop : i < j

\* The cloud being filled has the last packet, if there is one.
Open(S) ==
  /\ Relays(S)
  /\ RelayedMsop # {} => \E i \in RelayedOf(S) : \A j \in RelayedMsop : j <= i

CloudsRelayed ==
  relays =>
    /\ \A c \in Out : Closed(In(c))
    /\ \A k \in DOMAIN published : Closed(Numbers(published[k].data))
    /\ hpc \in {"loop", "wait", "pop", "decode"} => Open(In(point_cloud))

RelayInv == RelayedInTurn /\ Splitting /\ NothingEarly /\ CloudsRelayed

LEMMA RelayedType ==
  ASSUME RelayedInTurn
  PROVE  /\ DOMAIN relayed = 1..Len(relayed) /\ Len(relayed) \in Nat
         /\ RelayedMsop \in SUBSET Nat /\ RelayedMsop \subseteq DOMAIN relayed
         /\ \A i \in DOMAIN relayed : relayed[i].data.n \in Nat
<1>1. relayed \in Seq(RosPacket) BY DEF RelayedInTurn
<1>2. DOMAIN relayed = 1..Len(relayed) /\ Len(relayed) \in Nat BY <1>1
<1>3. \A i \in DOMAIN relayed : relayed[i].data.n \in Nat
  <2> TAKE i \in DOMAIN relayed
  <2>1. relayed[i] \in RosPacket BY <1>1, <1>2
  <2> QED BY <2>1 DEF RosPacket, Packet
<1> QED BY <1>2, <1>3 DEF RelayedMsop

LEMMA RelayedStays ==
  ASSUME relayed' = relayed
  PROVE  /\ RelayedMsop' = RelayedMsop /\ RelayedBegin' = RelayedBegin
         /\ \A S : RelayedOf(S)' = RelayedOf(S)
<1>1. RelayedMsop' = RelayedMsop BY Zenon DEF RelayedMsop
<1> QED BY <1>1, Zenon DEF RelayedBegin, RelayedOf

LEMMA RelaysStays ==
  ASSUME relayed' = relayed, NEW S, Relays(S)
  PROVE  Relays(S)'
  BY RelayedStays, Zenon DEF Relays

LEMMA ClosedStays ==
  ASSUME relayed' = relayed, NEW S, Closed(S),
         hpc' \notin {"split", "points"} => hpc \notin {"split", "points"}
  PROVE  Closed(S)'
<1>1. Relays(S)' BY RelaysStays, Zenon DEF Closed
<1> QED BY <1>1, RelayedStays, Zenon DEF Closed

LEMMA OpenStays ==
  ASSUME relayed' = relayed, NEW S, Open(S)
  PROVE  Open(S)'
<1>1. Relays(S)' BY RelaysStays, Zenon DEF Open
<1> QED BY <1>1, RelayedStays, Zenon DEF Open

\* Steps that relay nothing, and leave alone the clouds that are handed on.
LEMMA CloudsRelayedStays ==
  ASSUME CloudsRelayed, relays' = relays, relayed' = relayed, published' = published,
         \A c \in Out' : c \in Out /\ In(c)' = In(c),
         hpc' \notin {"split", "points"} => hpc \notin {"split", "points"},
         hpc' \in {"loop", "wait", "pop", "decode"} =>
           hpc \in {"loop", "wait", "pop", "decode"} /\ In(point_cloud)' = In(point_cloud)
  PROVE  CloudsRelayed'
<1> SUFFICES ASSUME relays' PROVE CloudsRelayed'
  BY Zenon DEF CloudsRelayed
<1>1. /\ \A c \in Out : Closed(In(c))
      /\ \A k \in DOMAIN published : Closed(Numbers(published[k].data))
      /\ hpc \in {"loop", "wait", "pop", "decode"} => Open(In(point_cloud))
  BY Zenon DEF CloudsRelayed
<1>2. \A c \in Out' : Closed(In(c))'
  <2> SUFFICES ASSUME NEW c \in Out' PROVE Closed(In(c))'
    OBVIOUS
  <2>1. PICK S : S = In(c) OBVIOUS
  <2>2. Closed(S) /\ In(c)' = S BY <1>1, <2>1, Zenon
  <2>3. Closed(S)' BY <2>2, ClosedStays, Zenon
  <2> QED BY <2>2, <2>3, Zenon
<1>3. \A k \in DOMAIN published' : Closed(Numbers(published[k].data))'
  BY <1>1, ClosedStays, Zenon
<1>4. hpc' \in {"loop", "wait", "pop", "decode"} => Open(In(point_cloud))'
  BY <1>1, OpenStays, Zenon
<1> QED BY <1>2, <1>3, <1>4, Zenon DEF CloudsRelayed

LEMMA RelayedInTurnStays ==
  ASSUME RelayedInTurn, relayed' = relayed, DOMAIN arrivals \subseteq DOMAIN arrivals',
         \A n \in Nums(batch') \cup Nums(pkts') \cup Nums(pending') :
           \/ n \in Nums(batch) \cup Nums(pkts) \cup Nums(pending)
           \/ \A m \in DOMAIN arrivals : m < n
  PROVE  RelayedInTurn'
<1>1. /\ relayed' \in Seq(RosPacket)
      /\ \A i, j \in DOMAIN relayed' : i < j => relayed'[i].data.n < relayed'[j].data.n
      /\ \A i \in DOMAIN relayed' : relayed'[i].data.n \in DOMAIN arrivals'
  <2>1. \A m \in DOMAIN arrivals : m \in DOMAIN arrivals' OBVIOUS
  <2> QED BY <2>1, Zenon DEF RelayedInTurn
<1> DEFINE W == Nums(batch') \cup Nums(pkts') \cup Nums(pending')
<1>2. \A n \in W : \A i \in DOMAIN relayed : relayed[i].data.n < n
  BY DEF RelayedInTurn
<1> HIDE DEF W
<1>3. \A i \in DOMAIN relayed' : \A n \in W : relayed'[i].data.n < n
  BY <1>2, Zenon
<1> QED BY <1>1, <1>3, Zenon DEF RelayedInTurn, W

\* The same packets wait, or fewer.
LEMMA RelayedInTurnKept ==
  ASSUME RelayedInTurn, relayed' = relayed, arrivals' = arrivals,
         \A n \in Nums(batch') \cup Nums(pkts') \cup Nums(pending') :
           n \in Nums(batch) \cup Nums(pkts) \cup Nums(pending)
  PROVE  RelayedInTurn'
<1>1. DOMAIN arrivals \subseteq DOMAIN arrivals' OBVIOUS
<1> QED BY <1>1, RelayedInTurnStays

LEMMA NothingEarlyStays ==
  ASSUME NothingEarly,
         mpc' \in {"main", "init", "created", "ready"} =>
           /\ mpc \in {"main", "init", "created", "ready"}
           /\ relayed' = relayed /\ published' = published /\ Out' \subseteq Out
           /\ content' = content
  PROVE  NothingEarly'
<1> SUFFICES ASSUME mpc' \in {"main", "init", "created", "ready"}
             PROVE  /\ relayed' = <<>> /\ published' = <<>> /\ Out' = {}
                    /\ \A c \in Clouds : In(c)' = {}
  BY DEF NothingEarly
<1>1. /\ relayed = <<>> /\ published = <<>> /\ Out = {}
      /\ \A c \in Clouds : In(c) = {}
  BY DEF NothingEarly
<1>2. Out' = {} BY <1>1
<1>3. \A c \in Clouds : In(c)' = {} BY <1>1, Zenon DEF In
<1> QED BY <1>1, <1>2, <1>3, Zenon

\* Steps that change no cloud and nothing that is relayed.
LEMMA RelayKept ==
  ASSUME RelayInv, RelayedInTurn', relays' = relays, relayed' = relayed, content' = content,
         published' = published, point_cloud' = point_cloud, Out' \subseteq Out,
         \/ hpc' = hpc /\ batch' = batch
         \/ hpc \in {"loop", "wait", "pop", "decode"} /\ hpc' \in {"loop", "wait", "pop", "decode", "off"},
         mpc' \in {"main", "init", "created", "ready"} => mpc \in {"main", "init", "created", "ready"}
  PROVE  RelayInv'
<1>1. Splitting /\ NothingEarly /\ CloudsRelayed BY Zenon DEF RelayInv
<1>2. \A c : In(c)' = In(c) BY Zenon DEF In
<1>3. Splitting'
  <2>1. hpc' \in {"split", "points"} => hpc' = hpc /\ batch' = batch OBVIOUS
  <2>2. In(point_cloud)' = In(point_cloud) BY Zenon DEF In
  <2>3. hpc' = "points" => hpc' = hpc BY <2>1
  <2> QED BY <1>1, <2>1, <2>2, <2>3, Zenon DEF Splitting
<1>4. NothingEarly' BY <1>1, NothingEarlyStays, Zenon
<1>5. CloudsRelayed'
  <2>1. hpc' \notin {"split", "points"} => hpc \notin {"split", "points"} OBVIOUS
  <2>2. hpc' \in {"loop", "wait", "pop", "decode"} =>
          hpc \in {"loop", "wait", "pop", "decode"} /\ In(point_cloud)' = In(point_cloud)
    BY Zenon DEF In
  <2>3. \A c \in Out' : c \in Out /\ In(c)' = In(c) BY <1>2
  <2> QED BY <1>1, <2>1, <2>2, <2>3, CloudsRelayedStays, Zenon
<1> QED BY <1>3, <1>4, <1>5, Zenon DEF RelayInv

\* They change no packet either.
LEMMA RelayQuiet ==
  ASSUME RelayInv, relays' = relays, relayed' = relayed, arrivals' = arrivals,
         batch' = batch, pkts' = pkts, pending' = pending, content' = content,
         published' = published, point_cloud' = point_cloud, Out' \subseteq Out,
         \/ hpc' = hpc
         \/ hpc \in {"loop", "wait", "pop", "decode"} /\ hpc' \in {"loop", "wait", "pop", "decode", "off"},
         mpc' \in {"main", "init", "created", "ready"} => mpc \in {"main", "init", "created", "ready"}
  PROVE  RelayInv'
<1>1. Nums(batch') = Nums(batch) /\ Nums(pkts') = Nums(pkts) /\ Nums(pending') = Nums(pending)
  BY Zenon
<1>2. RelayedInTurn' BY <1>1, RelayedInTurnKept DEF RelayInv
<1> QED BY <1>2, RelayKept, Zenon

LEMMA RelayQuietSteps ==
  ASSUME RelayInv,
         \/ LoadConfig \/ StartInput \/ StopInput \/ JoinRecv \/ JoinProcess \/ Destroy
         \/ RecvExit \/ RecvEof \/ RecvNull \/ RecvEpoll \/ RecvServed
         \/ RecvRefused \/ RecvClearHead \/ Arrive
         \/ HandleCheck \/ HandleTimeout \/ HandlePoll \/ HandleNull \/ HandleDone
         \/ PublishCheck \/ PublishTimeout
         \/ PublishRecycle \/ UNCHANGED vars
  PROVE  RelayInv'
<1>1. /\ relays' = relays /\ relayed' = relayed /\ arrivals' = arrivals /\ content' = content
      /\ published' = published /\ queue' = queue /\ pending' = pending /\ pkts' = pkts
      /\ batch' = batch /\ point_cloud' = point_cloud
  <2>1. CASE \/ LoadConfig \/ StartInput \/ StopInput \/ JoinRecv \/ JoinProcess \/ Destroy
    BY <2>1, Zenon DEF LoadConfig, StartInput, StopInput, JoinRecv, JoinProcess, Destroy, inVars,
                       pcVars, pubVars
  <2>2. CASE \/ RecvExit \/ RecvEof \/ RecvNull \/ RecvEpoll \/ RecvServed
             \/ RecvRefused \/ RecvClearHead \/ Arrive
    BY <2>2, Zenon DEF RecvExit, RecvEof, RecvNull, RecvEpoll, RecvServed, RecvRefused,
                       RecvClearHead, Arrive, putRest, recvRest, inVars,
                       pcVars, pubVars
  <2>3. CASE \/ HandleCheck \/ HandleTimeout \/ HandlePoll \/ HandleNull \/ HandleDone
             \/ PublishCheck \/ PublishTimeout
             \/ PublishRecycle \/ UNCHANGED vars
    BY <2>3, Zenon DEF HandleCheck, HandleTimeout, HandlePoll, HandleNull, HandleDone,
                       PublishCheck, PublishTimeout,
                       PublishRecycle, handleRest, pubRest, vars, inVars, pcVars, pubVars
  <2> QED BY <2>1, <2>2, <2>3, Zenon
<1>2. \/ hpc' = hpc
      \/ hpc \in {"loop", "wait", "pop", "decode"} /\ hpc' \in {"loop", "wait", "pop", "decode", "off"}
  <2>1. CASE \/ LoadConfig \/ StartInput \/ StopInput \/ JoinRecv \/ JoinProcess \/ Destroy
    BY <2>1, Zenon DEF LoadConfig, StartInput, StopInput, JoinRecv, JoinProcess, Destroy, pcVars
  <2>2. CASE \/ RecvExit \/ RecvEof \/ RecvNull \/ RecvEpoll \/ RecvServed
             \/ RecvRefused \/ RecvClearHead \/ Arrive
    BY <2>2, Zenon DEF RecvExit, RecvEof, RecvNull, RecvEpoll, RecvServed, RecvRefused,
                       RecvClearHead, Arrive, putRest, recvRest, pcVars
  <2>3. CASE HandleCheck \/ HandleTimeout \/ HandlePoll \/ HandleNull \/ HandleDone
    <3>1. CASE HandleNull BY <3>1, Zenon DEF HandleNull, pcVars
    <3>2. CASE ~HandleNull
      BY <2>3, <3>2 DEF HandleCheck, HandleTimeout, HandlePoll, HandleDone
    <3> QED BY <3>1, <3>2
  <2>4. CASE PublishCheck \/ PublishTimeout \/ PublishRecycle \/ UNCHANGED vars
    BY <2>4, Zenon DEF PublishCheck, PublishTimeout, PublishRecycle, pubRest, vars, pcVars
  <2> QED BY <2>1, <2>2, <2>3, <2>4, Zenon
<1>3. (ppc' = ppc /\ msg' = msg) \/ ppc' # "send"
  <2>1. CASE \/ LoadConfig \/ StartInput \/ StopInput \/ JoinRecv \/ JoinProcess \/ Destroy
    BY <2>1, Zenon DEF LoadConfig, StartInput, StopInput, JoinRecv, JoinProcess, Destroy, pubVars
  <2>2. CASE \/ RecvExit \/ RecvEof \/ RecvNull \/ RecvEpoll \/ RecvServed
             \/ RecvRefused \/ RecvClearHead \/ Arrive
    BY <2>2, Zenon DEF RecvExit, RecvEof, RecvNull, RecvEpoll, RecvServed, RecvRefused,
                       RecvClearHead, Arrive, putRest, recvRest, pubVars
  <2>3. CASE HandleCheck \/ HandleTimeout \/ HandlePoll \/ HandleNull \/ HandleDone \/ UNCHANGED vars
    BY <2>3, Zenon DEF HandleCheck, HandleTimeout, HandlePoll, HandleNull, HandleDone, handleRest, vars, pubVars
  <2>4. CASE PublishCheck \/ PublishTimeout \/ PublishRecycle
    BY <2>4 DEF PublishCheck, PublishTimeout, PublishRecycle
  <2> QED BY <2>1, <2>2, <2>3, <2>4, Zenon
<1>4. Out' \subseteq Out
  <2>1. Sent' \subseteq Sent BY <1>3 DEF Sent
  <2> QED BY <1>1, <2>1 DEF Out
<1>5. mpc' \in {"main", "init", "created", "ready"} => mpc \in {"main", "init", "created", "ready"}
  <2>1. CASE \/ LoadConfig \/ StartInput \/ StopInput \/ JoinRecv \/ JoinProcess \/ Destroy
    BY <2>1 DEF LoadConfig, StartInput, StopInput, JoinRecv, JoinProcess, Destroy
  <2>2. CASE RecvExit \/ RecvEof \/ RecvEpoll \/ RecvServed \/ RecvRefused \/ RecvClearHead \/ Arrive
    BY <2>2, Zenon DEF RecvExit, RecvEof, RecvEpoll, RecvServed, RecvRefused, RecvClearHead, Arrive,
                       putRest
  <2>3. CASE RecvNull BY <2>3 DEF RecvNull
  <2>4. CASE \/ HandleCheck \/ HandleTimeout \/ HandlePoll \/ HandleNull \/ HandleDone
             \/ PublishCheck \/ PublishTimeout
             \/ PublishRecycle \/ UNCHANGED vars
    BY <2>4, Zenon DEF HandleCheck, HandleTimeout, HandlePoll, HandleNull, HandleDone,
                       PublishCheck, PublishTimeout,
                       PublishRecycle, handleRest, pubRest, vars
  <2> QED BY <2>1, <2>2, <2>3, <2>4, Zenon
<1> QED BY <1>1, <1>2, <1>4, <1>5, RelayQuiet, Zenon

-----------------------------------------------------------------------------

LEMMA RelayPut ==
  ASSUME SourceInv, RelayInv, NEW p, p.n = Len(arrivals) + 1, PutNext(p),
         UNCHANGED <<recvRest, mpc, pkts, overlapped, lost>>
  PROVE  RelayInv'
<1>1. /\ relays' = relays /\ relayed' = relayed /\ pkts' = pkts /\ batch' = batch /\ mpc' = mpc
      /\ point_cloud' = point_cloud /\ content' = content /\ queue' = queue
      /\ msg' = msg /\ published' = published /\ hpc' = hpc /\ ppc' = ppc
      /\ pending' = <<p>> /\ arrivals' = Append(arrivals, p)
  BY Zenon DEF PutNext, recvRest, pcVars, pubVars
<1>2. Out' = Out BY <1>1, Zenon DEF Out, Sent
<1>3. arrivals \in Seq(Packet) BY DEF SourceInv, Typed
<1>4. DOMAIN arrivals \subseteq DOMAIN arrivals' BY <1>1, <1>3
<1>5. DOMAIN pending' = {1} /\ pending'[1] = p BY <1>1
<1>6. Nums(pending') = {p.n} BY <1>5 DEF Nums
<1>7. \A m \in DOMAIN arrivals : m < p.n BY <1>3
<1>8. Nums(batch') = Nums(batch) /\ Nums(pkts') = Nums(pkts) BY <1>1, Zenon
<1>9. RelayedInTurn'
  BY <1>1, <1>4, <1>6, <1>7, <1>8, RelayedInTurnStays DEF RelayInv
<1>10. Out' \subseteq Out BY <1>2
<1> QED BY <1>1, <1>9, <1>10, RelayKept, Zenon

LEMMA RelayPutNone ==
  ASSUME RelayInv, pending' = pending, arrivals' = arrivals,
         UNCHANGED <<recvRest, mpc, pkts, overlapped, lost>>
  PROVE  RelayInv'
<1>1. /\ relays' = relays /\ relayed' = relayed /\ pkts' = pkts /\ batch' = batch /\ mpc' = mpc
      /\ point_cloud' = point_cloud /\ content' = content /\ queue' = queue
      /\ msg' = msg /\ published' = published /\ hpc' = hpc /\ ppc' = ppc
  BY Zenon DEF recvRest, pcVars, pubVars
<1>2. Out' = Out BY <1>1, Zenon DEF Out, Sent
<1>3. Out' \subseteq Out BY <1>2
<1> QED BY <1>1, <1>3, RelayQuiet, Zenon

LEMMA RelayRecv ==
  ASSUME SourceInv, RelayInv, RecvPcap \/ RecvPcapJumbo \/ RecvFrom \/ Feed
  PROVE  RelayInv'
<1>1. UNCHANGED <<recvRest, mpc, pkts, overlapped, lost>>
  BY Zenon DEF RecvPcap, RecvPcapJumbo, RecvFrom, Feed
<1>2. (pending' = pending /\ arrivals' = arrivals) \/ \E g, d : PutNext(PacketOf(g, d))
  <2>1. CASE RecvPcap BY <2>1, Zenon DEF RecvPcap
  <2>2. CASE RecvPcapJumbo BY <2>2, Zenon DEF RecvPcapJumbo
  <2>3. CASE RecvFrom BY <2>3, Zenon DEF RecvFrom
  <2>4. CASE Feed
    <3> DEFINE p == PacketOf(setup.records[pos + 1], <<>>)
    <3>1. PutNext(ToRsMsg(ToRosPacket(p, pos))) BY <2>4, Zenon DEF Feed
    <3> HIDE DEF p
    <3>2. ToRsMsg(ToRosPacket(p, pos)) = p BY DEF ToRsMsg, ToRosPacket
    <3>3. PutNext(p) BY <3>1, <3>2, Zenon
    <3> QED BY <3>3, Zenon DEF p
  <2> QED BY <2>1, <2>2, <2>3, <2>4
<1>3. CASE pending' = pending /\ arrivals' = arrivals
  BY <1>1, <1>3, RelayPutNone, Zenon
<1>4. ASSUME NEW g, NEW d, PutNext(PacketOf(g, d)) PROVE RelayInv'
  <2> DEFINE p == PacketOf(g, d)
  <2>1. p.n = Len(arrivals) + 1 BY DEF PacketOf
  <2>2. PutNext(p) BY <1>4
  <2> HIDE DEF p
  <2> QED BY <1>1, <2>1, <2>2, RelayPut, Zenon
<1> QED BY <1>2, <1>3, <1>4, Zenon

LEMMA RelayRecvPut ==
  ASSUME SourceInv, OrderInv, RelayInv, RecvPut \/ RecvClearTail, ~overlapped
  PROVE  RelayInv'
<1>1. /\ relays' = relays /\ relayed' = relayed /\ batch' = batch /\ mpc' = mpc
      /\ point_cloud' = point_cloud /\ content' = content /\ queue' = queue
      /\ msg' = msg /\ published' = published /\ hpc' = hpc /\ ppc' = ppc
      /\ pending' = <<>> /\ arrivals' = arrivals
      /\ pkts' = pkts \o pending \/ pkts' = <<>>
  BY Zenon DEF RecvPut, RecvClearTail, putRest, recvRest, pcVars, pubVars
<1>2. Out' = Out BY <1>1, Zenon DEF Out, Sent
<1>3. Nums(<<>>) = {} BY DEF Nums
<1> DEFINE u == pkts \o pending
<1>4. \A n \in Nums(u) : n \in Nums(pkts) \/ n \in Nums(pending)
  <2>1. /\ Rising(pkts) /\ Rising(pending) /\ InTurn(Drawn, Nums(batch), Nums(pkts), Nums(pending))
    BY Zenon DEF OrderInv, Waiting
  <2>2. pkts \in Seq(Packet) /\ pending \in Seq(Packet) BY DEF SourceInv, Typed
  <2> QED BY <2>1, <2>2, RisingConcat, Zenon DEF InTurn
<1> HIDE DEF u
<1>5. /\ \A n \in Nums(pkts') : n \in Nums(pkts) \/ n \in Nums(pending)
      /\ Nums(pending') = {} /\ Nums(batch') = Nums(batch)
  <2>1. \A n \in Nums(<<>>) : FALSE BY <1>3
  <2> QED BY <1>1, <1>3, <1>4, <2>1, Zenon DEF u
<1>6. RelayedInTurn' BY <1>1, <1>5, RelayedInTurnKept DEF RelayInv
<1>7. Out' \subseteq Out BY <1>2
<1> QED BY <1>1, <1>6, <1>7, RelayKept, Zenon

LEMMA RelayBatch ==
  ASSUME SourceInv, OrderInv, RelayInv, HandleBatch, ~overlapped
  PROVE  RelayInv'
<1> DEFINE n == real_count
           s == SubSeq(pkts, 1, n)
           t == SubSeq(pkts, n + 1, Len(pkts))
<1>1. /\ relays' = relays /\ relayed' = relayed /\ mpc' = mpc
      /\ batch' = s /\ pkts' = t /\ pending' = pending /\ arrivals' = arrivals
      /\ point_cloud' = point_cloud /\ content' = content /\ queue' = queue
      /\ msg' = msg /\ published' = published /\ ppc' = ppc
      /\ hpc = "pop" /\ hpc' = "decode"
  BY Zenon DEF HandleBatch, handleRest, inVars, pubVars
<1>2. Out' = Out BY <1>1, Zenon DEF Out, Sent
<1>3. pkts \in Seq(Packet) /\ n \in Nat /\ n <= Len(pkts) /\ Rising(pkts)
  <2>1. pkts \in Seq(Packet) BY DEF SourceInv, Typed
  <2>2. n \in Nat /\ n <= Len(pkts)
    BY Zenon DEF HandleBatch, SourceInv, Typed, Control
  <2>3. Rising(pkts) BY Zenon DEF OrderInv, Waiting
  <2> QED BY <2>1, <2>2, <2>3
<1> HIDE DEF n
<1>4. \A x : x \in Nums(s) \/ x \in Nums(t) => x \in Nums(pkts)
  BY <1>3, RisingParts
<1> HIDE DEF s, t
<1>5. Nums(batch') = Nums(s) /\ Nums(pkts') = Nums(t) /\ Nums(pending') = Nums(pending)
  BY <1>1, Zenon
<1>6. RelayedInTurn' BY <1>1, <1>4, <1>5, RelayedInTurnKept DEF RelayInv
<1>7. Out' \subseteq Out BY <1>2
<1>8. hpc \in {"loop", "wait", "pop", "decode"} /\ hpc' \in {"loop", "wait", "pop", "decode", "off"} BY <1>1
<1> QED BY <1>1, <1>6, <1>7, <1>8, RelayKept, Zenon

LEMMA RelayTake ==
  ASSUME SourceInv, RelayInv, PublishTake
  PROVE  RelayInv'
<1>1. /\ relays' = relays /\ relayed' = relayed /\ arrivals' = arrivals /\ mpc' = mpc
      /\ pending' = pending /\ pkts' = pkts /\ batch' = batch /\ hpc' = hpc
      /\ published' = published /\ content' = content /\ point_cloud' = point_cloud
      /\ queue # <<>> /\ msg' = Head(queue) /\ queue' = Tail(queue)
  BY Zenon DEF PublishTake, pubRest, inVars, pcVars
<1>2. queue \in Seq(Clouds) BY DEF SourceInv, Typed
<1>3. Out' \subseteq Out
  <2>1. /\ \A i \in DOMAIN queue' : i + 1 \in DOMAIN queue /\ queue'[i] = queue[i + 1]
        /\ 1 \in DOMAIN queue /\ msg' = queue[1]
    BY <1>1, <1>2
  <2>2. Sent' \subseteq {msg'} BY DEF Sent
  <2> QED BY <2>1, <2>2 DEF Out
<1> QED BY <1>1, <1>3, RelayQuiet, Zenon

LEMMA RelayInitSource ==
  ASSUME SourceInv, RelayInv, InitSource
  PROVE  RelayInv'
<1>1. /\ relays' = relays /\ relayed' = relayed /\ arrivals' = arrivals
      /\ pending' = pending /\ pkts' = pkts /\ batch' = batch /\ hpc' = hpc /\ queue' = queue
      /\ published' = published /\ content' = content /\ mpc = "init" /\ ppc' = "loop"
  BY Zenon DEF InitSource
<1>2. RelayedInTurn /\ NothingEarly /\ CloudsRelayed BY Zenon DEF RelayInv
<1>3. hpc = "off" BY <1>1 DEF SourceInv, Control
<1>4. Out' \subseteq Out
  <2>1. Sent' = {} BY <1>1 DEF Sent
  <2> QED BY <1>1, <2>1 DEF Out
<1>5. RelayedInTurn'
  <2>1. Nums(batch') = Nums(batch) /\ Nums(pkts') = Nums(pkts) /\ Nums(pending') = Nums(pending)
    BY <1>1, Zenon
  <2> QED BY <1>1, <1>2, <2>1, RelayedInTurnKept
<1>6. Splitting' BY <1>1, <1>3 DEF Splitting
<1>7. NothingEarly'
  <2>1. mpc \in {"main", "init", "created", "ready"} BY <1>1
  <2> QED BY <1>1, <1>2, <1>4, <2>1, NothingEarlyStays, Zenon
<1>8. CloudsRelayed'
  <2>1. \A c \in Out' : c \in Out /\ In(c)' = In(c)
    <3>1. \A c : In(c)' = In(c) BY <1>1, Zenon DEF In
    <3> QED BY <1>4, <3>1
  <2>2. ~(hpc' \in {"loop", "wait", "pop", "decode"}) BY <1>1, <1>3
  <2> QED BY <1>1, <1>2, <2>1, <2>2, CloudsRelayedStays, Zenon
<1> QED BY <1>5, <1>6, <1>7, <1>8, Zenon DEF RelayInv

LEMMA RelayRegister ==
  ASSUME SourceInv, RelayInv, RegisterDestinations
  PROVE  RelayInv'
<1>1. /\ relayed' = relayed /\ arrivals' = arrivals /\ mpc = "created" /\ mpc' = "ready"
      /\ pending' = pending /\ pkts' = pkts /\ batch' = batch /\ hpc' = hpc /\ queue' = queue
      /\ published' = published /\ content' = content /\ ppc' = ppc /\ msg' = msg
      /\ point_cloud' = point_cloud
  BY Zenon DEF RegisterDestinations, inVars, pcVars, pubVars
<1>2. RelayedInTurn /\ NothingEarly BY Zenon DEF RelayInv
<1>3. hpc = "off" BY <1>1 DEF SourceInv, Control
<1>4. Out' = Out BY <1>1, Zenon DEF Out, Sent
<1>5. RelayedInTurn'
  <2>1. Nums(batch') = Nums(batch) /\ Nums(pkts') = Nums(pkts) /\ Nums(pending') = Nums(pending)
    BY <1>1, Zenon
  <2> QED BY <1>1, <1>2, <2>1, RelayedInTurnKept
<1>6. Splitting' BY <1>1, <1>3 DEF Splitting
<1>7. NothingEarly'
  <2>1. mpc \in {"main", "init", "created", "ready"} /\ Out' \subseteq Out BY <1>1, <1>4
  <2> QED BY <1>1, <1>2, <2>1, NothingEarlyStays, Zenon
<1>8. CloudsRelayed'
  <2>1. mpc' \in {"main", "init", "created", "ready"} BY <1>1
  <2>2. Out' = {} /\ published' = <<>> BY <1>7, <2>1, Zenon DEF NothingEarly
  <2>3. DOMAIN published' = {} /\ ~(hpc' \in {"loop", "wait", "pop", "decode"}) BY <1>1, <1>3, <2>2
  <2>4. \A c \in Out' : FALSE BY <2>2
  <2>5. \A k \in DOMAIN published' : FALSE BY <2>3
  <2> QED BY <2>3, <2>4, <2>5, Zenon DEF CloudsRelayed
<1> QED BY <1>5, <1>6, <1>7, <1>8, Zenon DEF RelayInv

\* With nothing relayed a cloud without packets is complete.
LEMMA OpenNone ==
  ASSUME relayed = <<>>
  PROVE  Open({})
<1>1. RelayedMsop = {} BY DEF RelayedMsop
<1>2. RelayedOf({}) = {} BY DEF RelayedOf
<1> QED BY <1>1, <1>2, NoneMakesCloud DEF Open, Relays

LEMMA RelayStart ==
  ASSUME SourceInv, RelayInv, StartHandle
  PROVE  RelayInv'
<1>1. /\ relays' = relays /\ relayed' = relayed /\ arrivals' = arrivals
      /\ mpc = "ready" /\ mpc' = "starting"
      /\ pending' = pending /\ pkts' = pkts /\ batch' = batch /\ hpc' = "loop" /\ queue' = queue
      /\ published' = published /\ content' = content /\ ppc' = ppc /\ msg' = msg
      /\ point_cloud' = point_cloud
  BY Zenon DEF StartHandle, inVars, pubVars
<1>2. RelayedInTurn /\ NothingEarly BY Zenon DEF RelayInv
<1>3. Out' = Out BY <1>1, Zenon DEF Out, Sent
<1>4. point_cloud \in Clouds BY <1>1 DEF SourceInv, Typed, Control
<1>5. /\ relayed = <<>> /\ published = <<>> /\ Out = {}
      /\ \A c \in Clouds : In(c) = {}
  BY <1>1, <1>2 DEF NothingEarly
<1>6. RelayedInTurn'
  <2>1. Nums(batch') = Nums(batch) /\ Nums(pkts') = Nums(pkts) /\ Nums(pending') = Nums(pending)
    BY <1>1, Zenon
  <2> QED BY <1>1, <1>2, <2>1, RelayedInTurnKept
<1>7. Splitting' BY <1>1 DEF Splitting
<1>8. NothingEarly' BY <1>1 DEF NothingEarly
<1>9. Open(In(point_cloud))'
  <2>1. In(point_cloud) = {} BY <1>4, <1>5
  <2>2. In(point_cloud)' = {} BY <1>1, <2>1, Zenon DEF In
  <2>3. Open({}) BY <1>5, OpenNone
  <2>4. Open({})' BY <1>1, <2>3, OpenStays, Zenon
  <2> QED BY <2>2, <2>4, Zenon
<1>10. CloudsRelayed'
  <2>1. \A c \in Out' : FALSE BY <1>3, <1>5
  <2>2. DOMAIN published' = {} BY <1>1, <1>5
  <2>3. \A k \in DOMAIN published' : FALSE BY <2>2
  <2> QED BY <1>9, <2>1, <2>3, Zenon DEF CloudsRelayed
<1> QED BY <1>6, <1>7, <1>8, <1>10, Zenon DEF RelayInv

LEMMA RelayJoinHandle ==
  ASSUME SourceInv, RelayInv, JoinHandle
  PROVE  RelayInv'
<1> DEFINE pc == point_cloud
<1>1. /\ relays' = relays /\ relayed' = relayed /\ arrivals' = arrivals
      /\ pending' = pending /\ pkts' = pkts /\ batch' = batch /\ queue' = queue
      /\ published' = published /\ ppc' = ppc /\ msg' = msg /\ mpc = "joinHandle" /\ mpc' = "joinProcess"
      /\ hpc' = hpc /\ hpc = "off" /\ content' = [content EXCEPT ![pc].points = <<>>]
  BY Zenon DEF JoinHandle, inVars, pcVars, pubVars
<1>2. RelayedInTurn /\ CloudsRelayed BY Zenon DEF RelayInv
<1>3. pc \in Clouds BY <1>1 DEF SourceInv, Typed, Control
<1>4. \A c \in Clouds : c # pc => In(c)' = In(c)
  <2>1. \A c \in Clouds : IF c = pc THEN In(c)' = {} ELSE In(c)' = In(c)
    BY <1>1, <1>3, Emptied, Zenon
  <2> QED BY <2>1
<1>5. Out' = Out BY <1>1, Zenon DEF Out, Sent
<1>6. \A c \in Out' : c \in Out /\ In(c)' = In(c)
  <2>1. \A c \in Out : c \in Clouds /\ c # pc BY <1>1, OutClouds
  <2> QED BY <1>4, <1>5, <2>1, Zenon
<1>7. RelayedInTurn'
  <2>1. Nums(batch') = Nums(batch) /\ Nums(pkts') = Nums(pkts) /\ Nums(pending') = Nums(pending)
    BY <1>1, Zenon
  <2> QED BY <1>1, <1>2, <2>1, RelayedInTurnKept
<1>8. Splitting' BY <1>1 DEF Splitting
<1>9. NothingEarly' BY <1>1 DEF NothingEarly
<1>10. CloudsRelayed'
  <2>1. ~(hpc' \in {"loop", "wait", "pop", "decode"}) BY <1>1
  <2> QED BY <1>1, <1>2, <1>6, <2>1, CloudsRelayedStays, Zenon
<1> QED BY <1>7, <1>8, <1>9, <1>10, Zenon DEF RelayInv

LEMMA RelayNewCloud ==
  ASSUME SourceInv, RelayInv, HandleNewCloud
  PROVE  RelayInv'
<1> DEFINE g == GetPointCloud
<1>1. /\ relays' = relays /\ relayed' = relayed /\ arrivals' = arrivals /\ mpc' = mpc
      /\ pending' = pending /\ pkts' = pkts /\ batch' = batch /\ queue' = queue
      /\ published' = published /\ ppc' = ppc /\ msg' = msg
      /\ hpc = "split" /\ hpc' = "points" /\ point_cloud' = g
      /\ content' = [content EXCEPT ![g].points = <<>>]
  BY Zenon DEF HandleNewCloud, handleRest, inVars, pubVars
<1>2. RelayedInTurn /\ Splitting /\ CloudsRelayed BY Zenon DEF RelayInv
<1>3. g \in Clouds /\ g # msg /\ \A i \in DOMAIN queue : queue[i] # g
  BY NewCloud
<1> HIDE DEF g
<1>4. \A c \in Clouds : IF c = g THEN In(c)' = {} ELSE In(c)' = In(c)
  BY <1>1, <1>3, Emptied, Zenon
<1>5. Out' = Out BY <1>1, Zenon DEF Out, Sent
<1>6. \A c \in Out' : c \in Out /\ In(c)' = In(c)
  <2>1. \A c \in Out : c \in Clouds /\ c # g
    <3>1. Out \subseteq Clouds BY OutClouds
    <3> QED BY <1>3, <3>1 DEF Out, Sent
  <2> QED BY <1>4, <1>5, <2>1, Zenon
<1>7. RelayedInTurn'
  <2>1. Nums(batch') = Nums(batch) /\ Nums(pkts') = Nums(pkts) /\ Nums(pending') = Nums(pending)
    BY <1>1, Zenon
  <2> QED BY <1>1, <1>2, <2>1, RelayedInTurnKept
<1>8. Splitting'
  <2>1. content'[g].points = <<>> BY <1>1, <1>3, Emptied, Zenon
  <2>2. In(point_cloud)' = {} BY <1>1, <2>1, NumbersOfNone, Zenon DEF In
  <2>3. batch # <<>> /\ Head(batch).kind = "msop" /\ Head(batch).begins
    BY <1>1, <1>2 DEF Splitting
  <2> QED BY <1>1, <2>2, <2>3, Zenon DEF Splitting
<1>9. NothingEarly'
  <2>1. mpc \notin {"main", "init", "created", "ready"} BY <1>1 DEF SourceInv, Control
  <2> QED BY <1>1, <2>1 DEF NothingEarly
<1>10. CloudsRelayed'
  <2>1. ~(hpc' \in {"loop", "wait", "pop", "decode"}) /\ ~(hpc' \notin {"split", "points"}) BY <1>1
  <2> QED BY <1>1, <1>2, <1>6, <2>1, CloudsRelayedStays, Zenon
<1> QED BY <1>7, <1>8, <1>9, <1>10, Zenon DEF RelayInv

LEMMA RelaySplit ==
  ASSUME SourceInv, RelayInv, HandleSplit
  PROVE  RelayInv'
<1> DEFINE pc == point_cloud
           d == SetPointCloudHeader(content[pc], cloud_seq)
<1>1. /\ relays' = relays /\ relayed' = relayed /\ arrivals' = arrivals /\ mpc' = mpc
      /\ pending' = pending /\ pkts' = pkts /\ batch' = batch
      /\ msg' = msg /\ published' = published /\ ppc' = ppc /\ point_cloud' = pc
      /\ hpc = "decode" /\ hpc' = "split" /\ content' = [content EXCEPT ![pc] = d]
      /\ queue' = Append(queue, pc) \/ queue' = queue
      /\ batch # <<>> /\ Head(batch).kind = "msop" /\ Head(batch).begins
  BY Zenon DEF HandleSplit, handleRest, inVars, pubVars
<1>2. RelayedInTurn /\ CloudsRelayed BY Zenon DEF RelayInv
<1>3. /\ pc \in Clouds /\ content \in [Clouds -> Cloud] /\ cloud_seq \in Nat /\ queue \in Seq(Clouds)
  BY <1>1 DEF SourceInv, Typed, Control
<1>4. \A c \in Clouds : In(c)' = In(c)
  <2>1. d.points = content[pc].points BY <1>3, Header
  <2> HIDE DEF d
  <2>2. \A c \in Clouds : content'[c].points = content[c].points BY <1>1, <1>3, <2>1
  <2> QED BY <2>2, Zenon DEF In
<1>5. \A c \in Out' : c \in Out \/ c = pc
  <2>1. Sent' = Sent BY <1>1, Zenon DEF Sent
  <2>2. \A i \in DOMAIN queue' : queue'[i] = pc \/ (i \in DOMAIN queue /\ queue'[i] = queue[i])
    <3> HIDE DEF pc
    <3> QED BY <1>1, <1>3
  <2> HIDE DEF pc
  <2> QED BY <2>1, <2>2 DEF Out
<1>6. RelayedInTurn'
  <2>1. Nums(batch') = Nums(batch) /\ Nums(pkts') = Nums(pkts) /\ Nums(pending') = Nums(pending)
    BY <1>1, Zenon
  <2> QED BY <1>1, <1>2, <2>1, RelayedInTurnKept
<1>7. Splitting' BY <1>1 DEF Splitting
<1>8. NothingEarly'
  <2>1. mpc \notin {"main", "init", "created", "ready"} BY <1>1 DEF SourceInv, Control
  <2> QED BY <1>1, <2>1 DEF NothingEarly
<1>9. ~(hpc' \notin {"split", "points"}) /\ ~(hpc' \in {"loop", "wait", "pop", "decode"}) BY <1>1
<1>10. CloudsRelayed'
  <2> SUFFICES ASSUME relays' PROVE CloudsRelayed'
    BY Zenon DEF CloudsRelayed
  <2>1. /\ \A c \in Out : Closed(In(c))
        /\ \A k \in DOMAIN published : Closed(Numbers(published[k].data))
        /\ Open(In(pc))
    <3>1. hpc \in {"loop", "wait", "pop", "decode"} BY <1>1
    <3> QED BY <1>1, <1>2, <3>1, Zenon DEF CloudsRelayed
  <2>2. ASSUME NEW S, Relays(S) PROVE Closed(S)'
    <3>1. Relays(S)' BY <1>1, <2>2, RelaysStays, Zenon
    <3> QED BY <1>9, <3>1, Zenon DEF Closed
  <2>3. \A c \in Clouds : Relays(In(c)) => Closed(In(c))'
    <3> SUFFICES ASSUME NEW c \in Clouds, Relays(In(c)) PROVE Closed(In(c))'
      OBVIOUS
    <3>1. PICK S : S = In(c) OBVIOUS
    <3>2. Relays(S) /\ In(c)' = S BY <1>4, <3>1, Zenon
    <3>3. Closed(S)' BY <2>2, <3>2, Zenon
    <3> QED BY <3>2, <3>3, Zenon
  <2>4. \A c \in Out' : Closed(In(c))'
    <3>1. \A c \in Out' : c \in Clouds /\ Relays(In(c))
      <4>1. \A c \in Out : c \in Clouds /\ Relays(In(c)) BY <2>1, OutClouds DEF Closed
      <4>2. Relays(In(pc)) BY <2>1, Zenon DEF Open
      <4> HIDE DEF pc
      <4> QED BY <1>3, <1>5, <4>1, <4>2, Zenon
    <3> QED BY <2>3, <3>1, Zenon
  <2>5. \A k \in DOMAIN published' : Closed(Numbers(published[k].data))'
    <3>1. \A k \in DOMAIN published : Relays(Numbers(published[k].data))
      BY <2>1, Zenon DEF Closed
    <3> QED BY <1>1, <2>2, <3>1, Zenon
  <2> QED BY <1>9, <2>4, <2>5, Zenon DEF CloudsRelayed
<1> QED BY <1>6, <1>7, <1>8, <1>10, Zenon DEF RelayInv

LEMMA RelaySend ==
  ASSUME SourceInv, OrderInv, RelayInv, PublishSend
  PROVE  RelayInv'
<1> DEFINE m == ToRosMsg(content[msg], SendByRows)
<1>1. /\ relays' = relays /\ relayed' = relayed /\ arrivals' = arrivals /\ mpc' = mpc /\ hpc' = hpc
      /\ pending' = pending /\ pkts' = pkts /\ batch' = batch /\ content' = content
      /\ queue' = queue /\ msg' = msg /\ ppc = "send" /\ ppc' = "recycle" /\ point_cloud' = point_cloud
      /\ published' = Append(published, m)
  BY Zenon DEF PublishSend, pubRest, inVars, pcVars
<1>2. RelayedInTurn /\ Splitting /\ NothingEarly /\ CloudsRelayed BY Zenon DEF RelayInv
<1>3. msg \in Out
  <2>1. Sent = {msg} BY <1>1 DEF Sent
  <2> QED BY <2>1 DEF Out
<1>4. Out' \subseteq Out
  <2>1. Sent' = {} BY <1>1 DEF Sent
  <2> QED BY <1>1, <2>1 DEF Out
<1>5. Numbers(m.data) = In(msg) BY <1>3, SentNumbers
<1>6. published \in Seq(Message) BY DEF SourceInv, Typed
<1> HIDE DEF m
<1>7. \A k \in DOMAIN published' : (k \in DOMAIN published /\ published'[k] = published[k])
                                   \/ published'[k] = m
  BY <1>1, <1>6
<1>8. \A c : In(c)' = In(c) BY <1>1, Zenon DEF In
<1>9. RelayedInTurn'
  <2>1. Nums(batch') = Nums(batch) /\ Nums(pkts') = Nums(pkts) /\ Nums(pending') = Nums(pending)
    BY <1>1, Zenon
  <2> QED BY <1>1, <1>2, <2>1, RelayedInTurnKept
<1>10. Splitting'
  <2>1. In(point_cloud)' = In(point_cloud) BY <1>1, Zenon DEF In
  <2> QED BY <1>1, <1>2, <2>1, Zenon DEF Splitting
<1>11. NothingEarly'
  <2>1. mpc \notin {"main", "init", "created", "ready"} BY <1>2, <1>3 DEF NothingEarly
  <2> QED BY <1>1, <2>1 DEF NothingEarly
<1>12. CloudsRelayed'
  <2> SUFFICES ASSUME relays' PROVE CloudsRelayed'
    BY Zenon DEF CloudsRelayed
  <2>1. /\ \A c \in Out : Closed(In(c))
        /\ \A k \in DOMAIN published : Closed(Numbers(published[k].data))
        /\ hpc \in {"loop", "wait", "pop", "decode"} => Open(In(point_cloud))
    BY <1>1, <1>2, Zenon DEF CloudsRelayed
  <2>2. \A S : Closed(S) => Closed(S)' BY <1>1, ClosedStays, Zenon
  <2>3. \A c \in Out' : Closed(In(c))'
    <3> SUFFICES ASSUME NEW c \in Out' PROVE Closed(In(c))'
      OBVIOUS
    <3>1. PICK S : S = In(c) OBVIOUS
    <3>2. c \in Out BY <1>4
    <3>3. Closed(S)' /\ In(c)' = S BY <1>8, <2>1, <2>2, <3>1, <3>2, Zenon
    <3> QED BY <3>3, Zenon
  <2>4. \A k \in DOMAIN published' : Closed(Numbers(published[k].data))'
    <3> SUFFICES ASSUME NEW k \in DOMAIN published' PROVE Closed(Numbers(published[k].data))'
      OBVIOUS
    <3>1. PICK S : S = Numbers(published'[k].data) OBVIOUS
    <3>2. Closed(S)
      <4>1. CASE k \in DOMAIN published /\ published'[k] = published[k]
        BY <2>1, <3>1, <4>1, Zenon
      <4>2. CASE published'[k] = m BY <1>3, <1>5, <2>1, <3>1, <4>2, Zenon
      <4> QED BY <1>7, <4>1, <4>2
    <3>3. Closed(S)' BY <2>2, <3>2, Zenon
    <3> QED BY <3>1, <3>3, Zenon
  <2>5. hpc' \in {"loop", "wait", "pop", "decode"} => Open(In(point_cloud))'
    <3> SUFFICES ASSUME hpc \in {"loop", "wait", "pop", "decode"} PROVE Open(In(point_cloud))'
      BY <1>1
    <3>1. PICK S : S = In(point_cloud) OBVIOUS
    <3>2. Open(S)' BY <1>1, <2>1, <3>1, OpenStays, Zenon
    <3>3. In(point_cloud)' = S BY <1>1, <3>1, Zenon DEF In
    <3> QED BY <3>2, <3>3, Zenon
  <2> QED BY <2>3, <2>4, <2>5, Zenon DEF CloudsRelayed
<1> QED BY <1>9, <1>10, <1>11, <1>12, Zenon DEF RelayInv

-----------------------------------------------------------------------------
(* A packet is decoded and relayed: q is its message, x the place of the message. *)

LEMMA RelayedMore ==
  ASSUME RelayedInTurn, NEW q, relayed' = Append(relayed, q), NEW x, x = Len(relayed) + 1
  PROVE  /\ x \in Nat /\ After(RelayedMsop, x) /\ x \notin RelayedBegin
         /\ DOMAIN relayed' = DOMAIN relayed \cup {x} /\ relayed'[x] = q
         /\ \A i \in DOMAIN relayed : relayed'[i] = relayed[i] /\ i < x
         /\ RelayedMsop' = IF q.is_difop THEN RelayedMsop ELSE RelayedMsop \cup {x}
         /\ RelayedBegin' = IF ~q.is_difop /\ q.is_frame_begin THEN RelayedBegin \cup {x}
                                                               ELSE RelayedBegin
         /\ \A S : RelayedOf(S)' = IF ~q.is_difop /\ q.data.n \in S THEN RelayedOf(S) \cup {x}
                                                                     ELSE RelayedOf(S)
<1>1. relayed \in Seq(RosPacket) BY DEF RelayedInTurn
<1>2. /\ DOMAIN relayed = 1..Len(relayed) /\ Len(relayed) \in Nat
      /\ DOMAIN relayed' = 1..(Len(relayed) + 1) /\ relayed'[Len(relayed) + 1] = q
      /\ \A i \in DOMAIN relayed : relayed'[i] = relayed[i]
  BY <1>1
<1>3. /\ x \in Nat /\ x \notin DOMAIN relayed /\ DOMAIN relayed' = DOMAIN relayed \cup {x}
      /\ relayed'[x] = q /\ \A i \in DOMAIN relayed : i < x
  BY <1>2
<1>4. RelayedMsop' = IF q.is_difop THEN RelayedMsop ELSE RelayedMsop \cup {x}
  <2>1. RelayedMsop' = {i \in DOMAIN relayed' : ~relayed'[i].is_difop} BY Zenon DEF RelayedMsop
  <2> QED BY <1>2, <1>3, <2>1 DEF RelayedMsop
<1>5. RelayedMsop \subseteq DOMAIN relayed BY DEF RelayedMsop
<1>6. RelayedBegin' = IF ~q.is_difop /\ q.is_frame_begin THEN RelayedBegin \cup {x} ELSE RelayedBegin
  <2>1. RelayedBegin' = {i \in RelayedMsop' : relayed'[i].is_frame_begin} BY Zenon DEF RelayedBegin
  <2> DEFINE M == RelayedMsop
             N == RelayedMsop'
  <2>2. M \subseteq DOMAIN relayed /\ N = IF q.is_difop THEN M ELSE M \cup {x}
    BY <1>4, <1>5
  <2>3. RelayedBegin = {i \in M : relayed[i].is_frame_begin}
        /\ RelayedBegin' = {i \in N : relayed'[i].is_frame_begin}
    BY <2>1 DEF RelayedBegin
  <2> HIDE DEF M, N
  <2> QED BY <1>2, <1>3, <2>2, <2>3
<1>7. \A S : RelayedOf(S)' = IF ~q.is_difop /\ q.data.n \in S THEN RelayedOf(S) \cup {x} ELSE RelayedOf(S)
  <2> TAKE S
  <2> DEFINE M == RelayedMsop
             N == RelayedMsop'
  <2>1. M \subseteq DOMAIN relayed /\ N = IF q.is_difop THEN M ELSE M \cup {x}
    BY <1>4, <1>5
  <2>2. RelayedOf(S) = {i \in M : relayed[i].data.n \in S}
        /\ RelayedOf(S)' = {i \in N : relayed'[i].data.n \in S}
    BY Zenon DEF RelayedOf
  <2> HIDE DEF M, N
  <2> QED BY <1>2, <1>3, <2>1, <2>2
<1>8. x \notin RelayedBegin BY <1>3, <1>5 DEF RelayedBegin
<1>9. After(RelayedMsop, x) BY <1>3, <1>5 DEF After
<1> QED BY <1>2, <1>3, <1>4, <1>6, <1>7, <1>8, <1>9

LEMMA RelayedInTurnMore ==
  ASSUME RelayedInTurn, NEW q \in RosPacket, relayed' = Append(relayed, q), arrivals' = arrivals,
         q.data.n \in DOMAIN arrivals, q.data.n \in Nums(batch),
         \A n \in Nums(batch') \cup Nums(pkts') \cup Nums(pending') :
           n \in Nums(batch) \cup Nums(pkts) \cup Nums(pending) /\ q.data.n < n
  PROVE  RelayedInTurn'
<1> DEFINE x == Len(relayed) + 1
           W == Nums(batch') \cup Nums(pkts') \cup Nums(pending')
<1>1. /\ DOMAIN relayed' = DOMAIN relayed \cup {x} /\ relayed'[x] = q /\ x \in Nat
      /\ \A i \in DOMAIN relayed : relayed'[i] = relayed[i] /\ i < x
  BY RelayedMore
<1>2. relayed' \in Seq(RosPacket) BY DEF RelayedInTurn
<1>3. \A i \in DOMAIN relayed : i \in Nat /\ ~(x < i)
  <2>1. relayed \in Seq(RosPacket) BY DEF RelayedInTurn
  <2> QED BY <1>1, <2>1
<1> HIDE DEF x
<1>4. \A i \in DOMAIN relayed : relayed[i].data.n < q.data.n BY DEF RelayedInTurn
<1>5. \A i, j \in DOMAIN relayed' : i < j => relayed'[i].data.n < relayed'[j].data.n
  BY <1>1, <1>3, <1>4 DEF RelayedInTurn
<1>6. \A i \in DOMAIN relayed' : relayed'[i].data.n \in DOMAIN arrivals'
  BY <1>1 DEF RelayedInTurn
<1>7. \A i \in DOMAIN relayed' : \A n \in W : relayed'[i].data.n < n
  <2>1. \A n \in W : q.data.n < n /\ \A i \in DOMAIN relayed : relayed[i].data.n < n
    BY DEF RelayedInTurn
  <2> HIDE DEF W
  <2> QED BY <1>1, <2>1, Zenon
<1> QED BY <1>2, <1>5, <1>6, <1>7, Zenon DEF RelayedInTurn, W

\* A DIFOP packet leaves every cloud as it is.
LEMMA RelaysDifop ==
  ASSUME RelayedInTurn, NEW q, relayed' = Append(relayed, q), q.is_difop,
         NEW S, Relays(S)
  PROVE  /\ Relays(S)' /\ RelayedMsop' = RelayedMsop /\ RelayedOf(S)' = RelayedOf(S)
<1> DEFINE x == Len(relayed) + 1
<1>1. /\ \A i \in DOMAIN relayed : relayed'[i] = relayed[i]
      /\ RelayedMsop' = RelayedMsop /\ RelayedBegin' = RelayedBegin
      /\ RelayedOf(S)' = RelayedOf(S)
  BY RelayedMore
<1>2. \A n \in S : \E i \in RelayedMsop : relayed'[i].data.n = n
  <2>1. RelayedMsop \subseteq DOMAIN relayed BY DEF RelayedMsop
  <2> QED BY <1>1, <2>1 DEF Relays
<1>3. MakesCloud(RelayedMsop, RelayedBegin, RelayedOf(S)) BY Zenon DEF Relays
<1>4. Relays(S)' BY <1>1, <1>2, <1>3, Zenon DEF Relays
<1> QED BY <1>1, <1>4

\* A cloud that was ended stays as it is.
LEMMA ClosedMore ==
  ASSUME RelayedInTurn, NEW q, relayed' = Append(relayed, q), ~q.is_difop,
         NEW S, Closed(S), q.data.n \notin S, hpc \in {"split", "points"} => q.is_frame_begin
  PROVE  Closed(S)'
<1> DEFINE M == RelayedMsop
           B == RelayedBegin
           N == RelayedMsop'
           C == RelayedBegin'
           T == RelayedOf(S)
<1>1. PICK x : x = Len(relayed) + 1 OBVIOUS
<1>2. /\ x \in Nat /\ After(M, x) /\ \A i \in DOMAIN relayed : relayed'[i] = relayed[i] /\ i < x
      /\ N = M \cup {x} /\ C = IF q.is_frame_begin THEN B \cup {x} ELSE B
      /\ RelayedOf(S)' = T
  BY <1>1, RelayedMore
<1>3. M \in SUBSET Nat /\ M \subseteq DOMAIN relayed BY RelayedType
<1>4. T \in SUBSET M BY DEF RelayedOf
<1>5. MakesCloud(M, B, T) BY Zenon DEF Closed, Relays
<1>6. x \in C \/ \A i \in T : \E m \in M : i < m
  <2>1. CASE hpc \in {"split", "points"} BY <1>2, <2>1
  <2>2. CASE hpc \notin {"split", "points"} BY <2>2, Zenon DEF Closed
  <2> QED BY <2>1, <2>2
<1>7. C = B \/ C = B \cup {x} BY <1>2
<1>8. \A n \in S : \E i \in M : relayed[i].data.n = n BY Zenon DEF Closed, Relays
<1> HIDE DEF M, B, N, C, T
<1>9. MakesCloud(N, C, T) BY <1>2, <1>3, <1>4, <1>5, <1>6, <1>7, CloudStays
<1>10. \A n \in S : \E i \in N : relayed'[i].data.n = n BY <1>2, <1>3, <1>8
<1>11. Relays(S)' BY <1>2, <1>9, <1>10, Zenon DEF Relays, N, C
<1>12. \A i \in T : \E j \in N : i < j BY <1>2, <1>3, <1>4
<1> QED BY <1>2, <1>11, <1>12, Zenon DEF Closed, N

\* The cloud that is filled gets the packet: as the next, or as its first.
LEMMA OpenMore ==
  ASSUME RelayedInTurn, NEW q, relayed' = Append(relayed, q), ~q.is_difop,
         q.data.n \in Nat, \A i \in DOMAIN relayed : relayed[i].data.n < q.data.n,
         NEW S, NEW T, \A n : n \in T <=> n \in S \/ n = q.data.n, q.data.n \notin S,
         \/ Open(S) /\ S # {} /\ ~q.is_frame_begin
         \/ S = {} /\ (q.is_frame_begin \/ RelayedMsop = {})
  PROVE  Open(T)'
<1> DEFINE M == RelayedMsop
           B == RelayedBegin
           N == RelayedMsop'
           C == RelayedBegin'
           U == RelayedOf(S)
           V == RelayedOf(T)'
<1>1. PICK x : x = Len(relayed) + 1 OBVIOUS
<1>2. /\ x \in Nat /\ After(M, x) /\ x \notin B
      /\ \A i \in DOMAIN relayed : relayed'[i] = relayed[i] /\ i < x
      /\ N = M \cup {x} /\ C = (IF q.is_frame_begin THEN B \cup {x} ELSE B)
      /\ relayed'[x] = q
  BY <1>1, RelayedMore
<1>3. M \in SUBSET Nat /\ M \subseteq DOMAIN relayed BY RelayedType
<1>4. V = U \cup {x}
  <2>1. V = RelayedOf(T) \cup {x} BY <1>1, RelayedMore
  <2>2. \A i \in M : relayed[i].data.n \in T <=> relayed[i].data.n \in S
    <3>1. \A i \in DOMAIN relayed : relayed[i].data.n # q.data.n
      BY RelayedType
    <3>2. \A i \in M : i \in DOMAIN relayed BY <1>3
    <3> HIDE DEF M
    <3> TAKE i \in M
    <3>3. relayed[i].data.n # q.data.n BY <3>1, <3>2
    <3>4. PICK a : a = relayed[i].data.n OBVIOUS
    <3>5. a \in T <=> a \in S BY <3>3, <3>4, Zenon
    <3> QED BY <3>4, <3>5, Zenon
  <2>3. RelayedOf(T) = U BY <2>2 DEF RelayedOf
  <2> QED BY <2>1, <2>3
<1>5. U \in SUBSET M BY DEF RelayedOf
<1>6. S = {} => U = {} BY DEF RelayedOf
<1>7. Open(S) => /\ \A n \in S : \E i \in M : relayed[i].data.n = n
                 /\ MakesCloud(M, B, U)
                 /\ M # {} => \E i \in U : \A j \in M : j <= i
  BY Zenon DEF Open, Relays
<1> HIDE DEF M, B, N, C, U, V
<1>8. MakesCloud(N, C, V)
  <2>1. CASE Open(S) /\ S # {} /\ ~q.is_frame_begin
    <3>1. M # {} BY <1>7, <2>1
    <3>2. PICK l \in U : \A j \in M : j <= l BY <1>7, <2>1, <3>1, Zenon
    <3>3. MakesCloud(M \cup {x}, B, U \cup {x})
      BY <1>2, <1>3, <1>5, <1>7, <2>1, <3>2, CloudGrows
    <3> QED BY <1>2, <1>4, <2>1, <3>3
  <2>2. CASE S = {} /\ (q.is_frame_begin \/ M = {})
    <3>1. V = {x} BY <1>4, <1>6, <2>2
    <3>2. x \in C \/ M = {} BY <1>2, <2>2
    <3>3. MakesCloud(M \cup {x}, C, {x}) BY <1>2, <1>3, <3>2, CloudBegins
    <3> QED BY <1>2, <3>1, <3>3
  <2> QED BY <2>1, <2>2 DEF M
<1>9. \A n \in T : \E i \in N : relayed'[i].data.n = n
  <2>1. \A n \in S : \E i \in M : relayed[i].data.n = n BY <1>7
  <2>2. \A n \in T : n \in S \/ n = q.data.n BY Zenon
  <2>3. x \in N /\ relayed'[x].data.n = q.data.n BY <1>2
  <2>4. \A i \in M : i \in N /\ relayed'[i].data.n = relayed[i].data.n BY <1>2, <1>3
  <2> TAKE n \in T
  <2>5. CASE n \in S
    <3>1. PICK i \in M : relayed[i].data.n = n BY <2>1, <2>5
    <3> QED BY <2>4, <3>1
  <2>6. CASE n = q.data.n BY <2>3, <2>6
  <2> QED BY <2>2, <2>5, <2>6
<1>10. \E i \in V : \A j \in N : j <= i
  <2>1. x \in V BY <1>4
  <2>2. \A j \in N : j <= x BY <1>2, <1>3
  <2> QED BY <2>1, <2>2
<1>11. Relays(T)' BY <1>8, <1>9, Zenon DEF Relays, N, C, V
<1> QED BY <1>10, <1>11, Zenon DEF Open, N, V

\* The cloud that is filled gets the points of the packet, and the others are left alone.
LEMMA PacketFills ==
  ASSUME SourceInv, ~overlapped, OrderInv, HandlePacket
  PROVE  /\ point_cloud \in Clouds /\ Out' = Out
         /\ \A c \in Out : In(c)' = In(c)
         /\ Head(batch).kind = "msop" =>
              /\ \A n : n \in In(point_cloud)' <=> n \in In(point_cloud) \/ n = Head(batch).n
              /\ Head(batch).n \notin In(point_cloud)
              /\ \A c \in Out : Head(batch).n \notin In(c)
              /\ \A k \in DOMAIN published : Head(batch).n \notin Numbers(published[k].data)
         /\ Head(batch).kind # "msop" => content' = content
<1> DEFINE p == Head(batch)
           pc == point_cloud
<1>1. /\ queue' = queue /\ msg' = msg /\ ppc' = ppc /\ pc' = pc
      /\ batch # <<>> /\ hpc \in {"decode", "points"}
      /\ content' = IF p.kind = "msop" THEN [content EXCEPT ![pc].points = @ \o PointsOf(p)] ELSE content
  BY Zenon DEF HandlePacket, handleRest, inVars, pubVars
<1>2. hpc # "split" /\ hpc # "off" BY <1>1
<1>3. Typed /\ Control /\ Counted BY Zenon DEF SourceInv, Accounted
<1>4. pc \in Clouds /\ pc # NoCloud /\ content \in [Clouds -> Cloud] /\ batch \in Seq(Packet)
  BY <1>2, <1>3, Zenon DEF Typed, Control
<1>5. p \in Packet /\ p.n \in Nums(batch)
  BY <1>1, <1>3, <1>4, TailKnown, Zenon DEF Counted
<1>6. Out' = Out BY <1>1, Zenon DEF Out, Sent
<1>7. Out \subseteq Clouds /\ pc \notin Out /\ Live = Out \cup {pc}
  <2>1. Filled = {pc} BY <1>2, <1>4 DEF Filled
  <2> QED BY <1>2, <2>1, OutClouds
<1>8. \A n \in Drawn : n < p.n
  BY <1>5 DEF OrderInv, Waiting, InTurn, Below
<1>9. /\ \A c \in Live : p.n \notin In(c)
      /\ \A k \in DOMAIN published : p.n \notin Numbers(published[k].data)
  <2>1. p.n \in Nat BY <1>5 DEF Packet
  <2>2. p.n \notin Drawn BY <1>8, <2>1
  <2> HIDE DEF p
  <2> QED BY <2>2 DEF Drawn, Pub
<1> HIDE DEF p
<1>10. CASE p.kind = "msop"
  <2> DEFINE old == content[pc].points
             new == old \o PointsOf(p)
             e == [content[pc] EXCEPT !.points = new]
  <2>1. old \in Seq(Nat \X Nat) /\ In(pc) = Numbers(old) BY <1>4 DEF Cloud, In
  <2> HIDE DEF old
  <2>2. new \in Seq(Nat \X Nat) /\ \A n : n \in Numbers(new) <=> n \in Numbers(old) \/ n = p.n
    BY <1>5, <2>1, PacketPoints, Zenon
  <2>3. content' = [content EXCEPT ![pc] = e] BY <1>1, <1>10, Zenon DEF old
  <2> HIDE DEF new
  <2>4. e \in Cloud /\ e.points = new BY <1>4, <2>2 DEF Cloud
  <2> HIDE DEF e
  <2>5. content'[pc].points = new /\ \A c \in Clouds : c # pc => content'[c] = content[c]
    BY <1>4, <2>3, <2>4
  <2>6. \A c \in Out : In(c)' = In(c)
    <3>1. \A c \in Out : c \in Clouds /\ c # pc BY <1>7
    <3> QED BY <2>5, <3>1, Zenon DEF In
  <2>7. In(pc)' = Numbers(new) BY <1>1, <2>5, Zenon DEF In
  <2>8. \A n : n \in In(pc)' <=> n \in In(pc) \/ n = p.n BY <2>1, <2>2, <2>7, Zenon
  <2> QED BY <1>4, <1>6, <1>7, <1>9, <1>10, <2>6, <2>8, Zenon DEF p
<1>11. CASE p.kind # "msop"
  <2>1. content' = content BY <1>1, <1>11
  <2>2. \A c \in Out : In(c)' = In(c) BY <2>1, Zenon DEF In
  <2> QED BY <1>4, <1>6, <1>11, <2>1, <2>2, Zenon DEF p
<1> QED BY <1>10, <1>11

LEMMA RelayPacket ==
  ASSUME SourceInv, ~overlapped, OrderInv, RelayInv, HandlePacket
  PROVE  RelayInv'
<1> DEFINE p == Head(batch)
           rest == Tail(batch)
           pc == point_cloud
           q == ToRosPacket(p, Len(relayed))
<1>1. /\ relays' = relays /\ arrivals' = arrivals /\ mpc' = mpc /\ pending' = pending /\ pkts' = pkts
      /\ batch' = rest /\ published' = published /\ pc' = pc
      /\ batch # <<>> /\ hpc \in {"decode", "points"} /\ hpc' = "decode"
      /\ hpc = "decode" => ~(p.kind = "msop" /\ p.begins /\ content[pc].points # <<>>)
      /\ relayed' = IF relays /\ p.kind \in {"msop", "difop"} THEN Append(relayed, q) ELSE relayed
  BY Zenon DEF HandlePacket, handleRest, inVars, pubVars
<1>2. RelayedInTurn /\ Splitting /\ CloudsRelayed BY Zenon DEF RelayInv
<1>3. Typed /\ Control /\ Counted BY Zenon DEF SourceInv, Accounted
<1>4. batch \in Seq(Packet) BY <1>3, Zenon DEF Typed
<1>5. /\ p \in Packet /\ p.n \in Nums(batch) /\ p.n \in DOMAIN arrivals
      /\ \A n : n \in Nums(rest) <=> n \in Nums(batch) /\ n # p.n
  BY <1>1, <1>3, <1>4, TailKnown, Zenon DEF Counted
<1>6. /\ Rising(batch) /\ InTurn(Drawn, Nums(batch), Nums(pkts), Nums(pending))
  BY Zenon DEF OrderInv, Waiting
<1>7. \A n \in Nums(rest) : p.n < n BY <1>1, <1>4, <1>6, RisingTail, Zenon
<1>8. \A n \in Nums(batch') \cup Nums(pkts') \cup Nums(pending') :
        n \in Nums(batch) \cup Nums(pkts) \cup Nums(pending) /\ p.n < n
  <2>1. Nums(batch') = Nums(rest) /\ Nums(pkts') = Nums(pkts) /\ Nums(pending') = Nums(pending)
    BY <1>1, Zenon
  <2> HIDE DEF p, rest
  <2>2. \A n \in Nums(pkts) \cup Nums(pending) : p.n < n BY <1>5, <1>6 DEF InTurn, Below
  <2> QED BY <1>5, <1>7, <2>1, <2>2
<1>9. /\ pc \in Clouds /\ Out' = Out /\ \A c \in Out : In(c)' = In(c)
      /\ p.kind = "msop" =>
           /\ \A n : n \in In(pc)' <=> n \in In(pc) \/ n = p.n
           /\ p.n \notin In(pc)
           /\ \A c \in Out : p.n \notin In(c)
           /\ \A k \in DOMAIN published : p.n \notin Numbers(published[k].data)
      /\ p.kind # "msop" => content' = content
  BY PacketFills
<1>10. hpc = "points" => p.kind = "msop" /\ p.begins /\ In(pc) = {}
  BY <1>2 DEF Splitting
<1>11. /\ q \in RosPacket /\ q.data = p /\ (q.is_difop <=> p.kind = "difop")
       /\ (q.is_frame_begin <=> p.kind = "msop" /\ p.begins)
  <2>1. Len(relayed) \in Nat BY <1>2 DEF RelayedInTurn
  <2> HIDE DEF p
  <2> QED BY <1>5, <2>1 DEF ToRosPacket, RosPacket, Packet
<1>12. \A i \in DOMAIN relayed : relayed[i].data.n < p.n BY <1>2, <1>5 DEF RelayedInTurn
<1> HIDE DEF p, rest, q
<1>13. RelayedInTurn'
  <2>1. CASE relays /\ p.kind \in {"msop", "difop"}
    <3>1. relayed' = Append(relayed, q) BY <1>1, <2>1
    <3> QED BY <1>1, <1>2, <1>5, <1>8, <1>11, <3>1, RelayedInTurnMore
  <2>2. CASE ~(relays /\ p.kind \in {"msop", "difop"})
    <3>1. relayed' = relayed BY <1>1, <2>2
    <3> QED BY <1>1, <1>2, <1>8, <3>1, RelayedInTurnKept
  <2> QED BY <2>1, <2>2
<1>14. Splitting' BY <1>1 DEF Splitting
<1>15. NothingEarly'
  <2>1. mpc \notin {"main", "init", "created", "ready"} BY <1>1, <1>3 DEF Control
  <2> QED BY <1>1, <2>1 DEF NothingEarly
<1>16. CloudsRelayed'
  <2> SUFFICES ASSUME relays PROVE CloudsRelayed'
    BY <1>1, Zenon DEF CloudsRelayed
  <2>1. /\ \A c \in Out : Closed(In(c))
        /\ \A k \in DOMAIN published : Closed(Numbers(published[k].data))
        /\ hpc = "decode" => Open(In(pc))
    <3>1. hpc = "decode" => hpc \in {"loop", "wait", "pop", "decode"} OBVIOUS
    <3> QED BY <1>2, <3>1, Zenon DEF CloudsRelayed
  <2>2. CASE p.kind \notin {"msop", "difop"}
    <3>1. relayed' = relayed /\ content' = content /\ hpc = "decode" BY <1>1, <1>9, <1>10, <2>2
    <3>2. \A c \in Out' : c \in Out /\ In(c)' = In(c) BY <1>9
    <3>3. /\ hpc \in {"loop", "wait", "pop", "decode"} /\ hpc \notin {"split", "points"}
          /\ In(point_cloud)' = In(point_cloud)
      <4>1. In(point_cloud)' = In(point_cloud) BY <1>1, <3>1, Zenon DEF In
      <4> QED BY <3>1, <4>1
    <3> QED BY <1>1, <1>2, <3>1, <3>2, <3>3, CloudsRelayedStays, Zenon
  <2>3. CASE p.kind = "difop"
    <3>1. relayed' = Append(relayed, q) /\ q.is_difop /\ content' = content /\ hpc = "decode"
      BY <1>1, <1>9, <1>10, <1>11, <2>3
    <3>2. ASSUME NEW S, Closed(S) PROVE Closed(S)'
      <4>1. Relays(S)' /\ RelayedMsop' = RelayedMsop /\ RelayedOf(S)' = RelayedOf(S)
        BY <1>2, <3>1, <3>2, RelaysDifop, Zenon DEF Closed
      <4>2. \A i \in RelayedOf(S) : \E j \in RelayedMsop : i < j BY <3>1, <3>2 DEF Closed
      <4> QED BY <4>1, <4>2, Zenon DEF Closed
    <3>3. ASSUME NEW S, Open(S) PROVE Open(S)'
      <4>1. Relays(S)' /\ RelayedMsop' = RelayedMsop /\ RelayedOf(S)' = RelayedOf(S)
        BY <1>2, <3>1, <3>3, RelaysDifop, Zenon DEF Open
      <4> QED BY <3>3, <4>1, Zenon DEF Open
    <3>4. \A c \in Out' : Closed(In(c))'
      <4> SUFFICES ASSUME NEW c \in Out' PROVE Closed(In(c))'
        OBVIOUS
      <4>1. PICK S : S = In(c) OBVIOUS
      <4>2. Closed(S) /\ In(c)' = S BY <1>9, <2>1, <4>1, Zenon
      <4>3. Closed(S)' BY <3>2, <4>2, Zenon
      <4> QED BY <4>2, <4>3, Zenon
    <3>5. \A k \in DOMAIN published' : Closed(Numbers(published[k].data))'
      BY <1>1, <2>1, <3>2, Zenon
    <3>6. Open(In(point_cloud))'
      <4>1. PICK S : S = In(pc) OBVIOUS
      <4>2. Open(S)' BY <2>1, <3>1, <3>3, <4>1, Zenon
      <4>3. In(point_cloud)' = S BY <1>1, <3>1, <4>1, Zenon DEF In
      <4> QED BY <4>2, <4>3, Zenon
    <3> QED BY <3>4, <3>5, <3>6, Zenon DEF CloudsRelayed
  <2>4. CASE p.kind = "msop"
    <3>1. relayed' = Append(relayed, q) /\ ~q.is_difop /\ (q.is_frame_begin <=> p.begins) /\ q.data.n = p.n
      BY <1>1, <1>11, <2>4
    <3>2. hpc \in {"split", "points"} => q.is_frame_begin BY <1>1, <1>10, <3>1
    <3>3. ASSUME NEW S, Closed(S), p.n \notin S PROVE Closed(S)'
      BY <1>2, <3>1, <3>2, <3>3, ClosedMore, Zenon
    <3>4. \A c \in Out' : Closed(In(c))'
      <4> SUFFICES ASSUME NEW c \in Out' PROVE Closed(In(c))'
        OBVIOUS
      <4>1. PICK S : S = In(c) OBVIOUS
      <4>2. c \in Out BY <1>9
      <4>3. Closed(S) /\ In(c)' = S /\ p.n \notin S BY <1>9, <2>1, <2>4, <4>1, <4>2, Zenon
      <4>4. Closed(S)' BY <3>3, <4>3, Zenon
      <4> QED BY <4>3, <4>4, Zenon
    <3>5. \A k \in DOMAIN published' : Closed(Numbers(published[k].data))'
      <4> SUFFICES ASSUME NEW k \in DOMAIN published' PROVE Closed(Numbers(published[k].data))'
        OBVIOUS
      <4>1. PICK S : S = Numbers(published[k].data) OBVIOUS
      <4>2. Closed(S) /\ Numbers(published'[k].data) = S /\ p.n \notin S
        BY <1>1, <1>9, <2>1, <2>4, <4>1, Zenon
      <4>3. Closed(S)' BY <3>3, <4>2, Zenon
      <4> QED BY <4>2, <4>3, Zenon
    <3>6. Open(In(point_cloud))'
      <4>1. PICK S : S = In(pc) OBVIOUS
      <4>2. PICK T : T = In(point_cloud)' OBVIOUS
      <4>3. (\A n : n \in T <=> n \in S \/ n = q.data.n) /\ q.data.n \notin S
        BY <1>1, <1>9, <2>4, <3>1, <4>1, <4>2, Zenon
      <4>4. \/ Open(S) /\ S # {} /\ ~q.is_frame_begin
            \/ S = {} /\ (q.is_frame_begin \/ RelayedMsop = {})
        <5>1. CASE hpc = "points" BY <1>10, <3>1, <4>1, <5>1
        <5>2. CASE hpc = "decode"
          <6>1. Open(S) BY <2>1, <4>1, <5>2, Zenon
          <6>2. S # {} => ~q.is_frame_begin
            <7> SUFFICES ASSUME S # {} PROVE content[pc].points # <<>>
              BY <1>1, <2>4, <3>1, <5>2
            <7> QED BY <4>1, NumbersOfNone DEF In
          <6>3. S = {} => RelayedMsop = {}
            <7>1. RelayedOf({}) = {} BY DEF RelayedOf
            <7> QED BY <6>1, <7>1 DEF Open
          <6> QED BY <6>1, <6>2, <6>3
        <5> QED BY <1>1, <5>1, <5>2
      <4>5. q.data.n \in Nat BY <1>5, <3>1 DEF Packet
      <4>6. \A i \in DOMAIN relayed : relayed[i].data.n < q.data.n BY <1>12, <3>1
      <4>7. Open(T)' BY <1>2, <3>1, <4>3, <4>4, <4>5, <4>6, OpenMore, Zenon
      <4> QED BY <4>2, <4>7, Zenon
    <3> QED BY <3>4, <3>5, <3>6, Zenon DEF CloudsRelayed
  <2> QED BY <2>2, <2>3, <2>4
<1> QED BY <1>13, <1>14, <1>15, <1>16, Zenon DEF RelayInv

-----------------------------------------------------------------------------

LEMMA InitRelay ==
  ASSUME SourceInit
  PROVE  RelayInv
<1>1. /\ mpc = "main" /\ relays = FALSE /\ hpc = "off" /\ ppc = "off" /\ queue = <<>>
      /\ content = [c \in Clouds |-> Empty] /\ published = <<>> /\ relayed = <<>>
  BY Zenon DEF SourceInit
<1>2. RelayedInTurn BY <1>1 DEF RelayedInTurn
<1>3. Splitting BY <1>1 DEF Splitting
<1>4. NothingEarly
  <2>1. Out = {} BY <1>1 DEF Out, Sent
  <2>2. \A c \in Clouds : content[c].points = <<>> BY <1>1 DEF Empty
  <2>3. \A c \in Clouds : In(c) = {} BY <2>2, NumbersOfNone, Zenon DEF In
  <2> QED BY <1>1, <2>1, <2>3, Zenon DEF NothingEarly
<1>5. CloudsRelayed BY <1>1, Zenon DEF CloudsRelayed
<1> QED BY <1>2, <1>3, <1>4, <1>5, Zenon DEF RelayInv

LEMMA NextRelay ==
  ASSUME SourceInv, ~overlapped, OrderInv, RelayInv, [SourceNext]_vars
  PROVE  RelayInv'
<1>1. CASE Main
  BY <1>1, RelayQuietSteps, RelayInitSource, RelayRegister, RelayStart, RelayJoinHandle, Zenon DEF Main
<1>2. CASE Recv \/ Feed \/ Arrive
  BY <1>2, RelayQuietSteps, RelayRecv, RelayRecvPut, Zenon DEF Recv
<1>3. CASE Handle
  BY <1>3, RelayQuietSteps, RelayBatch, RelaySplit, RelayNewCloud, RelayPacket, Zenon DEF Handle,
                     HandleStrays
<1>4. CASE Publish
  BY <1>4, RelayQuietSteps, RelayTake, RelaySend, Zenon DEF Publish
<1>5. CASE Stopped \/ UNCHANGED vars
  BY <1>5, RelayQuietSteps, Zenon DEF Stopped
<1> QED BY <1>1, <1>2, <1>3, <1>4, <1>5, Zenon DEF SourceNext

\* Every packet of a cloud is relayed once.
LEMMA RelayedOnce ==
  ASSUME RelayedInTurn, NEW S, \A n \in S : \E i \in RelayedMsop : relayed[i].data.n = n
  PROVE  Cardinality(RelayedOf(S)) = Cardinality(S)
<1> DEFINE own == RelayedOf(S)
           f == [i \in own |-> relayed[i].data.n]
<1>1. /\ DOMAIN relayed = 1..Len(relayed) /\ Len(relayed) \in Nat
      /\ RelayedMsop \subseteq DOMAIN relayed /\ \A i \in DOMAIN relayed : relayed[i].data.n \in Nat
  BY RelayedType
<1>2. own \subseteq RelayedMsop /\ \A i \in own : relayed[i].data.n \in S BY DEF RelayedOf
<1>3. \A n \in S : \E i \in own : relayed[i].data.n = n BY DEF RelayedOf
<1> HIDE DEF own
<1>4. IsFiniteSet(own)
  <2>1. IsFiniteSet(1..Len(relayed)) BY <1>1, FS_Interval
  <2> QED BY <1>1, <1>2, <2>1, FS_Subset
<1>5. f \in [own -> S] /\ \A n \in S : \E i \in own : f[i] = n BY <1>2, <1>3
<1>6. \A i, j \in own : f[i] = f[j] => i = j
  <2> SUFFICES ASSUME NEW i \in own, NEW j \in own, relayed[i].data.n = relayed[j].data.n
               PROVE  i = j
    OBVIOUS
  <2>1. i \in Nat /\ j \in Nat /\ relayed[i].data.n \in Nat BY <1>1, <1>2
  <2>2. ~(i < j) /\ ~(j < i) BY <1>1, <1>2, <2>1 DEF RelayedInTurn
  <2> QED BY <2>1, <2>2
<1> HIDE DEF f
<1>7. f \in Bijection(own, S)
  BY <1>5, <1>6 DEF Bijection, Injection, Surjection, IsInjective
<1>8. ExistsBijection(own, S) BY <1>7, Zenon DEF ExistsBijection
<1> QED BY <1>4, <1>8, FS_Bijection DEF own

LEMMA InvReplay ==
  ASSUME RelayInv
  PROVE  ReplayGivesSameClouds
<1> SUFFICES ASSUME relays, ~overlapped, NEW k \in DOMAIN published,
                    NEW S, S = Numbers(published[k].data)
             PROVE  /\ Cardinality(RelayedOf(S)) = Cardinality(S)
                    /\ MakesCloud(RelayedMsop, RelayedBegin, RelayedOf(S))
  BY Zenon DEF ReplayGivesSameClouds
<1>1. RelayedInTurn /\ Closed(S) BY Zenon DEF RelayInv, CloudsRelayed
<1>2. /\ \A n \in S : \E i \in RelayedMsop : relayed[i].data.n = n
      /\ MakesCloud(RelayedMsop, RelayedBegin, RelayedOf(S))
  BY <1>1, Zenon DEF Closed, Relays
<1> QED BY <1>1, <1>2, RelayedOnce

\* Replaying the packets a node relays gives the clouds it published: every packet of
\* a cloud is on the topic of packets, once, and what was relayed before and after makes
\* a decoder begin and end the cloud at the same packets; unless a batch was popped while
\* the queue was cleared.
THEOREM ReplaySame == SourceSpec => []ReplayGivesSameClouds
<1> DEFINE Inv == ~overlapped => OrderInv /\ RelayInv
<1>1. SourceInit => Inv BY InitOrder, InitRelay
<1>2. SourceInv /\ Inv /\ [SourceNext]_vars => Inv' BY NextOrder, NextRelay, OverlapStays
<1>3. Inv => ReplayGivesSameClouds BY InvReplay, Zenon DEF ReplayGivesSameClouds
<1> HIDE DEF Inv
<1> QED BY <1>1, <1>2, <1>3, SourceInvariance, PTL DEF SourceSpec
=============================================================================

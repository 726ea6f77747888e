# Verification of the lidar pipeline of the glass SLAM stack

The repository runs a RoboSense lidar and an IMU through two ROS processes: `rslidar_sdk`, a node around the driver
library `rs_driver`, turns UDP packets into point clouds, and `robosense_fast_lio`, a lidar-inertial odometry node, joins
clouds with IMU samples, estimates the pose and keeps the map in a kd-tree that a second thread rebalances. This directory
holds TLA+ models of the control of both, the TLC configurations that check them on small instances, and proofs that TLAPS
checks. Paths below are relative to `src/glass_slam_fastlio_bridge_ws/`; `rs_driver/` stands for
`rslidar_sdk/src/rs_driver/src/rs_driver/`, `fast_lio/` for
`robosense_fast_lio/`.

    lidar, network                                                   IMU
         | UDP                                                        |
    receiving thread -- pkt_queue_ --> handling thread                |
         ^                              | decoder: splits frames      |
         +------ free_pkt_queue_ <------+                             |
                                        | cloud callback              |
                         point_cloud_queue_ -> publishing thread      |
                                        | ROS topic                   | ROS topic
                     standard_pcl_cbk -> lidar_buffer, time_buffer    imu_cbk -> imu_buffer
                                        \______ sync_packages _______/
                                        ImuProcess, filter, map_incremental
                                               | adds, deletes, searches
                                           ikd-Tree <-> rebuilding thread

## Inventory

| Component | State | Operations | Interacts through | What is hard |
|---|---|---|---|---|
| `SyncQueue` (`rs_driver/utility/sync_queue.hpp`) | the slots, `head_`, `tail_` | `push`, `pop`, `popWait`, `popBatch`, `clear`, `size` | used by the driver and the node between two threads | lock-free: each side acts on an old view of the other's index; `clear` writes both indices |
| `LidarDriverImpl`, `InputSock` (`rs_driver/driver/`) | flags of the life cycle, the packet pool of the receiving thread, two queues, the batch, the unfinished cloud | `init`, `start`, `stop`, `recvPacket`, `packetGet`, `packetPut`, `processPacket`, `splitFrame` | two threads, an application, callbacks for clouds and errors | buffers circulate without copying; overflow clears the queue from the other side; `stop` and `start` around packets under way |
| Frame splitting (`rs_driver/driver/decoder/split_strategy.hpp`) | last angle, block count or packet number, safe range | `newBlock`, `newPacket`, `maxSeq` | called by every decoder for each packet or block | UDP loses and reorders; a number or angle that goes back is a new frame, or an old packet |
| Decoders (`rs_driver/driver/decoder/decoder*.hpp`), thirteen mechanical and seven MEMS lidars, and the block iterators | calibration and modes read from DIFOP packets, `angles_ready_`, the cloud being filled, `first_point_ts_`, `prev_point_ts_` | `processDifopPkt`, `processMsopPkt`, `isNewFrame`, twenty `decodeMsopPkt` | handling thread; `cb_split_frame_` | order of split and points; what happens before the first DIFOP; two split strategies side by side, one for clouds and one for the pace of a recording; blocks of two returns; the blind zone |
| Inputs (`input_pcap`, `input_raw`, `input_sock_epoll`, jumbo) | file handle, descriptors, fragment buffer | `init`, `start`, `stop`, `recvPacket`, `feedPacket`, `new_fragment` | receiving thread, or the node's own thread | end of file and restart, fragments out of order, an event for the wrong descriptor |
| `SourceDriver`, `NodeManager`, ROS adapters (`rslidar_sdk/src/`) | two queues of clouds, a publishing thread, destinations | `init`, `start`, `stop`, `getPointCloud`, `putPointCloud`, `processPointCloud`, `toRosMsg` | callbacks of the driver, publishers | a slow publisher, clouds that circulate by pointer, four joins |
| Preprocessing (`fast_lio/src/preprocess.cpp`) | `pl_surf`, `pl_buff`, `given_offset_time` | `process` and a handler per lidar | called by the lidar callback, once per part of a message | times worked out from angles, messages cut by integer division, rings without points |
| Lidar-IMU synchronisation (`fast_lio/src/laserMapping.cpp`, `IMU_Processing.hpp`) | three buffers, `lidar_end_time`, `lidar_pushed`, `Measures`, `last_imu_`, `last_lidar_end_time_` | `standard_pcl_cbk`, `imu_cbk`, `sync_packages`, `Process`, the main loop | ROS callbacks, run by the loop's own thread | lost and delayed messages, stamps that jump back, a scan in parts, globals that two functions share |
| ikd-Tree, structure (`fast_lio/include/ikd-Tree/`) | the nodes with their marks, counts and ranges, `Points_deleted` | `Build`, `Add_Points`, `Delete_Points`, `Delete_Point_Boxes`, `Add_Point_Boxes`, three searches, `acquire_removed_points` | called by `map_incremental`, `lasermap_fov_segment`, `h_share_model` | lazy deletion: everything below a marked node is stale; counts decide about rebuilds, ranges about pruning |
| ikd-Tree, rebuilding thread | `Rebuild_Ptr`, `rebuild_flag`, the log, mutexes and a counter | `Add_Points`, `Delete_Point_Boxes`, `Nearest_Search`, `multi_thread_rebuild`, `stop_thread` | mapping thread, OpenMP searchers, rebuilding thread | pointers read without a lock, updates while a copy is balanced, deletion of the old tree |
| Filter and geometry, messages, scripts | numeric, or none that lasts | | | out of reach or stateless |

What makes each of them correct:

- `SyncQueue`: it is a bounded FIFO queue; no slot is written while it is read; a full ring drains.
- Driver: a buffer has one holder; a packet is decoded once, in order, or dropped for a stated reason; no empty slot is
  decoded; every point is in one cloud; `stop()` returns.
- Frame splitting and decoders: the strategy knows where in the frame the lidar is; a frame, or a turn, is one cloud; a block
  has the time and the angle at which it was fired and a pixel its own ring; stamps are in order; the pace of a recording
  follows the frames.
- Inputs and node: a datagram is put together from its own fragments; every point goes to the topic once and in order, or was
  dropped by a full queue or `stop()`; packets that are relayed replay to the same clouds; the node can be stopped.
- Preprocessing: a point has the time at which it was measured; the parts of a message have its points once; nothing is accessed
  outside of a container but in cases that are named.
- Synchronisation: each scan gets its own time and its own samples; the filter's state ends where the scan ends; no scan
  enters the map twice; no scan waits for ever.
- ikd-Tree: it is a bag of points, and a search finds what a look at every point would find; deleted points are reported
  once; no search walks a tree that is copied, replaced or deleted; what was logged during a rebuild is in the new tree;
  nobody waits for ever.

`PROJECT.json` lists all components with their sources, and under `hazards` the lines where each of these can go wrong.

## Modules

| Module | Models | State and actions |
|---|---|---|
| `BoundedFifo` | what `SyncQueue` promises | a sequence; append or refuse, take a prefix or find nothing |
| `SyncQueue` | `sync_queue.hpp` | one action for each access to a shared atomic or slot: a push loads both indices (`PushBegin`, `PushFull`), writes (`PushWrite`), stores `tail_` (`PushPublish`); a pop loads, compares, copies slot by slot and stores `head_`; `clear` is two stores |
| `LidarDriver` | `lidar_driver_impl.hpp`, `input_sock_select.hpp` | extends `SyncQueue` for `pkt_queue_`; three threads `App`, `Recv` and `Handle`, each with its own program counter; a buffer is a name and `content` says what the network wrote in it |
| `LidarDriverProofs` | | proofs about `SyncQueue`, and on top of them about `LidarDriver` |
| `MemsFrames` | `SplitStrategyBySeq` | the five fields of the strategy, the cloud, and a network that skips and delays packets |
| `MemsFramesProofs` | | proofs about `MemsFrames`: the strategy, and the clouds that follow from it |
| `Decoder` | `decoder.hpp`, `splitFrame` | operators on the frame `f` that both families of decoders build |
| `BlockIterators` | `block_iterator.hpp` | one operator per iterator, from the azimuths of a packet to the angle and time of each block |
| `MechDecoders` | `decoder_mech.hpp`, the thirteen `decoder_*.hpp`, `SplitStrategyByAngle` and `ByNum` | one operator per lidar for its DIFOP and its MSOP packet |
| `MechFrames` | the lidar, the network and `processMsopPkt`, `processDifopPkt` | extends `MechDecoders`; one action per packet that is sent, lost or wrong |
| `MechFramesProofs` | | proofs about `MechFrames` and the decoders and iterators it is built of |
| `MemsDecoders`, `MemsClouds` | the seven decoders of MEMS lidars, and a lidar that sends numbered packets to one of them | as above; `FrameInOneCloud` speaks of clouds with their points, where `MemsFrames` has sets of frames |
| `MemsCloudsProofs` | | proofs about `MemsClouds` and the decoders of `MemsDecoders` |
| `Jumbo` | `jumbo.hpp` | `NewFragment` on the reassembly buffer |
| `LidarSource` | `node_manager.cpp`, `source_driver.hpp`, `input_pcap.hpp`, `input_raw.hpp`, `input_sock_epoll.hpp`, `source_pointcloud_ros.hpp`, `source_packet_ros.hpp` | extends `Jumbo`; four threads with a program counter each, the queues of packets and clouds as sequences, what the slots give after a `clear` overlapped a `popBatch` as a choice, the topics as histories |
| `LidarSourceProofs` | | proofs about `LidarSource` and `Jumbo` |
| `Preprocess` | `preprocess.cpp`, `preprocess.h` | `Receive` takes a message; one action per handler, once per part; `clouds` is what the callback got |
| `PreprocessProofs` | | proofs about `Preprocess` |
| `LidarImuSync` | `laserMapping.cpp`, `IMU_Processing.hpp` | the two callbacks and the two outcomes of `sync_packages`, the second with the body of the main loop; names are the code's |
| `PointMap` | what the ikd-Tree promises | the bag `held` and the bag `gone` |
| `IkdTree` | the tree of `ikd_Tree.cpp` for one thread | a node is a record that holds its sons; every private operation is a recursive operator that returns the new tree |
| `IkdMap` | the public calls of `KD_TREE` | one action per call; `IsPointMap` is the refinement of `PointMap` |
| `IkdRebuild` | the threads' protocol of `ikd_Tree.cpp` | one action per stretch between two accesses to shared state; a tree is the set of its points and a generation; mutexes are guards |
| `FastLioProofs` | | proofs about `LidarImuSync` and `IkdRebuild` |
| `FoldTheorems` | | induction, what it shows of `FlattenSeq` and `SumFunction` of the community modules, and division |
| `MC...` | | values for the constants of the module after the prefix |

How the modules fit together: `LidarDriver` composes with `SyncQueue` by extending it, so that an overflow's `clear` meets a
`popBatch` at every point of either. `LidarSource` has the two queues of clouds as the bounded FIFO that `SyncQueue` is proved to
implement (for a queue with one pushing and one popping thread that is never cleared). Its `pkt_queue_` is cleared by the
pushing thread, so there the grain is finer: a push is refused (`RecvRefused`), `clear` stores the head (`RecvClearHead`) and the
tail (`RecvClearTail`), and `popBatch` counts (`HandlePoll`) before it copies and stores (`HandleBatch`). It is the FIFO as long as
the two do not overlap; when they do (`overlapped`), head and tail no longer belong together, and from then on the handling
thread is given any packet of before, in any order and as often as it likes, or a slot that was never written
(`HandleStrays`, `HandleNull`). `LidarSource` leaves the decoder at "this packet begins a frame"; `MechFrames` and
`MemsClouds` say when that is. `Preprocess` begins with the messages of `LidarSource`, and its start and end times are the ones that `LidarImuSync` queues. `IkdMap` is the tree that the calls of `IkdRebuild` change; it stays below
`Multi_Thread_Rebuild_Point_Num`, where rebuilding is in place, and `IkdRebuild` is about the trees above. `free_pkt_queue_` has
one pushing and one popping thread and is never cleared, so `LidarDriver` has it as a sequence. `init` and `start` cannot run
beside `stop`: one application thread calls them, as in the node.

### What the models leave out of the code they cover

- `LidarDriver`: the values of points, the IMU and DIFOP sockets as data (a packet that is neither short nor MSOP is of
  kind `other`; up to `MaxReady` readable sockets are served one after the other), the time-out of select, which changes
  nothing. The kinds `middle` and `other` are in the module and in no run, since they add states and no step.
- `MemsFrames`: a cloud is the set of its packets' frames. A frame's beginning is the first packet that arrives of it.
- `MechFrames`, `MemsClouds`: a channel is its ring and a point whether it is within the distance section; coordinates,
  temperature, device information, CRC, the host's clock and angles from a file are left out. A packet has four blocks where
  the code has 8 or 12, two where MEMS lidars have 5 to 50; a turn has 40 firings.
- `LidarSource`: one source, without IMU parsing and without ROS2, as the workspace is built. Reading the configuration is a
  choice of `setup`. The delay between recorded frames is left out; when it is taken is `isNewFrame` above.
- `Preprocess`: of `give_feature` and what it calls only where they may leave a ring: the loop over close points at its head,
  and a plane that goes on to its end. `plane_judge` then leaves `i_nex` at the size of the ring and `types[i_nex]` is written
  (`preprocess.cpp:645-653`). Whether a plane gets there depends on distances, on `disB`, which is never initialised, and on
  the last `dista`, which is not either, so it is a choice of the model. All other indices of these functions stay between the
  bounds of their loops; that is read off the code, not modelled. What they put in `pl_surf` is not modelled, so with
  features on `TimesRight` and `PartsMakeWhole` say little. Features are off in the repository's configurations. Units of
  time are those of `curvature`.
- `LidarImuSync`: stamps are numbers on a grid; the mean scan time is divided as an integer; a rotation or a position is
  replaced by the time the state has been moved to (`clock`), which is what a wrong prediction interval shows in. Left out
  are the Livox callback and its clock offset, shutdown, `lasermap_fov_segment` and publishing.
- `IkdTree`: coordinates are integers compared exactly, where the code has floats and a margin of `EPSS`; `nth_element` puts
  equal points in the order of the sequence; father pointers, `working_flag` and the alpha values are left out.
- `IkdRebuild`: only the rebuild of the whole tree. Rebuilding a subtree adds the lazy labels and the ancestors that share
  the mutexes. `rebuild_logger_mutex_lock` and `search_flag_mutex` have no variable of their own: the first
  is only taken inside `working_flag_mutex`, the second only around its counter.

## Runs

| Run | Shows |
|---|---|
| `ring` | On four slots with batches of two, all interleavings of one pushing and one popping thread: no slot race, refinement of `BoundedFifo`, and under fairness that a full ring drains and an accepted value is delivered |
| `driver` | Two sessions, four packets, calls of `recvmmsg` for two, short packets, failing selects, overflows: `OneHolder`, `Accounted`, `DecodedInOrder` |
| `driver_live` | Packets that split the frame before or after their points: no point is lost or doubled between clouds, `stop()` returns, and queued packets leave the queue while the driver runs |
| `ikd` | Three calls and two searchers: searches and rebuilds exclude each other, no search walks deleted nodes, logged operations reach the new tree, rebuilds end and calls return |
| `tree` | Every sequence of calls on trees of up to four nodes: the tree is a bag of points (`IsPointMap`), counters, marks and ranges are right wherever they are current (`CountsRight`), searches return what a look at all points would, deleted points are reported once, the root is there when it is read |
| `sync` | Three lidar types, lost messages, one jump of the stamps: every scan is given its time, the state ends at the end of the scan, nothing is mapped twice, nothing waits too long |
| `sync_end` | Violation: with `RSM1_BREAK`, the type this repository configures, a scan that arrives while another waits moves the end of the waiting one |
| `mems` | Four frames of ten packets, loss and reordering within the safe range and one larger loss: the strategy is in step, a frame begins once, a cloud holds at most two frames more than it should after the larger loss, and frames are whole for the decoders with one split |
| `mems_clouds` | Seven MEMS decoders with a packet lost, overtaken, refused or without returns, one and two returns: rings in place (`PixelsInPlace`), a frame is a cloud, a step of the pace and a stamp (`FramesAreClouds`), every accepted packet's points in a cloud once (`PacketsInClouds`) |
| `mech` | Thirteen mechanical decoders over a turn and more, with a lost packet, a bad block, a wrong packet, one and two returns, before and after a DIFOP: `BlockTimes`, `TurnsAreClouds`, `OrderedCloudsWhole` |
| `source` | The node with a recording once and over and over, fragments missing, early or of another sender, epoll with and without an IMU socket, packets of a topic, overflows: order, no point twice and replay until a `clear` overlaps a `popBatch`; reassembly, stop and publication throughout |
| `prep` | Messages of five lidar types, whole and in up to three parts: `TimesRight`, `PartsMakeWhole`, `ReadsInside` |

Some invariants are conjunctions of parts that have a name and a comment each (`TurnsAreClouds`, `FramesAreClouds`,
`SearchesExclude`, `ScanTimes`, `RingDelivers`, `EverythingEnds`). The type invariants of the modules are not in the runs'
lists; those of `SyncQueue`, `LidarDriver`, `IkdRebuild` and `MemsFrames` are proved, and the invariants proved of `LidarImuSync`
and `LidarSource` begin with one.

### Disagreements with the code's own words

`sync_end` checks a property that a comment of the repository states; the finding in `PROJECT.json` quotes it. Eight further
configurations are kept for the reader and give a counterexample in seconds (`tlc -config X.cfg M`):

| Configuration, module | Property | What TLC shows |
|---|---|---|
| `MCLidarDriverSession`, `MCLidarDriver` | `SessionIsolation` | packets queued at `stop()` are decoded in the next session; `lidar_driver_impl.hpp:306` says "clear all points before next session" |
| `MCIkdRebuildMissed`, `MCIkdRebuild` | `NothingMissed` | `Add_Points` looks at `Rebuild_Ptr` once (`ikd_Tree.cpp:513`); its own deletion asks for a rebuild, the tree is copied, and the addition is neither locked nor logged: the new tree lacks the point. `:285` says "Updates the blocked operations into the new tree" |
| `MCIkdRebuildLog`, `MCIkdRebuild` | `LogStartsEmpty` | a call that waited for `working_flag_mutex` during the swap logs an operation (`:352`) that the next rebuild finds: the case for which `:246` prints ERROR!!! |
| `MCIkdRebuildRange`, `MCIkdRebuild` | `RangeSearchSafe` | the range search of `Add_Points` (`:501`) walks the old tree while it is deleted; `:259` says "Lock Search" |
| `MCMemsFramesWhole`, `MCMemsFrames` | `WholeFrames` | RSM1's second split, after the highest number (`decoder_RSM1.hpp:307`), divides a frame when the last packet of the frame before comes late; `19_about_splitting_frame.md:118` says "Slight packet loss and out of order is tolerated." |
| `MCMemsCloudsLate`, `MCMemsClouds` | `SlightReorderingTolerated` | RSEMX numbers packets from 0 (`decoder_RSEMX.hpp:359`), which the strategy takes for "no packet yet": when a frame's first packet overtakes the last one of the frame before, the frame is split twice |
| `MCMechFramesStamp`, `MCMechFrames` | `StampedWithFirstPoint` | with `ts_first_point`, which `config.yaml:27` sets, the first cloud is stamped 0 (`decoder.hpp:430`) |
| `MCLidarSourceExit`, `MCLidarSource` | `ReturnsFromMain` | `SourceDriver::stop()` runs twice, and the second `join` (`source_driver.hpp:188`) throws in a destructor: the process ends in `std::terminate` |

Some properties of the passing runs have a guard that names the one situation in which they do not hold; TLC finds those of the first three
paragraphs violated when the guard is dropped:

- `OneHolder`, `Accounted` and `DecodedInOrder` exclude states after a `clear()` overlapped a `popBatch()`
  (`overlapped`): `popBatch` stores `current_head + real_count` over the head that `clear` wrote, so that cleared or never
  written slots are in the queue again. `packetPut` calls `clear` from the pushing thread although `sync_queue.hpp` is
  written for one thread at each end. `PublishedInOrder`, `PointsInOnePlace` and `ReplayGivesSameClouds` of the node have the same
  guard, for the same reason; without it the run finds the second violated, and TLC's simulation the other two with eight packets
  and three stray ones. `SourceStops` and `CloudsArePublished` have none: a null packet ends the process, which is no
  stop that hangs.
- `ScanTimedForward` excludes states after a jump back of the stamps (`loops`):
  `standard_pcl_cbk` clears `lidar_buffer` and not `time_buffer`. `AtFrameEndUndisturbed` excludes also `overwritten`
  (the case of `sync_end`) and `wild`, a value that `last_lidar_end_time_`, which no constructor sets, may hold at first.
  `MappedOnce` excludes `starved`: `Process` returns early without samples and the points of the scan before are used again.
- `LoggedReachNewTree` excludes `missed`, the case of `NothingMissed`.
- `FrameInOneCloud` excludes a late packet with RSM1, RSEMX and the jumbo RSM1, whose datagram of 63 packets is more than the
  safe range of ten, and RSM1 with the last packet of a frame lost: as long as it was lost in every frame, RSM1 takes the one
  before for it and closes a frame one packet early. Two more cases came to light in the
  proof, because the run has one fault at a time: an RSEMX with as many faults as the safe range (`faults < RANGE`), because each
  packet of a third surface is left out and the strategy is one more packet behind, and two faults of a jumbo lidar, because a
  datagram lost in a frame hides that the first one of the next frame is lost.
- `PacketsInClouds` excludes a cloud that became too large, which `processMsopPkt` drops; `StampsInOrder` of `MemsClouds` a late
  packet, and a lost last packet with RSM1.
- `OneTurnPerCloud` lets two turns be joined when nothing arrived for a turn, or from the split angle to the end of the round
  (`FarApart`): the strategy sees angles only. For the same reason `PacedAsSplit` asks that less than a turn was lost
  (`LessThanATurnLost`): `isNewFrame` stops at the first split of a packet, so that its strategy is behind the decoder's. It allows
  one frame too many for each packet of an RSAIRY or RSFAIRY with a block whose id is wrong in its second byte alone
  (`halves`): `decodeMsopPkt` compares two bytes (`decoder_RSAIRY.hpp:531`, `decoder_RSFAIRY.hpp:418`) and stops there, `isNewFrame`
  one (`:621`, `:512`) and goes on, so that it may report a frame that the decoder begins only later or, when the blocks up to
  the end of the round are lost, never. TLC finds `paced = splits` violated in the run; a frame too few there never is.
- `StampsInOrder` speaks of frames whose blocks were all decoded by a decoder that knew its lidar (`known`): before the first DIFOP
  and with the wrong layout, a block's time may be that of a later one.
- `OrderedCloudsWhole` holds without a guard where a block is a column of the cloud. Where two blocks make a column (RSAIRY
  and RSFAIRY but for their 48-channel model) it asks for no fault and a split by angle: with `FIXED` the first cloud ends
  one block early, since the strategy counts from one.
- `TimesRight` needs a ring whose angle never goes back (`Steady`): one step back puts the rest of the ring a turn late.
- `ReadsInside` lists what is accessed outside: an M1 message without points, a Velodyne ring that `scan_line` does not count,
  and with features on a ring with only close points, one that is longer than `group_size` and ends without close points
  (a plane may go on to its end), or an empty one with OUST64 and M1. An exception is thrown for an M1 message of one row only.
- `RootKept` and `SearchesRight` are about the calls of FAST-LIO (`FastLioOnly`) and about trees that `Add_Point_Boxes`, which FAST-LIO
  does not call, left alone (`Sound`): that call restores points outside the ranges of their ancestors, so that searches and
  deletions miss them; and `Delete_Points` marks a root without a new range, after which `Add_Points` can empty the tree
  and read its null root (`ikd_Tree.cpp:519`).

### Seen while modelling

Code behaviour that the models have, or that lies beside them, and about which nothing in the repository says otherwise:
`write_pkt_ts_` is never on in the node, because the packet callback is registered after `init`; the epoll input registers the
IMU socket with DIFOP's descriptor and ends its loop when that is readable; a recording that cannot be opened again, or is
started again after its end, is read through a null `pcap_`; fragments with id 0 are taken for none under way; RSEMX waits for
ever with `wait_for_difop` when its DIFOP has another length; `split_blks_` of RS16 and RSHELIOS_16P is computed anew only when
the echo mode changes; the pre-strategy by number drifts when a packet is refused; `at(column, row)` throws for an M1
message of one row (`preprocess.cpp:319`, `:381`), which nobody catches; a part of an M1 message with one row has no
end time, which `standard_pcl_cbk` then copies uninitialised into `lidar_end_time`; AVIA's filter compares with zeros unless
`point_filter_num` is 1, and tests `blind` only for points that differ in height (`&&` before `||`, `preprocess.cpp:183`); with
`avia.yaml` (`det_range` 450, cube of 1000) `lasermap_fov_segment` is at both edges at once and moves the cube with every scan.

### Bounds

- `ring`: four slots let `head_` and `tail_` be two apart both ways round; batches of two are smaller than the ring. Nothing
  else is bounded, so the state space covers runs of any length. The proofs hold for every size.
- `driver`, `driver_live`: three slots (two packets) overflow with three packets, and with four the next one reuses a slot
  that a batch may be copying; two sessions give one
  restart; `MaxReady = 1` because a second readable socket repeats the same steps. Ten buffers are more than can be held at
  once, so that `make_shared` always finds a new one.
- `ikd`: three calls of the mapping thread (four in the configurations kept beside the runs): a rebuild, an update logged
  during it and a second rebuild take three. Two searchers meet in the counter. `gen` counts rebuilds and is bounded by them.
- `tree`: three points in two voxels, two boxes, two queries; trees of up to four nodes are rebuilt from three nodes on, so
  that every shape of lazy mark, half deletion and rebuild with one, two and three levels occurs; one report is read back.
- `sync`: stamps up to 9 with scans of 2 give four scans, two of them in parts; gaps up to 2 lose a message between any two.
- `mems`: `FrameAssumption` asks for frames longer than what the safe range can confuse; ten is the least length for a range
  of three, loss of one packet in a row and lateness of one. The code has 630 and ten. Four frames and one burst let the
  strategy lose its place and find it again.
- `mems_clouds`: frames of twelve, a range of three, jumbo datagrams of six (more than the range, as 63 is more than ten),
  17 packets from two starting places: a frame's end, a whole frame and the next one's beginning; one fault at a time.
- `mech`: ten packets are a turn and more, from 0 and from just before the end of the round; one packet lost or wrong, the
  second block bad, its id wrong as a whole or in its second byte only, four packets lost in a row; one DIFOP at any time.
- `source`: five clouds are more than can be held at once; a queue of one cloud overflows when the publisher is late; two
  packets fill the queue and two more a batch, so that five (`MaxPackets`) overflow it and make two or three clouds; two
  datagrams meet in the reassembly. One stray packet (`MaxStrays`) is enough for a second cloud of a packet or a null pointer.
- `prep`: seven firings at four to a turn are a turn and three quarters; any choice of them may be missing in one ring while
  another has a few; five rows divide into one, two and three parts with and without a remainder. A group of a plane is two
  points for the code's eight (`GroupSize`), so that rings are shorter and longer than one.

`CHECK_DEADLOCK FALSE` is in the runs whose system stops by itself: all packets were received and the application calls
nothing more; all calls were made or the process ended; no more messages come; all frames were sent. `ring` and `source` check deadlock where their system never stops.

### Fairness

Liveness is checked under weak fairness of threads that run: the handling thread, the receiving thread and the publishing
thread are endless loops with time-outs, the rebuilding thread polls, OpenMP searchers run to the end of their section, and a
call that was begun goes on. Nothing is assumed of the environment: packets need not come, the application need not call
`stop()`, nobody need press Ctrl-C, the mapping thread need not make another call. No strong fairness is used.

What this shows of `IkdRebuild` is bounded by `MaxOps`: the mapping thread makes finitely many calls, so `RebuildEnds` and
`CallsReturn` say that no combination of mutexes, counter and join blocks for ever. They do not say that a rebuilding thread
that polls the counter cannot be starved by searches that begin again and again; that would need strong fairness, which
`usleep` in a loop does not give.

## Proofs

`MemsFramesProofs` (for every length of frame, safe range, bound on loss and lateness that `FrameAssumption` allows):

- `StaysInSync`, `FrameBegins`: `prev_seq` is the furthest packet received, and the split is reported with a frame's first
  packet and no other. `InSync` says nothing of the frame after a burst of losses, and is not inductive for that reason:
  `SyncInv` adds `Recovering`, that in this frame `prev_seq` is at most `Lag` behind the lidar and either not ahead of it
  or still near the beginning of the frame, where the lidar will pass it. From there the next frame's beginning is
  recognised, and the strategy is in step again.
- `TypeCorrect`: the bounds of the safe range, computed in 16 bits, do not wrap (`SafeRange`).
- `CloudsInvariance`: `CloudsInv`, which contains `SyncInv`, is inductive. A cloud knows nothing of the strategy, so `WholeInv` and `CountInv` relate
  them: as long as no burst came, the cloud being filled is the current frame's and those handed out have earlier frames,
  each of its own; with bursts, what the cloud may hold is said separately for a strategy in sync, for the frame of the
  burst and for the one after it, whose beginning may go unnoticed.
- `FramesStayWhole` (`WholeFramesOfOthers`), `BurstsJoinFew` (`FramesPerCloud`): from it, by counting frames.

`LidarDriverProofs`, the ring (for every `Capacity` of at least two, every `MaxBatch` of at least one and every set of values, under
`CapacityAssumption`):

- `Invariance`: `IInv` is inductive. `SlotExclusion` is not: it says nothing of a push that has just loaded the indices.
  `IInv` adds that while a push is under way the tail it read is still the tail and there was room (`PushInv`), that while a
  pop is under way its head is still the head, the slots it claims are in the ring and what it copied is still there
  (`PopInv`), and that every occupied slot was written (`RingInv`).
- `TypeCorrect`, `NoSlotRace`: from `IInv`.
- `RingIsFifo`: the initial state maps to the empty queue, and every step to a step of `BoundedFifo` or a stutter. The
  queue is `Contents`, the slots from `head_` to `tail_`; a push takes effect at its store of `tail_`, a batch at its store
  of `head_`. The lemmas about the remainder (`SlotAbove`, `SizeAfterPush`, `SizeAfterPop`) carry the arithmetic.

`LidarDriverProofs`, the driver (for every ring, batch, pool, set of buffers, number of packets and of sessions):

- `DriverInvariance`: `DriverInv` has two halves. `TypeInv` holds whatever the threads do, also when a `clear` overlaps a
  `popBatch`: which thread runs in which part of the life cycle, and what the pool holds between two calls of `recvmmsg`.
  The other half, `Ordered`, holds until such an overlap: the ring is that of `IInv`, or between the two
  stores of `clear`; pool, waiting buffers and free buffers are disjoint; the packets decoded and waiting are in order and
  with the dropped ones all that arrived. `OneHolder` and `Accounted` need each other here: a buffer that was in two
  places would have its packet overwritten.
- `DriverTypes`, `BuffersHeldOnce` (`OneHolder`), `PacketsAccounted` (`Accounted`), `PacketsInOrder` (`DecodedInOrder`): from it.
- `PointsKept` (`NoPointLost`): a second invariant, `CloudInv`, follows the clouds. It holds without the guard `overlapped`,
  because the decoder joins whatever it is given. `make_shared` finds a new buffer as long as there is one that nobody
  refers to (`MemoryLeft`, a guard of the model and no assumption of the theorems).

`FastLioProofs`, the tree (for every set of points, voxels and boxes, every finite set of searchers (`SearcherAssumption`) and any
number of calls):

- `Invariance`: `IInv` says what the rebuilding thread holds while it is where (`Held`), that the counter is -1 where
  searches are kept out and otherwise the number of searches in it, all of which are in the current tree (`Counting`), and
  that the log takes the copy, or the new tree, to the tree in use (`Logging`, a sequence of sets with one step for each
  logged operation).
- `TypeCorrect`, `SearchesExcluded` (`SearchesExclude`), `LogReplayed` (`LoggedReachNewTree`): from it.

`FastLioProofs`, the loop (for every set of lidar types, number of parts, times, and bounds that `SyncAssumption` allows):

- `SyncInvariance`: `SyncInv` says that the two queues go together, that scans are numbered and queued in the order of
  time, that neither a scan nor the mean of scans is longer than `ScanTime`, and that the last sample queued is the last
  received. `ScansServed` depends on all of it: how late `sync_packages` can let a scan end is known only from the mean.
- `ScansTimed` (`ScanTimes`), `ScansMappedOnce` (`MappedOnce`), `NoScanWaits` (`ScansServed`): from it.
- `StateAtFrameEnd` (`AtFrameEndUndisturbed`): `AtFrameEnd` is not inductive, because before the first scan the filter's state
  is at the last sample that `IMU_init` took. `Clocked` covers both, and adds that the samples queued are in order and later
  than that time. The sum of the prediction intervals over a scan is a telescope (`ClockMoved`), by `SumSteps`. How many
  samples are taken is known to the proof through `Cover` only, the predicate that both conditions of the loop's head make.

`LidarSourceProofs` (for all inputs and options that `SourceAssumption` allows: any recording whose fragments were cut from
datagrams of which no two have the same id unless it is 0, any capacities, at least two rings, and as many clouds as can be
held at once):

- `SourceInvariance`: `SourceInv` says what each thread holds, that a cloud has one owner, that it has all rings of its packets
  and a header that says so, and that the reassembly buffer has the beginning of one datagram: all this whatever the slots of
  the queue give. Its part `Accounted` holds until a batch is popped while the queue is cleared: packets are numbered in the
  order they were put, and a packet's points are in one place (`Placed`, about sets of numbers; each step of a packet or a
  cloud is a lemma about those sets). That a batch was counted while nothing was cleared, so that what was counted is still
  there when it is taken, is part of what the threads hold (`Control`).
- `DatagramsWhole` (`WholeDatagrams`), `CloudsHaveOneOwner`, `PointsStayInOnePlace` (`PointsInOnePlace`): from it. A cloud is
  published with its points by rows, so that the last also needs that `toRosMsg` reaches every point once (`PlaceOnto`).
- `MessagesInOrder` (`PublishedInOrder`): the order on the topic rests on the order in every place before it, so there is a
  second invariant, `OrderInv`, on top of `SourceInv` and under the same condition. `Waiting`: the numbers of the packets that wait rise, and are above
  those of all clouds and messages. `Lined`: sequence and packet numbers grow from the topic over the clouds sent and queued
  to the one that is being filled. `Ordered`: a cloud grows packet by packet (`Regular`), so that its points are a table of
  columns and rings, and `MessageInOrder` says what `toRosMsg` makes of such a table, by rows or by columns.
- `ReplaySame` (`ReplayGivesSameClouds`): the property compares the topic of packets with the clouds published, but whether a
  cloud can be replayed is decided while it is filled. The third invariant, `RelayInv`, again until an overlap, says it of every cloud on its way:
  `RelayedInTurn` (what is relayed rises in number, below all that waits), `Splitting` (a cloud is sent off by a packet that
  begins a frame and is still undecoded), `NothingEarly` (nothing is relayed before the driver knows whether to), and
  `CloudsRelayed`: a cloud sent off is `Closed`, its packets being followed by one that begins another, and the one being
  filled is `Open`, ending with the last packet relayed. `MakesCloud` is about sets of positions only, so that each step is
  a lemma about sets: `CloudBegins`, `CloudGrows`, `CloudStays`.

`PreprocessProofs` (for every set of lidar types, filters, rings, parts and steps to a turn, and for all messages that
`MessagesAssumption` allows: points of a spinning lidar come in the order they were fired, and its yaw, between -180 and 180
degrees, says the angle it has turned up to whole turns; an M1 fires the same channels at the same distances in time):

- `PreprocessInvariance`: none of the three properties is inductive, because they speak of all clouds handed back and a
  handler makes one. `PreprocessInv` says of each cloud what its handler promises (`PartRight`): its points are the
  message's and no two are the same (`OneEach`); a Velodyne cloud has the right times (`VelodyneCloud`); part `k` of an M1
  message has the wanted points of the rows of part `k`, with their times, and nothing else (`M1Cloud`). Of each handler,
  whichever way `give_feature` goes, `Inside` says that it leaves a container in the named cases only (`Excused`).
- Two facts carry it. `PickedPicks`: what a loop with `continue` and `push_back` keeps of a sequence is the sequence at
  places that rise strictly. `AngleTurned`: while the lidar has turned less than once since the last return of a ring,
  taking a smaller time for a new turn gives the angle turned since its first return. The latter goes from point to point
  with `YawInv`, which knows for each ring its first return and the time of its last (`RingSeen`).
- `TimesAreRight` (`TimesRight`), `PartsAreWhole` (`PartsMakeWhole`), `ReadsStayInside` (`ReadsInside`): from it. That the
  parts share no point, and leave out none of the rows that fill parts, is arithmetic on rows and columns (`Cell`,
  `PartsApart`, `RowOfPart`), from `Division` of `FoldTheorems`. Times are right for messages that are `Steady`: a lidar that
  turns more than once between two returns of a ring leaves no trace of it in the angles.

`MechFramesProofs` (for all thirteen lidars, all settings of decoder and lidar that `SetupsAssumption` allows, any number of
packets, of firings lost at a time and of faults): a head turns evenly (`TurnsEvenly`) when a turn has more than two firings
and is either filled by them or leaves a blind zone that a decoder can tell from a step. The proofs go from the lidar to the
loop over a packet's blocks, and from there to the invariants:

- The lidar: `TimeOf` and `AzOf` of a firing are quotient and remainder (`OneFiring`), and `StepRight` is what two angles of
  neighbouring firings differ by, across the end of the round as well. `OffsetsRight` says of a packet's offsets that each
  block's angle is right, its time right up to the blind zone's rounding (`Timed`), and that times do not fall; it is
  shown for each of the seven iterators.
- The loop: `DecodeBlocks` is a recursive function, and a fact about it is a set of block numbers that `BlockInduction` goes
  through. `Decoded` is what a packet makes of a frame for any of the thirteen lidars (`PacketRun`), block by block
  (`BlockOutcome`, `BlockStep`), so that the rest does not speak of lidars any more.
- `MechInv` holds the types and what DIFOP and MSOP packets may change of what the decoder knows. Each property has an
  invariant of its own on top of it, since none is inductive.
- `BlocksTimed` (`BlockTimes`): `TimelyCloud`, every block of the cloud being filled is timely, not just those of one packet.
- `TurnsSplit` (`OneTurnPerCloud`): `TurnsRight` relates the splitter's last angle to the turn of the last block, to blocks that
  had no points (they move the splitter and leave nothing in the cloud) and to how long ago that was.
- `StampsFollow` (`StampsInOrder`): `StampsRight` says between which times the next cloud's first and last stamp lie before there
  is a cloud, because a split may come with a packet that has no points.
- `TurnsBecomeClouds` (`TurnsAreClouds`): needs `PaceRight` besides. Two splitters are given the same packets, but `isNewFrame` stops at
  the first split and so remembers an older angle, and it goes on after a half-wrong block and so remembers a younger one. `Compared`
  relates their angles, whose age is counted in firings by fault, to the number `D` of frames that `isNewFrame` is ahead: the
  decoder's angle is of the same turn, or it is `Behind`, of an earlier one that isNewFrame has reported as ended, or it has not
  been fed at all. Inside a packet `InStep` follows both from block to block. `D` grows only in a packet of `halves`, by one
  at most, and `TogetherBoth` shows that it shrinks again when the decoder catches up.
- `OrderedColumns` (`OrderedCloudsWhole`): `ColumnsRight`. For lidars with two blocks to a column, every cloud has an even number of
  blocks (`Paired`), which rests on pairs having one angle, so that only the first of a pair can split.

`MemsCloudsProofs` (for all seven MEMS lidars, any set-up, length of frame, safe range, number of packets to a jumbo datagram,
starting place, number of packets and of faults that `CloudsAssumption` and `MemsAssumption` allow): the proofs go from a
packet to a datagram and from there to the invariants.

- A packet and a datagram: `Add` is what any of the seven decoders makes of a frame with packet `k`, a split before it or,
  with RSM1, after it, and the blocks of the packet, each with the rings `Measured`. `Pieced` is a datagram, one `Add` after the
  other but for a packet that is refused. What follows does not speak of lidars, except where they differ in kind.
- `CloudsTyped`, `PixelsRight` (`PixelsInPlace`): from `MemsInv`, the types and that each block is as it was measured.
- `PacketsCounted` (`PacketsInClouds`): `PacketsInv`. The property counts pairs of a cloud and a packet, `Places`. Adding a packet
  adds one pair, because no cloud has points of a packet that may still come (`Absent`); handing a cloud out changes none.
- `FramesApart` (`FrameInOneCloud`): `FrameInv` relates the clouds to the strategy. Nothing was decoded (`Fresh`); or `prev_seq` is
  the number of a packet of whose frame the built cloud is, or which has ended it (`InStep`); or the strategy of a jumbo
  lidar is left behind until the next frame (`Stuck`). `StrategyFollows` and `JumpBy` say what a packet that is the next one, or some
  packets further, does to a strategy in step. With RSM1 it must be known that `max_seq_` is a frame's last packet or that
  no frame has ended yet (`EndKnown`).
- `PaceIsFrames` (`PacedAsSplit`): `PacedInv`, that both strategies are at the same packet. RSEMX gives the one that makes clouds
  numbers from 0 and the other numbers from 1, so that they agree although they are never equal.
- `StampsOrdered` (`StampsInOrder`): `TimedInv`. An RSM1 ends a cloud before the next one has a stamp (`Stale`), and the stamps are
  right only if the next packet splits again; so this invariant rests on `FrameInv`.
- `FramesBecomeClouds` (`FramesAreClouds`): the three together.

`FoldTheorems`: the library's induction theorems take an operator as a parameter, which the provers cannot instantiate.
`Induction` is about a set of numbers instead and follows from the least element of a set that is not empty. From it, what
the models need of recursive operators: the points of a list of clouds are those of all but the last, and then the last's
(`FlattenTyped`, `FlattenAppend`), steps that are added up one by one give their sum (`SumSteps`), and the points of a cloud are
a sum that is a number, and a multiple of what each block has (`SumBounds`).
`Division` is what the proofs about tables of points need of quotient and remainder.

### Only model-checked

- Liveness everywhere, and `ENABLED`: out of TLAPS's reach here.
- `IkdMap` and `IkdTree`: the tree's operations are `RECURSIVE` operators, which tlapm does not take.

## Plan

Done: `SyncQueue` with its refinement; `LidarDriver`; `IkdRebuild`; `LidarImuSync`; `MemsFrames`; all five with proofs; the
mechanical decoders, the MEMS decoders, the inputs and the node, and preprocessing, all four with proofs; the tree with its
refinement, model-checked.
What is left:

1. `IkdRebuild` with subtrees: `Search_by_range` and `Search` below the subtree that is rebuilt, and the log of `Push_Down`.
2. `lasermap_fov_segment` and `map_incremental` on a grid: the cube follows the sensor, nothing within reach is deleted.
3. An empty scan of type RSM1 in `LidarImuSync` (`laserMapping.cpp:404` reads the last point before the size is tested).

## Not modelled

- Real-valued computation: the filter of `use-ikfom.hpp` and IKFoM_toolkit, undistorted coordinates, plane fits, feature
  extraction, trigonometry and the tables of the decoders.
- Third-party code kept in the repository (IKFoM_toolkit, matplotlibcpp), demos, tools and the repository's own tests, which
  were read for how the code is meant to be used.
- Input on Windows and QNX, which the containers do not build.
- Messages, parameters and launch scripts, which have no state that lasts.
- The Livox callback `livox_pcl_cbk`, which no lidar of this repository uses: it estimates the offset of the two clocks once.
- Of `IkdRebuild`, a copy in which no valid point is left (`ikd_Tree.cpp:332` reads a null root): the model has the step, and
  its other properties exclude what follows.
- Memory order: the models are sequentially consistent. In `SyncQueue` each index is stored with release by its own side and
  loaded with acquire by the other, so that what one side sees of the other is never older than the slots it then touches;
  the two relaxed stores of `clear` could also be seen in the other order, which no run explores. The plain `bool` flags that
  threads poll are read afresh at each step of the model.

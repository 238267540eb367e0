# Verification of the SWIM-style membership protocol and the key-value store

The program under `src/` is a single-threaded simulation of a group of nodes.
`Application::run` advances a clock; in each tick it runs the membership
protocol of every node (`MP1Node`) and, once all nodes have had time to join, a
replicated key-value store on top of it (`MP2Node`). Nodes exchange messages
over emulated networks (`EmulNet`, one object for each protocol).

This directory holds TLA+ modules translated from that code, TLC configurations
that check them on small instances, and TLAPS proofs, for groups of every size, about the
membership protocol, the vector it keeps its table in, the random choices, the
store, the network, the ring and the schedule.

## Inventory

| Component | State | Operations | Interacts with |
|---|---|---|---|
| `Application` (driver) | clock, the order of turns, `bFailed` of each node | `run`, `mp1Run`, `mp2Run`, the CRUD tests, which also fail nodes | calls everything below; sets `bFailed` directly |
| `MP1Node` (membership) | `memberList` with `myPos`, `heartbeat`, `pingCounter`, `inGroup`, `mp1q` | `nodeStart`, `recvLoop`, `checkMessages`/`recvCallBack` (6 message types), `nodeLoopOps` | sends through `EmulNet` #1; its `memberList` is read by `MP2Node` |
| `MP2Node` (store) | `ring`, `ht`, `hasMyReplicas`, `mp2q`; shared by all nodes: `g_transID`, `keyvalueMap` | `updateRing`, `stabilizationProtocol`, `client*`, `checkMessages` (4 server operations, 2 kinds of reply) | reads `memberList`; sends through `EmulNet` #2 |
| `EmulNet` | one array buffer of messages | `ENsend`, `ENrecv` | fills the queues through a callback |
| `HashTable`, `Message`, `Node` | data types of the store | map operations; text format; ring order | used by `MP2Node` |
| `Params` | group size, test to run, the sum of indices that tells when all have joined | `setparams` | read by `Application` |
| `Log`, `Trace`, grader scripts | output | - | not modelled |

What is hard, and what has to hold:

- **Membership.** Messages of many nodes interleave within a tick and over
  ticks; targets are random; nodes join while others probe; a node fails with
  its news still in flight. Tables must tell the truth, live nodes must not be
  removed, failed ones must be, and must not come back.
- **Network.** `ENrecv` scans the shared buffer from its end and fills holes
  with the last message. It must still deliver each message once, to its
  addressee, in the addressee's next receive.
- **Schedule.** The program decides by counters and fixed times when the group is
  complete, when the store runs, and what the tests do to it. The times must fit
  each other for every group that can be configured, and no loop that looks
  for a node by chance may go on for ever.
- **Store.** Nodes notice failures in different ticks, update rings one by one,
  and copy or delete keys from what they remember of an older ring, while
  operations are in flight; replies are counted in maps local to one call;
  ids come from two generators. An outcome that is logged must be justified,
  and acknowledged data must survive.

`PROJECT.json` lists the hazards with their lines and the properties aimed at
each.

## Modules

| Module | Models | Uses |
|---|---|---|
| `Membership` | `MP1Node` under `Application::run`/`mp1Run`, over a bag network | - |
| `MCMembership` | the ids random choices may fall on, and a guide to a long behaviour | extends `Membership` |
| `MemberView` | abstract: what the membership layer promises to the layers above | refined by `Membership` (`ViewSpec`) |
| `Membership_proofs` | theorems and proofs about `Membership` | extends `Membership` |
| `MemberTable` | the table of one node as the code keeps it: a vector and an iterator | shown to implement the operators of `Membership` (instance) |
| `MemberTable_proofs` | theorems and proofs about `MemberTable` | extends `MemberTable`, `DataLemmas` |
| `RandomPicks` | the loops that draw nodes at random | - |
| `EmulNet` | `EmulNet.cpp`, with the array buffer as a sequence | - |
| `BagNet` | abstract: the network the protocols assume, by the numbers of copies of each message | refined by `EmulNet` (`IsBagNet`) |
| `EmulNet_proofs` | theorems and proofs about `EmulNet` | extends `EmulNet`, `DataLemmas` |
| `KVStore` | `MP2Node` under `Application::mp2Run`, over a bag network | assumes of the membership what `Membership` shows |
| `MCKVStore` | ring positions for the instances of `KVStore` | extends `KVStore` |
| `Transactions` | abstract: what the store promises to whoever issues operations | refined by `KVStore` (`ImplementsTransactions`) |
| `KVStore_proofs` | types, backing of successes, refinement of `Transactions` | extends `KVStore`, `DataLemmas` |
| `KVStoreAnswers_proofs` | that reads and updates are answered, and that creations survive a failure | extends `KVStore_proofs` |
| `CrudTests`, `MCCrudTests` | the test scripts of `Application.cpp` | extends `KVStore` |
| `Ring` | the sorted vector of `MP2Node` with its index arithmetic | - |
| `Ring_proofs` | theorems and proofs about `Ring` | extends `Ring`, `DataLemmas` |
| `MessageText` | the text format of the store's messages | - |
| `Driver` | the schedule of `Application::run`, and `Params` | - |
| `Driver_proofs` | theorems and proofs about `Driver` and `RandomPicks` | extends both, `DataLemmas` |
| `MCComponents` | the sequential components `EmulNet`, `Ring`, `MemberTable`, `RandomPicks`, `MessageText` and `Driver`, checked side by side | extends the components (`MessageText` as an instance) |
| `DataLemmas` | lemmas on least numbers, recursion, `FlattenSeq` and bags | - |

### Membership

Variables carry the source's names. `turn` is the driver's place in the tick:
`EN_GPSZ + 1` when the first loop of `mp1Run` (all `recvLoop`s) is due, then
`i` from `EN_GPSZ` down to 1 for node `i`'s turn in the second loop, then 0, when
the tests may fail nodes and the clock moves. Within its turn a node handles one message per
action (`recvJOINREQ`, `recvJOINREP`, `recvPING`, `recvACK`, `recvPINGREQ`,
`recvGOSSIP`), in any order, and when its queue is empty does `nodeLoopOps`.
Each action is the whole handler, with the merge, the gossip about entries new
to the table (a message of its own, to a pair of nodes of its own, for each)
and the answer.

Abstractions: a table is a function from ids to `[hb, ts]`, since the order of
the vector only decides which entries are the first `MAX_PARTIAL_LIST_SIZE` (any
choice that has the sender's own entry, which `initThisNode` puts first); the
network and queues are bags, which module `EmulNet` justifies; `rand()` is any
value in range; `failTime` is a history variable. The tests of `Application` fail
nodes at a few late ticks; here the driver may fail any node of `CanFail` at the end
of any tick of `FailTimes`, also while nodes are still joining. Messages for a failed node
are never received and are forgotten at the next `recvLoop`. `MaxEntries` is the
number of entries with which a probe still fits `MAX_MSG_SIZE`: 17 + 25n + 16 bytes
must stay below 4000, so 158; `Send` drops what does not fit, as `ENsend` does.
`Drawn` restricts the random targets of a node: all ids in the passing runs,
fewer in the run that looks for a rare behaviour (which is still one of the program).

`MemberTable` justifies the function table: the vector is searched from the front,
appended to by three different loops (`Learn`, `LearnRaw`), and erased from in
the loop of `nodeLoopOps` while `myPos` stays at its place in memory.
`ImplementsTable` compares each with the operator of `Membership` (`Merge`,
`MergeRaw`, `Expired`) for all messages of up to `MaxNews` entries. `RandomPicks`
justifies that a random choice is made in one step: the loops end.

### EmulNet

`buff` is `emulnet.buff[0..currbuffsize-1]`. `ScanFor` performs the scan of
`ENrecv` from the last position to the first, with the swap of line 159.
Addresses are compared as `strcmp` does, by their bytes up to the first zero.
`MaxQueue` bounds how long queues grow between sends.

### KVStore

`phase` and `turn` are the driver's place in the tick: `ring` (first loop of
`mp2Run`: `updateRing`, perhaps `stabilizationProtocol`, and `recvLoop`, nodes in
ascending order), `check` (second loop: `checkMessages`, descending), `client`
(the tests issue operations and fail nodes), and `mp1Run` in between. The order
of turns matters: a node that comes later in the first loop receives in the
same tick what an earlier one has just sent.

`checkMessages` is one action per message popped (`createKeyValue`, `readKey`,
`updateKeyValue`, `deletekey`, `recvREPLY`, `recvREADREPLY`) and `endOfMessages`,
its closing loop. `tally` is its local `successCountMap` and `replyCountMap`.
`keyvalueMap` and `g_transID` are shared by all nodes as in the code. `ops` is a
history variable: for each client transaction its key, value, coordinator, the
replicas asked, those that did it and answered, and the outcomes logged.

*Environment.* Of the membership layer the module assumes what `Membership`
checks: the store starts when everyone is in every table (`FullView`; the driver
waits 50 ticks more) and only failed nodes leave tables (`NoFalseRemoval`), each
table on its own, `DetectAfter` ticks after the failure at the earliest and
possibly never. An operation takes two ticks; the runs use
`DetectAfter = 3`, the smallest delay that is longer, where the code has
`TREMOVE` = 20. Failed nodes do not come back into tables (`NoReturn`;
`Returns = FALSE`).

*Undefined behaviour* is a choice among the outcomes of the build: the `replica`
field of a client's CREATE and of a received DELETE is never initialised, so the
receiver may take it for a stabilization message or not; `findNeighbors` reads
behind the vector for the last node of the ring (`PastEnd`: a node of an old
ring whose storage is still there, or no node at all, 0). A garbage replica
whose decimal form `stoi` rejects would end the program; that is not modelled.

*Abstraction.* For reads, updates and deletions `KVStore` implements
`Transactions`: each replica does an operation at most once and before the
verdict; the verdict is given once and is exact. Creations are left out because of
the violation `kvstore_transaction_ids`; for them `QuorumBacked` and `OneVerdict` hold
in the same run. The ring of `KVStore` is a set; `Ring` shows that the vector is sorted into the
order `KVStore` assumes as long as positions differ.

### CrudTests

`todo` is what is left of the script the configuration names: a sequence of steps
with their times, each an operation with the verdicts that the descriptions of the tests in `mp2Run`
and the grader announce, or a failure of nodes chosen by their relation to the key. `now` is the clock,
counted tick by tick from `INSERT_TIME` to two ticks after the last step; a step is taken when
its tick has come, whatever the others have noticed by then, as in the code. So the waits are
not assumed to be long enough: that is the property `WaitsSuffice`. What is assumed (`DetectBy`) is that a
failure at tick t is noticed by everyone by tick t + 49. One tick more, and neither
`WaitsSuffice` nor `TestOutcomes` holds, since copies of the stabilization are then still on their way when the
step after `STABILIZE_TIME` (50) comes. `Membership` justifies the 49 for small groups only: its
deadline `DetectionBound` is 28 ticks for three nodes and 46 for six, but 52 for seven, though
that needs a chain of draws like that of `membership_return`.
`Victims` performs the scans for the nodes to fail and is empty where the
program exits or hangs.

### Ring, MessageText, Driver

`Ring` has for each observer a membership list in its order and the ring sorted from
it. Positions are those of libstdc++'s `std::hash` of the address as a C string, modulo 512. Among
the ids 1 to 33 they differ, so `RingAssumption` of `KVStore` holds for groups of up to
33 nodes; 8 and 34 are the first to tie. `MessageText` sends one message of
every kind, with keys and values that may contain colons. `Driver` runs the
clock for 700 ticks for each group size; `mp1Run` introduces nodes and adds up
their indices, as the code does.

## Runs

| Run | Instance | Shows |
|---|---|---|
| `membership` | 3 nodes, the code's `TFAIL` 5, `TREMOVE` 20, `TTL` 3, 46 ticks, all start at 0, any one fails at the end of tick 1, 2, 3 or 10 | `NoInventedNews`, `OwnEntry`, `HeardWithin`, `DetectedInTime`, `NoFalseRemoval`, `NoReturn`, refinement of `MemberView` |
| `membership_live` | 3 nodes, one start per tick, `MAX_PARTIAL_LIST_SIZE` 2, `TTL` 1, 38 ticks, fairness; one fails at tick 2 (node 3 while joining, or the introducer before it has answered it) or 8 | `EveryoneJoins`, `FullView`, `Completeness`, also when a JOINREP is partial and gossip is not passed on |
| `membership_return` | 6 nodes, 2 failures at tick 12, guided | violation of `NoReturn` |
| `components` | each component of `MCComponents` for itself: | |
| | `EmulNet`: 3 nodes, 2 payloads and an oversized one, buffer of 3 | `TypeOK`, `ReceivesAll`, refinement of `BagNet`; sends into a full buffer occur |
| | `Ring`: nodes 1 to 4, the rings of two of them, 11 key positions | `FirstThree`, `Neighbours`, `ChangesWithMembers` |
| | `MemberTable`: node 2 of 3, `TREMOVE` 2, heartbeats to 2, time to 3, 2 entries a message | `OwnPosition`, `NoTwins`, `ImplementsTable` |
| | `RandomPicks`: 5 nodes, up to 4 failed, fairness | `GoodPicks`, `AlwaysReturns` |
| | `MessageText`: keys and values of up to 3 characters, colons among them | `RoundTrip` |
| | `Driver`: 9 group sizes from 1 to 200 | `JoinIsExact`, `StoreWaits`, `TestsHavePairs` |
| `emulnet_aliases` | ids 1, 256, 512 | violation of `IsBagNet` |
| `kvstore` | 4 nodes, 1 key, 2 operations of any types at any times, one of the nodes 1, 2, 3 fails | `OneVerdict`, `QuorumBacked`, `Answered`, `Survives`, `Restabilized`, refinement of `Transactions` |
| `kvstore_two_failures` | 5 nodes, 1 creation at node 1, two of the nodes 1, 4, 5 fail | `Survives` |
| `kvstore_small_group` | 4 nodes, 1 creation, 2 failures | violation of `Survives` |
| `kvstore_repair` | 4 nodes, 1 creation, 1 failure | violation of `ThreeCopies` |
| `kvstore_stale_read` | 4 nodes, 3 operations one after the other, 1 failure | violation of `FreshReads` |
| `kvstore_transaction_ids` | 4 nodes, 2 creations, 2 failures | violation of `CreationBacked` |
| `crud_tests` | 7 nodes, the four scripts with 2 pairs, 4 failures, each noticed by all 48 or 49 ticks later, fairness | `TestOutcomes`, `WaitsSuffice`, `NeverExits`, `Survives`, `Settles` |

*Why these bounds.* 46 ticks let a node fail at tick 10, its last news age for
`TREMOVE` ticks, the removal happen and its return become impossible; three
nodes are the fewest for which indirect probes and gossip have two targets.
With three nodes and one failure two nodes remain that can keep refreshing each
other about the third, the shortest cycle in which dead news may circulate.
Four nodes on the ring are the fewest for which a failure leaves a full replica
set with one member that had no copy. There the client's node, which has no copy yet, the
first replica, or the last may fail (the middle one too, in half as long again).
Five nodes leave a replica set after two failures. With five
the nodes that may fail are the coordinator, which is a replica too, a second
replica, and the node that takes over when one of them fails. One
key is enough because keys are independent but for the ids, and ids are
shared among operations on the same key too. The instance orders the ring (2,
1, 4, 3) differently from the turns, so that copies travel both with and
against the order of turns.

Seven nodes are the fewest of which the scripts can fail four and leave a full replica
set; which node issues the operations does not matter to them, and is fixed. Each
failure is noticed as late as the waits allow, by each node in either of two ticks, and so after
some have begun to stabilize; earlier would leave more time. Two
pairs are one for the read test and one for the update test. In `MemberTable`
a `TREMOVE` of 2 lets entries before, at and behind the node's own expire, alone and
together. 200 is the largest group whose last node is introduced at tick 49, so
that the schedule still fits.

The components of `MCComponents` share no state: its initial state names one, and
only that one takes steps. They are one run because they are one question, whether
what the protocols take from the code below them is so. `Components.cfg` has the
constants of all of them.

*What the violations mean.* Each quotes, in `PROJECT.json`, a sentence of the
repository that the code does not live up to:

1. `emulnet_aliases`: `strcmp` takes ids 256 and 512 for one addressee.
2. `kvstore_small_group`: once fewer than three nodes remain, `findNodes` returns
   nobody, and the nodes that are left delete all keys.
3. `kvstore_repair`: a key created while a replica was dead but not yet removed
   keeps two copies. Stabilization compares with the successors of the last
   stabilization and not with who has the key, and skips nodes without keys.
4. `kvstore_stale_read`: the stabilization copy of an old value is taken by its
   receiver after the update failed there; reads log whichever value came second.
5. `kvstore_transaction_ids`: `g_transID++` hands out the id of the last client
   creation again; a reply to a stabilization DELETE counts for the creation.

6. `membership_return`: last news of a dead node, handed on by four others while just
   fresh, come back to a node that has already removed it, which adds it with a new
   time stamp. `NoReturn` holds in `membership` because three nodes are too few for that.

One more sentence of the repository is contradicted by a run that passes: the comments at
`Application.cpp:698` and `:941` say of the operation right after a non-replica has failed that it
"should fail since at least quorum nodes are not alive". By `TestOutcomes` of `crud_tests` it always
succeeds, since all three replicas are up; the description of the test (`:281` and `:662`) and
the grader (`KVStoreGrader.sh:283`) ask for success too. So the property follows these, and
the comment, probably copied from the test with two failed replicas, is among the findings.

*Where the passing properties end.* Some hold only for the groups of the runs; beyond
them the code does otherwise, as one sees by changing a constant:

- `NoFalseRemoval` in a group of four of which two fail: all draws of the two live nodes may fall
  on the failed ones for `TREMOVE` ticks, and they remove each other. How likely that
  is, is not a question TLC answers.
- `NoFalseRemoval` when probes do not fit a message (`MaxEntries` = 2 with three nodes, as
  in a group of more than 158): no probe is delivered, and live nodes are removed though none
  fails.
- `Restabilized` with `Returns = TRUE`, that is, after what `membership_return` shows: a holder that
  sees the dead node again deletes its copy, and nobody makes another.
- `Restabilized` with seven nodes under the scripts of `CrudTests`: the last node of the ring takes
  its second successor from behind the vector (`Neighbours` says so), and may copy to
  nobody.
- `AlwaysReturns` in a group of two: there is no second target for a gossip.
- `StoreWaits` from 209 nodes on, and `TestsHavePairs` from 201: the wait of 50 ticks counts from 0
  until everyone has been introduced, and the insertion has a single tick.
- `ChangesWithMembers` in a group with nodes 8 and 34, which share a position.

## Fairness and deadlock

The driver is one thread, so `FairSpec` is weak fairness of its next step (`Run`);
nothing is assumed of which messages or random targets come first, nor that a
node ever fails. `CrudTests` writes the same as `[]<><<TestNext>>`, since
a tick can always go on. `crud_tests` bounds, with `DetectBy`, the time until everyone has
noticed a failure: without it a table may flicker for ever. In `RandomPicks` fairness
is on each value of `rand()`: a loop that goes on draws every id at some time.
The run of the program is finite (`TOTAL_RUNNING_TIME`); after its
end the model stutters (`Finished`), so "eventually for ever" means until the end
of the run, which is why the liveness run lasts long enough for a node that
failed at tick 8 to be removed everywhere. Deadlock is checked in every run.

## Proofs

Each theorem holds for all values of the constants that satisfy the named assumptions of
its module; where it needs more, its statement says so. Every one that names a
property of a run states that very definition: the run shows it for an instance, the theorem for
all.

| Module | Theorems (property) | Beyond the assumptions on constants |
|---|---|---|
| `Membership_proofs` | `TypeCorrect` (`TypeOK`), `NewsAreTrue` (`NoInventedNews`), `OwnEntryKept` (`OwnEntry`), `ImplementsView` (`ViewSpec`) | - |
| | `ProbesWork` (`HeardWithin`) | `ProbesInTime`: at most one node fails, and not before all have started; each starts two ticks before `TFAIL` or earlier; a message has room for an entry of every node |
| | `OnlyFailedRemoved` (`NoFalseRemoval`) | `ProbesInTime` and `RemovesLate`: `TREMOVE` is at least `TFAIL` + 4 |
| `MemberTable_proofs` | `IteratorStaysOwn` (`OwnPosition`), `EntriesAreUnique` (`NoTwins`), `VectorIsTable` (`ImplementsTable`) | - |
| `Driver_proofs` | `PicksAreGood` (`GoodPicks`), `GroupIsComplete` (`JoinIsExact`) | - |
| | `StoreWaitsForAll` (`StoreWaits`) | `WaitFits`: at most 52 times `StartsPerTick` nodes (208) |
| | `PairsAreThere` (`TestsHavePairs`) | `InsertionFits`: at most 50 times `StartsPerTick` nodes (200) |
| `KVStore_proofs` | `TypeCorrect` (`TypeOK`), `SuccessesAreBacked` (`QuorumBacked`), `VerdictsAreFinal`, `StoreImplements` (`ImplementsTransactions`) | - |
| `KVStoreAnswers_proofs` | `ReadsAndUpdatesAreAnswered` (`Answered`) | - |
| | `CreationsSurvive` (`Survives`) | `SingleFailure`: at most one node fails and does not come back into a table (`Returns` is false); the group has at least four nodes |
| `EmulNet_proofs` | `TypeCorrect` (`TypeOK`), `ReceivesLeaveNothing` (`ReceivesAll`) | - |
| | `NetworkImplements` (`IsBagNet`) | `DistinctAddresses`: as C strings; `SmallGroupsAreDistinct` shows it for ids up to 255 |
| `Ring_proofs` | `RingsAreInOrder`, `ReplicasAreFirstThree` (`FirstThree`), `NeighboursAreNext` (`Neighbours`), `RingsChangeWithMembers` (`ChangesWithMembers`) | `DistinctPositions`: so for groups of up to 33 nodes |

The hypotheses are those where the code itself stops being right: beyond 208 or 200 nodes,
with ids 256 and 512, with nodes 8 and 34 in one group, with two failures in a group of four,
or with probes that do not fit, the same properties are
violated (see above). `SingleFailure` asks for somewhat more than the code may need: five nodes
with two failures are only model-checked (`kvstore_two_failures`), and with `Returns` the argument, though
perhaps not the property, fails. The instance of `kvstore` satisfies it. The instance of `membership` satisfies all hypotheses on
`Membership`, and `SmallGroupsAreInTime` shows those on time and room for the program's
constants (`TFAIL` 5, `TREMOVE` 20, `STEP_RATE` .25, 158 entries a message) and any
group of up to 16 nodes, such as the ten of the test cases, which fail a node at tick 100. In a
larger group a node may join when entries are already `TFAIL` old; JOINREP hands
them on with their age, and the receiver begins to probe later than the argument supposes.

### Membership

`TypeCorrect`: its content is in the messages. A direct PING or
ACK carries a null address, and no handler ever sends to it; hop counts stay
within 1..TTL.

None of the other properties is inductive alone. That news are true needs that
the node handling a message has been started and holds a true table; that it
has been started follows from the clock, which is what `Runs` tests; that the
clock and `inited` agree needs the driver's `turn` (a node is started in the middle of
a tick). So `IInv` is the conjunction of `TypeOK`, `Clock` (a node is started if
and only if its start time is past, or is now and its turn is over), `Dormant`
(a node not started has heartbeat 0 and is in no group), `OwnEntry` and
`NoInventedNews`. `HandleKeepsIInv` is the common step of the six handlers: a
well-formed true table and true messages keep `IInv`. Each handler's lemma then
only shows that what it builds is true (`MergeGood`, `MergeRawGood`, `GossipGood`,
`ProbeGood`). The refinement rests on `IInv` for the bound of news by heartbeats.

That an indirect probe is answered in time (`HeardWithin`, and from it `NoFalseRemoval`) is
not a matter of one handler: four messages have to be sent, received and handled, by
three nodes, one in each tick, whatever else the nodes do with the entry meanwhile. `AllInv`
adds five layers to `IInv`, each inductive with the ones before:

- `QInv`: a queue is filled at the receiver's part of the tick and empty when its turn is over,
  unless the receiver has failed. So a message sent in one tick is `Due` in the next, and handled.
- `StartInv`: who has failed, and when. A node not started knows nobody, and one that is
  in the group got there in the tick its start time says, or later.
- `JoinInv`: JOINREQ is sent in tick t, answered in t + 1, and the JOINREP handled in t + 2,
  before any entry can be old.
- `HeartInv`: heartbeats are clocks. A node that is up has counted `Beat(x, t)` by tick t; its own
  entry is of this tick; and no entry has a time stamp of the future, or a heartbeat its
  node had not yet reached at the entry's stamp. So news of heartbeat `Beat(x, t)` are no older than t.
- `ProbeInv`: for an entry of a node that is up which has been silent for `TFAIL` ticks there is a pair of relays, each
  of which has failed or has the probe (`Chase`) at the stage the clock says: PINGREQ to the relay, PING
  to the node, ACK to the relay, ACK back. With the last the entry is refreshed, because the heartbeat
  in the ACK is greater than any the silent entry can have.

Of two relays one failed at most, so the ACK comes (`OneFailure`); a node in `TREMOVE` ticks of silence has
been probed and has answered, unless it has failed (`RemovesLate`). The random draws need no
fairness for this: any two targets will do.

### The vector of a table

`TableInv` says that no node has two entries, that the node's own comes first with the
heartbeat it counts, and that `myPos` is 1: although the code rebuilds the iterator after
each insertion and removal, its index never moves, because insertions append
and the loop spares the entry at its index. `LearnsOneByOne` goes through the news of a
message by induction: news about different nodes do not disturb each other, so
after n of them the table is `TableAfter(n)`, and after all of them `LearningMerges` makes it
`Merge` or `MergeRaw` of `Membership`. `ErasingLeaves` goes through the loop that erases.

### The store

`IInv` says where the messages of an operation can be. The driver's schedule makes an
operation go through stages: its requests are in flight at the end of the tick it is issued
in (`AsksInFlight`), received and handled in the next (`AsksReceived`), the replies are
received and counted in the one after, all in one `checkMessages` of the coordinator
(`AnswersInFlight`, `AnswersReceived`, `Counting`), and `Stages` says that the stages
of one operation do not overlap but where turns order them. `Accounts` keeps the
books: for each operation there is a reply of each replica that has replied, which says
whether that replica has done it, and the counts in `tally` are those of the replies that are
gone from network and queues. From this a success has two replicas behind it
(`WinBacked`), and a failure, logged when all replies are in or at the end of the
call, is exact, which is what `Transactions` asks. Stabilization messages carry ids of
the type CREATE; all this is about the other types.

`ReadsAndUpdatesAreAnswered` needs two more invariants. `Strays`: ids of no operation are carried by
a single message, so their counts never reach the quorum (which would end
`checkMessages` early, and keep the failure of another operation from being logged).
`Awaited`: for an operation without verdict, each replica that was asked and is up has its
request, its reply or its count still to come.

`CreationsSurvive` is about what no count can tell, since the ids of creations collide with those of the
stabilization: a success that is logged may be due to one reply of a replica and one to a DELETE
(`kvstore_transaction_ids`). `SInv` adds four parts to the invariant of the answers:

- `Views`: a table has all nodes or those that are up, and so has each ring, perhaps one change behind.
- `Creations`: a DELETE of the stabilization is sent by a node to itself, after the failure, and only
  if it is no replica of the key among the nodes that are up.
- `Holders`: a replica that was asked to create, and is up, is one of the replicas among those that are
  up. So nobody deletes its copy, and if it has done the creation it still has the key. This rests on the
  ring: `ReplicasStay` shows that `findNodes` without a node keeps the others while three are left,
  by the rank of the node and of the key before and after (`RanksWithout`).
- `Earned`: a creation is either `Backed` (done by a node that is up, and by two while nobody has failed),
  or has not been logged as a success and has `Few` successes to come. The failed node's reply is
  the only one of a replica, and was sent before it failed; a DELETE whose reply collides with it is
  handled in a later tick, so that reply is counted in a later call of `checkMessages`, which counts
  from nothing. Neither call comes to two.

### The network

`ScanFor` is recursive in the position of the scan. Its invariant (`ScansOn`) is that behind the
position nothing for the receiver is left, and that what has been handed out and what
is in the buffer are together what there was, message by message, the swap with
the last position (`SwapsOut`) included. So one `ENrecv` takes from the bag all copies of all messages
for the receiver, and no other.

### The ring

`RingInv`: each list of members has its owner once, and the ring of each is the list's nodes sorted. `InsertSorts`
shows the sort, `FindsFirst` the search of `findNodes` for the first position
not before the key, with the wrap to the first node, and `NthIs` that index arithmetic
goes clockwise. `Neighbours` leaves open what is read from behind the vector, as the code does.

### Schedule and random choices

`DriverInv` counts in closed form who has been introduced after each round
(`Introduced`), and that the running sum `nodeCount` is the triangular number of that
many nodes, which strictly grows from two nodes on: so it equals the expected one only
when all are in. Its products are out of the SMT solver's linear arithmetic; the first lemmas of the module
supply the order of products. `PickInv` is about the nodes drawn so far.

### Induction

The library's induction rules take an operator and cannot be instantiated by the installed
provers. `DataLemmas` proves instead, from the well-foundedness of inclusion among
finite sets, that every non-empty set of numbers has a least one (`LeastNumber`), and from it induction
for the numbers in a *set* (`InductionUpTo`) and that a function defined
by recursion on a number exists (`RecursionExists`). Loops of the code are written as
recursive functions of the iteration, so these reach all of them but those over the
characters of a text.

### Only model-checked

- `DetectedInTime` and `NoReturn` of `Membership`. The second holds for the instance and not for all constants
  (`membership_return`); the first bounds how long the last news of a failed node are handed on, along
  chains of nodes that grow with the group.
- `OneVerdict`, whose part about creations does not hold for all constants, since ids of creations collide
  (`kvstore_transaction_ids`); for the other operations `VerdictsAreFinal` says more.
- `Restabilized`: it needs where the copies are after each course of detection. `Survives` after two
  failures, which `SingleFailure` excludes.
- `RoundTrip`: the parser is a fold over the characters of a text, which would need induction
  over texts together with the folds of the community modules.
- `TestOutcomes` and `NeverExits`: the scripts with their instance of the ring.
- All liveness: ENABLED and fairness are beyond the prover.

## Not modelled

- The random drop in `ENsend`: `dropmsg` is 0 and only the disabled
  `Application::fail` would set it.
- `finishUpThisNode` and `ENcleanup` (after the last tick), logging, tracing, the
  parameter file, the grader.
- Wrap-around of the 29-bit transaction number. Numbers of more than one digit in
  `MessageText`; a replica field whose garbage `stoi` rejects.
- `std::hash`: its values for the ids of the runs are in `MCComponents`, computed with the
  compiler the Makefile names. Groups larger than 200 in `Membership` and `KVStore`; what a
  large group changes (dropped probes, ties, the schedule) is described above.
- `Application::fail` (the call is commented out), and a
  node that restarts: no code restarts one.
- Randomness as probability: how rare a behaviour such as that of `membership_return` is.

## Plan

Modelled and checked: every component but logging and the grader. Proved: see "Proofs".

What remains open, the most useful first:

1. `Restabilized` for a single failure, from `SInv` and what each node that notices the failure sends.
2. `NeverExits` of the scripts, from the rings that `KVStore_proofs` knows.
3. `DetectedInTime` for a single failure, by a bound on the chain of refreshes.

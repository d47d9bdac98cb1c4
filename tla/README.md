# Ring all-reduce over RDMA: a TLA+ model

This directory specifies and verifies the library in `src/`: an all-reduce over
a ring of processes, written in C++ against InfiniBand verbs. Each rank owns an
array; after the call every rank holds the element-wise reduction of all arrays.

## 1. The system

| Component | Source | State | Operations |
|---|---|---|---|
| Block layout | `block_layout.cpp` | none (fills `counts`, `offsets`) | `compute_block_layout` |
| Ring collectives | `ring_collectives.cpp` | context: configuration, temporary buffer, `sequence`; per call: phase, step, batch, piece, the requests of the batch | `ring_collective_create`, `ring_all_reduce` = `ring_reduce_scatter_inplace` + `ring_all_gather_inplace` |
| Reductions | `reduction_ops.cpp` | none | `reduce_in_place`, `datatype_size` |
| Verbs transport | `verbs_transport.cpp` | pending requests, completion queue, two queue pairs, two control sockets | `post_receive_previous`, `post_send_next`, `wait_request`, `test_request`, `progress`, constructor, destructor |
| Ring bootstrap | `process_group_api.cpp` | locals of `connect_process_group`: device, protection domain, sockets, queue pair numbers | arguments, device, queue pairs, `connect_to_host`, `listen_and_accept`, exchange of queue pair numbers, transition to RTS, ready barrier |
| Process group API and lifecycle | `process_group_api.cpp` | handle: transport, context, ownership | `pg_create_from_transport`, `pg_all_reduce`, `pg_close` |
| Mock transport | `tests/mock_transport.cpp` | queues under a mutex | the same interface, threads instead of processes |

**How they interact.** A rank is one single-threaded process. Its collective
calls its transport through the table of `pg_transport.h`. Its transport shares
with the next rank a queue pair (data) and a TCP socket (descriptors that flow
backwards, from receiver to sender), and the same with the previous rank. One
completion queue serves both queue pairs. The NIC reads and writes the buffers
of the collective at any time between a post and its completion. The sockets are
those of the bootstrap: queue pair numbers, ready bytes and descriptors follow
each other on the same stream.

**One call.** Copy `sendbuf` to `recvbuf`; Reduce-Scatter: `size - 1` steps, each
sends one block and receives another into a temporary buffer, then reduces it;
All-Gather: `size - 1` steps that pass the reduced blocks on, received in place.
A block travels as pieces, pieces in batches of `max_inflight`. Per batch: post
the receives, post the sends, wait for each receive (and reduce it), wait for
the sends.

**From start to end.** Open the device, create the transport and its queue pairs;
connect to the next rank and accept the previous one (even ranks in this order,
odd ranks in the other); write a record with a queue pair number to both, read
both; bring the queue pairs to RTS; write a ready byte to both, read both; create
the handle. `pg_close` destroys the collective context, then the transport:
sockets, queue pairs, pending requests, completion queue, domain, device.

**What is hard.**

* Nothing synchronises ranks but the pieces. One may be a step, a phase or a call
  ahead of its neighbour; at start-up, through the barrier while the neighbour is
  still at it, or closed again.
* The NIC matches messages to receives by arrival, the contract matches by tag.
* Posting a send blocks on the next rank's descriptor (`verbs_transport.cpp:406`,
  although `pg_transport.h:61` calls posting asynchronous): every rank waits on the
  next, in a ring. Connecting, the exchange and the barrier are rings of waits too.
* Buffers are shared with a NIC that may be slow, late or retransmitting.
* Ranks discover errors at different moments and return at once, with requests
  posted and neighbours waiting; the application may call again or close.
* Every one of a dozen calls of the bootstrap can fail, each with another set of
  things to give back, partly by the caller and partly by the transport's destructor.

**What makes each component correct.** The layout is a balanced tiling. The
transport pairs the k-th message of a link with the k-th receive, of the same
piece, and accounts for every completion once. The collective never lends the
NIC a buffer it is using, combines every contribution exactly once, and leaves
nothing behind. Together they are an all-reduce: nobody returns before all have
called, and all return the same complete reduction. The bootstrap lets a rank
through only between two neighbours whose queue pairs are ready and connected to
its own, reads of the sockets exactly what is its part, and when it returns owns
everything or nothing (but for the empty list of devices of a machine without any). Closing gives back memory only after what uses it, and a
rank that sends to a closed one learns of it.

## 2. Modules

| Module | Models | State and actions |
|---|---|---|
| `RingSchedule` | layout in closed form, pieces, batches, which block moves when, tags | operators only |
| `RankMemory` | `workbuf` and `temporary_buffer` of every rank, regions of them | `memory` |
| `RingCollective` | the program of a rank, from `pg_all_reduce` down to each loop | `pc`, `phase`, `step`, `batch`, `piece`, `sequence`, the batch's requests; the program's half of each action |
| `VerbsTransport` | the transport of every rank, the sockets and the fabric | `pending_requests`, `recv_queue`, `send_queue`, `unacknowledged`, `cq`, `control`, ...; the methods, and `Deliver`, `Acknowledge`, `BreakLink`, `FlushSend` |
| `VerbsRing` | the group: collective and transport composed | `PostRecv`, `PostSend`, `Poll`, `PollFails`, `Wait` join the halves; `Spec`, `FairSpec`, the properties |
| `AllReduce` | what `pg_all_reduce` promises, with no ring in it | `entered`, `results`; `Enter`, `Return` |
| `GroupLifecycle` | `VerbsRing` to its end: `pg_close` at every rank, and calls that meet a closed neighbour | `lifecycle`; `DestroyContext`, `CloseSockets`, `DestroyQps`, `DestroyRequests`, `PostRecvToClosed`, `PostSendToClosed`, `RetriesExceeded` |
| `RingBootstrap` | `connect_process_group` at every rank, to its handle, an error or a crash, and `pg_close` as far as ownership goes | `stage`, `status`, `live`, `members`, `freeing` and the TCP ring `backlog`, `peer`, `inbox`; `remote`, `dest`; one action per call |
| `BlockLayout` | the loop of `compute_block_layout` | one iteration a step |
| `RingScheduleProofs`, `BlockLayoutProofs`, `VerbsRingQueues`, `VerbsRingPositions`, `VerbsRingData`, `VerbsRingHealthy`, `RingBootstrapProofs`, `GroupLifecycleProofs` | theorems, section 5 | |
| `MCVerbsRing`, `MCGroupLifecycle`, `MCRingBootstrap`, `MCBlockLayout` | configurations for TLC | |

The two phases of the code are the same loops with other blocks and another
receive buffer, so `RingCollective` has the loops once and `phase` selects the
blocks (`send_block`, `recv_block`) and the region (`RecvRegion`). Program
locations: `batch` is the head of the batch loop, `postRecv` and `postSend` the
posting loops, `waitRecv` and `waitSend` the waiting loops, `idle` is outside a
call. A `stage` of `RingBootstrap` is the call a rank makes next.

`RingBootstrap` and `VerbsRing` share no variable: what the first hands over is
stated by its properties (queue pairs connected crosswise and ready, sockets with
nothing but descriptors), and that is the state `VerbsRing` starts from. The first
descriptor is written in `RingBootstrap` as well (`Announce`), since it can arrive
at a neighbour that is still at the barrier.

Abstractions, and why they lose nothing the properties need:

* *Values.* An element is the sequence of contributions `<<rank, call>>` combined
  into it, and every reduction is concatenation. A lost, repeated, stale or
  partial contribution shows in the value, whatever the operation; so does the
  order, on which floating-point sums depend.
* *Requests.* `wr_id` holds the address of a `RequestState`; in the model it holds
  the state itself, unique by its id. An address can be reused after `delete`,
  which is harmless exactly as long as no completion names a freed request:
  `CompletionsKnown`. For the same reason `handle_completion` has no branch for
  an unknown `wr_id`.
* *Tags.* The code shifts and masks four fields; the fields do not overlap, so
  `make_tag` is their mixed-radix number.
* *Atomicity.* One action per post, per completion polled, per wait that returns
  and per loop boundary. `post_receive_previous` posts the work request before it
  writes the descriptor; the sender cannot use the first before it has read the
  second, so the model does both in one action. In the bootstrap, one action per
  call, per message and per resource given back.
* *The fabric* (external). Reliable connections deliver in order; the receiver's
  completion and the sender's acknowledgement are separate events; the source is
  read on delivery and may be read again until acknowledged (a retransmission).
  A link may break at any moment (`FaultyLinks`): undelivered and unacknowledged
  sends then complete with an error, in order, and the receiver learns nothing.
  A message that finds no receive waits, as with the infinite RNR retry of
  `process_group_api.cpp:107`. At a closed rank, messages under way and
  acknowledgements are lost and the sender's retries run out.
* *Local failures.* At `FaultyRanks` registering memory and polling the completion
  queue may fail at any time, and in `RingBootstrap` every call, and the process
  may die at any point.
* *TCP* (external). A connection waits in the backlog of the listening socket
  until it is accepted; `inbox` holds what has been written and not read. A write
  to a closed socket is lost, refused, or kills the process (nothing handles
  SIGPIPE). A read ends with an error when the peer has closed and nothing is left,
  or when it closed with something unread, which resets the connection.
* *Retries of connect.* `connect_to_host` gives up after 100 attempts in ten
  seconds. Time is not modelled: `GiveUp` may happen whenever no connection has
  been made, at every rank, and counts as a fault (`faults`).
* *The application* makes the calls of `Calls`, one after the other. After a
  failed call it stops, or goes on with the next one (`ContinueAfterError`); in
  `GroupLifecycle` it then closes.

Definitions marked "Mistake" are not part of the model: each is a definition as a
plausible bug would have it. Substituting it must make TLC report the property
named with it in `PROJECT.json`, which shows that the property constrains the
code.

## 3. Runs

All runs are complete explorations; sizes are distinct states.

| Run | Configuration | Shows |
|---|---|---|
| `Ring3` (292,479) | 3 ranks, 4 elements, 1 in flight; a call for an unknown operation, then a valid one | `TypeOK`, `LinkInOrder`, `OutputsCorrect`, `OwnedBlockReduced`, `UnservableCallsFail`, `ContributionsGrow`, across a retry |
| `Ring3Calls` (130,417) | two calls, rendezvous, different `max_inflight`, sequence wraps | `NoBufferRace`, `InflightBounded`, `QuiescentAfterSuccess`, `NeverFails`, `CompletionsKnown`, `NeighboursInStep`, and `ImplementsAllReduce` |
| `SmallArray` (18,507) | 2 elements over 3 ranks, two refused calls and a valid one, fairness | `EveryCallReturns`, `OutputsCorrect`, `QuiescentAfterSuccess` |
| `TagRange` (29,629) | a block with more pieces than tags, called twice | `UnservableCallsFail`, `LinkInOrder` |
| `UnlikePieces` (10,845) | one rank cuts smaller pieces, another may fail to register or poll; two calls | `LinkInOrder` |
| `FullQueues` (271,231) | `max_inflight` above the queue depth, two links may break, two calls | `LinkInOrder`, `CompletionsKnown` |
| `Closing` (119,123) | one call, then every rank may close; one link may break, one rank may fail to register or poll; fairness | `OutputsCorrect`, `NoBufferRace`, `CompletionsKnown`, `WorkRequestsRegistered`, `ClosedMemoryUntouched`, `SendersNotified` |
| `Bootstrap` (307,604) | 3 ranks on one host, calls of ranks 0 and 1 may fail and their processes die, any rank may give up connecting; fairness | `ReadyBarrier`, `ControlStreamClean`, `FreedInOrder`, `OwnsAllOrNothing`, `FailsForAReason`, `EveryRankConnects`, `RingReturns` |
| `BlockLayout` | counts 0..20, world sizes -1..6 | the layout tiles, is balanced, equals the closed form |
| `QpDepth` | *violated*: `WorkRequestsFit`, real constants | finding 1 |
| `CloseAfterFailure` | *violated*: `FreedBufferUnused` | finding 2 |
| `Retry` | *violated*: `SendBuffersKept`, the calls of `Ring3` | finding 3 |

**Bounds and why they are enough.** Three ranks are the smallest ring in which the
next and the previous rank differ and a block passes through a rank that is
neither its source nor its end; being odd, it also has two neighbours that both
connect before they accept. Four elements over three ranks give blocks of
2, 1 and 1: uneven blocks, more than one batch for one block at one in flight,
and ranks whose send and receive loops differ in length. Two elements over three
ranks give an empty block. Two calls, with `kSequenceMask = 1` and the sequence
starting at 1, wrap the sequence between them. `kPieceMask`, `kStepMask` and
`kEagerThresholdBytes` are small so that their limits lie inside the runs. Faults
at one rank beside two others, or at two neighbours (links 0 and 1, ranks 0 and
1), cover the failing rank itself, its neighbour and the rank between two. No
state constraint is used: calls are finite, and everything else follows.

`CHECK_DEADLOCK FALSE` is set where the system may stop: when a rank's call fails
its neighbours wait for ever, as DESIGN section 14 accepts (`Ring3` with its
refused operation, `Retry`, `TagRange`, `UnlikePieces`, `FullQueues`, and the closing runs,
where moreover every rank ends closed); a bootstrap ends when every rank has
returned, closed or died, or blocks in `accept` for a neighbour that never comes;
`BlockLayout` ends with its loop. In `Ring3Calls`, `SmallArray` and `QpDepth` TLC checks that only a finished group stops.

**Fairness.**

* `FairSpec` of `VerbsRing`: weak fairness of each rank (a process the scheduler
  runs; between calls and while polling it always has a step), of delivery, of
  acknowledgement and of flushing (the NIC works through its queues). `BreakLink`
  is not fair. Once a step of a rank is possible, only that rank can undo it, so
  no strong fairness is needed.
* `FairSpecGroup`: weak fairness of each rank that has not closed, and of its NIC,
  which includes that the retries to a destroyed queue pair run out. Nothing makes
  an application close.
* `FairSpec` of `RingBootstrap`: weak fairness of `Run(r)`, a process that keeps
  running. Giving up, crashing, announcing a receive and closing are not fair: a
  rank may stay in the barrier of the others for as long as it likes.

**Liveness.** `EveryCallReturns`: no cycle of waits in the ring. In `SmallArray`
one block is always empty, so that a ring in which every rank waits to post a send is
what TLC's deadlock check of `Ring3Calls` excludes. `EveryRankConnects`:
without faults every rank's `connect_process_group` succeeds, so neither the order
of connecting and accepting nor the exchange nor the barrier has a cycle.
`RingReturns`: once the TCP ring is complete, whoever fails or dies, all calls
return; failures travel round the ring as closed sockets. Before it is complete
this does not hold: a rank whose previous neighbour failed waits in `accept`, which
has no timeout. `SendersNotified`: sending to a closed rank ends; *receiving* from
one does not, since nothing tells the receiver.

**Retries.** An application that calls again after a failure meets what the failed
call left behind, with the same tags. With one piece in flight all properties of
`Ring3` hold across the retry; with more, `OutputsCorrect`, `LinkInOrder` and
`CompletionsKnown` held in every configuration tried. Buffers are another matter,
with one piece in flight already: a rank that was refused may have a send under way,
and the `memcpy` a call begins with (`ring_collectives.cpp:436`) overwrites the block
that send reads. `NoBufferRace` looks at this copy too (`AboutToCopy`), so it is
checked where no call follows a failed one (`Ring3Calls`, `Closing`), and the part of
it that a retry breaks, `SendBuffersKept`, is finding 3. That no document asks for
retries to succeed (DESIGN section 14) is why the failing retry itself is a hazard
and not a finding.

## 4. Findings

1. `kMaxInflightLimit` allows 1024 work requests per direction, a queue pair is
   created for 256. With `PG_MAX_INFLIGHT` above 256 and blocks of more than 256
   pieces a call fails with `PG_ERR_TRANSPORT`. The design document says bounded
   batches limit work requests. `FullQueues` explores what follows.
2. `pg_close` frees the temporary buffer (`process_group_api.cpp:544`) before it
   destroys the queue pairs. After a failed call receives into that buffer are
   still posted, so the previous rank's NIC may write to freed memory, against
   "Posting never grants permission to reuse a buffer. Only request completion
   does." (`DESIGN.md:158`). After successful calls nothing is left posted
   (`QuiescentAfterSuccess`, `ClosedMemoryUntouched`).
3. A call that fails returns without waiting for the sends it has posted
   (`ring_collectives.cpp:442-444`), and the next call begins by copying its input
   over the array those sends read (`ring_collectives.cpp:436`), against "A send
   buffer cannot be modified until its request completes." (`pg_transport.h:62`). A
   retransmission, or a delivery that comes late, then carries elements of the new
   call under a tag of the old one. After successful calls no send is left.

## 5. Proofs

TLAPS proves, for every value of the constants that satisfies their assumptions:

* `RingScheduleProofs`: lemmas about division, the layout (`OffsetMonotonic`,
  `BlockInArray`, `BlockInTemporary`), pieces (`PieceInBlock`), the ring
  (`BlockRange`) and tags; **`TagsDistinct`**: equal tags mean the same piece.
* `BlockLayoutProofs`: **`LayoutTypeCorrect`**, **`LayoutIsClosedForm`**,
  **`LayoutIsTiling`**, **`LayoutIsBalanced`**. The invariant says that the blocks
  laid out so far agree with the closed form and that the running offset is the
  offset of the next one; tiling and balance are then arithmetic.
* `VerbsRingQueues`: **`TypeCorrect`**. Work requests and descriptors are typed by
  regions *inside* their buffers, so this is memory safety of every post and every
  reduction. `TypeOK` is not inductive: a reduction stays inside the block only
  because the receives a rank still waits for were posted in its current step.
  `TypeInv` adds that (`RecvsInBlock`).
  **`LinksInOrder`**: the invariant takes the links one by one: the sends under way
  match the oldest receives, and as long as the sender has not failed the unread
  descriptors announce the receives that are left. It needs one more part
  (`FailedStaysOut`): a rank inside a call has had no call fail. Without it a rank
  that lost a descriptor in a failed post could post again on that link. That two
  links never share a queue is `NextRankInjective`.
  **`CompletionsNameRequests`**. A request is in one place at a
  time (`Tracked`): named once by a work request, then once by a completion, and in
  `completed` only after; ids are below the next one, so a new request is new.
  **`CallsLeaveNothing`**, **`QueuesBounded`**: `HeldInv` adds to the links and to
  `Tracked` that a link carries no more than was announced (`Covered`), that as long
  as its calls succeed a rank's pending requests are those of its two lists (`Kept`)
  and those no more than the batch has posted (`InBatch`), and that no more than
  `max_inflight` of a kind are pending (`Bounded`).
* `VerbsRingPositions`: **`BuffersApart`**, **`NeighboursKeepStep`**. `PlacedInv` says
  where things are: a rank's phase, step, batch and piece agree with its program
  location (`Located`), the regions of its receives, sends and unread descriptors
  are the pieces posted in the current batch, in order (`Placed`), and what it still
  waits for is the end of what it posted (`Awaiting`). `AlignedInv` compares the two
  ends of a link (`AlignedAt`): in the same step the sender has sent as many pieces as
  it has taken up descriptors; where one is a step ahead, the other has sent or posted
  all of its own, and steps between have no pieces at all. The block sent in a step is
  not the one received, and pieces of a block are disjoint, so buffers are apart; and
  a rank that calls again after successes has nothing posted (`CopiesApart`).
  `NeighboursKeepStep` is `[](NeverFails => NeighboursInStep)`.
* `VerbsRingData`: **`SumsComplete`**, **`OwnedBlockComplete`**,
  **`ContributionsOnlyGrow`**, **`UnservableNeverSucceed`**. `DataInv` gives the value of every element of every
  buffer, at every step. `Run(q, n, c)` is the sequence of contributions of n ranks
  from q backwards round the ring; in step s of Reduce-Scatter rank r has, of the
  block i ranks behind its own, a run of i + 1 or still its own contribution
  (`BlockValue`); in All-Gather blocks become `Final`, the run over all ranks.
  `WorkbufOK` says so of the work buffer, `Arrived` of the temporary buffer,
  `UnderWay` of sources that the fabric has yet to read, `Recorded` of what calls
  returned. A delivery copies a piece that `UnderWay` describes; `AlignedInv` makes
  sender and receiver mean the same step and call by it.
  `UnservableNeverSucceed` needs to know where a value cannot get to. `ServedInv` adds
  to `DataInv` that every piece posted has a tag (`Tagged`), that calls in the ring
  passed the checks at its entrance (`Entered`), and that elements are fit for where
  they are: a contribution of rank q in a place beyond the last tag of q is still alone
  at q (`Fit`), and nothing under way is such a value (`Reaching`, `Untied`); values
  are combined for a known operation only (`Combinable`). The sender's tags matter
  when a piece leaves it and the receiver's when it lands, and both cut a piece alike
  wherever a second one follows (`LikeReaches`). A call that succeeds has every rank's
  contribution in every element, which then has a tag at every rank.
* `VerbsRingHealthy`: **`HealthyNeverFails`**, **`HealthyKeepsStep`** and
  **`HealthyIsAllReduce`**, the refinement of `AllReduce`. They speak of a group in
  which nothing is broken (`Healthy`): calls are valid and their pieces have tags,
  all ranks cut and send pieces alike, a batch fits a queue pair, no link or rank is
  faulty. `Ring3Calls` is such a group. `HealthyInv` adds to `DataInv` that all calls
  that returned succeeded, that ranks agree on the sequence number of a call
  (`Sequenced`), so that descriptors carry the tag and mode of the send that meets
  them (`Labelled`), and that no completion is an error (`Working`). It follows that
  the error branches are never enabled (`HealthyRun`). For the refinement, `EnteredInv`
  says that a value with a contribution of rank r to call c exists only after r has
  entered c. A call that returns has every rank's contribution in its array, so all
  have entered; and the array is `Final`, which does not depend on the rank.
* `RingBootstrapProofs`: **`BootstrapTypeCorrect`**, **`ResourcesFreedInOrder`**,
  **`RanksOwnAllOrNothing`**. `FreedInOrder` looks only at the head of the list of
  what is to be given back; `OwnershipInv` says of the whole list that it names
  exactly what is left, each once, users before what they use (`Frees`), and that
  outside clean-up the stage alone determines what a rank has and what the transport
  owns. The one exception is part of the invariant and of `OwnsAllOrNothing`
  (`NoDevice`): `process_group_api.cpp:287-290` returns without freeing a list of
  devices that is there but empty. The rest are lemmas about `Destructor` and `CloseSockets` as lists: every
  failure path is one of them put together by `FreesBoth`.
  **`BarrierHolds`**, **`ControlStreamsClean`**: `ReadyBarrier`
  speaks of ranks that are through; why they are rests on what was in the sockets.
  `BarrierInv` has three parts. `Streams`: what waits in a socket is the neighbour's
  stream (record, ready byte, descriptor) from where the rank has read it, all the
  neighbour has written as long as both are there, and if it includes the ready byte
  the neighbour's queue pairs are connected as they should be. `Peers`: sockets lead
  to the neighbours only, and nothing is in a socket before it is connected.
  `Progress`: the record read is the one the transition uses. A rank through the
  barrier has read two messages of each stream, so both neighbours have written their
  ready bytes, and at most the descriptor of the next rank is left. Most steps touch
  no stream (`Quiet`); the others append to one (`AppendStreams`), take from one
  (`TakeStreams`) or connect one (`ConnectStreams`). Crashes and closed sockets are
  part of this: a stream ends, it does not change.

* `GroupLifecycleProofs`: **`GroupTypeCorrect`**, **`WorkRequestsStayRegistered`**,
  **`GroupCompletionsKnown`**. `GroupInv` is `Tracked` again, now with ranks that
  close or are killed; a destroyed queue pair has empty queues (`Emptied`), and no
  step of a neighbour fills them, so dropping the requests leaves no work request
  without its registration. **`ClosedMemoryKept`** states the action property
  `ClosedMemoryUntouched`. `ClosesClean` says of a rank whose calls all succeeded that
  while it is open its pending requests are those it waits for (`HeldAt`), and that
  once it has closed its receive queue is empty. Closing starts between calls, when
  nothing is waited for; from then on a message finds no receive WR. The links to a
  closed rank are out of order for good (its descriptors are lost), so none of
  this may rest on `LinkInv`: the lemmas about one rank's requests (`RunHeld`) assume
  only what that rank can see (`Holding`).

Assumptions are those of the modules (`WorldAssumption`: at least two ranks, as
`connect_process_group` requires; `CountAssumption`: `pg_all_reduce` refuses an empty array;
`CollectiveAssumption`; `TransportAssumption`; `MaskAssumption`;
`BootstrapAssumption`) and, where a theorem states it, one of these two:

* `ContinueAfterError = FALSE`, an application that makes no call after a failed one,
  in `LinksInOrder` and everything built on it. What a failed call leaves behind has
  the tags and regions of the retry: `NoBufferRace` is false across a retry
  (finding 3), and the invariants above with it. `TypeCorrect`, `CompletionsNameRequests` and the theorems about
  `GroupLifecycle` need no such assumption.
* `Healthy`, in `VerbsRingHealthy`. With a fault, an unservable call or unlike
  configurations calls do fail, and with calls that fail the group is no all-reduce.

Only model-checked: `OutputsCorrect` and `NoBufferRace` while ranks close; all
properties of `VerbsRing` across retries but the two named above. Liveness (`EveryCallReturns`, `EveryRankConnects`,
`RingReturns`, `SendersNotified`) needs fairness, which is out of the prover's reach,
and stays with TLC.

## 6. Not modelled

* The arithmetic of sum, min and max, and of floating point.
* `test_request`, `progress` and `poll_available`: no collective calls them.
* The unknown transfer mode: configurations are parsed to one of three modes, so
  the branches for another are unreachable through `connect_process_group`.
* Payloads of 4 GiB and more, refused by the transport; a control socket too small
  for one batch of descriptors.
* Calls with different arrays: all calls of a run have the same `Count` and the same
  `recvbuf`. So `temporary_buffer.resize` (`ring_collectives.cpp:154`), which may move
  the buffer when a call is larger than those before it, never does so under the
  receives that a failed call left posted.
* In-place calls (`sendbuf == recvbuf`), which skip the `memcpy`; the two phases
  called on their own; the failures of `ring_collective_create` apart from what
  they free (`CreateHandle` in `RingBootstrap`).
* Environment variables as strings: `CheckArguments` and `Configure` accept or
  refuse them.
* Strangers on the TCP ports: a connection comes from a rank of the ring.
* The mock transport (a test double), tests, benchmarks, build files and scripts.

## 7. Plan

Done, in this order: `RingSchedule`, `RankMemory`, `BlockLayout`,
`VerbsTransport`, `RingCollective`, `VerbsRing`, `AllReduce`, proofs of types and
links, `RingBootstrap` with its proofs, `GroupLifecycle`, retries after failed calls.

Proved since: requests and completions, positions and buffers, the values in every
buffer, the healthy group and its refinement of `AllReduce`, groups that close,
a bootstrap that fails only for a reason, calls that a rank cannot serve.

Next, proving more:

1. `OutputsCorrect` and `NoBufferRace` in `GroupLifecycle`: a rank that closes loses
   the descriptors of its neighbours and flushes their messages, so links are in order
   only up to where a rank closed. `LinkInv` has to be weakened to a link whose two
   ends are open, and the values of a step to ranks that have not been cut off.
2. The properties of `Ring3` across retries with one piece in flight, for every ring
   (they do not rest on `NoBufferRace`, which a retry breaks):
   `AlignedInv` has to say which descriptors and messages of a failed call a retry
   can still meet.

Extending the model: the same `RingCollective` over the mock transport (a queue per
rank under a mutex, matching by tag), whose promise the local tests rely on, and
`test_request`.

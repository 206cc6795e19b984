# Remoc in TLA+

Remoc is an RPC and IPC library: remote channels, observable collections, remote
objects, remote functions and remote trait calls over one ordered transport.
Everything rests on `chmux`, the channel multiplexer, which opens and closes ports,
splits messages into chunks, and keeps a fast sender from overrunning a slow receiver
with two kinds of flow-control credits.  The remote channels of `rch` are built on its
ports, and the layers above on the channels of `rch`.

Paths below are relative to `src/remoc/src/` unless they start with `remoc_macro` (then
relative to `src/`).

## The system

### chmux

An *endpoint* runs one multiplexer (`chmux/mux.rs`, `ChMux::run`), a task that selects
over: events of the local application with priority (answers to requests, credits,
reports), messages from the transport, and events of the local application without
priority (data, closing, new connections).  Two inner tasks write to and read from the
transport.  The application holds handles: `Client` and `Listener` to open ports, and a
`Sender` and a `Receiver` for each end of a port.

| component | state | operations | talks to |
|---|---|---|---|
| credits (`chmux/credit.rs`) | credit stores, used credits, batches to return, throttle state | request, take, provide, use, return, resize, inhibit/allow | sender, receiver and multiplexer through shared atomics and events |
| sender (`chmux/sender.rs`) | credits held, half-sent message, pre-connect state | send, try_send, send_chunks, connect, all_received, drop | event channel of the multiplexer |
| receiver (`chmux/receiver.rs`) | half-received message, credit returner | recv, recv_any, recv_chunk, discard_chunks, close, drop | data channel from, event channels to the multiplexer |
| multiplexer (`chmux/mux.rs`) | port table, outstanding requests, queues, goodbye flags | one handler for each event and for each message | the peer's multiplexer |
| client, listener (`chmux/client.rs`, `listener.rs`) | connect credits, queues of requests, accept guards | connect, accept, inspect, accept tentatively, reject, drop, terminate | event channels of the multiplexer |
| port allocator (`chmux/port_allocator.rs`) | used, pre-allocated, reserved and quarantined numbers | allocate, reserve, convert, drop | client, listener, multiplexer |
| buffer sizer (`chmux/sizer.rs`) | size of the shared receive buffer | choose a size | credits |

### rch, robs, robj, rtc and rfn

| component | state | operations | talks to |
|---|---|---|---|
| base channel (`rch/base`) | an item that is being sent or received, its ports and its chunks | send, recv, give up | a chmux channel, a thread for streaming |
| mpsc, oneshot (`rch/mpsc`, `rch/oneshot`) | a queue at each endpoint, a sending and a receiving task for each connection between them, reasons for closing | send, try_send, reserve, recv, close, drop, transport | base channels (several lanes), back channel |
| watch (`rch/watch`) | a cell at each endpoint, the last value transmitted, rate limits | send, borrow, changed, clone, subscribe, transport | base channel, back channel |
| broadcast (`rch/broadcast`) | subscribers that are ready, being served or lagging | send, subscribe, recv | mpsc channels |
| observable collections (`robs`) | the collection, its events, subscriptions, mirrors | every mutator, done, subscribe, mirror | broadcast and mpsc channels |
| read/write lock (`robj/rw_lock`) | the value with its owner, cached values, invalidation and drop channels | read, write, commit, drop | watch, mpsc and oneshot channels |
| trait calls (`rtc`, `remoc_macro`) | requests, a serve loop, tasks, responses, monitors | call, cancel, serve, forward | mpsc and oneshot channels |
| remote functions (`rfn`) | as a trait with one method, and a provider | call, provide, drop | mpsc and oneshot channels |

### What makes it hard

* *Concurrency.*  Handles are used from any thread; each event channel is bounded, and
  a dropped handle reports through a spawned task, so that the order of its events is
  arbitrary.
* *Ordering.*  Two queues of different priority merge into one transport: an answer,
  a report or returned credits overtake data that was queued before them.  Data and
  control of a remote channel travel through different queues.
* *Cancellation.*  Every `await` may be the last: a send stops after some chunks, an
  accept holds a reserved port, a method is dropped half way.
* *Strictness.*  A message that does not fit the state of its port ends the whole
  connection, an event that does not fit panics the multiplexer.  A race on one port
  is a failure of all.
* *Failure.*  A connection is lost while values, closing and errors are on their way in
  both directions over several links.
* *Limits.*  Credits, connect requests, port numbers, queues, permits and error
  channels are all bounded, and whoever waits for one may hold another.

`PROJECT.json` lists the places where these bite as `hazards`, each with the properties
that would notice.

## Modules

Every module is written from the source; `PROJECT.json` maps each definition to the
lines it stands for.  Where one definition stands for the same code in several types
(five kinds of server, four collections, three kinds of remote function), the map names
the one that does most.  Definitions after a comment "Mutant:" are faulty
variants of the definition that follows them; they are not used by the specification
and exist to show that the properties can fail.

What an application does is a constant `Setups`, a set of records: how the component is
set up, which operations are used how often and what goes wrong.  The behaviours of all
setups are checked in one run.

**PortCreditPool, GlobalCreditPool** are the abstract specifications of flow control.
They only count how many credits are in each place where a credit can be: with the
sender, assigned to a send, on the wire, used, waiting to be returned, on the way back,
or lost with a message that was dropped.  The credits of a port are fixed in number and
returned in batches (`PortCreditReturner::start_return`); the global ones are shared by
all ports, their number follows the buffer sizer, and their return is two atomic steps
(`GlobalCreditMonitor`).

**CreditFlow** is the detailed specification: several ports, each with a sending
operation that goes through the await points of `do_send`, `do_connect` and
`MixedCreditUser::request`, the messages in flight, the receiving multiplexer's checks,
the receivers, and throttling: the multiplexer inhibits a port that has too much data
waiting, its receiver allows it again, and the application can forbid it.  A port is
used through `&mut Sender`, so it has one operation at a time; the multiplexer and the
receiver act on one atomic for throttling, so each access is a step.  Every port
implements PortCreditPool and all together implement GlobalCreditPool, under the
refinement mapping at the end of the module, which is checked and proved.

**PortLifecycle** follows one port from `Client::connect` to its removal from both port
tables, with every queue between the two applications: two event channels, two send
queues and the transport in each direction.  The dispatcher's biased `select` is two
steps, because an event with priority can arrive after that branch was polled.  Data
is a counter; what a message may do to the state of its port is modelled in full,
including the panics of `handle_event` and the protocol errors of
`handle_received_msg`.  The connection ends too: the last client and the listener of
each end are dropped and the other end is told, `should_terminate` decides from what an
end knows, either end may call `terminate`, the goodbye is the last message of a send
task, and the transport may fail at any time with the messages on it.

**ConnectQueue** abstracts the port from the same code and looks at the number of
requests: the connect credits of the client, the pool of reserved ports from which the
server serves pre-connected requests, and every step of `Listener::accept`.

**PortAllocator** is the allocator with its wrapping port numbers and the quarantine.

**Framing** is one chmux channel as a sequence of chunks: a sender that may stop in the
middle of a message, and the receiver's state machine (`Receiving`) with all of its
operations.  **BaseChannel** composes it (`INSTANCE`) with the base channel of `rch`, which
sends an item buffered or streamed, with the requests for the ports of the channels in
it, may fail in the middle or be given up, and receives it in steps between which the
future may be dropped.  In a binary channel the application uses the chmux channel.

**RemoteMpsc** is an mpsc or oneshot channel whose halves were sent over any number of
connections: queues, for each link a sending task with one base channel per lane
(`send_impl`), a receiving task (`recv_impl`) and a back channel, `Sender`s at every
endpoint with permits and the `Sending` handle, and the `Receiver`.

**Collections** defines what every mutator of every collection does to its contents,
which events it sends, and what a mirror does with an event.  **Observable** puts them on
the broadcast channel: subscribers that fall behind and get the `Lagged` notice, initial
values sent at once or incrementally, mirrors and mirrors of mirrors, and the task of
the append-only list.

**Watch** is a watch channel over any number of links, with `send_impl` and `recv_impl` of
`watch/mod.rs`, both directions of sending a half away, rate limits from both ends,
and the forwarding of a local channel.

**RwLock** is the owner task, the caches with the tasks that clear them, and the users;
the order in which Tokio's lock of a cache is granted matters and is modelled.

**Rtc** has the clients, the request channel, `ReqReceiver::forward`, the serve loops that
`remoc_macro` generates for the five kinds of server, the tasks and responses of calls,
the monitors of a server and the providers of remote functions.

**MC...** modules contain the setups for TLC.  **CreditPools_proofs, CreditFlow_proofs,
PortAllocator_proofs, ConnectQueue_proofs, BaseChannel_proofs, RwLock_proofs, Watch_proofs,
Rtc_proofs** contain the theorems.

## What TLC checks

| run | properties | what it shows |
|---|---|---|
| CreditFlow | NoProtocolError, ImplementsPortPools, ImplementsGlobalPool, SendCompletes, GlobalCreditsReturn | senders with sends, try_sends and connects, cancelled and throttled, with dropped receivers and a resized shared buffer implement both pools and never make the receiving multiplexer report an error; sends complete; a port that was throttled, or forbidden to use global credits and allowed again, gets them again and again unless opposite changes have overtaken each other |
| Ports | FailureIsConfined, ControlFollowsData, PortsReleased, ConnectAnswered | a multiplexer only fails for late rejections and reports of handles that are gone; the end of a channel and reports come after the data they are about; a connection that ends by itself takes no port in use with it; both endpoints forget a dropped port, and end when the connection is unused, terminated or lost; every connect is answered, whatever happens to the connection |
| ConnectQueue | OverrunNeedsPortRequests, OpenPortsBounded | the client's credits respect the server's limits, apart from requests over a port |
| PortAllocator | ReservationsHold, NumberAvailable, NoEarlyReuse | a reservation can always be converted, the search for a number ends, numbers rest |
| BaseChannel | OneOutcome, ErrorsForReason, DeliveredComplete, MessagesIntact | items that are given up, fail or are too large do not disturb their neighbours; ports belong to their item; chunks of messages are not mixed up |
| RemoteMpsc | FaithfulDelivery, EndsPropagate, SendingResolves | values arrive in order and complete up to a reported error; closing and dropping reach the other end over all links; `Sending` handles tell what happened |
| Watch | NeverBackwards, ClosedMeansFinal, BackChannelSettles, LatestArrives, ClosedReachesSender | receivers only see later values, a closed channel has shown the last one, rate limits settle to the strictest, the latest value arrives |
| Observable | MirrorIsSnapshot, DoneIsFinal, ErrorHasCause, GapsAreReported, MirrorSettles | a mirror equals a state of the collection, as far as its changes were announced, or has an error with a cause; a subscriber is told of every gap; mirrors reach the end |
| RwLock | GuardIsCurrent, WriteIsExclusive, ErrorsHaveCause, CallsReturn | guards show the current value, writing is exclusive, a call fails only when the owner or the connection is gone or something it needs could not be transferred, calls return unless a fetch blocks the owner |
| Rtc | CallsInOrder, FailureStopsServing, OutcomesHaveCause, ServeResultIsTrue, CallsSettle | calls keep their order, what callers and `serve` are told is true, everything that was started settles |
| RwLockStuck | WriteIsGranted | *counterexample*: a fetch and the owner wait for each other |
| RtcStuck | FailureStops | *counterexample*: failing calls hang the server they should stop |

### Bounds

* *Credits* are bytes in the code.  The smallest legal receive buffer, 4, is used with
  messages of 3 mixed with port requests; `try_send` has a buffer of 3 and chunks of 2, so
  that a message is split.  Other ports have a buffer of 1, where a credit stands for many
  bytes: messages of 2 exceed it and need two rounds or global credits, and two ports
  contend for the single global one.  The throttle level is 2, more than such a port can
  have without global credits, so that it is reached with them only; its receiver may be
  dropped, or change the permission twice, with an event channel that other ports may have
  filled.  The thread that receives and the multiplexer then decide opposite changes while
  the first still waits.
* *Queues* of chmux have capacity 1 (2 for the priority queue of a port), which makes every
  operation that can block do so; longer queues add no new order of the messages of
  one port that two queues with one transport do not show.  Queues of `rch` hold one
  entry, the back channel of Watch five, which is more than the setups can fill (see below
  for smaller ones).
* *Messages.*  One data message of a port suffices to be overtaken; two items (three in
  one setup) for one to be cancelled and one to follow; two values of a sender for one
  to be lost and the next to arrive; three for two lanes to get out of step.
* *Requests.*  ConnectQueue has four requests for limits of two, PortAllocator seven numbers for
  two ports, one pre-allocated and three in quarantine, so that numbers wrap.
* *Links.*  Two, so that an endpoint in the middle passes on values, errors and closing
  in both directions.
* *Collections* have two keys, two values and at most three elements, one to three
  changes and a subscriber buffer of one or two, so that subscribers lag.
* *RwLock* has three tasks on two endpoints with one or two calls each: two that share a
  cache and one that writes elsewhere.  Any request, value or confirmation may fail to be
  transferred in one of the setups.
* *Rtc* has up to four calls of two clients, a request queue of two and two permits.  Requests
  that cannot be decoded meet the server, or the request receiver that forwards them.  The
  error channel is large enough in Rtc, so that `CallsSettle` says nothing about a full one,
  and holds one error in RtcStuck (16 in the code, with 32 parallel calls).

### Fairness

Liveness is checked under weak fairness of the multiplexers, of spawned tasks and of
futures that have been started: a Tokio executor polls a woken task again.  Fairness is
stated for an actor, the disjunction of the steps of one task, and not for each of its
steps; in PortLifecycle even for the disjunction of all steps that are not choices of an
application, which suffices because each of them uses something up.  A transport that has
failed is noticed, by an error or by the connection timeout.  Fairness is strong where a waiter competes for room in a bounded channel, whose
waiters Tokio serves in order (Enqueue of CreditFlow, SendFuture and RecvTask of
RemoteMpsc), and for the two kinds of priority events that throttling
causes, whose branch is polled first.
Delays and windows elapse (Watch, Rtc).  An application that receives is assumed to go on
receiving, one that got a request to answer it somehow, one that holds a guard of the
lock to drop it, and a method to return; sending, cancelling, closing and dropping are
never assumed.

Deadlock is checked where the system goes on for ever (CreditFlow, PortAllocator).  In the
other runs the applications may stop, and what must not remain undone is in the
liveness properties.

## What is proved

With TLAPS, for all values of the constants that satisfy the named assumptions:

* `CreditPools_proofs` of a port: `CreditConservation`, `NeverOverrun` and `NeverStarved`.
  None of the three properties is inductive.  The invariant `IInv` adds that each place
  holds a natural number of credits and that the returner never keeps a full batch
  (`BatchBound`): overrun follows from conservation, and `IdleCredits` from
  conservation, the bound on the batch, and the lemma `ThresholdBounds` about the
  threshold, which is the arithmetic in `start_return`.  The assumption
  `PortLimitAssumption`, a receive buffer of at least 4 as `Cfg::check` demands, is a
  hypothesis of each theorem, because CreditFlow uses the pool with smaller buffers too.
* `CreditPools_proofs` of the shared buffer: `GlobalCreditConservation` and
  `GlobalNeverOverrun`, for any sizes the sizer may ask for.  The lemma `ResizeBounds` says that shrinking takes no more
  than what waits to be returned.
* `CreditFlow_proofs`: `PortPoolsImplemented` and `GlobalPoolImplemented`, the refinement of
  both pools, `ConnectionNeverFails` and the invariant itself, `Invariance`, for every
  number of ports, every receive buffer (also below 4), chunk size, queue, throttle level
  and length of messages, with receivers that are dropped, throttled or not, and
  permissions that change any number of times.  `NoProtocolError` is not inductive: a chunk is accepted because
  its credits were taken from a store and are nowhere else.  `IInv` therefore says that the
  credits of each port (`PortConserved`) and the global ones (`GlobalConserved`) add up over
  all places, that the credits of data which was not received are counted as used
  (`ReceivedUsed`, `GlobalUsed`), that an operation holds no more than it was granted
  and what it still needs (`OperationsOK`), and that the queue has a limit.  One lemma for
  each step of a pool says which change of the counters is that step (`PortQuiet` and those
  after it); one lemma for each action of the endpoints shows that the action preserves the
  invariant and changes the counters in one of these ways (`StepOK`).  The amounts in queues
  are sums over sequences and the global ones sums over all ports.  That such a sum grows
  with what is appended, and changes by what one port changes, is proved by induction in the
  form of a least counterexample, a set of naturals (`Induction`).
* `PortAllocator_proofs`: `PortsWithinLimit`, `ReservationsNeverFail`, `PortNumbersUnique`,
  `PortNumbersRest` and `PortNumberFound`.  The invariant relates four sets of numbers and
  a sequence; it is needed because a reservation is only safe as long as every path
  keeps used plus reserved within the limit, and the search only ends because
  quarantine and pre-allocation are bounded too.  The last theorem rests on the
  assumption that the numbers exceed twice the limit plus the pre-allocated ones,
  which holds for the code by the check of `max_ports` in `Cfg::check`.

* `ConnectQueue_proofs`: `CreditsLimitRequests`, `OpenPortsWithinLimit` and
  `PoolBacksCredits`, for every number of requests, limit and pool.  The properties compare
  the sizes of sets that one step changes together; the invariant says where each request
  may be listed (`Tables`, `Lifecycle`) and that no credit, reservation or port of the pool
  is lost or duplicated (`Conservation`): credits and unanswered requests add up to the
  limit, and so do the pool and, without a protocol error, the ports taken from it.  Cardinalities are handled by
  the library's theorems on finite sets, so the set of requests is assumed to be finite.
* `BaseChannel_proofs`: `MessagesStayIntact`, `EveryItemHasOneOutcome`, `ErrorsHaveReasons` and
  `ItemsAreComplete`, for every number, size and number of ports of the items, limit of
  either endpoint, buffer and capacity of the channel.  The invariant has two levels.
  `ChInv` is about messages: only the last one is being sent (`MsgsOK`), the channel holds
  the chunks that follow the last one seen without a gap (`ChanOK`), what the receiver keeps
  is the beginning of the message it saw last (`ReceivingOK`), and a message that was
  completed is in the log once a later one has been seen (`LogOK`).  `ItemInv` relates items to
  messages by the state of their send (`ItemsOK`), the deserializer to the message being
  streamed (`TaskOK`), and says that only messages that were given up lie between an item
  that waits for its ports and the last chunk (`WaitingOK`).  The heart is `NoneForgotten`: an
  item whose send goes on or succeeded has its outcome, waits for its ports, is being
  received, or lies ahead.  A lemma for each operation of the chmux channel says what it can
  do (`Takes`, `ReturnsChunk`, `Completes`, `Stops`), and the actions of the base channel are
  proved from these; ports cannot be missing because requests follow the data they belong to
  (`AnyRequests`), and an item that is passed over by data was given up (`WaitingOver`).
* `RwLock_proofs`: `GuardsShowTheValue`, `WritesExclude` and `FailuresHaveCause`, for every
  number of tasks, endpoints and calls.  That a guard is current is not inductive: the
  value may be in an answer under way, in a cache, or with the writer.  `Coherence` says that
  answers to connected endpoints and the guards there are current, that a cache is current
  or knows that it is not, and that the value is granted to a writer only while the owner
  answers nobody.  `MessagesMatch`, `WriterExpected` and `CallsPending` tie messages and
  grants to the calls that wait for them, which is what `FailuresHaveCause` needs: a call
  fails only when its owner or connection is gone or when its request, the value for it,
  the value it commits or the confirmation could not be transferred.
* `Watch_proofs`: `ValuesNeverGoBack` and `ClosedShowsFinal`, for every number of links,
  Receivers and values.  For the first, `OrderInv` says that along each link the cell, what
  is in the port, the value being sent and the source are in the order of their numbers,
  that an end is the last thing in a port, and that a link not yet used has carried nothing.
  For the second, `FinalInv` follows the end along the path: a sending task that works and
  has seen the current version has handed on a value like it (`LatestIsCurrent`), closes
  only after its source got its last value (`ClosingIsFinal`), so that the end in a port
  comes after the final value (`EndIsFinal`) and a cell that nobody writes to anymore holds
  it, or an error that is not taken for the end (`CellIsFinal`).  The steps of a link are
  first shown to be of one of thirteen kinds (`LinkSteps`), and each part of the invariant
  is proved kind by kind; another link only notices the version of its source.
* `Rtc_proofs`: `CallsTakeEffectInOrder`, `FailedCallStopsServing`, `OutcomesTold` and
  `ServeResultTold`, for every kind of server and remote function, parallelism, monitor
  limit, number of calls and clients and course of faults.  The invariant follows a request
  from the client to its method: it is in one place at a time, and the places (`wire`, the
  forwarding task, `queue`, the hands of serve, `begun`) hold the requests of a client in the
  order in which they were made (`RequestsInOrder`).  From there the order of effects
  follows because serve waits for an inline call (`TasksFollowServe`), a dispatched write
  is alone (`Exclusive`), and a call that still has to use the target can only be followed
  by others that read (`OvertakenInTasks`).  A failure blocks serve at each of its steps
  (`FailureBlocks`).  What callers learn needs that a response is pending as long as its
  request or task exists, that the cause of a loss never goes away, and that a response port
  is only rejected when its request could not be decoded or the server is over
  (`ResponsesHaveCause`, `RejectionHasCause`, `CallersTold`); what serve returns needs that a failure is in the
  error channel before its task ends (`FailuresNoticed`), that nothing starts after Ok
  (`OkMeansIdle`), and that the monitor of the server, or of the request receiver, counts different
  requests (`FailuresCounted`).
  `RtcAssumption` says, besides types, that only remote functions have a provider that can
  be dropped and that `None` is no result.

What is proved of the pools holds of the credits of the code by the refinement that
`CreditFlow_proofs` proves; for `NeverStarved` that needs a receive buffer of at least 4.

Only model-checked are:

* liveness, which is beyond the prover (`SendCompletes`, `GlobalCreditsReturn`,
  `PortsReleased`, `ConnectAnswered`, `EndsPropagate`, `SendingResolves`, `LatestArrives`,
  `ClosedReachesSender`, `MirrorSettles`, `CallsReturn`, `CallsSettle`), and
  `BackChannelSettles` of Watch, which rests on `ENABLED`;
* the safety of PortLifecycle, RemoteMpsc and Observable.  The properties of Observable
  compare a mirror with a state of the collection, built with folds in Collections, whose
  results for every input would need induction over data; those of the others are within
  reach of the prover but need invariants over six queues (PortLifecycle) and over the lanes
  of any number of links (RemoteMpsc) that are not written yet.

## Where code and documentation disagree

Two runs show a counterexample:

* **RwLockStuck.**  `fetch` locks the cache and awaits the owner's answer while the
  invalidated value is still in the cache.  The owner answers nobody until that value
  is dropped, and the task that would drop it waits for the lock.  `CallsReturn` says
  that this is the only way in which calls do not return.
* **RtcStuck.**  Calls that stop the server report their failure to a bounded channel,
  holding the target.  Its only reader, `serve`, waits for the target or for a permit.

The modules also state properties that the documentation or the tests suggest and
that do not hold; no run checks them, the setups in brackets reproduce each:

| property | what happens |
|---|---|
| `ConnectCompletes` (CreditFlow; `limit = 5`, `connects = {2}`) | `do_connect` asks for credits only when it holds none; one to three left-over credits do not suffice for a port number, and it sends empty messages for ever (`chmux/sender.rs:579`, doc `:523`) |
| `UnusedCreditsReturned` (CreditFlow; `"try_send"`) | the credits of a chunk that found the queue full are never returned (`chmux/credit.rs:41`) |
| `PrefersGlobal` (CreditFlow) | port credits are taken first, although the comment says the opposite (`chmux/credit.rs:833`, `:868`) |
| `AllowedAgain`, `DisallowedIsObeyed` (CreditFlow; `Reallowed`, the first under `FairSpec`) | `set_global_credits_allowed` does not wait until earlier changes have been queued, and `queue_port_evt` does not look whether there are any: with a full event channel, a change overtakes the opposite one before it, and what the sender is told last is wrong.  Either it never uses global credits again, although they are allowed and the throttle is off, or it goes on using them although they are forbidden (`chmux/credit.rs:523`, `:573`, comment `:591`, doc `chmux/receiver.rs:452`) |
| `RejectionBeforeEnd` (PortLifecycle; `"tentative"`) | the end of the channel is observed before the rejection of a tentative accept (`chmux/receiver.rs:492`) |
| `AllReceivedResolves` (PortLifecycle; `"all_received"`, `"drop_receiver"`) | a report requested after the remote receiver is gone stays pending until the port is freed (test `tests/chmux/channel.rs:367`) |
| `NoConnectOverrun` (ConnectQueue; `{"open", "ports", "accept"}`) | requests over a port need no credit but count against `connect_queue` (`chmux/listener.rs:438`) |
| `AcceptsUpToMaxPorts` (ConnectQueue; `MaxPorts = 1`, `{"pre_open", "accept"}`) | `Listener::accept` waits for a second port while it holds the last one (`chmux/cfg.rs:117`) |
| `ExceedsOnlyLarge` (Framing; `"recv"` and `"recv_any"`) | after a stream that its sender cancelled, `recv` discards the small message that follows (`chmux/receiver.rs:510`) |
| `FailedMeansFailure` (RemoteMpsc; a value is sent to a `Receiver` that is dropped) | the reason for closing is a failed connection although the `Receiver` was just dropped: any error of a send is taken for a failure (`rch/mpsc/mod.rs:368-370`, doc `rch/mod.rs:236`) |
| `NoIntermittentLoss` (RemoteMpsc; two lanes, a value that cannot be serialized) | a value is lost although later ones arrive (`rch/mod.rs:104`) |
| `DoneMirrorIsFinal` (Observable; an incremental subscription after `"done"`) | the mirror of a collection that is done already stops after the first element and calls these contents final (`robs/hash_map.rs:1058`, `:1241`) |
| `ChangesAreAnnounced` (Observable; `OneMap`) | `HashMap::retain` hands its predicate mutable values and sends events for removed elements only, so that a value that is kept and changed is never announced (`robs/hash_map.rs:284-299`, doc `:4`) |
| `ListClosedReturns` (Observable; `"closed"`) | `closed` does not return once the list is done and all subscribers have received everything: they are only forgotten when every handle of the list is gone too (`robs/list.rs:396-404`, doc `:162-173`) |
| `NotServedIsOver` (Rtc; `Incompatible`) | the ports of a request that cannot be decoded are never connected; their requests are dropped (`rch/base/receiver.rs:365`, `:391`), which rejects the response port, and a rejected response port is `CallError::NotServed` (`rtc/call.rs:253`, doc `:168`) although the server goes on serving |

Where the run checks a property nearby, that property makes an exception for these cases and
nothing else.  `GlobalCreditsReturn` says that throttling and forbidding are temporary unless
changes have overtaken each other (`Overtaken`); it is checked on the setup that refutes
`AllowedAgain`.  `MirrorIsSnapshot` and `DoneIsFinal` allow that the values that `retain` has
changed, and no others, are older (`Untold`).  `OutcomesHaveCause` says of `NotServed` that the
server is over or the request could not be decoded, and in both cases that the method was
never started.

`FailureIsConfined` names two ways in which a port whose handles are gone ends the whole
connection, both from reports of spawned tasks that come late: the rejection of a dropped
pre-connected `Request` or of a late `AcceptGuard::reject` (`chmux/listener.rs:327`,
`mux.rs:645`), and an `all_received` future that is first polled after its port was freed.

Other things met while modelling, which no property states:

* mpsc: after an error that concerns one value only, a link is closed for good, where the
  documentation says that such errors are not final (`rch/mod.rs:304-305`); an upstream
  `Sender` may be told "dropped" when a later link failed to connect; `recv_many` returns
  `Ok(0)` for a batch of disconnect errors although other senders are left.
* watch: with a back channel of one message both tasks of a link can wait for each other
  (`rch/watch/mod.rs:531`); a value that cannot be serialized ends a link as if it had been
  closed (`:450-456`); an error of a link is lost when no other receiver is left (`:514`);
  `ReceiverStream` ends without an error on a disconnect.
* chmux: an `all_received` future resolves when the connection ends, although the data was
  not received (`chmux/sender.rs:645-646`); a pre-connected port whose request meets the
  goodbye of the other end has been handed out, and its `Receiver` reports a terminated
  connection although the connection ended as it should (`chmux/mux.rs:541`); when the
  receiver of a port is dropped, its count of used global credits is not taken back with the
  data that is discarded, so that it is a `u32` that data sent until the sender has noticed
  keeps adding to (`chmux/credit.rs:463`).
* Base channel: an item whose send was given up before its final empty chunk may be
  delivered nevertheless.
* Observable: `max_size` is not enforced for inserts and resizes of vectors,
  nor for an initial value; a mirror forwards `InitialComplete` to its own subscribers.
* RwLock: after a lost connection the owner goes on while a guard is still held
  (`robj/rw_lock/rw_lock.rs:232`); a cached value outlives its `Owner`.
  A `Value` that arrives without a connection for its `dropped_tx` would be a guard that the
  owner does not wait for.
* Rtc: `CallFailed` is reported before the response is sent; `ReqReceiver::recv` loses a
  request when it is cancelled while its monitor is asked (`rtc/mod.rs:1272-1275`); a remote
  function is not cancelled with its caller (`rfn/mod.rs:34-37`); a `RateLimitMonitor` counts
  a call when it is admitted, after which a write still waits for the lock of the target,
  so that more calls may start in a window than the limit says; setting
  `set_max_concurrency` anew does not count the calls that run already;
  `IncompatibleServerMonitor` forgets a failed method for calls that are cancelled.

## Not modelled

* chmux: the hello exchange, pings and the timers that notice a silent transport, flushing, the encoding of messages, the policy of the sizer, forwarding between
  channels, storage, and the `Stream` and `Sink` adapters.
* rch: storage references, `recv_many`, the `Distributor` and `forward` of mpsc, the
  interlock that keeps both halves of an `lr` or `bin` channel from being sent, I/O channels.
* robj: handles, lazy values and lazy blobs, which wrap oneshot channels; of RwLock, giving
  up a commit and an embedded port of a value that fails alone.
* rtc: request receivers whose target is at a third endpoint, the monitors of a client, `Call::spawn` and the mapping of errors; of the macros,
  parsing and code generation themselves.
* Connection set-up, transports, codecs, versioned values and tracing: adapters to
  libraries and conversions without protocol state.

The connection is one atomic fact in RemoteMpsc, Watch, Observable, RwLock and Rtc: it is
there or lost, and each task notices on its own.  Arithmetic does not overflow at the
modelled widths: credits are `u32`, and the theorems show that they stay within the
configured sizes.  The one counter they do not bound, the used global credits of a port
whose receiver is gone, is abstracted: its throttle level may be reached at any time.  Relaxed atomics are modelled as sequentially consistent; each location
is accessed by single read-modify-write operations, and no property depends on the order
of two locations except where CreditFlow and GlobalCreditPool make the two steps explicit.

Tokio's channels, locks and tasks are external; they are modelled from how the code uses
them: a bounded channel keeps order, `send` waits for space, `try_send` does not, a
spawned task runs eventually, a lock is granted in the order of the requests.

## Plan

What is left is to prove more: `FaithfulDelivery` of RemoteMpsc, along the links as in Watch,
and `ControlFollowsData` of PortLifecycle, from the order of the queues between the two
applications.

# Verification of ESPressio Radio

TLA+ models of ESPressio Radio, the TLC runs that check them and TLAPS proofs about
them. All definitions are translated from the headers under `src/src/`
(`RadioTransport.hpp:N` below stands for `src/src/ESPressio_RadioTransport.hpp:N`, and
so on); `PROJECT.json` maps every definition to the lines it stands for.

## 1. The system

A node runs one `RadioTransport` over one or more radios (`IRadio`, implemented
elsewhere), a `RadioWorker` thread that drains the radios into the transport, and
optionally one `RadioClockSynchronizer` per radio.

| Part | State it keeps | Operations |
| --- | --- | --- |
| **RadioTransport**, framing | none | `FragmentPayloadBytes`, `SendVia`, `EncodeHeader`, `DecodeHeader` |
| **RadioTransport**, reassembly | `_reassemblies` (slots), `_touchCounter`, `_recent`, `_recentCursor` | `ProcessInboundPacket`, `FindOrCreateReassembly`, `IsRecent`, `Remember`, `Complete`, and what `Stop` does to the slots |
| **RadioTransport**, sending | `_nextMessageId` | `Send`, `SendFramed`, `SendVia`, forwarding in `Complete` |
| **RadioTransport**, topology and life | `_interfaces`, `_routes`, `_started` | `AddInterface`, `SetRoute`, `RemoveRoute`, `Start`, `Stop`, `FindRoute` |
| **RadioWorker** | `_radios`, `_configuration`, the iteration that is due | `AddInterface`, `Configure`, `OnRadioWorkAvailable`, `Iterate`, `OnRadioPacket`, destructor |
| **RadioClockSynchronizer** | `_initialized`, `_nextSequence`, `_pendingSequence`, `_lastRequestMonotonicNanoseconds`, ten counters, `_config` | `Initialize`, `Shutdown`, `Update`, `RequestSynchronization`, `OnRadioPacketReceived` (`ProcessRequest`, `ProcessResponse`), `ResetStatistics` |
| **RadioObservers** | the dispatcher's registrations (external library) | `Subscribe`, `Unsubscribe`, `Notify...` |
| **RadioEventBridge** | `_handles` | `Subscribe`, `Shutdown`, one callback per notification |
| **RadioEvents, RadioTypes, IRadio** | none | copies, value types and interfaces |

How they interact:

* Inbound: a driver queues a packet and calls `OnRadioWorkAvailable`, which bumps the
  worker; `Iterate` calls `DrainInbound` of each started radio, the radio calls
  `OnRadioPacket`, which calls `ProcessInboundPacket` and then the radio's packet
  observers - the clock synchronizer is one. A completed message goes to the one
  receiver and to the message observers, or is fragmented again for the next radio, all
  on the worker's thread.
* Outbound: any thread calls `Send`, which fragments into the radio at once. There is no
  outbound queue and no retransmission.
* Configuration: an application's thread calls `AddInterface`, `SetRoute`, `Start`,
  `Stop`, while the worker's thread runs. `RadioTransport` and `RadioWorker` take no lock
  around their tables; `RadioClockSynchronizer` has a mutex around its configuration and
  atomics for the rest.

Where it is hard, and what makes each part correct:

* Framing: one-byte fields and a `uint8_t` loop index against sizes up to 4096 bytes.
  Every accepted message must be sent whole, in frames the receiver decodes to the size
  that was sent.
* Reassembly: fragments arrive in any order, repeated, from paths cut at different MTUs,
  with more messages under way than slots. A completed message must be made of its own
  fragments only, be passed on once, and not be lost to little traffic.
* Network: loops in the routes, hop limits, ids that wrap and nodes that restart. What
  arrives must be what was sent, the traffic must die out, and everything that can be
  delivered must be.
* Topology: tables with holes, full tables, radios of which one fails to start. The
  route table must behave as a partial function and observers must be told what it is.
* Worker: lost signals, radios that stop or are added during a pass, destruction. Queued
  packets must be served and no radio may keep a pointer to a dead worker.
* Delivery: a complete message is lent to the receiver and the observers while its slot
  still holds it, and the receiver may call back or throw. What they are given must be
  complete, events must hold copies, and the slot must be free afterwards.
* Clock: a check and a store with another thread in between, late and repeated
  responses, failed sends, re-initialisation. One exchange gives one sample, of two
  readings of one clock; a response is matched only to the newest request of its session,
  and of the responses matched before a `Shutdown` at most one is submitted after it.

`PROJECT.json` lists 40 hazards at their lines, with the properties that cover them or
the reason none does.

## 2. Modules

| Module | Models | State and actions |
| --- | --- | --- |
| `RadioFraming` | the size arithmetic of sender and receiver, `DecodeHeader` | none; operators used by the others |
| `RadioSendVia` | one call of `SendVia` | `status`, `count`, `index` with their width; the checks, one action per turn of the loop, a rejecting radio |
| `RadioReassembly` | the receiving half on each node | `slots`, `touchCounter`, `recent`, `recentCursor` and a history `completed`; `ProcessInboundPacket` as its four outcomes (`RejectOversized`, `ResetMismatched`, `StoreFragment`, `CompleteMessage`), and `Stop` |
| `RadioEviction` | extends it with a history: for each message begun, whose fragments came since its last | the same actions with the history |
| `RadioEventBridge` | the bridge from notifications to queued events | `handles`; `Subscribe`, `Shutdown`, and `Observe`, which stands for each callback |
| `RadioDelivery` | `ProcessInboundPacket` and `Complete` again, access by access, with the bridge as an observer | extends `RadioReassembly` and `RadioEventBridge`; `worker` holds the position and locals of the pass; what the receiver does, and `Stop` of another thread, are actions in between |
| `RadioNetwork` | extends `RadioReassembly` with sending, the medium and forwarding | `Send`, `Receive` (`ReceiveOnce` on a medium that repeats nothing), `StopReassembly`, `Restart`; three specifications: lossy, clean, restarting |
| `RadioTopology` | tables, life and notifications of one transport | one action per call; `told` and `lifecycle` are what a subscribed observer knows |
| `RadioRouting` | abstract specification: a partial function with limited room | `Set`, `Remove`; `RadioTopology` implements it by the mapping `RouteTable` |
| `RadioWorker` | the worker between its radios and the transport | every store of `AddInterface`, every step of a pass and of the destructor is an action |
| `RadioClockSynchronizer` | the client's exchange against a reference | every store of a shared atomic, clock read and `Send` is an action, on the application's and the worker's thread |
| `NumberLemmas` | no code: that a non-empty set of naturals has a least element, and how many pieces a number is cut into | none; lemmas the proofs share |
| `RadioSendVia_proofs`, `RadioReassembly_proofs`, `RadioDelivery_proofs`, `RadioNetwork_proofs`, `RadioTopology_proofs`, `RadioWorker_proofs`, `RadioClockSynchronizer_proofs` | the theorems about the module each is named after (section 5) | |
| `MC...` | small instances | networks, packets, messages |

`RadioNetwork` composes `RadioFraming` (the fragments that `SendVia` produces) and
`RadioReassembly` (one per node) with the medium: `Send` puts on the air the packets
`SendFramed` hands to the radios, and a completed message that is for another node puts
its own fragments, cut for the next radio, on the air in the same step, as `Complete`
does.

`RadioDelivery` shows that one step per packet is a sound view: `StepsOfReassembly` maps
its slots and touch counter to those of `RadioReassembly` (unchanged until the fragment
is in its slot; the slot of a complete message free from then on), and each pass is then
one step of it, a `Stop` that the receiver calls being another. Only a receiver that
throws makes a step that is none of it, by leaving the complete message in its slot; the
passes after that are its steps again. Under `ConcurrentSpec` it does not hold, and the
finding below says what happens instead.

Abstractions, common to all: a payload is a model value, and two fragments have the same
one exactly when they were cut from the same message; a link address is the set of nodes
it reaches; encoding of integers, and the magic numbers, are left out - every packet that
reaches `DecodeHeader` is one of this protocol, well formed or with one of its fields
wrong. Each key of a message is a record (source, destination, channel, id), as in the
comparisons of the code. `_recentCursor` is kept modulo the ring's length, the only way
it is used (`:314`).

Operators marked *Broken variant of X* are plausible mistakes in X - a dropped check, an
off-by-one, a missing store. No specification uses them: putting one in X's place must
make the property named in `PROJECT.json` fail, which shows that the property can.

## 3. Runs

| Run | Question | Bounds, and why they are enough |
| --- | --- | --- |
| `sendvia` | Is an accepted message sent whole, in decodable frames, by a loop that ends? | The real constants; MTUs and sizes on both sides of each threshold: 0, 15, 16 (no room, room for a byte), 269-271 and 1500 (the chunk's limit of 255), sizes around one and two chunks, 255 fragments and 4096 bytes |
| `sendvia_fits` | Does the receiver have room for what the sender accepts? **No** | the same |
| `reassembly` | Are messages whole, passed on once, in one slot each? How much traffic does an incomplete message survive? | One node, two slots, a ring of two; five messages of one to three fragments, one of them arriving cut in two ways, one too large; any packet any number of times, also malformed ones and the node's own. The touch counter wraps after five touches; four completions, so that the ring wraps and a message can come back |
| `delivery` | Are passes the steps of `RadioReassembly`, whatever the receiver does; are events copies; what can leave a slot behind? | One node, two slots, a ring of one; two messages for this node, one to forward, one without a hop left, a fragment cut for another MTU, one of a message too large. Seven touches and three completions: a slot that a receiver's exception left behind is evicted, or its message passed on again after the ring has forgotten it |
| `delivery_stop` | Is what the receiver is given complete, with `Stop` on another thread? **No** | the same |
| `network_lossy` | Is what arrives what was sent, and is only a duplicate dropped? | Four nodes, two paths of different MTU to the destination, two messages, ids that wrap after two, a medium that loses, repeats and reorders, `Stop` at any node |
| `network_clean` | Does the traffic die out, and has just that arrived by then which the routes and links lead to? | Four nodes in a line of different MTUs, with routes for n4 that go round between n2 and n3; five messages: two to n4, one from n4 to n1 that needs every hop of a limit of two, and a broadcast and a message from n2, which the link to n1 would cut into more fragments than the byte counts (seven here) and that to n3 into two. A ring of one and a hop limit of two, so that the messages to n4 come back to n2, push each other out of its ring and are put together there again: only the hop limit ends them |
| `network_restart` | The same after restarts? **No** | One link, two messages of the same shape |
| `topology` | Do the tables stay a partial function, do observers know it? | Three radios and three destinations for tables of two, so that tables are full, have holes and refuse; three lifecycle notices |
| `topology_failed_start` | Is an observer told of every end of a started state? **No** | the same |
| `worker` | Is everything queued served, whatever is lost, stopped or thrown; do the observers follow the transport; does anything dangle? | Three radios for tables of two, queues of one packet, two packets, so that one on which the receiver throws is followed by one it takes |
| `clock` | Is an exchange sampled once, of one clock; is a response matched to the newest request of its session only, and how much of an earlier session reaches this one; does `Update` keep the interval; do the counters add up? | One application thread and the worker; four ticks, three requests (the sequence wraps to 0 after them), two sessions |

The smallest instances at which the mechanisms meet are two slots (so that there is an
oldest), a ring shorter than the messages, two MTUs, one application thread and the
worker; larger ones repeat these. What does not depend on size is proved (section 5).

**What the four violations show.** (1) `SendVia` limits the payload (`:276`) and the
receiver limits whole chunks (`:321`): with an MTU of 269 or more and 4096 bytes, `Send`
reports `Accepted` and no receiver completes the message. The theorem `RoomForAChunk`
says how far the limit must shrink. (2) After a restart ids begin at 1 again and slots
have no age, so a receiver is given a mixture of two messages. The same reuse makes a
peer drop new messages as recent: `OnlyDuplicatesAreDropped` fails under `RestartSpec`
too. (3) A `Start` that fails while the transport is started ends that state untold, and
the `Stop` after it is untold as well. (4) `Stop` on the application's
thread resets a slot the worker is about to count a fragment in. The count of one stays
in the free slot, `FindOrCreateReassembly` does not clear it, and the next message in
that slot is handed to the receiver with a fragment missing.

One statement of the documents is not true of the code and no run is about it.
`CLOCK_SYNCHRONIZATION.md:44` says that failed sends consume the current interval, so that
there is no tight retry loop. A send that fails at `_transport.Send` does. A request that
fails because the radio is not started (`RadioClockSynchronizer.hpp:346`) is counted as a
failed send as well, but does not store its time, and `Update` begins another on each of
its calls. `IntervalIsKept` and `Paced` are therefore measured from the last request that
was not refused: refused ones are under the rule themselves, but set no time. Without
`~attempts[j].refused` in it `clock` violates `IntervalIsKept`.

What `clock` shows about T1 is a condition, not a defect of one call: T1 and T4 of a
sample are of one clock (`OneClockUnlessOverlapping`) unless the request was begun while
the response to an earlier one was awaited or being taken, since that response may
adjust the clock between the reading of T1 (`RadioClockSynchronizer.hpp:369`) and the
storing of the new pending sequence (`:373`). `Update` alone with an interval longer than
the round trip never does that; `RequestSynchronization` called by hand may.

Nor does `clock` show that samples are of the present session. A callback that has matched
its response (`:257`) is not stopped by `Shutdown`: after the `Initialize` that follows it
may clear what the new session awaits (`:262`) and submit the sample of the old one
(`:271`). What holds is that nothing is *matched* across sessions (`MatchedInItsSession`),
so that only the response in the callback's hands can do this: one sample, before the new
session has any of its own (`OneStraySample`).

**Bounds that matter to what is claimed.** `KeptUnderPressure` speaks of messages begun
since the last wrap of the touch counter (2^32 touches) that `Stop` followed: across a
wrap nothing is kept, since slots touched after it look oldest. The pass runs of
`RadioDelivery` keep the application's `Stop` out of a pass (`SerialSpec`).
`IntervalIsKept` needs one application thread: with two, the unsigned difference at
`RadioClockSynchronizer.hpp:399` can wrap. `Delivered` needs a slot for every message
under way at a node, and one way for each message: on the diamond of `network_lossy`,
where fragments cut for two MTUs meet at n4, it fails even if no packet is lost, since
each fragment resets the slot the other copy is filling (`RadioTransport.hpp:422`). On the
line of `network_clean` the hypotheses of the theorem hold, which the assumption
`LineFulfils` has TLC evaluate. `MaxTouch`, `MaxCompletions`, `MaxTime`, `MaxRequests`,
`MaxSessions`, `MaxPackets` and `MaxNotices` are bounds of the models, not of the code;
the other constants are the code's. In the network runs `MaxTouch` is the largest value of
the counter and so bounds nothing.

**Deadlock** is checked, except where the system really stops: a call of `SendVia`
returns, all messages of `CleanSpec` are sent and received, and observers in the topology
runs have had their bounded number of notices.

## 4. Fairness

* `RadioSendVia`: `WF(Next)`. One call on one thread, and nothing in it waits.
* `CleanSpec`: `WF` of receiving some packet. The worker runs at least once each
  iteration period and drains what has arrived (`RadioWorker.hpp:142-152`); nothing is
  assumed of `Send`.
* `RadioWorker`: `WF` of the worker's steps and of its period. The period is set in the
  constructor and by `Configure` (`:155-162`). Nothing is assumed of `Bump`, which may
  throw and be swallowed (`:123-129`), so `Serviced` does not depend on signals. A pass that
  a receiver's exception ends is followed by others, which takes the thread to survive it.

The other specifications state safety only and have no fairness.

## 5. Proofs

Seven modules of proofs and one of lemmas, all checked to the last leaf. The theorems hold
for every value of the constants that satisfies the modules' named assumptions, which TLC
evaluates on the runs' values:

* `FramingAssumption`, `SendViaAssumption`, `ReassemblyAssumption`, `TopologyAssumption`,
  `WorkerAssumption`, `ClockAssumption`: types, positive sizes of tables, and that the
  values standing for *none* are not used for anything else. `ClockAssumption` also says
  that `MaxTime + Interval` is below the modulus of the clock: 2^64 ns.
* `DeliveryAssumption`: one node, whose id is neither 0 nor the broadcast id.
* `NetworkAssumption`: the types of messages, interfaces and routes; that a route names an
  interface its node has, as `SetRoute` demands; that the broadcast id is no node's. Nothing
  is assumed of where routes lead.
* `FrameAssumption`: the set `Frame`, which `RadioReassembly` takes any packets from, has
  those that the network's messages can be cut into. It says what the constant must be
  given; TLC evaluates it for each of the networks.

Where a theorem needs more, it is a hypothesis of that theorem, and its reason is in the
code:

| Hypothesis | Says | Why it is needed |
| --- | --- | --- |
| `OneContentPerKey` | packets of one key are cut from one content of one size | without it `network_restart` shows a mixture; on a network it is proved, not assumed |
| `IdsSuffice` | each node's own messages are finitely many and fewer than there are ids (2^16) | ids are all that tells a node's messages apart, and slots have no age |
| `SlotsSuffice` | each node has more slots than messages that may come to it in several fragments | with all slots in use a message in one fragment, too, takes the one touched longest ago |
| `OneWay` | a fallback link that a message is sent over has one peer | copies cut for different MTUs reset each other's slot (section 3) |
| `BroadcastOnce` | no two radios of a node broadcast to the same node, and none to itself | the same, and a node drops its own packets |
| `NoReuse` | fewer requests than sequence numbers | the same for the clock's exchanges |
| `TouchModulus > 2` | the counter of touches has more than two values (2^32) | a new slot is touched twice, and a wrap past its start could not be told from none |
| `OneThread` | the application uses the synchronizer from one thread | `RequestSynchronization`, `Initialize` and `Shutdown` interleave store by store |
| `IsFiniteSet(App)` | finitely many threads | calls in flight are counted |

**`RadioSendVia_proofs`**, by `SendInv`: past the checks, `count` is the true number of
fragments (nothing was cut off when it became a byte), `index` is at most `count`,
`sentBytes` is `min(size, index * Chunk)`, and `frame` is the header of fragment `index -
1`. None of the properties is inductive alone: that the last frame is right needs where
the loop is. Proved: `TypeCorrect`; `FramesWellFormed`, every frame fits the MTU and is
one `DecodeHeader` accepts; `AcceptedIsWhole`, `Accepted` means that each byte was sent
and the receiver computes the size that was sent; `NoHoles`, only the last fragment is
short, which is proved but not run; `RoomForAChunk`, a payload that leaves one chunk of
room fits the receiver.

**`RadioReassembly_proofs`**, for any nodes, any set of packets and any table sizes:

* `TypeCorrect` and `SlotsAccounted`, by `TypeInv`, their conjunction: that
  `ReceivedCount` stays a byte needs that it counts the fragments present.
* `DuplicatesSuppressed`, by `KeyInv`, over `TypeInv`: that a key missing from the ring is
  not among the last completed needs that the ring is their tail, and that the ring never
  names a key twice needs that no slot has a key it names.
* `MessagesWhole` and `TablesConsistent`, under `OneContentPerKey`, by `WholeInv`, which
  adds that every slot holds its own fragments. What it says is stated for any subset of
  `Frame` (`SlotsPureIn`, `CompletedWholeIn`), so that it serves a network too, where the
  subset is what has been on the air so far.
* `LostToPressureOnly`, with `TouchModulus > 2`, by `EvictionInv` over the two above: while
  the touch counter has not wrapped, slots have different touches, and what was touched
  after a message has sent a fragment since its last one. When the slots are all in use,
  the one touched longest ago therefore has as many other messages behind it as there are
  slots: those in the other slots, and the one that wants its place. The module extends
  `RadioEviction` for this; nothing else in it, or in what extends it, speaks of the history.

**`RadioDelivery_proofs`**, for any packets, tables and receivers, under `SerialSpec`. By
`DeliveryInv`, whose centre is `SlotsKept`: a slot, *the stores the pass has yet to make
counted as made* (`Settled`), has as many fragments as `ReceivedCount` says if it is in use
and is as `Reset` leaves it if not. In the middle of a pass that is false of the slot
itself - the count follows the fragment - and a slot that is used again relies on it, for
`FindOrCreateReassembly` clears neither `ReceivedCount` nor `LastPayloadBytes`. It holds
of every slot, also of one that a throw left behind.

* `DeliveryTypeCorrect`, and under `OneContentPerKey` `PassedOnIsWhole`, by `Pure`: slots
  hold their own fragments, and the view in the pass's hands is whole.
* `OnlyThrowsLeave`, by `StraysThrown`, which counts the complete messages in slots that
  the pass is not at: between two passes these are all.
* `EventsTell`, by `Heard`: which of the messages passed on the queue holds, the last one
  not being due until it has been notified.
* `PassIsOneStep`: `SerialSpec => StepsOfReassembly`, the refinement. `Underway` says how
  far the pass has come from the slots and the counter it began with: which slot
  `FindOrCreateReassembly` took, that no other has changed, and that what is in it,
  settled, is what `StoreIn` makes of the fragment. `Finish` is then `StoreFragment` or
  `CompleteMessage`, an early return `RejectOversized` or `ResetMismatched`, and every
  other step but `Stop` changes nothing. That `Touch` never fails once `Check` agreed is a
  lemma on the way (`TouchGoesOn`).

**`RadioNetwork_proofs`**, for every topology, all routes, MTUs and messages, under
`IdsSuffice`. The packets on the air are not fixed here: the network makes them. All but the
last theorem hold of the medium that loses, repeats and reorders and of the clean one.

* `NodesReassemble`: `LossySpec => Spec` and `CleanSpec => Spec`. Every step of the network
  is a step of `RadioReassembly`, or none, so what is proved of that holds of each node.
* `Intact`, `DuplicatesOnly` and `NetTypeCorrect`, by `NetInv(ids)`, for some assignment
  `ids` of an id to each message sent: every packet on the air was cut from a message
  already sent (`Packets`), with its id, and two packets of one key are of one message; a
  node's next id counts the messages it has numbered; slots and completed messages are of
  such packets (`SentFrames`). A forwarding node cuts what it has put together again, so
  that this is kept needs what `WholeInv` says of the slots, and the arithmetic of
  `SizeRestored`: the receiver computes the size from the last fragment whatever chunk it
  was cut into, so that cutting it again for another MTU gives a piece of the same message.
* `HopsPaid`, by `PaidInv`, which says the same of slots as of packets: where a slot's
  message is, and how many hops its first packet had left. Packets of one message may have
  come there on ways of different lengths.
* `CompletesOnlyWhereRouted`, by `RoutedInv(ids)`: a packet and a slot have come over a
  link to their node, cut for that link, from where the routes lead with the hops that are
  spent (`CameFor`). That the link carries the message whole is known only when all of it
  has come: `CameOver` then finds that its size fits.
* `DeliveredWhereRouted`, with `SlotsSuffice`, `OneWay` and `BroadcastOnce` as well: on the
  clean medium `Delivered` holds. That nothing arrives elsewhere is the theorem before. That
  everything does arrive is `ArrivalInv(ids)`. Along a way of different nodes (`Way`; where
  routes lead at all a shortest path is one, by `SimpleWay`), the message has been completed
  at its end, or is at one of its links (`At`): the fragments the link's far end lacks are
  exactly those on the air to it (`Coming`), no other packet of the message is on the air,
  and the nodes behind know nothing of it (`Ahead`). A fragment received is one less to
  come (`ComingStored`); the last completes the message and all of it is sent on, with a
  hop less (`ComingCompleted`, `ForwardsAll`). The slot a message is being put together in
  is not taken from it because one is always free (`SlotLeft`: each slot in use is of
  another message that comes in pieces), and no fragment is dropped as recent because the
  ring has only what the node has completed. An empty air leaves nothing that is at a link.

**`RadioTopology_proofs`**, by `TopologyInv`: `TypeCorrect`; `NothingTwice`, that no radio
and no destination is in two entries; `ObserverKnows`; `StartsTold`. `ToldIsTrue` is not
inductive without `SingleEntries`: what an entry behind the one found would become is in
no observer's record. `ImplementsRouting`: `Spec => RoutingSpec`, the refinement, one step
of the proof per operation: `SetRoute` finds a free entry exactly while there are fewer
routes than `MaxRoutes`, a count over a table with holes.

**`RadioWorker_proofs`**, by `WorkerInv`. `ApplicationInv` says which stores of an
`AddInterface` have been done - a radio has its slot before it is wired, and the transport
knows it before that; `PassInv`, where the pass is, and that the observers lag behind the
transport by the packet in its hands and lack for good those on which the receiver threw
(`Following`). Proved: `TypeCorrect`, `OwnsInbound`, `NoneDangles`, `InOrder`.

**`RadioClockSynchronizer_proofs`**, for any threads and interleavings:

* `TypeCorrect`, `PendingSent`, and with finitely many threads `CountersAddUp`: a call in
  flight is what has been attempted and neither sent nor failed, so the sums need the
  number of threads at each position.
* `OneSampleEach`, under `NoReuse`, by `ExchangeInv`: the numbers taken are those below
  `_nextSequence`, each of one call; what was sampled is not pending again, and a number
  is not stored as pending once it was cleared. The check of the pending number and the
  store that clears it are two steps.
* With `OneThread` as well: `SessionsApart` and `NewestAwaited`, action properties, by
  `SessionInv` (a call in flight is of this session, and newer than every request sent);
  `StrayComesFirst`, by `StrayInv` (while the worker has a response of an earlier session
  in its hands, this one has no sample); `Paced`, by `SpacedInv` (what `Update` compares
  with is at or after every request of the session that was not refused);
  `OneClock`, by `ClockInv` (from the reading of T1 on, a response that could adjust the
  clock is not the one awaited). `OneThread` is needed by the proofs; that it is needed by
  `IntervalIsKept` is said in section 3.

**Only model-checked.** Out of the prover's reach and left to TLC: liveness (`Returns`,
`TrafficDiesOut`, `Serviced`). `DeliveredWhereRouted` therefore says what has arrived once
the air is empty, and TLC that it becomes so. `Within` and `Routed`, which the network's
theorems are about, are sets of paths and not recursive functions, since what such a
function computes for every input would take induction over data. Nothing is proved of
`RestartSpec`, where ids are used again, nor of `ConcurrentSpec`: there the properties
fail.

## 6. Not modelled

* Threads inside `Send`, and routes that change during one: `Send` is one step of
  `RadioNetwork`, whose routes are fixed, so ids shared by two messages
  (`RadioTransport.hpp:404`) and half-changed routes (`:305`) are not reached. `Stop`
  against a pass is in `RadioDelivery`.
* In `RadioDelivery` and `RadioWorker` a pass that a receiver's exception ends is followed
  by others: what the thread does with the exception is the Threads library's. Receivers
  that call `Send` change none of the state there. A transport without a receiver
  (`RadioTransport.hpp:335`) is as one whose receiver returns at once.
* In `Send`, the refusal of a null payload (`:402`), which takes no id and sends nothing.
* Radios of a network that stop: `RadioNetwork`'s lossy medium loses what they would have
  carried, and what `SendFramed` then returns is in no state.
* `RadioEvents` but for the copies that message events make of a lent view: the other
  events copy values. Registration of observers, the event queue and its dispatch are
  external libraries, concrete radios other repositories.
* Of the clock: `ResetStatistics`, malformed packets, responses of another peer, the
  reference's own counters, and the arithmetic of timestamps: a timestamp is the number
  of adjustments its clock had seen.
* In `RadioWorker` the thread is running from the start, and packets are numbers:
  what the transport does with them is in `RadioReassembly`.
* `IRadio` and `RadioTypes` are interfaces and value types; the modules that use a radio
  model it from its use.

## 7. Plan

Done, in this order: framing and `SendVia`; reassembly with its proofs; eviction; the
network; topology with the routing refinement; worker; clock; proofs of `SendVia`; the
event bridge; delivery with its refinement of reassembly; the proofs of the topology
with its refinement, the worker, the clock, the network, and delivery with its
refinement; where the network's messages arrive. Every invariant that a passing run checks
is now a theorem.

Next, models:

1. `Send` step by step on several threads, with routes that change under it.
2. Clock with two application threads and `ResetStatistics`; the reference's side.
3. Networks: radios that are stopped and started on the way.

Next, proofs: `Delivered` without `OneWay`, for ways of one MTU, where the copies help each
other; what bounds the number of packets on a clean medium, which `TrafficDiesOut` rests on;
theorems for what the models above will add.

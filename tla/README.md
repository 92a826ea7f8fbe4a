# A verification of neutrino-elements

`neutrinod` is a light client for Elements (Liquid). It connects to full nodes,
downloads block headers and compact filters (BIP 158), stores both, and tells
web-socket and http clients when a transaction in a block concerns one of their
descriptors. `neutrino` is its command line client.

This directory holds TLA+ modules that model the parts of it where concurrency,
ordering or failure matter, the TLC runs that check them on small instances, and
proofs about them for every instance. `PROJECT.json` maps each definition to the
lines it stands for and lists the runs, the hazards and the findings.

    tlc -workers 2 -config HeaderSync_two_peers.cfg MCHeaderSync.tla
    tlapm HeaderSyncProofs.tla

## Inventory

| Part | State | Operations | Talks to |
|---|---|---|---|
| **Node**, `pkg/node` | `n.Peers`, one tip per peer, unbuffered channels `blockHeadersCh`, `compactFiltersCh`, `syncedChan` | `Start`, `AddOutboundPeer`, one handler per message, `monitorBlockHeaders`, `monitorCFilters`, `checkSyncedInitial` | peers (TCP), both repositories, mempool |
| **Header repositories**, `storage/db/{inmemory,pg}` | the stored headers | `ChainTip`, `WriteHeaders`, `HasAllAncestors`, `LatestBlockLocator`, lookups by hash and height | node (writes), scanner (reads) |
| **Filter repositories** | the stored filters | `PutFilter`, `GetFilter` | node (writes), scanner (reads) |
| **Peer monitoring**, `handle_ping.go` | `n.Peers`, the nonces not answered | `monitorPeers`, `monitorPeer`, `addPeer`, `removePeer`, `handlePong` | handlers, over four unbuffered channels |
| **Scanner**, `pkg/scanner` | queue of requests, batch of the running scan, a stop token | `Watch`, `Start`, `Stop`, `requestsManager`, `requestWorker` | repositories, block service, notification service |
| **Mempool**, `mempool.go` | transactions, subscribers | `AddTx`, `CheckTxConfirmed`, `AddSubscriber`, `Stop` | handlers of peers |
| **Notification service** | a subscriber per connection | `Subscribe`, `UnSubscribe`, reports of the scanner, `Stop` | scanner, web-socket and http handlers |
| **Web-socket and HTTP handlers** | connection per subscriber | register, unregister, deliver, shut down | notification service, node |
| **Wire protocol**, `pkg/protocol`, `pkg/binary` | where `handlePeerMessages` is in the stream | framing, VarInt, the decoder of each message | node |
| **Answers to peers**, `cmd_getcfilters.go`, `cmd_getheaders.go` | the height of the answer | a range of filters, nothing | repositories |
| **Block service** | none | one HTTP request to an explorer | scanner |
| **Database service, configuration, commands, middleware** | none of their own | input, output | - |

What is hard, and what makes each part correct:

* **Node and header repositories.** One goroutine per peer tests headers against
  a chain tip that the goroutines of other peers move before the first of them
  is written; a single writer receives headers over an unbuffered channel. The
  store must stay free of gaps (everything looks headers up by height),
  `Start` must return, and only once the chain is there. A write may fail, the process may stop, a
  peer may leave at any moment.
* **Filter repositories.** A filter is asked for once, when its header is written.
  Each must arrive while peers stay, and none without its header.
* **Peer monitoring.** Four unbuffered channels in one `select`, one of which is
  served by a goroutine that is itself a client of the others. A dead
  peer must be forgotten and a live one kept, even when pongs are late or repeated.
* **Scanner.** Requests go from the queue to a batch that follows the chain, and back to the
  queue, while clients queue others. None may be lost, pass a match over or report it
  twice, and none may be left lying.
* **Mempool.** The listener and one goroutine per block change a map that is ranged
  over without its lock; one goroutine per event and subscriber. What was mined must leave,
  subscribers must hear of everything, and must not hold the node up.
* **Notifications, handlers.** Four goroutines that exchange subscribers and reports over
  unbuffered channels, registrations in goroutines of their own, recovered panics that end a loop, a
  shutdown that stops one goroutine after the other. A report must find the client
  it is for, one client must not disturb another, shutdown must end.
* **Wire protocol.** No message knows where the next one begins: each decoder must read
  exactly what its message has, however TCP cuts the stream up, and wherever a handler returns
  early. What a handler refuses stays in the stream. Three ways to read a field differ in what they do when a part of it is missing.
  Boundaries of VarInt and of the getcfilters range.

## Modules

    HeaderStore            operators: the two header repositories
      ChainStore           the abstract store, seen by a reader
      HeaderSync           the goroutines that fill it       --implements--> ChainStore
        HeaderSyncProofs   theorems about HeaderSync
        NodeSync           HeaderSync + peers that answer + filters
          NodeSyncProofs   theorems about NodeSync, over those about HeaderSync
    PeerMonitor            pings, pongs, timeouts, disconnections
      PeerMonitorProofs    theorems about PeerMonitor
    Watches                the abstract scanner, seen by who calls Watch
      WatchesProofs        theorems about Watches
      Scanner              the goroutines and queues of it   --implements--> Watches
        ScannerProofs      theorems about Scanner, that it implements Watches among them
    Mempool                transactions, confirmations, subscribers
      MempoolProofs        theorems about Mempool
    Notification           web-socket and http clients, the service under them, shutdown
      NotificationProofs   theorems about Notification
    Wire                   one connection: messages, the bytes of them, the decoders
      WireProofs           theorems about Wire
    MC<module>             the instance of <module> that TLC checks

### HeaderStore, ChainStore

A header is an element of `Block` with a height and a parent. `BlockTree`
assumes that these agree: proof of work makes a header that does not extend its parent
worthless, and the code does check no more than heights. `Insert`,
`HasAllAncestors`, `LocatorFails` and `Locators` are the methods of both
repositories as functions of the set of stored headers; they differ in `Insert`
(pg has one row per height, and logs the second instead of failing) and
in what a missing height does to the locator (the in-memory store returns an
error, pg dereferences nil). `ChainStore` is the promise to a reader: empty at first,
one header added at a time, never one that would skip a height.

### HeaderSync

`pc[p]` is where the goroutine of `handlePeerMessages(p)` is, `writer` where
`monitorBlockHeaders` is, and `polled` the tip that `checkSyncedInitial` is looking
at. A step ends where another goroutine can tell: at a channel operation, or
between two accesses of `n.Peers` or of the database. So `handleHeaders` is
`HandleHeaders` (one read of the tip and everything that follows from it), one
`SendHeader` per header, then `Sync`; `addPeer` is `HandleVersion` and
`StartSync`, because the length of `n.Peers` is read after the insertion.
`SyncGoroutine` is the `go n.sync(p)` in which a panic ends the process, while
`Sync`, in the goroutine of the peer, is recovered. Messages are arbitrary members of `HeadersMsg` and
`Block`. `Restart` stops the process anywhere and keeps the pg tables.
`FaultySpec` adds writes that fail: with an error that is logged, or, with pg, one that is not of the
server, on which the type assertion of `WriteHeaders` panics (`WriteHeaderPanics`).

### NodeSync

`HeaderSync` plus the network: peers follow a growing `Branch`, answer
getheaders from the fork point of the locator in batches, answer getcfilters, and announce new
blocks by header or by block; `inbox` keeps the order of a TCP connection and loses everything with it. It
adds `monitorCFilters` (`PutFilter`). The peers are not part of the repository:
they are modelled from what `pkg/node` expects of them.

### PeerMonitor

`ping[p]` is where `monitorPeer(p)` is, `reader[p]` where the goroutine of the
handler is, and `forwarding` the pong that `monitorPeers` is sending. All channels
are unbuffered, so a send and its receipt are one step, taken when both are
there. `n.quit` is left out: `Start` runs on a copy of the node and replaces the quit channel of
the copy, which `Stop` never closes.

### Scanner

A block is its height, a request matches a number of transactions in it.
`manager` is where `requestsManager` and the `requestWorker` it calls are. The
test of the queue and the wait on the condition variable are two steps, as the
locks of the code make them. Any read of a database and the fetch of a block may fail
(`WorkerFails`), which drops the batch. What the loops of the code make of a slice of requests is `Repeat`,
every one a number of times over, and `Select`, those of a set alone: `dequeueAtHeight` and `extractBlockMatches` are
both made of them. `hits` says what matches; `skipped` is a history
variable of the blocks whose filter or block could not be had.

### Watches

The promise of `Scanner` to whoever calls `Watch`, with no queue, batch or goroutine: a watch
stands at a height; a block there or above that matches ends it and is reported once per match, each report
of a persistent request sets up a watch one block higher, an error may take watches away.
`Scanner` instantiates it with `watches` the number of requests it holds anywhere, in the queue, the batch or in
hand (`WatchesNow`), and `due` the reports of the block being worked on (`DueNow`). `PromiseKept` is the
refinement: no turn of the queue or of the batch, no requeue and no interleaving with clients makes a
watch, moves one or ends one. `Watches` promises no more than the code does: a
block whose filter is late may be passed over. `Accounted` follows from it: a request is reported for no block
more often than its matches up to that block account for. `Growth` is that number, a product over the blocks, because each of several reports of one block
sets up a watch of its own.

### Mempool

`listener` is where `listenForNewTxs` is, `check[c]` where the goroutine of the c-th
`CheckTxConfirmed` is. A write of the map is two steps, taking the mutex and the write,
so that the unlocked range can meet it: the runtime then ends the process or
does not (`MapRace`, `process`). A range produces every entry that stays in the map, and may
or may not produce one that comes meanwhile (`Visit`, `Ranged`). `told[s]` is the set of events for which a
goroutine was started, `pending[s]` how many of them still send.

### Notification

A connection is one subscriber ID. `conn[c]` is where its goroutine is; `handlerSubs`,
`notifier`, `events` and `serviceSubs` are the four goroutines, each at its
`select` or with a subscriber in hand. `At(place, c)` is both. A send on an unbuffered channel and its
receipt are one step. The goroutines that `Subscribe` and `UnSubscribe` start are counted.
`stop` names the goroutine that `Stop` is asking to quit. Messages are a choice of what the code
tells apart: not JSON, refused, register with a descriptor that can be watched or not, unregister. The scanner
sends a report for anybody it was ever asked to watch for, as `Scanner` does for
persistent requests.

### Wire

`sent` is the stream, each message at its place; `arrived` how much of it TCP has brought, in pieces
of any size; `pos` how much the node has read. `at` is where `handlePeerMessages` is: at a
header, in a payload, answering getcfilters, or `torn`, in a payload it
does not understand any more. A unit of the stream is what the code cannot tell apart any further: a header is
three (what `Decode` insists on is two, the rest of the checksum, which it does not miss, the third), a hash or an address two.

`Fields(m)` is the decoder of `m`: fields one after the other and how each is read, with
the counts that it makes of the VarInts (`Counted`). There are three ways. `binary.Read` waits for all of
a field (`ReadFull`). `decodeArray` makes one `Read` and takes what
comes (`ReadOnce`, `ReadShort`). What is decoded by a library or is thrown away goes up to the end of the message
(`ReadUntilEOF`). The header is one `Read` too (`ReadCutHeader`). A handler may fail before it
has read anything (`ChainTipFails`), after the type of a filter it does not know (`RefuseFilter`), or leave vectors or bytes of a user agent unread (`Leaves`); `Return` stands for the rest
of a handler, which does not touch the stream, except that of `handleGetCFilters`, whose loop counts a uint32 down (`Answer`). What
handlers send on the unbuffered channels of the node (`pongsCh`, `blockHeadersCh`, `compactFiltersCh`, `txChan`) is taken to be received:
`HeaderSync`, `NodeSync`, `PeerMonitor` and `Mempool` say when it is.
`ReadError` ends the goroutine; its send on `DisconCh` is PeerMonitor's. `spoiled` is a history variable: what
has brought the reader out of step. Garbage is never taken for a header: it would have to spell
one of three magics.

## Runs

| Run | Instance | What it shows |
|---|---|---|
| `header_sync` | `HeaderSync_two_peers.cfg`: two peers, pg, chain a1-a2-a3 with a fork b2, messages of up to three headers, 2.3 million states | No gap in the store, whatever peers send and whatever order the goroutines run in, and the store implements `ChainStore`; once the version of its initial peer was read, the node reports itself synced only with a complete chain up to the height that peer gave; only the loss of a peer can make the process panic |
| `node_sync` | `NodeSync_honest.cfg`: one peer, a chain of three of which two exist at first, batches of two, one message on its way, in-memory store | `Start` returns and the chain and the filters are complete again and again while the peer stays |
| `peer_monitor` | `PeerMonitor_pings.cfg`: two peers, two pings each | One nonce per peer, none left behind, a pong never answers another ping, and the answer to a registered ping is known while it is waited for; a disconnected peer is removed unless `monitorPeers` is stuck, and then it stays stuck |
| `scanner` | `Scanner_two_requests.cfg`: three blocks, two requests (one persistent with two matches in a block, one not persistent that starts later), one error | A request is lost only by an error, no match is missed or reported more often than the matches account for, and there are exactly two ways in which a request can be left lying: the manager sleeps, or the first request is for a block that is not there yet; the scanner implements `Watches`; `Stop` ends it unless it sleeps |
| `mempool` | `Mempool_two_blocks.cfg`: two transactions, two messages, two blocks with one of the transactions, a subscriber, Stop | What was mined leaves the pool, a subscriber hears of each arrival and departure once it has subscribed, and `AddTx` returns though nobody reads |
| `notification` | `Notification_clients.cfg`: a web-socket client with three messages, an http client, two reports, a shutdown | The notifier dies only of a report for a web-socket client that left or an http client that is not in the map yet; nothing else stops reports, and a request is taken unless `serviceSubs` has returned on a bad descriptor or the notifier is dead; all of this until a shutdown begins or the runtime ends the process; the ways in which a shutdown hangs are those of `Wedged` |
| `wire` | `Wire_one_connection.cfg`: any two of thirteen messages, `Byte` 5, so that a count may need one, two or three units, a chain of height 2 and ranges shorter than 2, 0.9 million states | The reader gets out of step with the messages by the causes listed under Findings and no other; in step, it handles each message once, in order, and as it was sent; a lost connection ends it wherever it is. All this if what handlers send on the channels of the node is received |
| `restart` | `HeaderSync_restart.cfg` | finding 1 |
| `failed_write` | `HeaderSync_failed_write.cfg` | finding 2 |
| `late_pong` | `PeerMonitor_late_pong.cfg` | finding 3 |
| `lost_wakeup` | `Scanner_lost_wakeup.cfg` | finding 4 |
| `departure` | `Notification_departure.cfg`: two web-socket clients | finding 5 |

Deadlock is not checked: every one of these systems may stop, because the chain, the
pings, the clients and the messages are bounded, or because the process has crashed.

**Bounds.** `header_sync` needs two peers for a handler to act on a tip that
another one moves; three more heights than that would add no new comparison,
because headers are compared only with the tip and with the next height. Three headers
are the shortest message that starts below the tip and ends above it. One message out of sequence stands for all,
since none is looked at further. `node_sync` has a chain one longer than a batch, so
that the download takes two messages, and a block that is mined during it; `Room`
keeps the inbox finite. `MaxPings` 2 lets a late pong meet a later ping. In `scanner` a
request can be queued again below, at and above the tip, and meet requests that join
it later. In `mempool` a transaction can be announced again after it was confirmed, while both
checks have it in hand, and a check has another transaction left when it finds the first gone. In
`notification` three messages are a registration, a removal and one more, two reports are one
that kills the notifier and one that finds it dead. In `wire` two messages are one that
may bring the reader out of step and one that it must still, or cannot, find; a message that is read
wrong in one of thirteen ways is read wrong in front of any other. The counts lie on both sides
of the largest that fits in one byte and of the smallest that takes a uint16, stop and start of a range on both sides of
each other and of `MaxRange`; `Word` is only needed to be larger than any height.

**Fairness.** A goroutine that can go on goes on (weak fairness of each). A sender
on `blockHeadersCh` is served in turn, which takes strong fairness, as the writer is not always receiving:
blocked senders wait in a FIFO queue in Go, and so do goroutines at a mutex; a `select` chooses at random among what is ready. A connected peer answers. What a peer has written arrives while its connection is there (TCP). Clients, subscribers, pings, new blocks, losses, stops and the death of the process are under no fairness.

## Findings

1. `restart`: over a pg store with headers from an earlier life, `synced` compares
   the tip with a peer height that is still 0, and `Start` returns before the node
   has heard of the height of its peer.
2. `failed_write`: when a write fails, `monitorBlockHeaders` drops the header, the next ones of the message are
   stored above the gap, and every later locator fails. The run loses the first of two headers over an empty
   store. The last header of a message leaves no gap: nothing follows it.
3. `late_pong`: a pong that races the timeout of its ping leaves `monitorPeers` and
   `monitorPeer` each sending to the other; no ping, pong or disconnection of any
   peer is handled any more.
4. `lost_wakeup`: a request queued between the test of the queue and `cond.Wait` is not
   scanned until another one is queued.
5. `departure`: a report for a client that has left (its watch is never taken back)
   ends `handleOnChainNotifications`; the next report, for a client that is there, is never
   taken, and the scanner stands.

More results are not runs of their own. An unlocked range of `checkTxConfirmed` over a map that another
goroutine writes can end the process (`MapRace`), and so can a read of the service's
subscribers while they are written, which web-sockets and the http handler both do (`WritesSubscribed`). One descriptor that cannot be
watched ends the service's `handleSubscribers` (`RequestsTaken` needs `serviceSubs = Off`). And a
shutdown hangs after either of these ends, or with a report in flight (`ShutdownEnds` needs
`Wedged`). `Stop` of the scanner wakes nobody, so a manager that waits for requests outlives it (`StopEnds` exempts
it). `InStep` needs each of the causes in `spoiled`: a header or a field that TCP delivers in two pieces; an
inv of 253 vectors or more or a version whose user agent is that long, because a CompactSize is longer than the one byte that is read of it; a filter of
another type than 0, of which all but the type stays; a `handleBlock` that cannot read the chain tip and an unknown command, of which the payload
stays; and a connection that is lost. Each but the last, after which nothing comes, leaves the reader in the middle of a message, and what follows is lost until a
header happens to start where it looks for one. As checksums are not compared, a filter that was cut short is stored as it is.

`node_sync` has one peer because two break it. With a second peer with compact filters, and a chain of one block, each handshake may
insert its peer in `n.Peers` before either counts them: nobody is asked for headers, and `Start` does not
return (`EventuallySynced`) unless a block is announced. With a chain of two blocks the other peer may deliver the first of them before
the initial peer has said how high it is, which is finding 1 without a restart. Only a caller of
`AddOutboundPeer` during `Start` meets this; the daemon has one peer.

Reading the code showed this, which no model states: `binary.Marshal` dereferences pointers, so that the
`MarshalBinary` of `MsgCFilter` and `VarInt`, which have pointer receivers, are not called, and a `chainhash.Hash` is no
`[32]byte` to its type switch. Hence `NewMsgCFilter` always fails, and a node that announces `SFNodeCF`
(`pkg/node/node.go:269`) never answers getcfilters; the loop of `handleGetCFilters` would leave out
`StartHeight` besides. `VarInt` values that the node encodes lack their marker byte, which is right below 253 only.

## Proofs

`HeaderSyncProofs` proves, for every set of peers, every tree of headers, every set of
messages and both repositories:

* `Typing`, `NoGapHolds`, `InFlightHolds`, `SyncedAsHeardHolds`,
  `CrashOnlyOnLossHolds`: the invariants and the action properties that `header_sync` checks;
* `Refinement`: `Spec => StoreSpec`, the store implements `ChainStore`;
* `InsertKeepsRange`, `NewHeadersFollow`, `LocatorExists`: what the operators of
  the repositories and of `handleHeaders` guarantee.

They assume `BlockTree`, `PostgresIsBoolean`, `PeerAssumption` and `HeadersMsgAssumption`, which
TLC evaluates in every run.

*The argument.* That the store has no gap is not inductive: a handler writes
headers that it tested earlier. The strengthening says what is in flight: the
header in the writer is at most one above the tip, and what a handler
still has to send is in sequence and starts at most one above the frontier, the height the
store has once the writer has written (`InFlightInOrder`). Tips only grow, so a test
against an old tip remains good, and this is why several peers cannot open a gap between them. `TipInv` says that the
stored heights are an interval. `IInv`, their conjunction with the types, is preserved by every step (`StepInvariant`), and
`WriteHeader` is the only step that changes the store, whence the refinement.
`SyncedAsHeard` relates the node to what the peer said and not to `PeersTip`, which `synced` compares and which every later block may
move: it needs that the header being polled is stored still (`PolledStored`), and that what the
node knows of the height of a peer only grows (`TipHeard`), over `handleVersion`, `handleBlock` and a restart. It says how narrow finding 1 is: `checkSyncedInitial` has to poll before
`handleVersion` has run.
`CrashOnlyOnLoss` needs `PanicInv`: a peer that the writer counted is in
`n.Peers` still unless one was lost, and a locator over a store with no gap finds
a header at every height.

`NodeSyncProofs` proves for any number of peers, on any branches, answering in batches of any size, with
any number of messages on their way, and from `NodeSyncAssumption` besides:

* `NodeTyping`, for the in-memory repositories `FiltersOfStoredHolds`, and for any number of peers of which none but the
  initial one has compact filters `SyncedCaughtUpHolds`, the invariants that `node_sync` checks;
* `NodeNoGap`: what follows the protocol leaves no gap either.

*The argument.* `NodeIInv` is `IInv` of HeaderSync, which every step of the composition keeps because
`HandleHeadersStep` and `HandleBlockStep` hold for any message; the types of what is on its way; `Silent`,
that nothing is on its way without a connection; and `Traffic`, which follows a
filter backwards: the filter that is being stored, each filter in an inbox, each getcfilters that a peer has not answered and the header
the writer is about to ask for all have their header in the store, because `WriteHeader` comes before
`AskForFilter` and nothing is ever removed. This is false over pg: a second header of a
height is not stored, and its filter is asked for all the same. That a peer's answer is a list of
headers of its branch (`ForkPointType`) needs that a bounded set of heights has a greatest element (`Greatest`, from the
well-foundedness of the naturals).

`SyncedCaughtUp` says of a tip that it has reached a height the node may not have heard of when it polls. `SyncInv` closes that: either the
height that the initial peer gave is known (`Met`), or no peer that would be asked for headers has said its version,
and then nobody was asked and the store is empty (`Untouched`), so that there is no tip to poll. The hypothesis is that of
the daemon, which connects to one peer; the two ways in which it fails are finding 1, a store that is not empty at first, and a second peer
with compact filters (see Findings), over which TLC has a counterexample.

`PeerMonitorProofs` proves for any number of peers and pings:

* `Typing`, `NonceMatchesHolds`, `OnePingEachHolds`, `PongRecognisedHolds`, `NothingLeftHolds`: the invariants that
  `peer_monitor` checks;
* `StuckForever`: the deadlock of finding 3 has no way out.

*The argument.* `IInv` ties the map of `monitorPeers` to the goroutines: a nonce of p is
in the map only while `monitorPeer(p)` waits for its pong or reports that it
did not come, and it is the last one sent; and the nonce being forwarded is in the map, because
`monitorPeers` does nothing else meanwhile. Hence a forwarded nonce is the one
waited for, one deletion forgets all, and a `monitorPeer` found reporting can only
be freed by the goroutine that sends to it.

`NotificationProofs` proves for any number of clients, messages and reports, from `NotificationAssumption`:

* `Typing` and `DiesOnlyForAbsentHolds`, which `notification` checks: no report for a
  connected web-socket client ends the notifier, so that finding 5 needs one that left;
* `Invariant`, on which they rest.

*The argument.* Whoever a goroutine has in hand, be it as a registration, a watch,
a report or an error (`InUse`), is in the handler's map, or was a web-socket and
has gone, or is an http client that `handlerSubs` is adding (`Present`). It holds when somebody
subscribes, because a web-socket has then seen itself in the map (`SeesItself`)
and an http client was received by `handlerSubs`; it stays so because only the
goroutine of a connection has itself deleted, as the last thing it does
(`UsedIsPresent`). Without `SeesItself` the step of `RegisterMessage` has no proof, and
TLC has a counterexample.

`MempoolProofs` proves for any number of peers, transactions, blocks and
subscribers, from `MempoolAssumption`:

* `Typing`, `MinedLeavesHolds`, `SubscribersToldHolds`, the invariants that `mempool` checks.

*The argument.* `Mutex` says that one goroutine writes. For the range, `RangeInv`: what it has produced
of its block and what was in the map all along has left, except the one that the check is about to
remove, because an entry that comes back has not stayed. So nothing is left once all that stayed was produced.
For the subscribers, `ToldInv` adds to the property what a check has in hand: it was announced
to whoever has not missed it, even if another goroutine has removed it first. Both need that
a check has a transaction in hand while it removes it and tells of it.

`WireProofs` proves for any messages, cut up in any way, from `WireAssumption`:

* `Typing` and `StaysInStep`, the invariants that `wire` checks;
* `VarIntRoundTrip`: the decoder of a VarInt reads back what a peer wrote, in each of the four forms;
* `FieldsFit`: no field of any decoder ends behind its message, and the last one ends with it, unless a handler may end before it: one of
  an inv or a version whose count takes more than a byte, or of a filter of another type than 0 (`MayEndEarly`).

*The argument.* That the reader is in step is not inductive: it must be known within a payload, too. `Places` says that messages
lie one behind the other; `Aligned` that a handler which began at the start of a payload reads every field where
it is, and reads its last one up to the end of the message (by `FieldsFit`); `Behind` that whatever was handled
lies before the reader, so that even from garbage it never comes back to a message (`HandledInOrder`); `Step`, that while nothing has
spoiled it the reader stands at the end of what it has handled or in the message after it.

`WatchesProofs` proves of whatever implements `Watches`, for any requests, chains and matches:

* `NeverBeforeStart`, `OneBlockOnly`, `AtMostOnce`: a request is reported for no block below the one it
  was made with, for one block only unless it is persistent, and once for each block in which
  it has at most one match;
* `AllAccounted`: it is reported for no block more often than its matches up to that block account for (`Accounted`).

*The argument.* A watch that stands at a height has behind it all that was reported of its request (`Below`), and a
request that never matched twice in a block is at every moment one watch or one report (`Single`).

For the bound on reports, `Budgets` weighs what may still come of a watch: a watch that stands at
height h, or a report that is due for h, is worth the matches it may lead to. What was reported and what the watches and dues are worth together never exceed
`Growth`: a match turns the watch into as many dues as there are matches, a report turns its due into a watch one higher, and a loss only takes
away. This needs sums over heights. They are recursive functions, about which the library's induction theorems cannot be used, as these
take a predicate for a parameter; `Induction`, over a set of naturals instead, is proved from the well-foundedness of
the naturals and gives `Recursion` and the lemmas about sums.

`ScannerProofs` proves for any requests, chains, matches and numbers of errors, from `ScannerAssumption`:

* `Typing`, `NeverForgottenHolds`, `NoMatchMissedHolds`, `NoExtraReportsHolds`: the invariants that `scanner` checks;
* `PromiseKeptHolds`: `Scanner` implements `Watches`.

*The argument.* Nothing about the scanner depends on the order of a slice, only on how often a scan is in it. So what the proofs know
of `Repeat` and `Select` is how often a scan is in the result, as a count of positions: what is dequeued and what remains
make up the queue, the reports of a scan are as many as its matches. `IInv` is `TypeOK` and five parts, which TLC checked before
they were proved: whatever is in a slice belongs to a request that was made (`OnlyMade`) and stands where its slice is (`Below`, `Scanned`), no
request is lost between the slices (`Kept`), and all that a scan has behind it is covered (`AllPassed`). The last two are
`NeverForgotten` and `NoMatchMissed` for the requests on their way through `out` too, since a persistent request goes round through the batch, the reports and
the queue. The refinement takes an action of `Scanner` at a time: by the counts, dequeuing and requeueing leave
`WatchesNow` alone, a block that is scanned ends the watches that match in it, a report is a report, an error is a loss.
`NoExtraReports` is then what the theorems about `Watches` say of the scanner's watches.

*Only model-checked:* liveness, all of it, and with it `AddTxReturns`, `ReportsTaken`,
`RequestsTaken`, `ShutdownEnds`, `Served` and `ReaderEnds`: fairness and `ENABLED` are out of the prover's reach. Every invariant and every refinement
that a passing run checks is proved.

## Not modelled

* The fields of headers other than height and parent, what is in a filter. What the node writes: conversions
  without state. In `Wire`, the values of fields that no length depends on.
* Two accesses of the map `n.Peers` at once, which Go may detect and stop:
  an access is atomic here.
* Errors of a database read in `pkg/node`, except the one of `handleBlock` in `Wire`; Scanner has them.
* Writes to a web-socket that block, or meet a write of another goroutine.
* A restart in `NodeSync`. In memory it loses headers and filters alike; over pg a filter that was not there when the
  process stopped is never asked for again, and `Start` returns too early anyway (finding 1).
* `Start` of the scanner after `Stop`, which no code of the daemon calls.
* A `StartHeight` below zero, which becomes a height of four billion that no chain
  reaches; nothing says what it should mean.
* The block service (one HTTP request), the database set-up, the configuration, the commands and the
  HTTP middleware: input, output and logging without a state of their own.

## Plan

Done: all modules above, in this order: HeaderStore, ChainStore, HeaderSync, PeerMonitor, NodeSync, Scanner, Mempool,
Notification, Watches, Wire, with the proofs about all of them. What would come next:

1. **NodeSync with two peers**: what holds in spite of the two races named under Findings, and
   filters asked of a peer on another branch.
2. **Notification over Watches**: the scanner of Notification (a report for a watched
   subscriber, blocking) as an instance of `Watches`.
3. **Lemmas for liveness**: the safety half of the leads-to properties, such as that a fair step of a waiting
   request's goroutine is never disabled by another one.

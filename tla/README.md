# HexTeam P2P chat in TLA+

A serverless messenger for a local network: every peer runs one Python process
that finds its neighbours by UDP broadcast, keeps TCP connections with them, learns
routes to everybody else with a distance-vector protocol and sends encrypted
messages, files and calls hop by hop. These modules model its protocol core, check it
with TLC and prove its safety with TLAPS.

Paths are relative to the repository; `server.py` and the like are under `app/`.

- [The system](#the-system): components, state, operations, interactions
- [What is hard](#what-is-hard)
- [The modules](#the-modules), each with its correspondence to the code
- [The runs](#the-runs), their bounds and what they show
- [The proofs](#the-proofs)
- [Where code and documentation differ](#where-code-and-documentation-differ)
- [What is not modelled](#what-is-not-modelled) and [what comes next](#what-comes-next)

## The system

| Component | Code | State | Operations |
| --- | --- | --- | --- |
| Routing table | `network/routing.py` | `_table`: destination -> gateway, address, hops | `add_neighbor`, `get_route`, `get_next_hop_addr`, `remove_routes_via`, `get_advertisement`, `update_from_advertisement` |
| Announcements | `server.py` 624-707, 845-905, 947-994 | none of its own | HELLO broadcast, `_handle_datagram`, keepalive, `_handle_peer_info` |
| Connections | `server.py` 711-808, 907-945, 1149-1281 | `_clients`, `_peer_ids`, `_last_active` by address; `send_retries` | `_connect`, `send`, `_read_loop`, `handle_request`, idle clean-up |
| Relaying | the first half of every handler, `_flush_buffer`, `network/buffer.py` | `Buffer._buffer` | forward, buffer, drop, flush |
| Keys | `crypto/crypto.py`, `crud/keys.py`, `api/peer.py` 184-218 | key pair on disk, `Crypto.peers`, table `keys` with `verified` | initialise, KEY_EXCHANGE, safety number, verify, unverify, shutdown |
| Chat | `api/peer.py`, `server.py` 138-245, 996-1069, `crud/messages.py` | table `messages` with `delivered`, `retry_count`, `created` | send, MESSAGE, ACK, resend loop, expiry |
| Files | `api/files.py`, `server.py` 248-423, 1071-1147, `crud/file_transfers.py` | tables of transfers and chunks, chunk files | slice, FILE_CHUNK, FILE_ACK, assemble, resend, fail |
| Calls | `api/call.py`, `server.py` 466-586 | `active_calls` | offer, answer, end, audio |
| Ping | `api/ping.py`, `server.py` 426-463 | `pending_pings` | ping, pong, timeout |
| Notifications | `network/ws_manager.py`, `api/peer.py` 221-236 | `_connections`, `_lock` | connect, disconnect, broadcast |
| Identity | `api/auth.py`, `crud/users.py`, `__main__.py` | table `users`, `Server.peer_id` | register, current user, save peer names, start-up |
| Database, packet formats, frontend | `database/`, `protocol/`, `static/` | none that matters here | |

How they interact. Everything of a peer runs on **one asyncio event loop**: the HTTP
endpoints, one read loop per TCP connection, the broadcast, keepalive, idle, message
resend and file resend loops. They share the tables above without locks and can be
interrupted only where they await, which in the handlers is wherever they send. Peers
share nothing but packets. PEER_INFO changes routes and triggers a flush of the
buffer; the end of a connection removes routes; a MESSAGE that does not decrypt
triggers KEY_EXCHANGE; ACK updates the sender's database and the frontend.

What makes the parts correct, in a line each:

- routing: every row is usable and no nearer than the truth; the network converges to
  shortest paths; departed peers are forgotten;
- keys: a key stored for a peer is that peer's; users who see the same safety number hold each
  other's current keys; a mark of verification stays with the key it was set for; the exchange ends;
- chat: what is reported delivered was received; every message ends delivered or given
  up; between acquainted peers the retries overcome losses and restarts;
- relaying: handlers and flushes multiply nothing (a repeated `send` can), nothing circulates for
  ever, nothing waits in a buffer while there is a route, and buffers are bounded;
- files: an assembled file has every chunk once and in order; a file reported as completed has
  been assembled; every transfer ends;
- connections: every neighbour has a handler that will remove it; what is written is read;
  sends end and leave the shared retries as they found them;
- calls, ping: peers agree on the calls there are; every ping gets one answer, late ones none;
- identity: a node takes nobody else for its user and keeps its peer_id;
- notifications: no browser is passed over, all see one order, handlers get on;
- flow control: read loops that wait for each other are released, and beyond its room a connection holds
  at most one packet for each send in `drain`.

## What is hard

The `hazards` of PROJECT.json list these at their lines. In short:

- **Interleaving at awaits.** The endpoint sends a message *before* it saves the row; the
  recipient acknowledges *before* it stores; the resend loop works from a snapshot; a flush
  is suspended at each send while routes change and another flush begins; two sends connect to
  one address at once, and the failure of one closes what the other has opened; a first contact
  lowers `send_retries` for everybody until it is over; a key can be replaced between the request for its safety number and
  the request that marks it; a PONG and its timeout meet; browsers come and go
  while a broadcast walks their list; a read loop that awaits `drain` reads nothing, so two can wait for each other.
- **Order.** Two neighbours have up to two TCP connections, one opened by each side, so
  announcements overtake each other, and the dictionaries know only one connection per address.
  Offers, rejections and ends of a call cross. Peers and the local user
  share a table whose first row is taken for the local user.
- **Failure.** Links and processes fail and come back; routes, buffers and
  suspended handlers are in memory only, rows and keys survive; a peer may come
  back with *new* keys while sealed messages for the old ones are under way. A file is
  received in six writes, to the disk and to two tables, and a process can die between any two.
- **Limits.** `_MAX_DISTANCE`, TTL, 64 packets per destination, 3 retries, expiry, the room of a connection, the last
  slice of a file and the file without content.
- **Liveness.** Convergence, forgetting the departed, delivery by retry, the end of the
  key exchange, of every send, broadcast and ping.

## The modules

```
RoutingTable           MessageService     FileService
     |  EXTENDS              ^ INSTANCE        ^ INSTANCE
RoutingProtocol           Delivery        FileTransfer
                               \            /
                                KeyExchange   (both EXTEND it)

PacketService
     ^ INSTANCE
   Relay     Connections    Backpressure    Sessions    Identity    WebSockets
```

Each has an MC module (`MCRouting`, `MCKeyExchange`, `MCDelivery`, `MCFileTransfer`, `MCRelay`,
`MCConnections`, `MCBackpressure`, `MCSessions`, `MCIdentity`, `MCWebSockets`) and proofs, in `RoutingProofs`, `KeyProofs`,
`DeliveryProofs`, `FileProofs`, `ConnectionProofs`, `SessionProofs`, `IdentityProofs` and, for the three modules in which something
waits behind something else (Relay, WebSockets, Backpressure), `QueueProofs`; DeliveryProofs and FileProofs
EXTEND KeyProofs and reuse its invariant. What one module takes for granted another shows: the
outages and repairs of Delivery and FileTransfer are the routes of RoutingProtocol, the losses are the drops of Relay
and the sends given up in Connections, that a send in `drain` ends (taken for granted in Relay and
Connections) is Backpressure's `EverySendEnds`, and the `CloseConnection` of RoutingProtocol is the `HandlerEnds` or
`IdleCleanup` of Connections.

### RoutingTable: class `Routing`

Pure operators from the table before a call to the table after it, one per method.
A table is a function from known destinations to rows `[gateway, hops]`; name, ip and
port of a row are what its gateway announced, so the gateway stands for them.
`update_from_advertisement` is `Merged` (the loop of lines 128-152: only a strictly
shorter metric replaces a row, and not even the current gateway can lengthen one)
followed by the removal of `Stale` rows (lines 154-161), evaluated on the merged
table as in the code. `AfterPeerInfo` is what `_handle_peer_info` does to the table.

### RoutingProtocol: peers exchanging PEER_INFO

| Variable | Code |
| --- | --- |
| `table[n]` | `routing._table` of peer n |
| `inflight` | PEER_INFO in TCP streams; a *set*, as two connections allow any order |
| `closing[n]` | neighbours whose connection with n broke and whose read loop has not ended yet |
| `links` | the network the peers are in, chosen at the start among the constant `Networks` |
| `up` | which of its links work (the environment) |
| `faults` | a counter for the bound |

Actions: `HandleHello` (`_handle_datagram`: answer a broadcast with PEER_INFO over TCP),
`Keepalive` (only to direct neighbours), `Deliver` (`_handle_peer_info`),
`CloseConnection` (the `finally` of `handle_request` and the idle loop:
`remove_routes_via`), and the faults `LinkDown`, `LinkUp`, `Restart`. A connection that ends
although the network works (an idle or a read timeout, a reset) is a `LinkDown` and `LinkUp` before
either side has noticed. A PEER_INFO carries
`live`, false once its connection has broken: such packets may still be handled
until the close, not after.

### KeyExchange: keys and verification marks

`key[p]` is the key pair on disk, `peers[p]` both `Crypto.peers` and the `keys`
table (written together, and read back at start), `verified[p]` the marks. `owner`
remembers who generated a key pair and exists only for the properties; `shown[p][q]` is the safety number on the page of p's
user, as the two keys it is computed from. Actions: `InitiateKex` (the
endpoints, when there is a route and no key), `ReexchangeKeys` (a message did not
decrypt), `DeliverKex` (`_handle_key_exchange`), `ShowSafetyNumber`, `Verify` (two requests of the page, with anything
in between; the second names no key), `Unverify`, `Shutdown` (the
`finally` of the lifespan writes every key back, which resets the marks), `RegenerateKeys` (a
start without the keys directory), changing routes and lost packets. Storing
a key is `INSERT OR REPLACE` of two of three columns, so `HandleKeyExchange` drops
the mark whether or not the key changed; that is the code, not the intention.

### Delivery: chat messages, and MessageService: what they promise

`Delivery` EXTENDS `KeyExchange` and adds the `messages` table (`status`, `retries`), the resend
loop's snapshot (`queue`), packets under way and the halves of handlers that come after an
await: `SendMessage` then `SaveMessage` in the endpoint, `AcceptMessage` (send the ACK) then
`StoreMessage` in the recipient, `StartResending` then one `Resend` per row.
`Sealed` messages carry the pair of keys they were sealed with and open only for the same
pair, which is all that matters of NaCl Box. `status` "failed" is an endpoint that
died before it saved; "deleted" a row removed by `delete_expired_undelivered`. `unstored` is a history variable: the
messages whose recipient died between its ACK and its insert.

`MessageService` is the abstract promise in four sets: sent, received, delivered,
given up. `Delivery` implements it under the mapping at the end of the module, with
`received <- decrypted`, as the code acknowledges what it could decrypt.

The variable `world`, chosen at the start among the constant `Worlds` and never changed, holds the circumstances of a
behaviour and its bounds, so that one run covers several: `acquainted` (keys were exchanged before), `prompt` (delays and outages
are shorter than the ten seconds of `resend_interval`, so that a round starts only when nothing is under
way), `written` (the messages users write) and `max` (how many losses, restarts and outages there are). `prompt` is needed for the claims
that messages *are* delivered: without it three rounds can run before a slow ACK arrives, and the code rightly gives up.

### FileTransfer: a file in chunks, and FileService: what it promises

`FileTransfer` EXTENDS `KeyExchange`; one file goes from `From` to `To`. A file is the set of its
positions, `Slice(c)` the positions of chunk c, so that "the same SHA-256" is "the same set".

| Variable | Code |
| --- | --- |
| `transfer`, `rows`, `delivered`, `tries` | the sender's row in `file_transfers` and its rows in `file_chunks` with `delivered` and `retry_count` |
| `sending`, `round` | what the endpoint, and the resend loop, still have to send |
| `chunks`, `acks` | FILE_CHUNK and FILE_ACK under way |
| `incoming` | the recipient's chunk files (`saved`, `data`), the file `complete`, its row and `received_chunks` |

The endpoint writes both tables and then sends (`SendFile`, `SendChunk`); the loop fails a transfer with an
exhausted chunk or takes the undelivered ones down and sends them one by one (`StartResending`, `ResendChunk`).
`Saved` is `_save_and_finalize_chunk`: the chunk file, the row, the count, and with the last chunk
`_reassemble_file` and its check (`Finished`). It is composed of one operator per write, because `CrashSaving` stops it after
any of them, a chunk file or the assembled file half written included. `CrashSending` and `CrashMarking` stop the sender between two writes,
`Restart` either peer between two handlers. Expiry (`ExpireOutgoing`, `ExpireIncoming`) does not ask which side a
row is of: the recipient's row fails by its age too, and a late chunk can complete it still.

`FileService` is the promise: pieces are missing, are received, and a transfer that is open is completed, only
when nothing is missing, or fails; a failed one may yet be completed, a completed one stays so. The
mapping is `missing <- Chunk \ incoming.saved` and the sender's row for `outcome`.

### Connections: the TCP connections of one peer

| Variable | Code |
| --- | --- |
| `clients`, `peerIds` | `_clients` and `_peer_ids`, by address |
| `neighbours` | the direct rows of the routing table |
| `addr`, `handler` | the connections `handle_request` is busy with, before and after it registers them |
| `up`, `closing` | whether data can pass; `writer.is_closing()` |
| `task` | the calls of `send` under way: connecting, in `drain`, or asleep for `retry_delay` |
| `sendRetries`, `overlapped` | `send_retries` of the server; whether first contacts ever overlapped (a history variable) |

Everything between two awaits is one step, so `Attempt` looks the address up and writes at once and
`Connected` registers and writes at once, but two tasks can both be connecting to an address, and
`Fail` drops whatever is registered there by then. The clean-up (`IdleCleanup`) closes a connection
whose handler goes on reading; the end of any handler (`HandlerEnds`) forgets what is registered at its *address*,
another connection included, and removes the routes of the peer noted there. `Send` with `first` is the HELLO to a peer
without a route, which swaps `send_retries`. A connection that ends by itself and one closed by the
other side are both `Break`. `Owner` fixes who is at an address: that another peer takes over an address in use is not modelled.

### Sessions: calls and pings

`active[p]` is `active_calls`, `leaving[p]` the rejections whose endpoint has sent CALL_ANSWER and not yet removed
the call, `pending`, `future` and `endpoint` the entry in `pending_pings`, its future and its endpoint. `wire[p]` is a sequence: packets
of one peer for another arrive in order as long as nothing is disturbed. A disturbance lets a packet overtake another (`Overtake`: the
route changes, or a connection is replaced while its data is still being read), drops one (a relay without a route), holds an
offer in a relay's buffer (`Hold`, `Flush`: only CALL_OFFER is buffered) or restarts a peer. Audio and the acceptance of a call
change nothing that the program keeps and are left out. Bound: a call is not rejected a second time by one peer while its first rejection is being sent.

### Relay: packets through other peers, and PacketService: what they promise

Of the routing table only next hops are kept and any change of them is allowed, so
loops and flapping are included whatever metrics would say. `hop[n]`, `buffer[n]` are
`get_next_hop_addr` and `Buffer._buffer`; `wire` the packets sent and not read; `flushes[n]` the
suspended calls of `_flush_buffer`, each with the packets it has popped (`rest`) and the
destinations of its snapshot still to look at (`todo`). A handled packet does one of `Arrive`, `Forward`,
`Hold`, `Drop`; `Buffered` is the set of packets of kinds that wait for a route (MESSAGE, ACK,
KEY_EXCHANGE, FILE_CHUNK, FILE_ACK, CALL_OFFER), the others (PING, PONG, CALL_ANSWER,
CALL_END, CALL_AUDIO) are dropped. A flush skips destinations without a route
(`passed` in `FlushNext`), pops all packets of one that has and sends the first (one step, nothing is awaited before),
then the others one by one (`FlushSend`), where `send_to_peer` drops a packet whose route has
gone meanwhile. `SendAgain` is a send that fails in `drain` after its data has left and writes it once more: the copy on the wire is a
packet of its own, as the network beneath cannot tell them apart. HandlePeerInfo stands for what any announcement can do to next
hops and starts a flush; no other code gives a peer a route. The routes and the first step of that flush are one
step in the code and two in the model, which has more interleavings for it.

`PacketService` is the promise to the protocols above, in three sets: packets sent, under way, arrived. One that is under way arrives
once or is lost for good, and any number can be lost at once. The mapping takes for `underway` the packets that are on the wire, in a buffer or
in a flush. A network that promised less, one that sends a packet from two places, breaks it when the first copy arrives.

### Backpressure: connections that are full

Each of two neighbours writes on the connection it opened (`send` looks up the address its neighbour listens at) and reads the one it
accepted. `stream[p]` is what p has written and its neighbour has not read, `sends[p]` the calls of `send` in `drain` or asleep
before a retry, a bag, since calls for equal packets cannot be told apart. `waits` marks the call that the read loop of p is in: a handler
that answers is awaited, and until then `Handle` is not enabled. `Room` is how many packets TCP and asyncio's buffer take before `drain` suspends.
`CloseIdle` closes the connection p has stopped reading: nothing is waiting to be written there, so that the socket is closed at once, with data
unread, which resets it, and the drains of the neighbour fail (`Failed`). p's own full connection is closed too, but asyncio closes a
writer only after its data has gone, so this changes nothing for the neighbour. The keepalive loop writes to that connection
first or next and is then in the same drain, so it does not keep the other one from looking idle. That the
clean-up meets only connections whose reader is suspended is the one abstraction of time: `idle_timeout` is longer than
any round trip.

### Identity: who a process takes itself for

`users[h]` is the table `users` of the node at address h in the order SQLite reads it without an ORDER BY, which is that of
insertion (rows are never deleted); `peerId[h]` is `Server.peer_id`; `maker` remembers where a peer_id was generated and exists for the properties.
`Register` is the endpoint; `Broadcast`, `HandleHello`, `HandlePeerInfo` and `Keepalive` are the discovery messages as far as they
save peers; a node whose `peer_id` is empty neither sends HELLO nor answers one. `Restart` loads the first row, as `__main__.py` does. `LoseDatabase` is another
installation at the address. HELLO and PEER_INFO are addressed to hosts: a late HELLO, or a send that tries
again, reaches whatever runs there. A name that is taken leaves a peer unsaved (`INSERT OR IGNORE`), which can happen only if there are rows.

### WebSockets: browsers and events

`lock` is the holder of `_lock` and those who wait for it, in order, as asyncio wakes them; `connections` is `_connections`.
A broadcast goes through the list by `position`, each `SendNext` being the end of the send it is suspended in, and removes
the `dead` in the same step as it releases the lock (`StopSending`). An endpoint whose browser has gone leaves by
`disconnect`, which waits for the lock. A send to a browser that has gone fails or goes unnoticed.

### MC modules and mutants

`MC*` give constants their values and nothing else. Definitions commented `Fault:` are plausible
bugs (a dropped condition, an off-by-one, a missing removal) that stand before the
definition they would replace. No specification uses them; PROJECT.json pairs each with a
property that must notice it.

## The runs

| Run | Specification | Instance | Result |
| --- | --- | --- | --- |
| `MCRouting` | FairSpec | 3 peers: on a line, 2 announcements under way, 2 faults; in a triangle, 1 and 1 | holds, 111k states |
| `MCRoutingGhost` | Spec | triangle with a fourth peer, 1 fault | violation |
| `MCKeys` | KeyFairSpec | 2 peers, 3 key pairs, 3 KEY_EXCHANGE under way | holds, 114k states |
| `MCDelivery` | FairSpec | 3 worlds: see below | holds, 184k states |
| `MCDeliveryQueued` | FairSpec | 1 message, strangers, an outage of the sender's route | violation |
| `MCRelay` | FairSpec | 3 peers on a line, 3 packets, any routes along it, ttl 2, room for 1 packet per destination | holds, 269k states |
| `MCFiles` | FairSpec | a file of length 0 or 3 in chunks of 2, 4 worlds: see below | holds, 98k states |
| `MCConnections` | FairSpec | another peer with 2 addresses, 2 connections, 2 sends, 2 retries | holds, 284k states |
| `MCBackpressure` | FlowFairSpec | 2 peers, full with one packet, 2 attempts, 3 requests | holds, 123k states |
| `MCSessions` | FairSpec | a call, a ping each way, 1 disturbance | holds, 215k states |
| `MCIdentity` | Spec | 3 nodes, 3 peer_ids, 2 packets under way, 1 lost database | holds, 499k states |
| `MCWebSockets` | WsFairSpec | 3 browsers, 2 events | holds, 298k states |

**MCRouting.** `TypeOK`; `GatewayIsNeighbour` (every row's gateway has a direct row, so
`get_next_hop_addr`, which looks the gateway up, never fails for a known destination);
`NeighbourIsAttached` (a late PEER_INFO never leaves a neighbour that no read loop would remove);
`MetricIsSound`; `NeighbourLostOnlyByClose`;
`EventuallyConverged`: whatever failed, once links stay as they are the tables become exactly the shortest
paths, without a row for anybody who cannot be reached (here split horizon suffices to forget). On the line the middle peer relays, both ends
can be cut off, and two announcements between the same peers can overtake each other; two
faults allow a link to fail while the other side has not noticed the first failure, or
a restart while old announcements are still being read. In the triangle two ways compete: a row through the third peer must give way to the direct one after a
link comes back, and take its place when it fails. `Dist` and `HopsOver` are computed by `HopDistance` in
MCRouting from the links, independently of the protocol.

**MCRoutingGhost.** With a cycle and a fourth peer, forgetting (`SettledForgetsDeparted`) fails: see the findings below.
`MetricIsSound` and the other invariants do not depend on the topology, as the
proofs show.

**MCKeys.** `KeysAreGenuine`, `MarkStaysWithKey`, `ExchangeEnds` (unless users or failed
decryptions keep asking, the packets run out: `is_reply` does its work). Three key pairs let one peer
replace its own once; three packets let an old key, its successor and an answer pass each other. `EqualNumbersMeanCurrentKeys` is proved and was
compared with TLC on this instance, without a run of its own.

**MCDelivery.** Three worlds. In the harsh one, peers that have no keys yet, one message, and a loss, a restart
and an outage at any time, with delays of any length. In the two mild ones, acquainted and prompt peers, a message each way, so that both
sides exchange keys at once, and two losses or a restart (also with new keys, which costs a rejected
message, a key exchange and a resend). `DeliveredIsStored` (but for the death of the recipient between
this very ACK and its insert);
`ImplementsFairService`, the refinement of MessageService with its liveness: each message is at last delivered or given up, whatever is lost;
`KnownPeersGetMessages`: in the mild worlds the code's three retries suffice.

**MCRelay.** `RelayTypeOK` with the limit of the buffer; `BufferedHasNoRoute` (as soon as there is a route
for a buffered packet, some flush is still to come to it, although it may be a second flush
while the first is suspended); `NeverTwice`; `NothingCirculates`; `NothingStaysBuffered`. On a line of three the
middle peer can send a packet back where it came from, which is a routing loop; two packets for one end exceed a
limit of one, and the third, for the other end, gives flushes of the middle peer a second destination. With a ttl of 2
a packet can be forwarded and buffered, sent back and buffered again, and expires on the next hop. All packets of this instance are of buffered kinds; the others take the same
steps except `Hold`. The two packets for one end can also be one and its copy.

**MCFiles.** The lengths 0 and 3 in chunks of 2 are the empty file (one empty chunk) and a file whose last chunk is
shorter; two chunks are enough for them to arrive in either order, one twice and the other not at all. Four worlds:
acquainted and prompt peers with two losses, or with a restart; strangers with a loss and a restart at any time;
acquainted peers with a crash inside a handler, between any two of its writes, and an outage. `CompletedIsReceived` (without such a crash a completed
transfer has been assembled into the file that was sent); `DownloadIsWhole` (with one too, what can be downloaded is
the file); `CompletedIsFinal`; the refinement of FileService with its liveness; `FileArrives` (prompt and acquainted
peers get their file). Two retries are the fewest for which a retry can fail and another succeed.

**MCConnections.** The other peer is reached at the address it listens at and connects from another one, so two connections
can be at two addresses, or both at one when two sends open them at once. Two sends of two attempts each overlap in every way, as
ordinary sends or as first contacts; connections break and idle addresses are cleaned up at any moment. `NeighbourHasHandler`,
`RegisteredIsRead`, `RetriesRestored`, `DepartedForgotten` (a peer that no connection reaches any more is at
last no neighbour, whatever was registered over what), `SendsEnd`.

**MCSessions.** `CallsAgree` (peers agree on their calls as soon as nothing is under way, if no packet was dropped, held or overtaken),
`PendingIsWaiting` (an entry of `pending_pings` belongs to an endpoint that waits, and the reverse), `PingsEnd`.
Pings both ways mix PING, PONG, offers and ends in both streams.

**MCBackpressure.** `FlowTypeOK` (each read loop waits for one send at most, and that is an answer); `BacklogBounded` (beyond its room a
connection holds a packet at most for each send that waits, however sends fail and are repeated); `EverySendEnds`. Room for
no packet makes every send wait until it is read, the tightest there is; with two requests one way and one the other both loops answer into full
connections, and a second attempt meets answers of the first.

**MCIdentity.** `OwnRowFirst` and `RunsAsRegistered`, both of nodes that have kept their database. Three nodes, because the answer that
misleads a new installation comes from a second one to the predecessor, and a third can pass either on to an innocent one; three peer_ids
let one node register twice. Nodes and peer_ids are interchangeable and nothing here is about liveness, so TLC may take them as symmetric.

**MCWebSockets.** `NobodyPassedOver` (clients before the position of a broadcast have the event or have gone), `WsTypeOK` (`list.remove` finds
what it is to remove), `SameOrder`, `BroadcastsEnd`, `GoneIsForgotten`. Three browsers allow one to leave before, at and behind the position;
two events wait for each other.

**Bounds.** MaxQueued, MaxInFlight and MaxKex cap packets under way, MaxFaults, `world.max` and MaxDisturbances the
faults, MaxLosses the databases lost, MaxPackets the announcements under way and MaxRequests the packets to be answered, `world.written` what users write, Conn and Task what is open at a time; Sizes and ChunkSize are the files considered.
MaxDistance, and MaxRetries of Delivery, are the code's own limits; Ttl, MaxPerDestination, SendRetries, and MaxRetries of FileTransfer are those of the code made small, like Room (a violation needs no larger
instance). `CHECK_DEADLOCK FALSE` appears in the Delivery, FileTransfer, Sessions,
Backpressure and WebSockets runs only: there everything has been said once all messages, transfers, pings or events are settled, the call is over and the faults
and requests are used up.

**Mutants.** PROJECT.json pairs every property with a `Fault:` definition; TLC finds the property violated with it.

**Fairness.** The loops of `server.py` never return, so announcing, keepalive and
resending recur; a read loop handles each line it reads and a suspended coroutine is
resumed, hence weak fairness of handlers and of the second halves of handlers; a broken connection is
closed by end of stream, reset or the read timeout. Announcing is *strongly* fair since
MaxInFlight, which the program has not, could otherwise starve one peer. A connect ends by the time limit of
TCP, a send can hang in `drain` only until the idle clean-up closes its connection, so `Connected`, `Drained` or `Fail`
comes at last, and `retry_delay` passes. The timeout of a ping fires. A send
to a browser ends: it reads, or uvicorn drops it after its ping timeout. In Backpressure the clean-up, which never returns either, comes
round to the connection that is not read. Routes come back
(`Repair`) because announcements recur, which is what MCRouting shows. Users, faults, the idle clean-up of
Connections and repairs of links are never fair.

**Types.** A type invariant is a property of a run where it says more than types (tables and gateways of routing, the limit of the buffer, the dead of a
broadcast, who waits in Backpressure). The others, `KeyTypeOK`, `DeliveryTypeOK` (with the bound of retries), `FileTypeOK` (no chunk is counted that is not there),
`ConnTypeOK`, `SessionTypeOK` and `IdTypeOK`, are proved for all constants and not run as well, and so are `AckedWasDecrypted`, `IdentityKept` and the safety part of the refinements,
`ImplementsService`, which `ImplementsFairService` implies. `ImplementsNetwork` of Relay and the two theorems about settled tables are proved and were
compared with TLC on the instances of MCRelay and MCRouting, without a run of their own: the former alone would lengthen MCRelay by half,
and `NeverTwice` is its hard part.

**Further instances.** Beside the runs lie `MCKeysMark.cfg`, `MCKeysCompared.cfg`, `MCFilesCrash.cfg`, `MCRelayFlush.cfg` and `MCIdentityLost.cfg`: each checks one statement of a comment or a document that the code
does not keep, and TLC answers with a behaviour in seconds. See [below](#where-code-and-documentation-differ).

## The proofs

All for any constants that satisfy the modules' assumptions, by induction over
behaviours; no step is left out.

**RoutingProofs.** The assumptions are that links of a network join two different peers, that `MaxDistance` is at
least 2, and that `Dist` is *some* lower bound of distances over links (zero from a peer to itself,
1-Lipschitz), which the hop distance is.
The inductive invariant has three parts. `Sound`: tables and announcements are well typed and every gateway has
a direct row; this is needed at `update_from_advertisement`, whose second half removes rows by gateway and could
otherwise orphan others. `Attached`: the *gateway of every row*, not only a
neighbour's own, is attached or about to be removed, and so is the sender of every PEER_INFO
still to be handled; without the latter a late packet could install a dead neighbour. `MetricIsSound` is inductive with `Sound`, as
an announcement was true when sent and distances do not change with faults. Theorems: `TypeCorrect`,
`GatewayAlwaysNeighbour`, `RoutesUsable` (`get_next_hop_addr` answers for every row), `NeighboursAttached`,
`MetricsSound`, `NeighbourKept` (an action property).

*What tables settle to.* Convergence itself is liveness, but where the protocol can come to rest is not. `Settled` says that
nothing is under way and no announcement would change a table. `GatewayIsNearer` (the gateway of a row is nearer to its
destination than the row says, by a hop) is one more invariant; from it, by induction along a way, `SettledRoutesAreShortest`: a peer that
can be reached over working links by a way as short as the network has at all is in the settled table with that distance, whatever failed before.
And `MendedConverged`: in a settled state in which all links work, the tables are exactly the shortest paths, with no row for
anybody else. The latter assumes that `Dist` and `HopsOver` *are* the hop distances (`HopsAreExact`), which MCRouting computes for its networks. That all links
work cannot be left out: see *A metric too small* below.

**KeyProofs.** `KeyInv` is `KeyTypeOK` and `KeysAreGenuine`; the latter includes packets under way, which is
what makes it inductive. Equal safety numbers are equal pairs of keys, and since each peer's own key and what is stored for it were generated by that
peer, the pairs match key by key. Theorems: `KeyTypeCorrect`, `KeysGenuine`, `EqualNumbers`, `MarksStayWithKeys`.

**DeliveryProofs.** `IInv` adds `QueueInv` (a row in the resend loop's snapshot belongs to its
sender and has retries left, which bounds `retries` although the row may have been
acknowledged since), `Origin` (what is under way or was decrypted was sent before) and
`AckedWasDecrypted`. The keys' part is reused from KeyProofs: every step of Delivery is a key step
or leaves the keys alone. `StoredInv` extends `DeliveredIsStored` to all that was decrypted, which is what makes it
inductive. Theorems: `DeliveryTypeCorrect`, `AckedDecrypted`, `DeliveredStored` and `Refinement` (Delivery implements
`MessageService!Spec`; `Simulation` maps each step to Send, Receive, Deliver, GiveUp or a stutter).

**FileProofs.** For a file of any length, chunks of any size and any faults. `SlicesJoin` is the arithmetic: the slices of the
`TotalChunks` chunks make up the file, whether or not its length is a multiple of the chunk size, and also when it is zero. The invariant
has the sender's part (rows are of all chunks or of none, and what the loop took down has retries left, which bounds `tries`), `AckedInv` (only
what is saved is acknowledged; a transfer is completed when all of it is saved), `Origin` (nothing comes before the transfer)
and the recipient's part: `Whole` (a completed row stands for the whole file), which survives crashes because the check of
the hash is passed before the row is completed, and `Exact` (what is saved is counted once, is right, and is completed
with the last chunk), which holds as long as no handler is interrupted. `CompletedReceived` is `AckedInv` with `Exact`. Theorems:
`FileTypeCorrect`, `CompletedReceived`, `DownloadsWhole`, `CompletedFinal` and `Refinement` (FileTransfer implements `FileService!Spec`).

**ConnectionProofs.** For any addresses, connections and sends. `NeighbourHasHandler` is inductive once it is split: every neighbour is
noted for an address, and what is noted for an address is its owner and has a handler there. The second part must be about *all* notes, not only
those of neighbours, since a send notes a peer that a PEER_INFO may make a neighbour later. It rests on
`RegisteredIsRead`: a send notes an address only when it writes to a connection registered there. `OneKeepsRetries` says that without overlaps one first contact at most holds the
saved value, and that it is all of them. Theorems: `ConnTypeCorrect`, `RegisteredRead`, `NeighboursHandled`, `RetriesKept`.

**SessionProofs.** `IInv` is typing, `PendingIsWaiting` and `Offers` (an offer under way is of a call that was offered). `AgreeInv`
generalises `CallsAgree` to states with packets under way: a call is live for a peer that holds it or will be offered it, does not
leave it, and is not to hear that it is over; it is live for both peers or for neither. That needs streams in order: nothing
about a call is before its offer; an overtaking packet counts as a disturbance. Theorems: `SessionTypeCorrect`, `PendingWaits`, `CallsSettle`.

**QueueProofs, Relay.** `RelayInv` is `RelayTypeOK`, finiteness of the buffers (so that the limit, a
cardinality, can be counted) and `BufferedHasNoRoute`. The argument of the latter: only PEER_INFO brings routes and it
starts a flush with every destination of the buffer before it; a flush takes a destination off its list only
with all its packets, or when it has no route or no packets; and a packet is buffered only when it has no route.
`OnceInv` strengthens `NeverTwice` to all the places a packet can be in at once, the wire included: a handler takes it from the wire before it puts it
anywhere, flushes take disjoint parts of a buffer, and what `send` repeats is a new packet. With it every step sends one packet, lets one arrive, or loses some (`NetworkSimulation`), because
a packet that arrives has no other copy that would remain under way. Theorems: `RelayTypeCorrect`, `BufferedUnrouted`, `PacketsSingle` and
`NetworkImplemented` (Relay implements `PacketService!Spec`).

**QueueProofs, WebSockets.** For any number of browsers and events. `LockInv`: who asks for the lock is in its queue once, and a broadcast that
sends is at its head, so that nobody else changes the list. `ListInv`: the list names only clients whose endpoint has not left it. `LoopInv`: nobody has the
event of a broadcast that has not begun; of one that is sending, nobody from its position on has it, and whoever has it got it last. So, one
broadcast sending at a time, two events are in the order of their broadcasts everywhere. What the recursive function `Without` leaves of a list, also
without duplicates, is shown by the least counterexample (see below). Theorems: `WsTypeCorrect`, `NobodyIsPassedOver`, `OneOrder`.

**QueueProofs, Backpressure.** For any room, attempts and requests. Equal sends are counted in a bag, and `InDrain` numbers them so that
they can be counted as a set: one more in the bag is one more in the set (`InDrainWith`, `InDrainLess`). The hard step is `CloseIdle`, where all the drains of one peer
fail at once and become sleeps, some equal to ones already there (`FailedProperties`); its backlog is then
empty. Theorems: `FlowTypeCorrect`, `BacklogIsBounded`.

Where a recursive function or a way of many hops calls for induction over data, the proof takes the least number in a set for which the
claim fails (`LeastNumber`, from the well-foundedness of the naturals) instead of the library's induction theorems, whose operator
parameters the installed provers cannot instantiate.

**IdentityProofs.** For any number of nodes and peer_ids. What is wanted of the first row needs three facts together (`IInv`, with typing): every
identity a node runs with or announces was generated somewhere (`Made`); a node that kept its database has its own user first and runs
with it (`OwnUser`); and one that has not registered has never been heard of, so that no PEER_INFO is addressed to it and no connection leads to
it (`Unheard`), which is what keeps its table empty until it registers. Theorems: `IdTypeCorrect`, `OwnRowIsFirst`, `IdentityReported`, `IdentityStays`.

**Only model-checked.** All liveness (`EventuallyConverged`, `ExchangeEnds`,
`ImplementsFairService` of both services, `KnownPeersGetMessages`, `FileArrives`, `NothingCirculates`, `NothingStaysBuffered`,
`DepartedForgotten`, `SendsEnd`, `PingsEnd`, `EverySendEnds`, `BroadcastsEnd`, `GoneIsForgotten`), which the proof
system does not reach with fairness; and `SettledForgetsDeparted`, which
fails on the network of MCRoutingGhost. Every invariant and every action property of a passing run is a theorem.

## Where code and documentation differ

The first two are shown by violation runs (`findings` in PROJECT.json), the others by the further instances:

1. **Ghost routes** (`MCRoutingGhost`, `routing.py:143`). A departed peer can stay in the tables of a triangle
   for ever: each hears of it from the next, and since the current gateway's longer metric does not
   replace a row, nobody counts to infinity. Settings and `get_route` promise it is forgotten.
2. **Queued and lost** (`MCDeliveryQueued`, `server.py:1025`). A message whose sender has neither a route nor the key is
   "queued for later delivery", but the resend loop counts attempts it cannot make and never asks for the key. In the run the
   recipient can answer all along, the sender's route comes back, and the message is deleted with no packet sent.
3. **Lost marks** (`MCKeysMark`, `crud/keys.py:11`). A repeated KEY_EXCHANGE with the same key removes the user's
   verification, which `reset_verified=key_changed` intends to keep.
4. **Marked unseen** (`MCKeysCompared`, `api/peer.py:206`). `verify_peer` marks a peer "after out-of-band safety number comparison"
   (`api/peer.py:201`), but its request names no key: if a KEY_EXCHANGE replaces the key after its number was shown, the new
   key, whose number nobody has seen, gets the mark.
5. **Counted short** (`MCFilesCrash`, `server.py:277`). A recipient that dies between writing a chunk and counting it
   skips that chunk when it comes again, acknowledges it, and never assembles the file its sender sees as completed.
   `docs/PROTOCOL.md:134` and `README.md:137` say it does after receiving all chunks.
6. **Dropped by the flush** (`MCRelayFlush`, `server.py:86`). `README.md:141` says packets without a route are buffered and sent when one appears. A flush takes out
   all packets of a destination, and those whose route goes while an earlier one is being sent are dropped.
7. **Somebody else's identity** (`MCIdentityLost`, `crud/users.py:48`). `get_current_user` returns the first row, "the only locally registered
   user" by its own words. At an address whose node was installed anew, a late PEER_INFO puts a remote peer there before the user registers: `/me` reports
   that peer, `/register` answers 409, and the next start-up runs with its peer_id.

Noticed while reading or proving, without a run of their own:

- *A metric too small* (`routing.py:143`, the rule of the ghost routes). In a triangle a, b, c with d attached to a, the link of a and b fails for good. If a
  hears of b from c before it next announces to d, it announces two hops; d's row for b says two hops via a, the three it now
  hears of are not fewer and b is still announced, so that the row stays as it is for ever. Packets still arrive, since the gateway is right. It is why `MendedConverged` asks
  for all links.
- `docs/PROTOCOL.md:76` and `README.md:83` say keys are exchanged on contact; no code does so after PEER_INFO.
- `docs/PROTOCOL.md:89` says KEY_EXCHANGE is answered at first contact; the code answers every request.
- `README.md:150` promises a confirmation of delivery, and the ACK goes out (`server.py:198`) before the message is stored: a
  recipient that dies in between has lost a message its sender counts as delivered. `DeliveredIsStored` says that there is no
  other way to lose one.
- Two first contacts that overlap leave `send_retries` at 1 for good (`server.py:687-701`): the second saves what the first has
  lowered, and restores it last. And during any first contact all other sends get one attempt. `RetriesRestored` exempts overlaps.
- A crash between the two UPDATEs of `mark_chunk_delivered` (`crud/file_transfers.py:70-84`) leaves a transfer with nothing
  to resend, which fails after an hour although the file has arrived.
- After a drop, an overtaken packet, a buffered offer or a restart a call can stay active on one side for good; nothing in the code ends it but its user.

## What is not modelled

- **Database access**: each statement commits at once and is atomic; a crash loses none of it. **Packet formats**: packets are taken to be
  well formed, their JSON is not modelled. **Frontend**: display only.
- In RoutingProtocol two connections of a pair of neighbours are one (its packets unordered): the end of either removes the routes.
  That the other may live on, and that a neighbour has a handler all the same, is in Connections.
- A send that fails after its data has left is repeated by `send` and may duplicate a packet. In Relay (`SendAgain`) the copy
  counts as another packet, so that `NeverTwice` is about handlers and flushes; handlers of the end points meet every packet twice in
  Delivery and FileTransfer, by resends. KeyExchange does not repeat a KEY_EXCHANGE by itself: users who ask twice do.
- In Connections: an address that another peer takes over, the pause after the last attempt of a send when a first contact has raised
  `send_retries` meanwhile, and the list of handler tasks, which nothing reads.
- In Backpressure: sizes in bytes, keepalives as traffic, relaying through a third peer (its read loop waits for room as any other), and a second
  connection of one peer while its closed one is still being flushed.
- In Identity: the names of users, beyond that a name can be taken, and the deletion of keys without a peer_id at registration.
- Cryptography beyond which keys open what; the digits of the safety number and their collisions; call audio; round-trip times; HTTP, display names, logging and queries.

## What comes next

The modules were written in the order routing, keys, chat, relaying, files, connections, sessions, identity, notifications, flow control, each
checked before it was proved about; every safety property of a run is proved. Left to ask of this code is a composition of Relay with
Connections, whose sends would be those of Connections, so that a packet and its copy would be one and PacketService would
have to allow it to arrive twice.

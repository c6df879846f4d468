# dsh-proxy: specifications, model checks and proofs

dsh-proxy lets a phone reach a Mac that never opens a port. A *bridge* (the Mac)
dials out and keeps one encrypted link; a *phone* arrives over TLS and a
WebSocket, names a bridge by its public key, and has its bytes spliced onto one
stream of that bridge's link. This directory holds TLA+ models of the proxy's
own logic, the TLC configurations that check them on small instances, and TLAPS
proofs of what matters most for instances of any size.

Source references are to the repository: `src/mux.rs:125` is line 125 of that
file. `PROJECT.json` maps every definition to the lines it translates.

## 1. Inventory

| Component | State | Operations | Talks to |
|---|---|---|---|
| `MuxSession` (`src/mux.rs`) | map of streams, `next_id`, stream budget, outbox channel, abort handles | `start`, `try_open_stream`, `read_loop`, writer task, `shutdown` | bridge over the link; `StreamTx`/`StreamRx` of each splice |
| Stream halves (`StreamTx`, `StreamRx`) | credit semaphore, inbox channel | `send`, `grant`, `close`, `recv` | the session's outbox and map |
| Splice (`serve_client`, `src/lib.rs`) | detached uplink task, pinned downlink, `pending` grants | send the preamble, read, write, grant, select, close | phone's carrier, stream halves |
| Bridge admission (`run_edge`, `serve`, `serve_bridge`, `IpSlot`) | process budget, per-IP counts, routing table | peek, preamble, claim, handshake, register, displace, unregister, drop | `MuxSession::start`, `shutdown`; the table is read by `serve_client` |
| WebSocket carrier (`WsStream`, `src/ws.rs`) | `incoming`, `plain`, `outgoing`, `closed` | `poll_read`, `decode`, `drain`, `poll_write`, `poll_flush`, `poll_shutdown` | TLS socket below, splice above |
| Client edge (`run_edge`, `src/edge.rs`) | per-IP client slots, each shared by two tasks | peek, claim, TLS accept, `/health`, `/tunnel` upgrade, preamble | hyper, rustls; `serve_client` |
| `MuxStreamIo` (`src/mux.rs`) | coalescing buffer, pending send, owed credit | `poll_read`, `poll_write`, `poll_flush`, `poll_shutdown`, drop | stream halves; used by the loopback bridge of the tests |
| Noise (`src/noise.rs`) | two nonces, the unread bytes of the link | `xx_respond`, `encode`, `decode` | snow; below `read_loop` and the writer |
| Wire, TLS files, command line | none after start | - | - |

What is hard here: everything is shared between tokio tasks on many threads. A
session is torn down from two places while phones open, send and close; a
bounded outbox is shared by the reader, every uplink, every downlink and every
closing stream; credit gates must be closed exactly when nobody is left to grant;
a link may die by end of file, by silence, by a bad frame, or because a newer
link took its key; the per-IP count is released in two steps, by whichever of two
tasks lets go last; an encrypted frame is recognised only by its place in the
stream. What makes each part correct is stated in section 4; the 38 places where
this can go wrong are the `hazards` of `PROJECT.json`.

## 2. Modules

| Module | Models | Checked by | Proved in |
|---|---|---|---|
| `MuxSession` | one link, its two tasks, its streams and the splice of each phone | `MuxStreams`, `MuxLive`, `MuxOrphan`, `MuxFuturelock` | `MuxSession_proofs` |
| `FlowControl` | the byte windows of one open stream, both directions | `FlowControl`, `FlowSmallFrames` | `FlowControl_proofs` |
| `IpSlots` | the per-IP counts and their two-step release | extended by `BridgeRegistry` and `ClientEdge` | `IpSlots_proofs` |
| `BridgeRegistry` | admission, registration, takeover and release of bridge links | `BridgeRegistry` | `BridgeRegistry_proofs` |
| `RouteTable` | the abstract routing table `BridgeRegistry` implements | as property `ImplementsRouteTable` | `BridgeRegistry_proofs` (safety) |
| `ClientEdge` | a TLS client from accept to the end of its tunnel, and the slot it holds | `ClientEdge` | `ClientEdge_proofs` |
| `NoiseLink` | the bytes of one bridge connection: preamble, handshake, sealed frames | `NoiseLink` | `NoiseLink_proofs` |
| `FramePipe` | the abstract pipe of frames one direction of `NoiseLink` implements | as property `ImplementsFramePipe` | `NoiseLink_proofs` |
| `WsStream` | the carrier of one phone under split halves | `WsStream`, `WsStaged` | `WsStream_proofs` |
| `StreamIo` | `MuxStreamIo` over one stream, its peer and a shared outbox | `StreamIo` | `StreamIo_proofs` |

How they fit: ClientEdge hands a phone to the splice of MuxSession, whose carrier
is WsStream and whose byte windows are FlowControl; BridgeRegistry adopts a link
once the handshake of NoiseLink has succeeded, and shuts sessions down; the
frames MuxSession moves cross the pipe NoiseLink implements. Where one module
needs another's outcome it has a step for it (`Handshake`, `LinkDies`, `Evict`).

Definitions whose comment begins with "Mutant" are plausible mistakes in the
operator that follows them. No specification uses them; substituted for their
original they show that each property can fail.

### MuxSession

A step is what a task does between two points at which another thread can see or
change what it uses. `pc[c]` is the `serve_client` task of phone `c`: `reserved`
after the permit and the id, `announce` after the insert, `head`/`head_push` while
the preamble goes out, `up` while spliced, `closing` between the two halves of
`StreamTx::close`, `done`. `up[c]` is the detached uplink, which outlives `done`;
`down[c]` the downlink, `shut` while it is in `writer.shutdown()`. `reader`,
`rsend` and `writer` are the link's tasks: `rsend` is the frame the reader is
parked sending, and the inbox whose sender it still holds meanwhile. `shut` is an
outside `shutdown()`.

`streams[i]` is the owner of an entry; its permit is counted, not named, because
`insert` and `remove` drop the entry and its permit together (`Freed`). The
channel's receiver dies with the writer, so `Push` fails exactly when the writer
is dead. The idle timer runs only in `reader = "next"`, as in the code.

The outbox hands its slots to waiting senders in the order they came. One detail
of that queue shows outside: `select!` in `serve_client` stops polling the
downlink when the uplink ends, but the downlink stays pinned, and if it was
waiting in `tx.grant` it keeps its place (`down = "queued"`). When its turn comes
the slot is assigned to it (`AbandonedAssigned`, `"holds"`) and stays taken until
`serve_client` returns, for which the CLOSE must be sent first. `Wedged` says
that all slots are held like that.

Reductions, and why they lose nothing the properties see:

- a DATA frame costs one credit; sizes are FlowControl's subject. As in the code a
  WINDOW frame adds what it says, past the window if the bridge likes; `MaxPermits`
  bounds how much;
- a frame of the bridge is read the moment it is sent, so an order in which it
  travels is an order in which it is sent. The bridge sends only on ids it
  believes open (`bview`), and its view changes when a batch is flushed;
- `retain` sweeps shard by shard; an entry inserted behind the sweep is one
  inserted after it, so the sweep is one step;
- DATA for an entry whose receiver is gone is the no-op `Closed` arm;
- a closed stream's inbox and downlink are reset: they are never used again;
- `bridge = "silent"` means a peer that neither reads nor sends while TCP stays
  up. Its socket may still buffer, so a flush may succeed, and nothing makes it
  fail.

### FlowControl

A queue is a number of frames and a number of bytes, and a frame taken from it
has any size that leaves a possible queue (`Fits`). `bCredit` is the bridge's
credit, `pending` what the downlink has written and not granted, `granting` the
WINDOW frames under way. The other direction is `credit`, `upWire`, `owed`.
The two ASSUMEs are the relations the constants of `src/wire.rs` satisfy:
a payload fits the window, and `GRANT_THRESHOLD + MAX_PAYLOAD <= WINDOW + 1`.

### BridgeRegistry and RouteTable

`pc[c]` follows `serve` and `serve_bridge` with one label per operation on
shared state, drop order included: the per-IP slot (two steps), then the permit.
`link[c]` reduces MuxSession to `live`, `aborted`, `dead`; `prev[c]` is the
displaced session between `table.insert` and `shutdown()`. `RouteTable` says in
three actions what the table promises; the refinement maps `table` to `route`
and derives each link's status. Claims and releases are the actions of `IpSlots`.

### ClientEdge

`conn[c]` is the task of `run_edge` and `Edge::serve`, `tun[c]` the task `tunnel`
spawns (`closing` is `tx.close().await`), `uplink[c]` the uplink `serve_client`
spawns and leaves behind: it reads, waits for credit, waits for the outbox. `refs[c]`
counts the clones of the `Arc<IpSlot>`; dropping the last runs the two steps of
its release. `phone[c]` distinguishes a phone that hung up, which a reader is
told, from one that vanished, which only a timeout or a failing write reveals.
Data a phone sent before it left may still arrive, so leaving disables nothing.

### NoiseLink and FramePipe

`wire` is the sequence of messages from the bridge, `whole` and `part` how far the
socket has delivered it, one unit at a time, so every way TCP can cut the stream
is explored. `read_exact` and `read_frame` take one message; `decode` waits for a
whole one. Cryptography decides acceptance: a handshake message must be the one
due and intact, a sealed frame must be intact, cut where it was sealed, and sealed
under the nonce the decoder is at. The first message of XX is not sealed: damaged
but of the right length it is answered like a good one (`misreply`), and then the
bridge, whose transcript differs, does not prove itself (`astray`). The network
may corrupt, drop or repeat a message or change its length prefix. `enonce`,
`outbuf` and `opened` are the other direction, where only the agreement of nonces
matters. FramePipe says what the mux relies on: frames in order, once each, until
the pipe breaks.

### StreamIo

Bytes are counted. `send` is the send in flight: what it has not put into a frame,
the frame it holds credit for, and whether it has been polled, since only
`poll_flush` polls it. `wake` is the wake-up that has `poll_flush` called again.
`op` is the caller's operation and the steps of its end: `poll_shutdown` and
`Drop` offer the last credit and then CLOSE with two `try_send`s, between which
the writer may make room. `withheld` and `refused` record that the last WINDOW or
CLOSE found the outbox full.

### WsStream

The split's lock makes a poll atomic. `up = "poll"` is the uplink inside
`poll_read`, one step per turn of its loop; a poll of the downlink is one step.
`wwake` is the one write waker a tokio socket keeps: that of the task that last
found it full. The history variable `stolen` records that the uplink's drain
after a ping replaced the waker of a waiting downlink. Frames from the phone are
kinds that arrive in parts; a frame to the phone is a number of bytes. `PlainTaken`
is the check that opens each turn of `poll_read`: payload in hand is returned before
anything is decoded.

## 3. Bounds

| Run | Bounds | Why they are enough |
|---|---|---|
| `MuxStreams` | 1 phone, 1 permit, outbox 2, batches of 2, ids 0..2, the bridge opens id 2, bad frames, loss | phone and bridge race for the only permit; OPEN and CLOSE of a stream share a batch; the bridge may grant one permit past the window; the theorems of MuxSession_proofs lift the number of phones |
| `MuxLive` | 1 phone, outbox 1, silence, shutdown, no permits past the window | a full outbox is a single frame away and one abandoned grant wedges it; more permits only make the uplink wait less |
| `MuxOrphan`, `MuxFuturelock` | 1 phone, at most one kind of fault | the smallest instance that shows each behaviour |
| `FlowControl` | window 8, payload 3, threshold 4, inbox 4, frames of 1..3 bytes | the same order as the code's constants (inbox frames below window / smallest frame, threshold half the window), payloads that do not divide the window |
| `BridgeRegistry` | 4 connections, 1 key, 1 address, 3 links, 2 per address | the third link of an address and the fourth of the process are refused; three generations of one key; more keys only add independent tables |
| `ClientEdge` | 2 connections, 1 address, 1 slot | the second connection is refused, or claims between the two steps of the first one's release; addresses are independent |
| `NoiseLink` | preamble of 2 units, bodies of 1 and 2, 2 frames each way, 1 mangled message | a frame follows another and the handshake; cuts fall in prefix, body and between; each kind of damage hits each kind of message |
| `WsStream` | 3 phone frames, 2 chunks, socket 1, data frame 2, backlog 1 | every frame to the phone is partial, and the third ping is past the limit |
| `StreamIo` | window 4, payload 2, threshold 2, coalescing 3, outbox 2, 3 writes of 2 bytes, buffers of 1 and 2 | writes fill and underfill the buffer, a send takes several payloads and runs out of credit, reads are partial, WINDOW and CLOSE compete for the last slot |

`MaxFrames`, `MaxChunks`, `MaxMangles`, `MaxWritten`, `MaxPermits` and the size of `Clients` and
`Conns` bound how long a behaviour is, not what may happen; the proofs lift
them for the safety properties. Deadlock checking is off
because each system may come to rest: every phone gone, nothing to say.

## 4. What the runs show

Passing:

- **MuxStreams.** `BudgetExact`: every permit is free, reserved or held by one
  entry, whatever the order of opens, removals, sweeps and displacements.
  `NoHalfOpen`: on a live link, a stream the bridge believes open and the proxy
  has dropped has a CLOSE queued or some task parked sending one.
  `EvictionClosesGate`: whoever takes a stream's entry away has closed its gate.
- **MuxLive.** `HalfDeadLinkCloses`: an abort ends both tasks, and a writer that
  fails by itself is noticed. `EvictedStreamEnds`: a phone whose stream is gone is
  let go, unless the writer hangs on a silent bridge or the outbox is Wedged.
  `HalfOpenCloses`: a CLOSE is not lost in a full outbox, unless it is Wedged.
  `SilenceEndsSession`: silence ends the session unless the reader is in `send`,
  where no timer runs; `src/mux.rs:29`, "Silence longer than this ends the
  session", says more than that. `EvictedSenderWakes`: an uplink waiting for
  credit when its stream is evicted is woken. The property leaves out the uplink
  whose own `serve_client` has closed the stream: `StreamTx::close` removes the
  entry without closing the gate (`close_stream` does close it), so no sweep finds
  it and it waits forever, against `src/mux.rs:124`.
- **FlowControl.** `DownConserved`, `UpConserved`: credit is neither lost nor
  minted. `NoStall`, `CreditReturns`: bytes held below the grant threshold never
  leave the bridge without credit for a full frame.
- **BridgeRegistry.** `BudgetExact`, `SlotsExact`, `ZerosReclaimed`: admission
  counts are exact and zero entries are on their way out, through the two-step
  drop. `RoutesServed`, `NoStrandedLink`: no phantom routes, no live link without
  a route. `SlotsReturn`: a dead link gives everything back.
  `ImplementsRouteTable`: the code refines RouteTable, its liveness included.
- **ClientEdge.** `ClientSlotsExact`: an address's count is the number of its
  connections that the HTTP task or the tunnel task still serves, in whatever
  order the two end. `HangupReleases`: a phone that leaves gives back slot and
  socket and its tasks end, or else one of them waits from then on for good, in
  one of two ways, each of which the run reaches. `AwaitsLink`: `try_open_stream`,
  the head, a DATA frame or `tx.close()` waits for room in the outbox, or the uplink
  for credit; none of these has a timeout, MuxFuturelock shows a link whose outbox
  never moves again, and an uplink parked there does not read, so it cannot see the
  hang-up. `Unwatched`: the phone vanished in the TLS handshake, between HTTP
  requests or from a quiet splice, none of which has a timeout. What is counted is
  slots, not sockets: the bridge evicts a stream, the downlink ends, `serve_client`
  closes the stream and returns, and the slot goes back while the uplink it spawned
  still reads and keeps the socket. The address is admitted again and holds more
  sockets than its ceiling, so `src/lib.rs:60`, "This ceiling is what stops an
  unauthenticated peer from spending the proxy's sockets", says more than the code
  does; no run claims it.
- **NoiseLink.** `HonestNeverRefused`: without interference neither end refuses a
  message, however the stream is cut. `NothingLost`: every frame of an adopted
  bridge is decoded, the ones close behind the handshake included.
  `ImplementsFramePipe`: with interference, the mux still sees a prefix of what
  was sent, or a broken link. `AdoptionEnds`: a bridge that stalls anywhere before
  its link is framed is given up.
- **StreamIo.** `WindowsConserved`: no partial read, refused `try_send` or parked
  send loses or mints credit. `ShutdownDelivers`: a peer that reads the CLOSE of a
  successful shutdown has read everything. `FlushReturns`: the wake-up in
  `poll_flush` suffices. `PeerResumes`: a peer short of credit gets some, unless
  its WINDOW frame was refused by a full outbox. That credit waits for the next
  read, and when the peer has none left there is no next read: the stream stalls
  (`src/mux.rs:393`, "a momentarily full outbox simply leaves it for the next
  read"). `DropTells`: a dropped stream is announced unless the outbox was full at
  the last attempt. A caller that writes twice without a flush while a send is in
  flight waits for good, since `poll_write` neither polls the send nor keeps the
  waker (`src/mux.rs:490`); the model has that state and no property denies it.
- **WsStream.** `OutgoingBounded`: pongs and data cannot grow the staging buffer.
  `NothingInHand`: the reader neither waits nor ends with a frame in hand.
  `CloseEndsUplink`: a close is seen behind whatever precedes it, unless the uplink
  never comes back from a send. `WriteResumes`: a write parked on a full socket goes on,
  unless a ping made the uplink take the socket's waker. After that the socket
  becoming writable wakes the uplink, which has nothing to do, and the downlink
  waits until the phone hangs up.

Disagreements between a comment and the code, each shown by a run that must fail:

- **MuxOrphan** (`src/lib.rs:313`, "Either end hanging up ends the stream"):
  a phone inserts its entry after the reader's sweep and announces it before the
  writer is aborted. Nobody sweeps the entry; the phone waits on a dead link
  until it sends something or leaves.
- **MuxFuturelock** (`src/lib.rs:313`, "waiting only on the bridge would leak one
  stream per phone that walked out of WiFi"): a phone hangs up while its downlink
  waits to send a grant. The abandoned grant is assigned the next free slot of the
  outbox, and the CLOSE waits behind it. One slot of the run stands for the
  256 of the code: as many phones in that state as there are slots stop the whole
  link, its keepalive echoes included, until the bridge hangs up.
- **FlowSmallFrames** (`src/mux.rs:35`, "Overflow therefore means a peer that
  ignored its credit"): frames under 256 bytes exceed 1024 frames inside one
  window.
- **WsStaged** (`src/ws.rs:260`, "a partial flush finishes on the next poll"):
  `serve_client` never flushes, and after an accepted write nothing polls the
  stream until the bridge or the phone sends again.

## 5. Fairness

Weak fairness of a step stands for tokio polling every ready task. Strong
fairness is assumed of sends into the outbox (`ClientPushes`, `UplinkPush`,
`ReaderPush`): tokio hands channel permits to waiters in FIFO order, so a sender
that finds room again and again gets some. A live bridge reads what is written to
it (`WriterFlush` while `bridge = "up"`), the reader sees the end of a link that
is gone, and its timer fires on silence while it awaits a frame. A phone takes
what is written to it, the close that `writer.shutdown()` flushes included. Strong
fairness of `AbandonedAssigned` is the same FIFO order. In ClientEdge the peek and
the preamble are under timeouts, a splice whose uplink ended ends, and a hang-up
reaches the task that reads, after the finitely many bytes the phone had sent
(strong fairness of `UplinkEnds`: between two reads the uplink is elsewhere);
nothing makes a silent phone noticed, a bridge grant, or the outbox move, so
`ServeClient`, `UplinkGranted`, `UplinkPushed` and `CloseReturns` are not fair. In
WsStream both tasks run and the phone reads; `UpSent`, the return of
`StreamTx::send`, is not fair, for the same reason. In NoiseLink the network
delivers, and timers fire. In StreamIo the caller keeps reading, the writer drains
the outbox and an honest peer grants past its threshold; nothing makes room at
the moment of a `try_send`. In FlowControl the phone takes what is written to it and
grants get through the outbox to the bridge. In BridgeRegistry the preamble and the handshake are
bounded by their timeouts. Outside StreamIo, whose peer is the proxy's own code,
nothing is assumed of what a peer may choose: a phone need not send or hang up, a
bridge need not send, grant or close, no fault need happen, and a write to a silent
bridge need not fail.

## 6. What is proved

Every invariant the passing runs check, and the safety of both refinements, for every
value of the constants. All proofs start from the named ASSUMEs of the modules
(finite sets of phones and connections, positive capacities, distinct model
values, the orders the constants of `src/wire.rs` satisfy); two theorems of
MuxSession and one of FlowControl have a further hypothesis, named below. Few
of the invariants are inductive as they stand; what had to be added, and why, is
said for each.

**MuxSession_proofs**

- `MuxTypeTheorem`, `BudgetTheorem`: `TypeOK` and `BudgetExact`. They need each
  other (a permit returned twice would leave the budget's range; of a credit gate
  the type says only that it holds a natural number of permits, since no code bounds
  what a bridge grants) and
  `IdAssigned`: a task past its reservation has an id, without which an insert
  could not be shown to hit the map. The argument counts: each action moves at
  most one phone in or out of `Reserved` and one id in or out of `Held`.
- `GateTheorem`: `EvictionClosesGate`, given `IdsNeverWrap` (more ids than phones
  over the life of the link, and a bridge that opens none of them). The invariant
  adds `NamesUnique`: ids are handed out in order and once, and an entry sits
  under the id of its owner. The hypothesis is needed: a wrapped `next_id`
  displaces a live entry and leaves its gate open.
- `HalfOpenTheorem`: `NoHalfOpen`, under the same hypothesis. What the bridge
  believes changes only when the writer flushes, so the property says nothing of
  frames under way and is not inductive. Three parts are added. `OrderInv`: each
  id is opened once and before it is closed, through the outbox and the batch, and
  an OPEN is no longer under way once the bridge believes the stream open.
  `EntryInv`: nobody evicts a stream before its OPEN is queued, because the bridge
  has not heard of it. `HalfInv`: the property for the streams whose OPEN is under
  way too (`Pending`). The lemmas follow a frame: who sends it (`QueueMoves`), what
  a batch makes the bridge believe (`FlushView`), who changes an entry
  (`EntryMoves`) and why a CLOSE, wherever it waits, stays under way until it is
  read (`QueuedCloseStays`, `ReaderCloseStays`, `ClientCloseStays`).

**FlowControl_proofs**

- `WindowTheorem`, `UpWindowTheorem`, `NoStallTheorem`: conservation in both
  directions and absence of stalls. The invariant adds that the inbox's bytes and
  frames agree (`InboxFits`) and, since an overflow loses its frame, a bound that
  survives it (`DownBounded`).
- `NoOverflowTheorem`: given `FramesFit`, a bridge that keeps to its credit never
  overflows. FlowSmallFrames shows what happens without it; with the code's
  constants it asks for frames of at least 256 bytes.

**IpSlots_proofs, BridgeRegistry_proofs, ClientEdge_proofs**

- IpSlots_proofs has the lemmas on counting that both users share: what a claim,
  a decrement and a reclaim do to the count of each address.
- `AdmitTypeTheorem`, `AdmissionTheorem`, `SlotTheorem`, `ReclaimTheorem`:
  `TypeOK`, `BudgetExact`, `SlotsExact`, `ZerosReclaimed`. `AdmitInv` is their
  conjunction with `Addressed` (a connection that may hold a slot has an address).
- `RouteTheorem`, `StrandedTheorem`: `RoutesServed` and `NoStrandedLink`.
  `RegInv` adds `Keyed`: past its handshake a connection has a key, and a
  displacer has somebody to displace.
- `RouteRefinement`: `Spec => Routes!SafeSpec`. Every step of the registry is,
  under the mapping, a takeover, a close, a refusal or a stutter, by `RegInv`.
  RouteTable's fairness is left to TLC (`ImplementsRouteTable`).
- `ClientTypeTheorem`, `ClientSlotsTheorem`. `ClientInv` says of
  each connection that the references to its slot are those of its two tasks
  (`Shared`), and of each address that its count is the number of slots not yet
  decremented, the one being released included (`CountsMatch`).

**NoiseLink_proofs**

- `LinkTypeTheorem`, `HonestTheorem`, `PipeRefinement`: `TypeOK`,
  `HonestNeverRefused` and `Spec => ImplementsFramePipe`. `LinkInv` has four
  parts: the delivered units end inside a message and never skip one (`Framing`),
  and what is decoded is the first frames sealed, whatever happened to the wire
  (`Decoded`); the other direction's buffer holds the nonces its reader expects
  (`OutInv`); no frame before the handshake's end (`NotYet`); and while nothing
  was mangled, no message was misread and the wire continues with exactly the one
  due (`HonestInv`).

**WsStream_proofs**

- `BacklogTheorem`: `OutgoingBounded`. `StageInv` adds that before a close is
  staged the bound is one lower, because the close is staged once, on top.
- `WsTypeTheorem`, `NothingInHandTheorem`: the types, among them that the payload in
  hand is never more than one frame's, and that the uplink waits or
  ends with nothing in hand, through the wake-ups meant for the downlink.

**StreamIo_proofs**

- `WindowsTheorem`: `WindowsConserved`. `WindowsInv` adds that an open stream has
  its link and that no WINDOW frame grants more than a window.
- `DropTheorem`: `DropTells`. `DropInv` adds that a dead link leaves nothing queued
  and no waiting peer (`Dead`).
- `DeliverTheorem`: `ShutdownDelivers`. `EndInv` is how far the end of the stream
  has come (a send in flight is alone, a shutdown is last, CLOSE follows it, no
  DATA follows CLOSE); `Accounted` says that until an operation fails, what was
  written is with the peer, queued, in the send or in the buffer.
- The bytes queued are the cardinality of a set of byte positions, not a recursive
  sum, so what an append or a receipt does to them follows from theorems about
  finite sets. Induction over sequences would be out of the prover's reach.

Model-checked only: all liveness properties, among them RouteTable's fairness in
`ImplementsRouteTable`, since the prover has neither fairness nor ENABLED; and the
four runs that show a disagreement, which are counterexamples.

## 7. Plan

Done: MuxSession first (the system's core), then FlowControl, BridgeRegistry with
RouteTable, WsStream; the slots of the outbox in MuxSession, IpSlots, ClientEdge,
NoiseLink with FramePipe, StreamIo; proofs of every invariant and of the safety of
both refinements.

Next: an abstract stream (open, bytes, closed once) that MuxSession implements,
and the proof that it does, for which `OrderInv` is the starting point.

## 8. Not modelled

- Cryptography (snow, rustls, x25519), HTTP (hyper) and the TLS handshake:
  third-party code, present only as what it accepts, refuses or hands over.
- `src/tls.rs` and `src/main.rs`: certificate files, arguments and start-up; I/O
  with no protocol state.
- Key generation (`src/noise.rs:203-216`): pure calls into libraries.
- The accept loop: an `accept` error ends the process (`src/lib.rs:137`); there is
  no state to relate that to.
- `on_open` handlers of a session: production registers none, and the tests'
  handler wraps the halves in a `MuxStreamIo`, which StreamIo models from there.
- Time. Timeouts are steps that may happen at any moment after their start.
- Panics and memory exhaustion; among them `add_permits` (`src/mux.rs:272`), which
  panics past tokio's `Semaphore::MAX_PERMITS` (2^61 on a 64-bit build, 2^29 WINDOW
  frames of the largest grant).
- A damaged first handshake message whose length prefix is wrong too: the model
  refuses it, the code may answer it and give up at the next message.

## Running

    tlc -workers 2 -config MuxStreams.cfg MuxSession
    tlc -workers 2 -config <run>.cfg <module>
    tlapm <module>_proofs.tla

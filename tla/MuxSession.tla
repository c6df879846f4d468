---------------------------- MODULE MuxSession ----------------------------
(***************************************************************************)
(* One bridge link and every stream riding it (src/mux.rs), driven by the  *)
(* splice of each mobile connection (serve_client of src/lib.rs).          *)
(*                                                                         *)
(* Tasks that interleave: the link's reader and writer, one serve_client   *)
(* task per mobile connection (its head and its downlink), the uplink task *)
(* it spawns and detaches, and the registration that shuts a displaced     *)
(* session down.  A step is what a task does between two points where      *)
(* another thread can observe or change what it uses.                      *)
(*                                                                         *)
(* Data is abstracted to one unit of credit per DATA frame.  The bridge is *)
(* external: bview is what it believes of each stream id, and it addresses *)
(* only ids it believes open (BridgeOpens are ids it may OPEN itself).     *)
(* A frame the bridge sends is read at once; frames the proxy sends wait   *)
(* in the outbox and the writer's batch.                                   *)
(***************************************************************************)
EXTENDS Integers, Sequences, FiniteSets

CONSTANTS
  Clients,      \* mobile connections over the life of the link
  MaxStreams,   \* Limits.max_streams_per_bridge
  OutCap,       \* capacity of the outbox channel (256)
  InboxFrames,  \* INBOX_FRAMES (1024)
  WriteBatch,   \* WRITE_BATCH (32)
  Window,       \* WINDOW, in DATA frames
  MaxPermits,   \* bound: credit a bridge may have granted and not seen used
  IdMod,        \* stream ids are u32: 2^32
  BridgeOpens,  \* ids the bridge itself may OPEN; {} in production
  Faults,       \* what may befall the link: a subset of AllFaults
  Peer,         \* owner of an entry the bridge opened
  None          \* no entry, no owner

Ids == 0 .. IdMod - 1
NoId == -1
AllFaults == {"bad", "silent", "gone", "shutdown"}

ASSUME ClientsFinite == IsFiniteSet(Clients)
ASSUME OwnersDistinct == None \notin Clients /\ Peer \notin Clients /\ Peer # None
ASSUME BoundsPositive ==
  /\ MaxStreams \in Nat \ {0} /\ OutCap \in Nat \ {0} /\ InboxFrames \in Nat \ {0}
  /\ WriteBatch \in Nat \ {0} /\ Window \in Nat \ {0} /\ MaxPermits \in Nat
ASSUME IdsWide == IdMod \in Nat /\ IdMod > 1
ASSUME PeerIds == BridgeOpens \subseteq Ids \ {0}
ASSUME FaultKinds == Faults \subseteq AllFaults

VARIABLES
  streams,  \* id -> owner of the entry in the streams map, or None
  nextId,   \* next_id
  budget,   \* free permits of the stream budget
  credit,   \* client -> permits in its stream's credit semaphore
  gate,     \* client -> the credit semaphore is not closed
  inbox,    \* client -> frames queued in its inbox
  id,       \* client -> the id its stream got
  pc,       \* client -> where its serve_client task is
  up,       \* client -> where its uplink task is
  down,     \* client -> where its downlink is
  out,      \* the outbox channel
  batch,    \* frames the writer took and has not flushed
  writer, reader,  \* the link's two tasks
  rsend,    \* what the reader is sending, and whose inbox it still holds
  bridge,   \* the link as the network sees it
  bview,    \* id -> the bridge's view of the stream
  shut      \* progress of shutdown() called from outside

clientVars == <<credit, gate, inbox, id, pc, up, down>>
linkVars == <<out, batch, writer, reader, rsend, bridge, bview, shut>>
vars == <<streams, nextId, budget, clientVars, linkVars>>

Kinds == {"OPEN", "DATA", "WINDOW", "CLOSE"}
Frames == [id : Ids, kind : Kinds]
Control(i, k) == [id |-> i, kind |-> k]
NothingToSend == [frame |-> Control(0, "DATA"), holds |-> None]

TypeOK ==
  /\ streams \in [Ids -> Clients \cup {Peer, None}]
  /\ nextId \in Ids
  /\ budget \in 0 .. MaxStreams
  /\ credit \in [Clients -> Nat]
  /\ gate \in [Clients -> BOOLEAN]
  /\ inbox \in [Clients -> 0 .. InboxFrames]
  /\ id \in [Clients -> Ids \cup {NoId}]
  /\ pc \in [Clients -> {"idle", "reserved", "announce", "head", "head_push",
                         "up", "closing", "done"}]
  /\ up \in [Clients -> {"none", "read", "credit", "push", "end"}]
  /\ down \in [Clients -> {"recv", "write", "grant", "shut", "queued", "holds"}]
  /\ out \in Seq(Frames) /\ Len(out) <= OutCap
  /\ batch \in Seq(Frames) /\ Len(batch) <= WriteBatch
  /\ writer \in {"recv", "flush", "dead"}
  /\ reader \in {"next", "send", "sweep", "swept", "dead"}
  /\ rsend \in [frame : Frames, holds : Clients \cup {None}]
  /\ bridge \in {"up", "silent", "gone"}
  /\ bview \in [Ids -> {"none", "open", "closed"}]
  /\ shut \in {"no", "swept", "done"}

Init ==
  /\ streams = [i \in Ids |-> None]
  /\ nextId = 1
  /\ budget = MaxStreams
  /\ credit = [c \in Clients |-> Window]
  /\ gate = [c \in Clients |-> TRUE]
  /\ inbox = [c \in Clients |-> 0]
  /\ id = [c \in Clients |-> NoId]
  /\ pc = [c \in Clients |-> "idle"]
  /\ up = [c \in Clients |-> "none"]
  /\ down = [c \in Clients |-> "recv"]
  /\ out = << >> /\ batch = << >>
  /\ writer = "recv" /\ reader = "next"
  /\ rsend = NothingToSend
  /\ bridge = "up"
  /\ bview = [i \in Ids |-> "none"]
  /\ shut = "no"

-----------------------------------------------------------------------------
(* The streams map, its permits and the outbox channel.                    *)

Held == {i \in Ids : streams[i] # None}
Owns(c) == id[c] \in Ids /\ streams[id[c]] = c

Freed(i) == IF streams[i] = None THEN 0 ELSE 1

(* insert drops the entry it displaces, and with it that entry's permit.   *)
Insert(i, owner) ==
  /\ streams' = [streams EXCEPT ![i] = owner]
  /\ budget' = budget + Freed(i)

Remove(i) ==
  /\ streams' = [streams EXCEPT ![i] = None]
  /\ budget' = budget + Freed(i)

CloseGates(owners) == gate' = [c \in Clients |-> gate[c] /\ c \notin owners]

(* Mutant: the sweep forgets the credit gates. *)
SweepKeepsGates ==
  /\ streams' = [i \in Ids |-> None]
  /\ budget' = budget + Cardinality(Held)
  /\ UNCHANGED gate

(* retain(|_, state| { state.credit.close(); false }).  The map is swept   *)
(* shard by shard; one atomic step is sound because an entry inserted      *)
(* behind the sweep is one inserted after it.                              *)
Sweep ==
  /\ streams' = [i \in Ids |-> None]
  /\ budget' = budget + Cardinality(Held)
  /\ CloseGates({streams[i] : i \in Ids})

(* A slot of the channel is taken by a frame, or assigned to the grant of  *)
(* a downlink that select! abandoned and that will never use it.           *)
Holders == {c \in Clients : down[c] = "holds"}
Room == Len(out) + Cardinality(Holders) < OutCap

(* out.send parks while the channel is full and fails once the writer, and *)
(* with it the receiver, is gone.                                          *)
Push(f) == writer # "dead" /\ Room /\ out' = Append(out, f)
SendFails == writer = "dead" /\ UNCHANGED out

-----------------------------------------------------------------------------
(* MuxSession::try_open_stream.                                            *)

(* Mutant: a length check made elsewhere replaces the reservation. *)
OpenReserveUnchecked(c) ==
  /\ pc[c] = "idle"
  /\ budget' = budget - 1
  /\ id' = [id EXCEPT ![c] = nextId]
  /\ nextId' = (nextId + 1) % IdMod
  /\ pc' = [pc EXCEPT ![c] = "reserved"]
  /\ UNCHANGED <<streams, credit, gate, inbox, up, down, linkVars>>

OpenReserve(c) ==
  /\ pc[c] = "idle"
  /\ \/ /\ budget > 0
        /\ budget' = budget - 1
        /\ id' = [id EXCEPT ![c] = nextId]
        /\ nextId' = (nextId + 1) % IdMod
        /\ pc' = [pc EXCEPT ![c] = "reserved"]
     \/ /\ budget = 0
        /\ pc' = [pc EXCEPT ![c] = "done"]
        /\ UNCHANGED <<budget, id, nextId>>
  /\ UNCHANGED <<streams, credit, gate, inbox, up, down, linkVars>>

OpenInsert(c) ==
  /\ pc[c] = "reserved"
  /\ Insert(id[c], c)
  /\ pc' = [pc EXCEPT ![c] = "announce"]
  /\ UNCHANGED <<nextId, credit, gate, inbox, id, up, down, linkVars>>

OpenAnnounce(c) ==
  /\ pc[c] = "announce"
  /\ \/ /\ Push(Control(id[c], "OPEN"))
        /\ pc' = [pc EXCEPT ![c] = "head"]
        /\ UNCHANGED <<streams, budget>>
     \/ /\ SendFails
        /\ Remove(id[c])
        /\ pc' = [pc EXCEPT ![c] = "done"]
  /\ UNCHANGED <<nextId, credit, gate, inbox, id, up, down, batch, writer,
                 reader, rsend, bridge, bview, shut>>

-----------------------------------------------------------------------------
(* serve_client: the preamble goes first, through StreamTx::send.  On an   *)
(* error `?` returns at once: the halves are dropped, the entry stays.     *)

HeadAcquire(c) ==
  /\ pc[c] = "head"
  /\ \/ /\ gate[c] /\ credit[c] > 0
        /\ credit' = [credit EXCEPT ![c] = @ - 1]
        /\ pc' = [pc EXCEPT ![c] = "head_push"]
     \/ /\ ~gate[c]
        /\ pc' = [pc EXCEPT ![c] = "done"]
        /\ UNCHANGED credit
  /\ UNCHANGED <<streams, nextId, budget, gate, inbox, id, up, down, linkVars>>

HeadPush(c) ==
  /\ pc[c] = "head_push"
  /\ \/ /\ Push(Control(id[c], "DATA"))
        /\ pc' = [pc EXCEPT ![c] = "up"]
        /\ up' = [up EXCEPT ![c] = "read"]
     \/ /\ SendFails
        /\ pc' = [pc EXCEPT ![c] = "done"]
        /\ UNCHANGED up
  /\ UNCHANGED <<streams, nextId, budget, credit, gate, inbox, id, down, batch,
                 writer, reader, rsend, bridge, bview, shut>>
-----------------------------------------------------------------------------
(* The uplink task, spawned once the head is sent: read from the phone,    *)
(* StreamTx::send to the bridge.  It is detached, so it goes on after      *)
(* serve_client has closed the stream and returned.                        *)

UplinkRead(c) ==
  /\ up[c] = "read"
  /\ up' = [up EXCEPT ![c] = "credit"]
  /\ UNCHANGED <<streams, nextId, budget, credit, gate, inbox, id, pc, down, linkVars>>

UplinkHangup(c) ==
  /\ up[c] = "read"
  /\ up' = [up EXCEPT ![c] = "end"]
  /\ UNCHANGED <<streams, nextId, budget, credit, gate, inbox, id, pc, down, linkVars>>

UplinkAcquire(c) ==
  /\ up[c] = "credit"
  /\ \/ /\ gate[c] /\ credit[c] > 0
        /\ credit' = [credit EXCEPT ![c] = @ - 1]
        /\ up' = [up EXCEPT ![c] = "push"]
     \/ /\ ~gate[c]
        /\ up' = [up EXCEPT ![c] = "end"]
        /\ UNCHANGED credit
  /\ UNCHANGED <<streams, nextId, budget, gate, inbox, id, pc, down, linkVars>>

UplinkPush(c) ==
  /\ up[c] = "push"
  /\ \/ /\ Push(Control(id[c], "DATA"))
        /\ up' = [up EXCEPT ![c] = "read"]
     \/ /\ SendFails
        /\ up' = [up EXCEPT ![c] = "end"]
  /\ UNCHANGED <<streams, nextId, budget, credit, gate, inbox, id, pc, down,
                 batch, writer, reader, rsend, bridge, bview, shut>>

-----------------------------------------------------------------------------
(* serve_client's downlink and the select! that ends the stream.           *)

(* StreamTx::close starts by removing the entry; the credit gate is left   *)
(* as it is.  The downlink never runs again, so what is left in the inbox  *)
(* is lost.                                                                *)
CloseStream(c) ==
  /\ Remove(id[c])
  /\ pc' = [pc EXCEPT ![c] = "closing"]
  /\ inbox' = [inbox EXCEPT ![c] = 0]

DownlinkRecv(c) ==
  /\ pc[c] = "up" /\ down[c] = "recv"
  /\ inbox[c] > 0
  /\ inbox' = [inbox EXCEPT ![c] = @ - 1]
  /\ down' = [down EXCEPT ![c] = "write"]
  /\ UNCHANGED <<streams, nextId, budget, credit, gate, id, pc, up, linkVars>>

(* recv returns None once the inbox is drained and no sender is left: the  *)
(* entry is gone and the reader holds no clone of its sender.              *)
DownlinkEnd(c) ==
  /\ pc[c] = "up" /\ down[c] = "recv"
  /\ inbox[c] = 0 /\ ~Owns(c) /\ rsend.holds # c
  /\ down' = [down EXCEPT ![c] = "shut"]
  /\ UNCHANGED <<streams, nextId, budget, credit, gate, inbox, id, pc, up, linkVars>>

(* StreamTx::grant; its error ends the downlink.                           *)
Grant(c) ==
  \/ /\ Push(Control(id[c], "WINDOW"))
     /\ down' = [down EXCEPT ![c] = "recv"]
  \/ /\ SendFails
     /\ down' = [down EXCEPT ![c] = "shut"]

(* The chunk is written; past the threshold its credit is granted back, or *)
(* the grant queues for room in the outbox.                                *)
DownlinkWrite(c) ==
  /\ pc[c] = "up" /\ down[c] = "write"
  /\ \/ Grant(c)
     \/ down' = [down EXCEPT ![c] = "recv"] /\ UNCHANGED out
     \/ /\ writer # "dead" /\ ~Room
        /\ down' = [down EXCEPT ![c] = "grant"]
        /\ UNCHANGED out
  /\ UNCHANGED <<streams, nextId, budget, credit, gate, inbox, id, pc, up, batch,
                 writer, reader, rsend, bridge, bview, shut>>

DownlinkWriteFails(c) ==
  /\ pc[c] = "up" /\ down[c] = "write"
  /\ down' = [down EXCEPT ![c] = "shut"]
  /\ UNCHANGED <<streams, nextId, budget, credit, gate, inbox, id, pc, up, linkVars>>

DownlinkGrant(c) ==
  /\ pc[c] = "up" /\ down[c] = "grant"
  /\ Grant(c)
  /\ UNCHANGED <<streams, nextId, budget, credit, gate, inbox, id, pc, up, batch,
                 writer, reader, rsend, bridge, bview, shut>>

(* writer.shutdown() flushes to the phone before it returns, whatever its  *)
(* result; until then the entry, if it is still there, goes on filling the *)
(* inbox.  The downlink's end ends the select!.                            *)
DownlinkShutdown(c) ==
  /\ pc[c] = "up" /\ down[c] = "shut"
  /\ CloseStream(c)
  /\ down' = [down EXCEPT ![c] = "recv"]
  /\ UNCHANGED <<nextId, credit, gate, id, up, linkVars>>

(* The downlink is pinned outside the select!, so one that queued for room *)
(* stays in the queue until serve_client returns, though nothing polls it. *)
UplinkEnds(c) ==
  /\ pc[c] = "up" /\ up[c] = "end"
  /\ CloseStream(c)
  /\ down' = [down EXCEPT ![c] = IF @ = "grant" THEN "queued" ELSE "recv"]
  /\ UNCHANGED <<nextId, credit, gate, id, up, linkVars>>

(* A slot is assigned to the abandoned grant when its turn comes.          *)
AbandonedAssigned(c) ==
  /\ down[c] = "queued"
  /\ writer # "dead" /\ Room
  /\ down' = [down EXCEPT ![c] = "holds"]
  /\ UNCHANGED <<streams, nextId, budget, credit, gate, inbox, id, pc, up, linkVars>>

(* Mutant: try_send, as in close_stream, loses the CLOSE to a full outbox. *)
ClosePushTries(c) ==
  /\ pc[c] = "closing"
  /\ \/ Push(Control(id[c], "CLOSE"))
     \/ (writer = "dead" \/ ~Room) /\ UNCHANGED out
  /\ pc' = [pc EXCEPT ![c] = "done"]
  /\ down' = [down EXCEPT ![c] = "recv"]
  /\ UNCHANGED <<streams, nextId, budget, credit, gate, inbox, id, up, batch,
                 writer, reader, rsend, bridge, bview, shut>>

(* Mutant: the CLOSE is retried although the receiver is gone. *)
ClosePushRetries(c) ==
  /\ pc[c] = "closing"
  /\ Push(Control(id[c], "CLOSE"))
  /\ pc' = [pc EXCEPT ![c] = "done"]
  /\ down' = [down EXCEPT ![c] = "recv"]
  /\ UNCHANGED <<streams, nextId, budget, credit, gate, inbox, id, up, batch,
                 writer, reader, rsend, bridge, bview, shut>>

(* The rest of StreamTx::close, behind the stream's own abandoned grant in *)
(* the queue for room; its result is ignored.  serve_client returns, which *)
(* drops the downlink and gives back the slot it was assigned.             *)
ClosePush(c) ==
  /\ pc[c] = "closing"
  /\ \/ down[c] # "queued" /\ Push(Control(id[c], "CLOSE"))
     \/ SendFails
  /\ pc' = [pc EXCEPT ![c] = "done"]
  /\ down' = [down EXCEPT ![c] = "recv"]
  /\ UNCHANGED <<streams, nextId, budget, credit, gate, inbox, id, up, batch,
                 writer, reader, rsend, bridge, bview, shut>>

-----------------------------------------------------------------------------
(* read_loop.                                                              *)

BridgeSends(i) == reader = "next" /\ bridge = "up" /\ i # 0 /\ bview[i] = "open"

(* The reader parks in send; holder's inbox stays alive meanwhile.         *)
ReaderSends(f, holder) ==
  /\ reader' = "send"
  /\ rsend' = [frame |-> f, holds |-> holder]

RecvKeepalive ==
  /\ reader = "next" /\ bridge = "up"
  /\ ReaderSends(Control(0, "DATA"), None)
  /\ UNCHANGED <<streams, nextId, budget, clientVars, out, batch, writer, bridge,
                 bview, shut>>

(* Mutant: a stream opened by the peer is entered without a permit. *)
RecvOpenUnbudgeted(i) ==
  /\ reader = "next" /\ bridge = "up"
  /\ i \in BridgeOpens /\ bview[i] # "open"
  /\ bview' = [bview EXCEPT ![i] = "open"]
  /\ Insert(i, Peer)
  /\ UNCHANGED <<nextId, clientVars, out, batch, writer, reader, rsend, bridge, shut>>

(* Production registers no on_open handler: the halves of the stream are   *)
(* dropped at once and the entry keeps its permit.                         *)
RecvOpen(i) ==
  /\ reader = "next" /\ bridge = "up"
  /\ i \in BridgeOpens /\ bview[i] # "open"
  /\ bview' = [bview EXCEPT ![i] = "open"]
  /\ \/ /\ budget > 0
        /\ streams' = [streams EXCEPT ![i] = Peer]
        /\ budget' = budget - 1 + Freed(i)
        /\ UNCHANGED <<reader, rsend>>
     \/ /\ budget = 0
        /\ ReaderSends(Control(i, "CLOSE"), None)
        /\ UNCHANGED <<streams, budget>>
  /\ UNCHANGED <<nextId, clientVars, out, batch, writer, bridge, shut>>

(* The receiving half lives until serve_client returns.                    *)
RxOpen(c) == pc[c] # "done"

(* Mutant: an overflow evicts the stream and does not tell the bridge. *)
RecvDataSilent(i) ==
  /\ BridgeSends(i)
  /\ streams[i] \in Clients /\ RxOpen(streams[i])
  /\ \/ /\ inbox[streams[i]] < InboxFrames
        /\ inbox' = [inbox EXCEPT ![streams[i]] = @ + 1]
        /\ UNCHANGED <<streams, budget, gate>>
     \/ /\ inbox[streams[i]] = InboxFrames
        /\ Remove(i)
        /\ CloseGates({streams[i]})
        /\ UNCHANGED inbox
  /\ UNCHANGED <<nextId, credit, id, pc, up, down, out, batch, writer, reader,
                 rsend, bridge, bview, shut>>

RecvData(i) ==
  /\ BridgeSends(i)
  /\ \/ /\ streams[i] \in Clients /\ RxOpen(streams[i])
        /\ inbox[streams[i]] < InboxFrames
        /\ inbox' = [inbox EXCEPT ![streams[i]] = @ + 1]
        /\ UNCHANGED <<streams, budget, gate, reader, rsend>>
     \/ /\ streams[i] \in Clients /\ RxOpen(streams[i])
        /\ inbox[streams[i]] = InboxFrames
        /\ Remove(i)
        /\ CloseGates({streams[i]})
        /\ ReaderSends(Control(i, "CLOSE"), streams[i])
        /\ UNCHANGED inbox
  /\ UNCHANGED <<nextId, credit, id, pc, up, down, out, batch, writer, bridge,
                 bview, shut>>

(* add_permits checks nothing: the bridge may grant more than Window.      *)
RecvWindow(i) ==
  /\ BridgeSends(i)
  /\ streams[i] \in Clients
  /\ \E grant \in 1 .. MaxPermits - credit[streams[i]] :
       credit' = [credit EXCEPT ![streams[i]] = @ + grant]
  /\ UNCHANGED <<streams, nextId, budget, gate, inbox, id, pc, up, down, linkVars>>

RecvClose(i) ==
  /\ BridgeSends(i)
  /\ Remove(i)
  /\ CloseGates({streams[i]})
  /\ bview' = [bview EXCEPT ![i] = "closed"]
  /\ UNCHANGED <<nextId, credit, inbox, id, pc, up, down, out, batch, writer,
                 reader, rsend, bridge, shut>>

(* The awaited send of an echo or a CLOSE; an error ends read_loop.        *)
ReaderPush ==
  /\ reader = "send"
  /\ \/ Push(rsend.frame) /\ reader' = "next"
     \/ SendFails /\ reader' = "sweep"
  /\ rsend' = NothingToSend
  /\ UNCHANGED <<streams, nextId, budget, clientVars, batch, writer, bridge,
                 bview, shut>>

(* read_loop returns: a short or undecryptable frame, end of file, or no   *)
(* frame for IDLE_TIMEOUT.  The timer runs only while the reader awaits a  *)
(* frame.                                                                  *)
ReadLoopEnds ==
  /\ reader = "next"
  /\ reader' = "sweep"
  /\ UNCHANGED <<streams, nextId, budget, clientVars, out, batch, writer, rsend,
                 bridge, bview, shut>>

(* Mutant: reader.next() is awaited without a timeout. *)
IdleForever == FALSE /\ ReadLoopEnds

RecvBad == "bad" \in Faults /\ bridge = "up" /\ ReadLoopEnds
ReaderEof == bridge = "gone" /\ ReadLoopEnds
IdleTimeout == bridge = "silent" /\ ReadLoopEnds

ReaderSweep ==
  /\ reader = "sweep"
  /\ Sweep
  /\ reader' = "swept"
  /\ UNCHANGED <<nextId, credit, inbox, id, pc, up, down, out, batch, writer,
                 rsend, bridge, bview, shut>>

ReaderAbortsWriter ==
  /\ reader = "swept"
  /\ reader' = "dead"
  /\ UNCHANGED <<streams, nextId, budget, clientVars, out, batch, writer, rsend,
                 bridge, bview, shut>>

(* Mutant: shutdown aborts the writer only. *)
ReaderNotCancelled == FALSE /\ ReadLoopEnds

(* An aborted task is dropped at its next await; the sweep has none.       *)
ReaderCancelled ==
  /\ shut = "done" /\ reader \in {"next", "send"}
  /\ reader' = "dead"
  /\ rsend' = NothingToSend
  /\ UNCHANGED <<streams, nextId, budget, clientVars, out, batch, writer, bridge,
                 bview, shut>>

-----------------------------------------------------------------------------
(* The writer task.  Its end drops the receiver and everything queued.     *)

WriterAborted == reader = "dead" \/ shut = "done"

WriterRecv ==
  /\ writer = "recv" /\ out # << >>
  /\ LET n == IF Len(out) < WriteBatch THEN Len(out) ELSE WriteBatch IN
       /\ batch' = SubSeq(out, 1, n)
       /\ out' = SubSeq(out, n + 1, Len(out))
  /\ writer' = "flush"
  /\ UNCHANGED <<streams, nextId, budget, clientVars, reader, rsend, bridge,
                 bview, shut>>

(* What the bridge believes of stream i once it has read the batch.        *)
ViewAfterBatch(i) ==
  LET about == {k \in DOMAIN batch : batch[k].id = i /\ batch[k].kind \in {"OPEN", "CLOSE"}}
      opensLast == \E k \in about : batch[k].kind = "OPEN" /\ \A j \in about : j <= k
  IN  IF about = {} THEN bview[i] ELSE IF opensLast THEN "open" ELSE "closed"

(* A silent bridge reads nothing, but the socket may still buffer.         *)
WriterFlush ==
  /\ writer = "flush" /\ bridge # "gone"
  /\ bview' = IF bridge = "up" THEN [i \in Ids |-> ViewAfterBatch(i)] ELSE bview
  /\ batch' = << >>
  /\ writer' = "recv"
  /\ UNCHANGED <<streams, nextId, budget, clientVars, out, reader, rsend, bridge, shut>>

WriterEnds ==
  /\ writer' = "dead"
  /\ out' = << >> /\ batch' = << >>
  /\ bview' = [i \in Ids |-> "none"]
  /\ UNCHANGED <<streams, nextId, budget, clientVars, reader, rsend, bridge, shut>>

WriterFails == writer = "flush" /\ bridge # "up" /\ WriterEnds
WriterCancelled == writer # "dead" /\ WriterAborted /\ WriterEnds

-----------------------------------------------------------------------------
(* MuxSession::shutdown, called by the registration that displaces this    *)
(* link from the routing table.                                            *)

ShutdownSweep ==
  /\ "shutdown" \in Faults /\ shut = "no"
  /\ Sweep
  /\ shut' = "swept"
  /\ UNCHANGED <<nextId, credit, inbox, id, pc, up, down, out, batch, writer,
                 reader, rsend, bridge, bview>>

ShutdownAbort ==
  /\ shut = "swept"
  /\ shut' = "done"
  /\ UNCHANGED <<streams, nextId, budget, clientVars, out, batch, writer, reader,
                 rsend, bridge, bview>>

(* The network and the bridge process.  A bridge that lost the link has no *)
(* streams left.                                                           *)
BridgeFalters ==
  /\ bridge = "up"
  /\ bridge' \in Faults \cap {"silent", "gone"}
  /\ bview' = [i \in Ids |-> "none"]
  /\ UNCHANGED <<streams, nextId, budget, clientVars, out, batch, writer, reader,
                 rsend, shut>>

-----------------------------------------------------------------------------
ClientStep(c) ==
  \/ OpenReserve(c) \/ OpenInsert(c) \/ OpenAnnounce(c)
  \/ HeadAcquire(c) \/ HeadPush(c)
  \/ UplinkRead(c) \/ UplinkHangup(c) \/ UplinkAcquire(c) \/ UplinkPush(c)
  \/ DownlinkRecv(c) \/ DownlinkEnd(c) \/ DownlinkWrite(c) \/ DownlinkWriteFails(c)
  \/ DownlinkGrant(c) \/ DownlinkShutdown(c) \/ UplinkEnds(c)
  \/ AbandonedAssigned(c) \/ ClosePush(c)

ReaderStep ==
  \/ RecvKeepalive \/ ReaderPush \/ RecvBad \/ ReaderEof \/ IdleTimeout
  \/ ReaderSweep \/ ReaderAbortsWriter \/ ReaderCancelled
  \/ \E i \in Ids : RecvOpen(i) \/ RecvData(i) \/ RecvWindow(i) \/ RecvClose(i)

WriterStep == WriterRecv \/ WriterFlush \/ WriterFails \/ WriterCancelled

Next ==
  \/ \E c \in Clients : ClientStep(c)
  \/ ReaderStep
  \/ WriterStep
  \/ ShutdownSweep \/ ShutdownAbort
  \/ BridgeFalters

Spec == Init /\ [][Next]_vars

(***************************************************************************)
(* Fairness: tokio polls every ready task, and the permits of a channel    *)
(* are handed out in FIFO order, so a send that keeps finding room again   *)
(* gets some (SF).  A live bridge reads what is written to it, the reader  *)
(* sees the end of a link that is gone or silent while it awaits a frame,  *)
(* and a phone takes what is being written or flushed to it.  Nothing      *)
(* makes a phone send or hang up, a bridge grant, close or fail, or a      *)
(* registration shut down.                                                 *)
(***************************************************************************)
ClientRuns(c) ==
  \/ OpenInsert(c) \/ HeadAcquire(c)
  \/ DownlinkRecv(c) \/ DownlinkEnd(c) \/ DownlinkWrite(c) \/ DownlinkShutdown(c)
ClientPushes(c) ==
  OpenAnnounce(c) \/ HeadPush(c) \/ DownlinkGrant(c) \/ ClosePush(c)
ReaderRuns ==
  ReaderEof \/ IdleTimeout \/ ReaderSweep \/ ReaderAbortsWriter \/ ReaderCancelled

Fairness ==
  /\ \A c \in Clients :
       /\ WF_vars(ClientRuns(c)) /\ SF_vars(ClientPushes(c))
       /\ WF_vars(UplinkAcquire(c)) /\ SF_vars(UplinkPush(c))
       /\ WF_vars(UplinkEnds(c)) /\ SF_vars(AbandonedAssigned(c))
  /\ WF_vars(ReaderRuns) /\ SF_vars(ReaderPush)
  /\ WF_vars(WriterRecv) /\ WF_vars(WriterFlush /\ bridge = "up")
  /\ WF_vars(WriterFails /\ bridge = "gone") /\ WF_vars(WriterCancelled)
  /\ WF_vars(ShutdownAbort)

LiveSpec == Spec /\ Fairness

-----------------------------------------------------------------------------
(* Safety.                                                                 *)

Reserved == {c \in Clients : pc[c] = "reserved"}

(* Every permit of the stream budget is free, held by an open that has not *)
(* inserted yet, or held by exactly one entry: "what makes the per-bridge  *)
(* ceiling exact under concurrency" (src/mux.rs:64), whatever the order of *)
(* opens, removals, sweeps and evictions.                                  *)
BudgetExact == budget + Cardinality(Reserved) + Cardinality(Held) = MaxStreams

(* A stream that loses its entry to anyone but its own close (the bridge's *)
(* CLOSE, an overflow, either sweep) has its credit gate closed, so no     *)
(* sender of it can park for credit nobody is left to grant.               *)
EvictionClosesGate ==
  \A c \in Clients :
    pc[c] \in {"announce", "head", "head_push", "up"} /\ ~Owns(c) => ~gate[c]

LinkAlive ==
  bridge = "up" /\ writer # "dead" /\ reader \in {"next", "send"} /\ shut = "no"

InFlight(i, k) ==
  \E q \in {out, batch} : \E n \in DOMAIN q : q[n] = Control(i, k)

CloseComing(i) ==
  \/ InFlight(i, "CLOSE")
  \/ reader = "send" /\ rsend.frame = Control(i, "CLOSE")
  \/ \E c \in Clients : pc[c] = "closing" /\ id[c] = i

(* On a live link no stream stays half open: once the proxy has dropped an *)
(* entry that the bridge believes open, a CLOSE for it is queued, or some  *)
(* task is parked sending one.                                             *)
NoHalfOpen ==
  LinkAlive => \A i \in Ids : bview[i] = "open" /\ streams[i] = None => CloseComing(i)

-----------------------------------------------------------------------------
(* Liveness, under Fairness.                                               *)

(* Every slot of the outbox is assigned to a grant nobody polls.           *)
Wedged == Cardinality(Holders) = OutCap

(* A link with one half dead closes: an abort, from the reader's end or    *)
(* from shutdown, ends both tasks, which closes the socket, "what tells    *)
(* the other end to reconnect" (src/mux.rs:160); and a writer that fails   *)
(* by itself tells nobody, yet the reader finds out by end of file, by     *)
(* silence or by its own next send.                                        *)
HalfDeadLinkCloses ==
  (WriterAborted \/ writer = "dead") ~> (reader = "dead" /\ writer = "dead")

(* A spliced phone whose entry is gone (closed by the bridge, overflowed,  *)
(* swept) is eventually let go: only a writer stuck on a silent bridge, or *)
(* Wedged, can keep its CLOSE and with it the phone.                       *)
EvictedStreamEnds ==
  \A c \in Clients :
    (pc[c] = "up" /\ ~Owns(c))
      ~> (pc[c] = "done" \/ (bridge = "silent" /\ writer = "flush") \/ Wedged)

(* A stream the proxy dropped does not stay open at the bridge for as long *)
(* as the link lives and is not Wedged: the CLOSE is not lost in a full    *)
(* outbox.                                                                 *)
HalfOpenCloses ==
  \A i \in Ids \ {0} :
    (LinkAlive /\ bview[i] = "open" /\ streams[i] = None)
      ~> (bview[i] # "open" \/ ~LinkAlive \/ Wedged)

(* "Silence longer than this ends the session" (src/mux.rs:29), unless the *)
(* reader is itself sending: a full outbox parks it where no timer runs.   *)
SilenceEndsSession == bridge = "silent" ~> (reader \in {"send", "dead"})

(* "Closing the credit gate wakes senders parked on a dead link"           *)
(* (src/mux.rs:124): an uplink parked for credit when its stream is swept, *)
(* closed or overflowed is woken, although the splice around it ends too.  *)
(* Only one whose own serve_client closed the stream stays parked.         *)
EvictedSenderWakes ==
  \A c \in Clients :
    (pc[c] = "up" /\ ~Owns(c) /\ up[c] = "credit") ~> up[c] # "credit"

(* "Either end hanging up ends the stream" (src/lib.rs:313): no phone      *)
(* stays spliced onto a link both of whose tasks are dead.                 *)
DeadLinkEndsStreams ==
  \A c \in Clients :
    (reader = "dead" /\ writer = "dead" /\ pc[c] = "up") ~> pc[c] = "done"

(* "Either end hanging up ends the stream: waiting only on the bridge would *)
(* leak one stream per phone that walked out of WiFi" (src/lib.rs:313): on  *)
(* a live link, a phone that hung up is let go.                             *)
HangupEndsStream ==
  \A c \in Clients :
    (LinkAlive /\ up[c] = "end" /\ pc[c] = "up") ~> (pc[c] = "done" \/ ~LinkAlive)
=============================================================================

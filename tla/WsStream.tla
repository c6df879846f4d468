----------------------------- MODULE WsStream -----------------------------
(***************************************************************************)
(* The WebSocket carrier of one phone (WsStream of src/ws.rs) under the    *)
(* splice of serve_client (src/lib.rs), once tokio::io::split has handed   *)
(* its read half to the uplink task and its write half to the downlink.    *)
(*                                                                         *)
(* The split's lock makes each poll atomic: the uplink holds it while      *)
(* up = "poll", whose steps are the turns of poll_read's loop, and a poll  *)
(* of the downlink is one step.  The socket (TLS and TCP, external) keeps  *)
(* one write waker, that of the task that last found it full.              *)
(*                                                                         *)
(* A frame of the phone is its kind and arrives in two parts; frames to    *)
(* the phone are numbers of bytes, in units.                               *)
(***************************************************************************)
EXTENDS Integers, Sequences

CONSTANTS
  MaxFrames,         \* bound: frames the phone sends
  MaxChunks,         \* bound: chunks the bridge sends
  MaxPlain,          \* bound: payload of a data frame
  SockCap,           \* what the socket buffers
  DataLen,           \* a binary frame; a pong or a close is one unit
  MAX_PONG_BACKLOG   \* staged bytes past which pings go unanswered

ASSUME WsBounds ==
  /\ MaxFrames \in Nat /\ MaxChunks \in Nat /\ MaxPlain \in Nat \ {0}
  /\ SockCap \in Nat \ {0} /\ DataLen \in Nat \ {0} /\ MAX_PONG_BACKLOG \in Nat

(* "bad" is a frame decode refuses: unmasked, too large, an oversized or   *)
(* fragmented control frame, an unknown opcode.                            *)
Kinds == {"data", "ping", "close", "bad"}

VARIABLES
  sent,      \* frames the phone has sent
  phone,     \* TRUE until the phone hangs up
  wire,      \* frames sent and not read whole from the socket
  part,      \* 1 if the first part of Head(wire) has been read, or else 0
  incoming,  \* whole frames read and not decoded
  plain,     \* payload waiting for the reader
  closed,    \* a close frame arrived or was sent
  up,        \* the uplink task
  outgoing,  \* bytes of frames staged for the socket
  sock,      \* bytes in the socket's buffer
  wwake,     \* the task the socket wakes once it is writable
  chunks,    \* chunks the bridge has sent
  down,      \* the downlink
  stolen     \* history: the uplink replaced the waker of a parked downlink

readVars == <<wire, part, incoming, plain>>
vars == <<sent, phone, readVars, closed, up, outgoing, sock, wwake, chunks, down, stolen>>

TypeOK ==
  /\ sent \in 0 .. MaxFrames /\ phone \in BOOLEAN
  /\ wire \in Seq(Kinds) /\ incoming \in Seq(Kinds) /\ part \in {0, 1}
  /\ plain \in 0 .. MaxPlain /\ closed \in BOOLEAN
  /\ up \in {"ready", "poll", "parked", "send", "eof", "end"}
  /\ outgoing \in Nat /\ sock \in 0 .. SockCap
  /\ wwake \in {"none", "up", "down"}
  /\ chunks \in 0 .. MaxChunks
  /\ down \in {"recv", "write", "parked", "shut", "shut_parked", "done"}
  /\ stolen \in BOOLEAN

Init ==
  /\ sent = 0 /\ phone = TRUE
  /\ wire = << >> /\ part = 0 /\ incoming = << >> /\ plain = 0
  /\ closed = FALSE
  /\ up = "ready"
  /\ outgoing = 0 /\ sock = 0 /\ wwake = "none"
  /\ chunks = 0 /\ down = "recv"
  /\ stolen = FALSE

-----------------------------------------------------------------------------
(* The phone and the socket.                                               *)

(* The socket wakes the task whose waker it holds.  A downlink that waits  *)
(* for the bridge is polled and waits again.                               *)
WakeWriter ==
  /\ up' = IF wwake = "up" /\ up = "parked" THEN "ready" ELSE up
  /\ down' = IF wwake # "down" THEN down
             ELSE CASE down = "parked" -> "write"
                    [] down = "shut_parked" -> "shut"
                    [] OTHER -> down
  /\ wwake' = "none"

PhoneSends(k) ==
  /\ phone /\ sent < MaxFrames
  /\ sent' = sent + 1
  /\ wire' = Append(wire, k)
  /\ UNCHANGED <<phone, part, incoming, plain, closed, up, outgoing, sock, wwake,
                 chunks, down, stolen>>

PhoneReads ==
  /\ phone /\ sock > 0
  /\ \E n \in 1 .. sock : sock' = sock - n
  /\ WakeWriter
  /\ UNCHANGED <<sent, phone, readVars, closed, outgoing, chunks, stolen>>

PhoneHangsUp ==
  /\ phone
  /\ phone' = FALSE
  /\ WakeWriter
  /\ UNCHANGED <<sent, readVars, closed, outgoing, sock, chunks, stolen>>

-----------------------------------------------------------------------------
(* Staging and draining.                                                   *)

Least(a, b) == IF a < b THEN a ELSE b

(* drain, with `staged` bytes waiting: write until the socket is full, and *)
(* leave the caller's waker if anything is left.                           *)
Drain(staged, who) ==
  LET n == Least(staged, SockCap - sock) IN
    /\ sock' = sock + n
    /\ outgoing' = staged - n
    /\ wwake' = IF staged > n THEN who ELSE wwake
    /\ stolen' = (stolen \/ (staged > n /\ who = "up"
                               /\ down \in {"parked", "shut_parked"} /\ wwake = "down"))

-----------------------------------------------------------------------------
(* poll_read, called by the uplink task.                                   *)

UpPoll ==
  /\ up = "ready"
  /\ up' = "poll"
  /\ UNCHANGED <<sent, phone, readVars, closed, outgoing, sock, wwake, chunks, down, stolen>>

(* Payload in hand is returned before anything else.                       *)
ReadPlain ==
  /\ up = "poll" /\ plain > 0
  /\ \E n \in 1 .. plain : plain' = plain - n
  /\ up' = "send"
  /\ UNCHANGED <<sent, phone, wire, part, incoming, closed, outgoing, sock, wwake,
                 chunks, down, stolen>>

(* Mutant: decoding goes on with payload in hand. *)
PlainTakenUnchecked == up = "poll"

(* The reader has taken the payload in hand, so poll_read goes on.         *)
PlainTaken == up = "poll" /\ plain = 0

(* Mutant: a ping is answered however much is staged. *)
PongAlways == 1

(* A ping stages a pong unless the backlog is past its limit.              *)
Pong == IF outgoing <= MAX_PONG_BACKLOG THEN 1 ELSE 0

(* Mutant: a close frame is skipped like a pong. *)
ClosedByKept(k) == closed

ClosedBy(k) == closed \/ k = "close"

(* decode takes one whole frame and adds its payload to what is in hand;   *)
(* then whatever is staged is drained, and the result is ignored.  A       *)
(* socket in error leaves it staged.                                       *)
Decode ==
  /\ PlainTaken
  /\ incoming # << >> /\ Head(incoming) # "bad"
  /\ LET k == Head(incoming)
         staged == outgoing + (IF k = "ping" THEN Pong ELSE 0)
     IN  /\ incoming' = Tail(incoming)
         /\ \E n \in 0 .. (IF k = "data" THEN MaxPlain ELSE 0) : plain' = plain + n
         /\ closed' = ClosedBy(k)
         /\ IF phone THEN Drain(staged, "up")
            ELSE outgoing' = staged /\ UNCHANGED <<sock, wwake, stolen>>
  /\ UNCHANGED <<sent, phone, wire, part, up, chunks, down>>

(* Most refusals need only the first part of a frame.                      *)
DecodeFails ==
  /\ PlainTaken
  /\ \/ incoming # << >> /\ Head(incoming) = "bad"
     \/ incoming = << >> /\ part = 1 /\ Head(wire) = "bad"
  /\ up' = "end"
  /\ UNCHANGED <<sent, phone, readVars, closed, outgoing, sock, wwake, chunks, down, stolen>>

(* Mutant: the socket is read before what is buffered is decoded. *)
NothingBufferedUnchecked == PlainTaken

(* Nothing buffered can be decoded.                                        *)
NothingBuffered == PlainTaken /\ incoming = << >>

ReadClosed ==
  /\ NothingBuffered /\ closed
  /\ up' = "eof"
  /\ UNCHANGED <<sent, phone, readVars, closed, outgoing, sock, wwake, chunks, down, stolen>>

(* One read of the socket returns any part of what has arrived.            *)
ReadSocket ==
  /\ NothingBuffered /\ ~closed /\ wire # << >>
  /\ \E n \in 1 .. 2 * Len(wire) - part :
       LET whole == (part + n) \div 2 IN
         /\ incoming' = incoming \o SubSeq(wire, 1, whole)
         /\ wire' = SubSeq(wire, whole + 1, Len(wire))
         /\ part' = (part + n) % 2
  /\ UNCHANGED <<sent, phone, plain, closed, up, outgoing, sock, wwake, chunks, down, stolen>>

ReadEof ==
  /\ NothingBuffered /\ ~closed /\ wire = << >> /\ ~phone
  /\ up' = "eof"
  /\ UNCHANGED <<sent, phone, readVars, closed, outgoing, sock, wwake, chunks, down, stolen>>

ReadPends ==
  /\ NothingBuffered /\ ~closed /\ wire = << >> /\ phone
  /\ up' = "parked"
  /\ UNCHANGED <<sent, phone, readVars, closed, outgoing, sock, wwake, chunks, down, stolen>>

(* The read waker: bytes or an end of file have arrived.                   *)
UpWake ==
  /\ up = "parked" /\ (wire # << >> \/ ~phone)
  /\ up' = "ready"
  /\ UNCHANGED <<sent, phone, readVars, closed, outgoing, sock, wwake, chunks, down, stolen>>

(* StreamTx::send returns; the uplink reads on, or the stream is gone.     *)
UpSent ==
  /\ up = "send"
  /\ up' \in {"ready", "end"}
  /\ UNCHANGED <<sent, phone, readVars, closed, outgoing, sock, wwake, chunks, down, stolen>>

-----------------------------------------------------------------------------
(* The downlink: write_all, then shutdown.  A chunk fits one frame, so     *)
(* write_all is one poll_write that returns Ready.                         *)

DownRecv ==
  /\ down = "recv"
  /\ \/ chunks < MaxChunks /\ chunks' = chunks + 1 /\ down' = "write"
     \/ UNCHANGED chunks /\ down' = "shut"
  /\ UNCHANGED <<sent, phone, readVars, closed, up, outgoing, sock, wwake, stolen>>

(* Mutant: back-pressure is reported without asking the socket. *)
PollWriteUnregistered ==
  /\ down = "write" /\ up # "poll" /\ phone
  /\ \/ /\ outgoing > 0
        /\ UNCHANGED <<outgoing, sock, wwake, stolen>>
        /\ down' = "parked"
     \/ /\ outgoing = 0
        /\ Drain(DataLen, "down")
        /\ down' = "recv"
  /\ UNCHANGED <<sent, phone, readVars, closed, up, chunks>>

(* poll_write: Pending until what was staged is gone; then the frame is    *)
(* staged and accepted, however much of it the socket takes now.           *)
PollWrite ==
  /\ down = "write" /\ up # "poll" /\ phone
  /\ \/ /\ outgoing > SockCap - sock
        /\ Drain(outgoing, "down")
        /\ down' = "parked"
     \/ /\ outgoing <= SockCap - sock
        /\ Drain(outgoing + DataLen, "down")
        /\ down' = "recv"
  /\ UNCHANGED <<sent, phone, readVars, closed, up, chunks>>

PollWriteFails ==
  /\ down = "write" /\ up # "poll" /\ ~phone
  /\ down' = "shut"
  /\ UNCHANGED <<sent, phone, readVars, closed, up, outgoing, sock, wwake, chunks, stolen>>

(* poll_shutdown: one close frame, whoever sent the first.                 *)
PollShutdown ==
  /\ down = "shut" /\ up # "poll"
  /\ closed' = TRUE
  /\ LET staged == outgoing + (IF closed THEN 0 ELSE 1) IN
       \/ /\ phone /\ staged > SockCap - sock
          /\ Drain(staged, "down")
          /\ down' = "shut_parked"
       \/ /\ phone /\ staged <= SockCap - sock
          /\ Drain(staged, "down")
          /\ down' = "done"
       \/ /\ ~phone
          /\ outgoing' = staged
          /\ down' = "done"
          /\ UNCHANGED <<sock, wwake, stolen>>
  /\ UNCHANGED <<sent, phone, readVars, up, chunks>>

(* select!: once the uplink has ended the downlink is never polled again,  *)
(* and what is still staged is dropped with the stream.                    *)
UplinkEnds ==
  /\ up \in {"eof", "end"} /\ down # "done"
  /\ down' = "done"
  /\ outgoing' = 0
  /\ UNCHANGED <<sent, phone, readVars, closed, up, sock, wwake, chunks, stolen>>

-----------------------------------------------------------------------------
UpStep ==
  \/ UpPoll \/ ReadPlain \/ Decode \/ DecodeFails \/ ReadClosed \/ ReadSocket
  \/ ReadEof \/ ReadPends \/ UpWake
DownStep == PollWrite \/ PollWriteFails \/ PollShutdown \/ UplinkEnds

Next ==
  \/ \E k \in Kinds : PhoneSends(k)
  \/ PhoneReads \/ PhoneHangsUp
  \/ UpStep \/ UpSent
  \/ DownRecv \/ DownStep

Spec == Init /\ [][Next]_vars

(* Both tasks run and the phone reads what reaches it.  Nothing makes the  *)
(* phone send or hang up, the bridge send or close, or StreamTx::send      *)
(* return: it waits for credit and for room in the outbox.                 *)
Fairness == WF_vars(UpStep) /\ WF_vars(DownStep) /\ WF_vars(PhoneReads)

LiveSpec == Spec /\ Fairness

-----------------------------------------------------------------------------
(* The staging buffer is bounded whatever the phone sends and however      *)
(* little it reads (src/ws.rs:36-39): pongs stop at the backlog limit and  *)
(* data waits for an empty buffer, so at most one frame and a close exceed *)
(* the larger of the two.                                                  *)
OutgoingBounded ==
  outgoing <= (IF DataLen > MAX_PONG_BACKLOG + 1 THEN DataLen ELSE MAX_PONG_BACKLOG + 1) + 1

(* "a reader that waits for more bytes with a whole frame in hand hangs"   *)
(* (src/ws.rs:217), and one that ends with it in hand loses it: the uplink *)
(* neither waits nor reports the end of the stream before everything       *)
(* buffered is decoded and delivered.                                      *)
NothingInHand == up \in {"parked", "eof"} => plain = 0 /\ incoming = << >>

(* A close frame ends the uplink (src/ws.rs:78), even behind data and      *)
(* pings, however the reads of the socket cut the frames.  Only a send of  *)
(* earlier payload that never returns (a bridge that withholds credit, a   *)
(* wedged outbox) keeps the uplink from it.                                *)
CloseEndsUplink ==
  (\E i \in DOMAIN wire : wire[i] = "close")
    ~> (up \in {"eof", "end"} \/ [](up = "send"))

(* A write that waits for a full socket goes on once the phone reads,      *)
(* unless a ping made the uplink take over the socket's only write waker   *)
(* (src/ws.rs:222), which wakes the wrong task.                            *)
WriteResumes ==
  down \in {"parked", "shut_parked"} ~> (down \notin {"parked", "shut_parked"} \/ stolen)

(* "a partial flush finishes on the next poll" (src/ws.rs:260): bytes of   *)
(* an accepted write do not stay staged while the phone reads.             *)
StagedReachesSocket == outgoing > 0 /\ phone ~> (outgoing = 0 \/ ~phone)
=============================================================================

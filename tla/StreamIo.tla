----------------------------- MODULE StreamIo -----------------------------
(***************************************************************************)
(* MuxStreamIo (src/mux.rs): one mux stream as a byte stream.  Reads hand  *)
(* out received chunks piecewise and return their credit with try_send;    *)
(* writes are coalesced into a single send in flight, which only poll_flush*)
(* polls; shutdown and Drop end with close_stream, which cannot await.     *)
(*                                                                         *)
(* Data is counted in bytes.  The caller is external: it reads at any      *)
(* time, has one write, flush or shutdown under way, writes nothing after  *)
(* a shutdown, and may drop the stream at any point.  So are the peer (it  *)
(* keeps to its credit and grants back as the downlink of serve_client     *)
(* does) and the other streams that share the outbox.  How a stream or a   *)
(* link ends is the subject of MuxSession; here each happens in a step.    *)
(***************************************************************************)
EXTENDS Integers, Sequences, FiniteSets

CONSTANTS
  WINDOW, MAX_PAYLOAD, GRANT_THRESHOLD, WRITE_COALESCE,
  OutCap,      \* capacity of the outbox channel
  Chunks,      \* sizes of the peer's DATA frames
  Buffers,     \* room the reader offers
  Writes,      \* sizes of the caller's writes
  MaxWritten   \* bytes the caller writes in all

ASSUME Sizes ==
  /\ WINDOW \in Nat /\ MAX_PAYLOAD \in 1 .. WINDOW /\ OutCap \in Nat \ {0}
  /\ GRANT_THRESHOLD \in 1 .. WINDOW /\ GRANT_THRESHOLD + MAX_PAYLOAD <= WINDOW + 1
  /\ WRITE_COALESCE \in Nat \ {0} /\ MaxWritten \in Nat
  /\ Chunks \subseteq 1 .. MAX_PAYLOAD
  /\ Buffers \subseteq Nat \ {0} /\ Writes \subseteq Nat \ {0}

VARIABLES
  inbox,      \* chunks of the StreamRx not received yet
  tail,       \* bytes of MuxStreamIo.inbox, 0 if None
  creditDue,  \* credit_due
  withheld,   \* the last WINDOW frame found the outbox full
  out,        \* bytes coalesced, not sent
  send,       \* the send in flight, or NoSend
  wake,       \* the caller's task is scheduled to poll its operation
  op,         \* the caller's operation, and how far its end has come
  failed,     \* some operation has reported an error
  shut,       \* result of poll_shutdown
  open,       \* the stream has its entry, and its credit gate is open
  credit,     \* permits of the credit semaphore
  outbox,     \* the outbox channel
  refused,    \* the last CLOSE found the outbox full
  link,       \* the link is alive
  peer,       \* the stream at the peer: open, closed by us, closed by it
  peerCredit, \* bytes the peer may still send
  written, got, \* bytes written by the caller, received by the peer
  owed        \* bytes the peer received and has not granted back

readVars == <<inbox, tail, creditDue, withheld>>
writeVars == <<out, send, wake, written>>
endVars == <<op, failed, shut, open, refused>>
peerVars == <<peer, peerCredit, got, owed>>
vars == <<readVars, writeVars, endVars, credit, outbox, link, peerVars>>

(* left is what StreamTx::send has not put into a frame, held the frame it *)
(* has taken credit for; an async block runs only once it is polled.       *)
NoSend == [left |-> 0, held |-> 0, polled |-> FALSE]
Started(n) == [left |-> n, held |-> 0, polled |-> FALSE]
InFlight == send # NoSend

Data(n) == [kind |-> "DATA", n |-> n]
WindowOf(n) == [kind |-> "WINDOW", n |-> n]
Close == [kind |-> "CLOSE", n |-> 0]
Other == [kind |-> "other", n |-> 0]

Init ==
  /\ inbox = << >> /\ tail = 0 /\ creditDue = 0 /\ withheld = FALSE
  /\ out = 0 /\ send = NoSend /\ wake = FALSE /\ written = 0
  /\ op = "none" /\ failed = FALSE /\ shut = "no" /\ open = TRUE /\ refused = FALSE
  /\ credit = WINDOW /\ outbox = << >> /\ link = TRUE
  /\ peer = "open" /\ peerCredit = WINDOW /\ got = 0 /\ owed = 0

-----------------------------------------------------------------------------
(* Reading.                                                                *)

Least(a, b) == IF a < b THEN a ELSE b

Ending == {"shut_credit", "shut_close", "drop_credit", "drop_close", "gone"}

(* out.try_send succeeds: the channel is neither full nor closed.          *)
Room == link /\ Len(outbox) < OutCap

(* Mutant: the credit is forgotten whether or not the frame was queued. *)
FlushCreditBlind(due) ==
  /\ creditDue' = 0 /\ withheld' = (due > 0 /\ ~Room)
  /\ IF due > 0 /\ Room THEN outbox' = Append(outbox, WindowOf(due)) ELSE UNCHANGED outbox

(* flush_credit, with due bytes owed: kept when the outbox refuses them.   *)
FlushCredit(due) ==
  /\ IF due > 0 /\ Room
     THEN outbox' = Append(outbox, WindowOf(due)) /\ creditDue' = 0
     ELSE creditDue' = due /\ UNCHANGED outbox
  /\ withheld' = (due > 0 /\ ~Room)

(* Mutant: credit is handed back only when the stream ends. *)
ReturnCreditNever(due) == creditDue' = due /\ UNCHANGED <<withheld, outbox>>

ReturnCredit(due) ==
  \/ due < GRANT_THRESHOLD /\ creditDue' = due /\ UNCHANGED <<withheld, outbox>>
  \/ due >= GRANT_THRESHOLD /\ FlushCredit(due)

(* poll_read with room for b bytes: the tail in hand first, else the next  *)
(* chunk.                                                                  *)
PollRead(b) ==
  /\ op \notin Ending
  /\ \/ /\ tail > 0
        /\ tail' = tail - Least(tail, b)
        /\ ReturnCredit(creditDue + Least(tail, b))
        /\ UNCHANGED inbox
     \/ /\ tail = 0 /\ inbox # << >>
        /\ inbox' = Tail(inbox)
        /\ tail' = Head(inbox) - Least(Head(inbox), b)
        /\ ReturnCredit(creditDue + Least(Head(inbox), b))
  /\ UNCHANGED <<writeVars, endVars, credit, link, peerVars>>

(* End of stream: the inbox is drained and the entry with its sender gone. *)
PollReadEnd ==
  /\ op \notin Ending
  /\ tail = 0 /\ inbox = << >> /\ ~open
  /\ FlushCredit(creditDue)
  /\ UNCHANGED <<inbox, tail, writeVars, endVars, credit, link, peerVars>>

-----------------------------------------------------------------------------
(* Writing.                                                                *)

(* poll_write accepts everything, unless a send is in flight: then it      *)
(* returns Pending, having neither polled the send nor kept the waker.     *)
PollWrite(n) ==
  /\ op = "none" /\ shut = "no" /\ written + n <= MaxWritten
  /\ \/ /\ ~InFlight /\ out + n >= WRITE_COALESCE
        /\ send' = Started(out + n) /\ out' = 0
        /\ written' = written + n
        /\ UNCHANGED op
     \/ /\ ~InFlight /\ out + n < WRITE_COALESCE
        /\ out' = out + n
        /\ written' = written + n
        /\ UNCHANGED <<send, op>>
     \/ /\ InFlight
        /\ op' = "write"
        /\ UNCHANGED <<out, send, written>>
  /\ UNCHANGED <<readVars, wake, failed, shut, open, refused, credit, outbox, link, peerVars>>

(* The caller awaits flush() or shutdown(), which polls at once.           *)
Call(o) ==
  /\ op = "none" /\ shut = "no"
  /\ op' = o /\ wake' = TRUE
  /\ UNCHANGED <<readVars, out, send, written, failed, shut, open, refused, credit,
                 outbox, link, peerVars>>

(* poll_flush is Ready: flush() returns, poll_shutdown goes on to the end  *)
(* whatever the result.                                                    *)
Flushed(result) ==
  /\ failed' = (failed \/ result = "error")
  /\ \/ op = "flush" /\ op' = "none" /\ UNCHANGED shut
     \/ op = "shutdown" /\ op' = "shut_credit" /\ shut' = result

(* Mutant: poll_flush starts the send and does not wake itself. *)
PollFlushSleeps ==
  /\ op \in {"flush", "shutdown"} /\ wake
  /\ wake' = FALSE
  /\ \/ /\ InFlight
        /\ send' = [send EXCEPT !.polled = TRUE]
        /\ UNCHANGED <<out, op, failed, shut>>
     \/ /\ ~InFlight /\ out > 0
        /\ send' = Started(out) /\ out' = 0
        /\ UNCHANGED <<op, failed, shut>>
     \/ ~InFlight /\ out = 0 /\ Flushed("ok") /\ UNCHANGED <<out, send>>
  /\ UNCHANGED <<readVars, written, open, refused, credit, outbox, link, peerVars>>

(* Mutant: poll_flush is Ready with bytes still coalesced. *)
PollFlushKeepsOut ==
  /\ op \in {"flush", "shutdown"} /\ wake
  /\ wake' = FALSE
  /\ \/ /\ InFlight
        /\ send' = [send EXCEPT !.polled = TRUE]
        /\ UNCHANGED <<op, failed, shut>>
     \/ ~InFlight /\ Flushed("ok") /\ UNCHANGED send
  /\ UNCHANGED <<readVars, out, written, open, refused, credit, outbox, link, peerVars>>

(* poll_flush: a send in flight is polled; bytes still coalesced become    *)
(* the next one, which wake_by_ref has polled; with neither it is Ready.   *)
PollFlush ==
  /\ op \in {"flush", "shutdown"} /\ wake
  /\ \/ /\ InFlight
        /\ send' = [send EXCEPT !.polled = TRUE]
        /\ wake' = FALSE
        /\ UNCHANGED <<out, op, failed, shut>>
     \/ /\ ~InFlight /\ out > 0
        /\ send' = Started(out) /\ out' = 0
        /\ UNCHANGED <<wake, op, failed, shut>>
     \/ /\ ~InFlight /\ out = 0
        /\ Flushed("ok")
        /\ wake' = FALSE
        /\ UNCHANGED <<out, send>>
  /\ UNCHANGED <<readVars, written, open, refused, credit, outbox, link, peerVars>>

Polled == op \in {"flush", "shutdown"} /\ send.polled

(* The turn of the loop of StreamTx::send that poll_flush drives: credit   *)
(* for a payload, or the error of a closed gate.                           *)
SendAcquire ==
  /\ Polled /\ send.left > 0 /\ send.held = 0
  /\ LET take == Least(send.left, MAX_PAYLOAD) IN
       \/ /\ open /\ credit >= take
          /\ credit' = credit - take
          /\ send' = [left |-> send.left - take, held |-> take, polled |-> TRUE]
          /\ UNCHANGED <<op, failed, shut>>
       \/ /\ ~open
          /\ send' = NoSend
          /\ Flushed("error")
          /\ UNCHANGED credit
  /\ UNCHANGED <<readVars, out, wake, written, open, refused, outbox, link, peerVars>>

(* ... then room in the outbox.  A wake-up resumes the send where it was.  *)
SendPush ==
  /\ Polled /\ send.held > 0
  /\ \/ /\ Room
        /\ outbox' = Append(outbox, Data(send.held))
        /\ send' = [send EXCEPT !.held = 0]
        /\ UNCHANGED <<op, failed, shut>>
     \/ /\ ~link
        /\ send' = NoSend
        /\ Flushed("error")
        /\ UNCHANGED outbox
  /\ UNCHANGED <<readVars, out, wake, written, open, refused, credit, link, peerVars>>

(* The send is complete.  poll_write has let nothing in behind it.         *)
SendDone ==
  /\ Polled /\ send.left = 0 /\ send.held = 0
  /\ send' = NoSend
  /\ Flushed("ok")
  /\ UNCHANGED <<readVars, out, wake, written, open, refused, credit, outbox, link, peerVars>>

-----------------------------------------------------------------------------
(* The end of poll_shutdown, and Drop.                                     *)

(* The last credit; the writer may make room before close_stream.          *)
EndCredit ==
  /\ \/ op = "shut_credit" /\ op' = "shut_close"
     \/ op = "drop_credit" /\ op' = "drop_close"
  /\ FlushCredit(creditDue)
  /\ UNCHANGED <<inbox, tail, writeVars, failed, shut, open, refused, credit, link, peerVars>>

(* Mutant: CLOSE is sent only by the call that removed the entry. *)
CloseStreamOnce ==
  /\ \/ op = "shut_close" /\ op' = "none" /\ UNCHANGED <<inbox, tail, out, send>>
     \/ op = "drop_close" /\ op' = "gone" /\ inbox' = << >> /\ tail' = 0 /\ out' = 0 /\ send' = NoSend
  /\ open' = FALSE
  /\ IF Room /\ open THEN outbox' = Append(outbox, Close) ELSE UNCHANGED outbox
  /\ refused' = (link /\ ~Room)
  /\ UNCHANGED <<creditDue, withheld, wake, written, failed, shut, credit, link, peerVars>>

(* close_stream: remove the entry if it is there, close its gate, and send *)
(* CLOSE if the outbox has room.  After Drop the fields go, and with them  *)
(* what was not read and not sent.                                         *)
CloseStream ==
  /\ \/ op = "shut_close" /\ op' = "none" /\ UNCHANGED <<inbox, tail, out, send>>
     \/ op = "drop_close" /\ op' = "gone" /\ inbox' = << >> /\ tail' = 0 /\ out' = 0 /\ send' = NoSend
  /\ open' = FALSE
  /\ IF Room THEN outbox' = Append(outbox, Close) ELSE UNCHANGED outbox
  /\ refused' = (link /\ ~Room)
  /\ UNCHANGED <<creditDue, withheld, wake, written, failed, shut, credit, link, peerVars>>

Drop ==
  /\ op \notin Ending
  /\ op' = "drop_credit" /\ wake' = FALSE
  /\ UNCHANGED <<readVars, out, send, written, failed, shut, open, refused, credit,
                 outbox, link, peerVars>>

-----------------------------------------------------------------------------
(* The rest of the session, the link and the peer.                         *)

(* The KIND_DATA arm of read_loop; after the entry is gone, ignored.       *)
PeerSends(n) ==
  /\ link /\ peer = "open" /\ n <= peerCredit
  /\ peerCredit' = peerCredit - n
  /\ IF open THEN inbox' = Append(inbox, n) ELSE UNCHANGED inbox
  /\ UNCHANGED <<tail, creditDue, withheld, writeVars, endVars, credit, outbox, link, peer, got, owed>>

(* The KIND_WINDOW arm.                                                    *)
PeerGrants ==
  /\ link /\ peer = "open" /\ owed >= GRANT_THRESHOLD
  /\ credit' = IF open THEN credit + owed ELSE credit
  /\ owed' = 0
  /\ UNCHANGED <<readVars, writeVars, endVars, outbox, link, peer, peerCredit, got>>

(* The KIND_CLOSE arm.                                                     *)
PeerCloses ==
  /\ link /\ peer = "open"
  /\ peer' = "left" /\ open' = FALSE
  /\ UNCHANGED <<readVars, writeVars, op, failed, shut, refused, credit, outbox, link,
                 peerCredit, got, owed>>

(* The writer takes a frame and the peer reads it.                         *)
PeerReceives ==
  /\ outbox # << >>
  /\ outbox' = Tail(outbox)
  /\ LET f == Head(outbox) IN
       /\ got' = IF f.kind = "DATA" THEN got + f.n ELSE got
       /\ owed' = IF f.kind = "DATA" THEN owed + f.n ELSE owed
       /\ peerCredit' = IF f.kind = "WINDOW" THEN peerCredit + f.n ELSE peerCredit
       /\ peer' = IF f.kind = "CLOSE" /\ peer = "open" THEN "told" ELSE peer
  /\ UNCHANGED <<readVars, writeVars, endVars, credit, link>>

OthersSend ==
  /\ Room
  /\ outbox' = Append(outbox, Other)
  /\ UNCHANGED <<readVars, writeVars, endVars, credit, link, peerVars>>

LinkDies ==
  /\ link
  /\ link' = FALSE /\ open' = FALSE /\ outbox' = << >>
  /\ peer' = IF peer = "open" THEN "left" ELSE peer
  /\ UNCHANGED <<readVars, writeVars, op, failed, shut, refused, credit, peerCredit, got, owed>>

-----------------------------------------------------------------------------
Next ==
  \/ \E b \in Buffers : PollRead(b)
  \/ PollReadEnd
  \/ \E n \in Writes : PollWrite(n)
  \/ Call("flush") \/ Call("shutdown")
  \/ PollFlush \/ SendAcquire \/ SendPush \/ SendDone
  \/ Drop \/ EndCredit \/ CloseStream
  \/ \E n \in Chunks : PeerSends(n)
  \/ PeerGrants \/ PeerCloses \/ PeerReceives \/ OthersSend \/ LinkDies

Spec == Init /\ [][Next]_vars

(* A scheduled task is polled, a send parked for credit or room (in FIFO   *)
(* order: SF) is woken when it comes, the writer drains the outbox, the    *)
(* caller keeps reading and an honest peer grants past its threshold.      *)
Fairness ==
  /\ WF_vars(\E b \in Buffers : PollRead(b))
  /\ WF_vars(PollFlush) /\ WF_vars(SendAcquire) /\ SF_vars(SendPush) /\ WF_vars(SendDone)
  /\ WF_vars(EndCredit) /\ WF_vars(CloseStream)
  /\ WF_vars(PeerReceives) /\ WF_vars(PeerGrants)

LiveSpec == Spec /\ Fairness

-----------------------------------------------------------------------------
(* The bytes of a sequence of chunks, each named by its chunk and its      *)
(* place in it, and those that frames of one kind carry.                   *)
Bytes(s) == UNION {{i} \X (1 .. s[i]) : i \in DOMAIN s}
Total(s) == Cardinality(Bytes(s))
Carried(q, kind) == [i \in DOMAIN q |-> IF q[i].kind = kind THEN q[i].n ELSE 0]
Queued(kind) == Total(Carried(outbox, kind))

(* While the stream has its entry, every byte of either window is in one   *)
(* place: no partial read, refused try_send or parked send loses credit or *)
(* gives it twice ("What the reader has taken is what the peer may send    *)
(* again", src/mux.rs:476).                                                *)
WindowsConserved ==
  open =>
    /\ peerCredit + Total(inbox) + tail + creditDue + Queued("WINDOW") = WINDOW
    /\ credit + send.held + Queued("DATA") + owed = WINDOW

(* When a shutdown has returned Ok, the peer that reads its CLOSE has read *)
(* every byte the caller wrote, unless an earlier flush reported an error: *)
(* nothing stays behind in the coalescing buffer or in the send in flight, *)
(* and no DATA follows the CLOSE.                                          *)
ShutdownDelivers == shut = "ok" /\ ~failed /\ peer = "told" => got = written

CloseQueued == \E i \in DOMAIN outbox : outbox[i] = Close

(* "the bridge slot must go back now" (src/mux.rs:538): once the stream is *)
(* dropped the peer knows, or a CLOSE is queued, or the last one found the *)
(* outbox full (src/mux.rs:354).  Drop repeats the CLOSE of a shutdown, so *)
(* one refused there is made good.                                         *)
DropTells == op = "gone" /\ peer = "open" => CloseQueued \/ refused

(* A flush or shutdown always returns: the send it starts is polled again, *)
(* although poll_flush returns Pending without having polled it.           *)
FlushReturns == op \in {"flush", "shutdown"} ~> op \notin {"flush", "shutdown"}

(* "a stream that never returns credit stalls once a window has crossed"   *)
(* (src/mux.rs:391): a peer short of credit for a payload gets some, or    *)
(* the stream ends, or a WINDOW frame was refused by a full outbox: that   *)
(* credit waits for the next read, which may never come.                   *)
PeerResumes ==
  (open /\ peerCredit < MAX_PAYLOAD)
    ~> (peerCredit >= MAX_PAYLOAD \/ ~open \/ op \in Ending \/ withheld)
=============================================================================

---------------------------- MODULE FlowControl ----------------------------
(***************************************************************************)
(* The byte windows of one open stream, in both directions: the credit     *)
(* semaphore and StreamTx::send of src/mux.rs towards the bridge, the      *)
(* inbox, the downlink loop of serve_client (src/lib.rs) and its WINDOW    *)
(* frames towards the phone.                                               *)
(*                                                                         *)
(* A queue of frames is its number of frames and its number of bytes; a    *)
(* frame taken from it has any size that leaves a queue of that many       *)
(* frames possible.  The bridge is external: it spends only credit it has  *)
(* been granted, in frames of MinFrame to MAX_PAYLOAD bytes, and it grants *)
(* only what it has consumed.  The life cycle of the stream is the subject *)
(* of MuxSession; here the stream ends only by overflowing its inbox.      *)
(***************************************************************************)
EXTENDS Integers

CONSTANTS
  WINDOW,           \* receive window of a stream, in bytes
  MAX_PAYLOAD,      \* most bytes in a DATA frame
  GRANT_THRESHOLD,  \* consumed bytes that trigger a WINDOW frame
  INBOX_FRAMES,     \* frames an inbox holds
  MinFrame,         \* fewest bytes the bridge puts in a DATA frame
  HEAD_LEN          \* the preamble, sent up the stream first

ASSUME Sizes ==
  /\ WINDOW \in Nat /\ INBOX_FRAMES \in Nat \ {0}
  /\ MAX_PAYLOAD \in 1 .. WINDOW /\ HEAD_LEN \in 1 .. MAX_PAYLOAD
  /\ MinFrame \in 1 .. MAX_PAYLOAD
ASSUME ThresholdLeavesAPayload ==
  GRANT_THRESHOLD \in 1 .. WINDOW /\ GRANT_THRESHOLD + MAX_PAYLOAD <= WINDOW + 1

(* No window's worth of frames is more frames than an inbox holds.         *)
FramesFit == WINDOW < (INBOX_FRAMES + 1) * MinFrame

VARIABLES
  bCredit,    \* bytes the bridge may still send
  inFrames, inBytes,  \* the stream's inbox
  chunk,      \* bytes the downlink is writing to the phone, 0 if none
  pending,    \* bytes written and not granted back
  granting,   \* bytes of WINDOW frames on their way to the bridge
  open,       \* the stream has its entry
  left,       \* bytes of the uplink's last read that are not sent
  credit,     \* permits of the credit semaphore
  upWire,     \* DATA bytes on their way to the bridge
  owed        \* bytes the bridge consumed and has not granted back

downVars == <<bCredit, inFrames, inBytes, chunk, pending, granting, open>>
upVars == <<left, credit, upWire, owed>>
vars == <<downVars, upVars>>

TypeOK ==
  /\ bCredit \in 0 .. WINDOW
  /\ inFrames \in 0 .. INBOX_FRAMES /\ inBytes \in 0 .. WINDOW
  /\ chunk \in 0 .. MAX_PAYLOAD
  /\ pending \in 0 .. WINDOW /\ granting \in 0 .. WINDOW
  /\ open \in BOOLEAN
  /\ left \in 0 .. WINDOW
  /\ credit \in 0 .. WINDOW /\ upWire \in 0 .. WINDOW /\ owed \in 0 .. WINDOW

Init ==
  /\ bCredit = WINDOW
  /\ inFrames = 0 /\ inBytes = 0
  /\ chunk = 0 /\ pending = 0 /\ granting = 0
  /\ open = TRUE
  /\ left = HEAD_LEN
  /\ credit = WINDOW /\ upWire = 0 /\ owed = 0

-----------------------------------------------------------------------------
(* Towards the phone.                                                      *)

(* A queue of f frames can hold b bytes.                                   *)
Fits(f, b) == f * MinFrame <= b /\ b <= f * MAX_PAYLOAD

(* The KIND_DATA arm of read_loop: try_send into the inbox, or Full.       *)
RecvData(n) ==
  /\ open /\ n <= bCredit
  /\ bCredit' = bCredit - n
  /\ \/ /\ inFrames < INBOX_FRAMES
        /\ inFrames' = inFrames + 1 /\ inBytes' = inBytes + n
        /\ UNCHANGED open
     \/ /\ inFrames = INBOX_FRAMES
        /\ open' = FALSE
        /\ UNCHANGED <<inFrames, inBytes>>
  /\ UNCHANGED <<chunk, pending, granting, upVars>>

(* Mutant: a grant waits for more than the whole window. *)
GrantDueLate == pending > WINDOW

(* What has been written makes a WINDOW frame worth sending; it is sent    *)
(* before the next chunk is received.                                      *)
GrantDue == pending >= GRANT_THRESHOLD

DownlinkRecv(n) ==
  /\ chunk = 0 /\ ~GrantDue
  /\ inFrames > 0 /\ n <= inBytes /\ Fits(inFrames - 1, inBytes - n)
  /\ inFrames' = inFrames - 1 /\ inBytes' = inBytes - n
  /\ chunk' = n
  /\ UNCHANGED <<bCredit, pending, granting, open, upVars>>

DownlinkWrite ==
  /\ chunk > 0
  /\ pending' = pending + chunk
  /\ chunk' = 0
  /\ UNCHANGED <<bCredit, inFrames, inBytes, granting, open, upVars>>

(* Mutant: the grant is a constant, and what exceeds it is dropped. *)
DownlinkGrantRounds ==
  /\ chunk = 0 /\ GrantDue
  /\ granting' = granting + GRANT_THRESHOLD
  /\ pending' = 0
  /\ UNCHANGED <<bCredit, inFrames, inBytes, chunk, open, upVars>>

(* StreamTx::grant.                                                        *)
DownlinkGrant ==
  /\ chunk = 0 /\ GrantDue
  /\ granting' = granting + pending
  /\ pending' = 0
  /\ UNCHANGED <<bCredit, inFrames, inBytes, chunk, open, upVars>>

(* The bridge applies WINDOW frames that have reached it.                  *)
BridgeCredited(n) ==
  /\ n <= granting
  /\ granting' = granting - n
  /\ bCredit' = bCredit + n
  /\ UNCHANGED <<inFrames, inBytes, chunk, pending, open, upVars>>

-----------------------------------------------------------------------------
(* Towards the bridge.                                                     *)

UplinkRead(n) ==
  /\ left = 0
  /\ left' = n
  /\ UNCHANGED <<downVars, credit, upWire, owed>>

(* Mutant: the permits are not forgotten, so dropping them returns them. *)
UplinkSendKeepsPermits ==
  LET take == IF left < MAX_PAYLOAD THEN left ELSE MAX_PAYLOAD IN
    /\ open /\ left > 0 /\ credit >= take
    /\ upWire' = upWire + take
    /\ left' = left - take
    /\ UNCHANGED <<downVars, credit, owed>>

(* One turn of the loop of StreamTx::send: acquire_many waits for the      *)
(* whole chunk and fails once the gate is closed; the permits are          *)
(* forgotten.                                                              *)
UplinkSend ==
  LET take == IF left < MAX_PAYLOAD THEN left ELSE MAX_PAYLOAD IN
    /\ open /\ left > 0 /\ credit >= take
    /\ credit' = credit - take
    /\ upWire' = upWire + take
    /\ left' = left - take
    /\ UNCHANGED <<downVars, owed>>

BridgeConsumes(n) ==
  /\ n <= upWire
  /\ upWire' = upWire - n
  /\ owed' = owed + n
  /\ UNCHANGED <<downVars, left, credit>>

(* The KIND_WINDOW arm of read_loop: add_permits.                          *)
RecvWindow(n) ==
  /\ open /\ n <= owed
  /\ owed' = owed - n
  /\ credit' = credit + n
  /\ UNCHANGED <<downVars, left, upWire>>

Next ==
  \/ \E n \in MinFrame .. MAX_PAYLOAD : RecvData(n) \/ DownlinkRecv(n)
  \/ DownlinkWrite \/ DownlinkGrant
  \/ \E n \in 1 .. WINDOW :
       BridgeCredited(n) \/ UplinkRead(n) \/ BridgeConsumes(n) \/ RecvWindow(n)
  \/ UplinkSend

Spec == Init /\ [][Next]_vars

(* The proxy's tasks run, the phone takes what is written to it, and the   *)
(* writer and the bridge deliver and apply WINDOW frames.                  *)
Fairness ==
  /\ WF_vars(\E n \in MinFrame .. MAX_PAYLOAD : DownlinkRecv(n))
  /\ WF_vars(DownlinkWrite) /\ WF_vars(DownlinkGrant)
  /\ WF_vars(\E n \in 1 .. WINDOW : BridgeCredited(n))

LiveSpec == Spec /\ Fairness

-----------------------------------------------------------------------------
(* Every byte of the window towards the phone is credit at the bridge, in  *)
(* the inbox, being written, written and not granted, or granted and on    *)
(* its way: batching grants (src/lib.rs:302-308) neither loses credit nor  *)
(* mints it, so the stream never holds more than a window.                 *)
DownConserved ==
  open => bCredit + inBytes + chunk + pending + granting = WINDOW

(* The same for the other direction: what the bridge holds unconsumed is   *)
(* bounded by its window, because permits are forgotten when bytes leave.  *)
UpConserved == credit + upWire + owed = WINDOW

(* The bytes below the threshold that are never granted (src/lib.rs:303)   *)
(* cannot wedge the stream: once everything sent has been written and      *)
(* every grant has arrived, the bridge can send a full frame.              *)
NoStall ==
  open /\ inFrames = 0 /\ chunk = 0 /\ granting = 0 /\ pending < GRANT_THRESHOLD
    => bCredit >= MAX_PAYLOAD

(* "Overflow therefore means a peer that ignored its credit"               *)
(* (src/mux.rs:35): a bridge that keeps to its credit never overflows.     *)
HonestBridgeNeverOverflows == open

(* A bridge that has run out of credit gets some back, as long as the      *)
(* phone reads.                                                            *)
CreditReturns == (open /\ bCredit < MinFrame) ~> (bCredit >= MinFrame \/ ~open)
=============================================================================

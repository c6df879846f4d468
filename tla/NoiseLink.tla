---------------------------- MODULE NoiseLink ----------------------------
(***************************************************************************)
(* The byte stream of one bridge connection (src/noise.rs, and serve and   *)
(* serve_bridge of src/lib.rs up to MuxSession::start): the preamble, the  *)
(* XX handshake read with exact reads, then sealed frames cut out of       *)
(* whatever the socket delivers, each direction with a nonce of its own.   *)
(*                                                                         *)
(* A message on the wire is a two-unit length prefix and a body; units     *)
(* arrive one by one, so every split of the stream happens.  Cryptography  *)
(* is abstracted to what it decides: a handshake message is accepted if it *)
(* is the one expected and intact, a sealed one opens if it is intact, cut *)
(* where it was sealed and under the nonce the receiver expects.  The      *)
(* first message of XX is not sealed: damaged, it is answered all the      *)
(* same, but the ends have diverged and the bridge does not prove itself.  *)
(* Between the two ends messages may be mangled.  The bridge is external:  *)
(* it follows the handshake, sends frames and may stop at any point.       *)
(***************************************************************************)
EXTENDS Integers, Sequences

CONSTANTS
  HEAD_LEN,           \* units of the preamble
  TAG_LEN,            \* smallest sealed body
  MAX_HANDSHAKE_MSG,  \* largest handshake body
  HsLen,              \* body of a handshake message
  BodyLens,           \* bodies of sealed frames
  MaxFrames,          \* frames sent in each direction
  MaxMangles,         \* messages mangled on the way
  MangleKinds         \* a subset of AllMangles

AllMangles == {"corrupt", "drop", "repeat", "cut"}

ASSUME LensFit ==
  /\ HEAD_LEN \in Nat \ {0} /\ TAG_LEN \in Nat \ {0}
  /\ MAX_HANDSHAKE_MSG \in Nat /\ HsLen \in 1 .. MAX_HANDSHAKE_MSG
  /\ \A l \in BodyLens : l \in Nat /\ l >= TAG_LEN
ASSUME BoundsNat == MaxFrames \in Nat /\ MaxMangles \in Nat /\ MangleKinds \subseteq AllMangles

VARIABLES
  phase,      \* where serve, xx_respond and then read_loop are
  bridge,     \* where the bridge is in the handshake; "left" once it hung up
  wire,       \* messages from the bridge not yet consumed
  whole,      \* how many of them have arrived
  part,       \* units of the next one that have arrived
  sent,       \* frames the bridge has sealed
  nonce,      \* NoiseDecoder.nonce
  delivered,  \* frames decode has returned
  mangled,    \* messages mangled so far
  enonce,     \* NoiseEncoder.nonce
  outbuf,     \* nonces of the frames in the write buffer
  opened      \* frames the bridge has opened, which is its nonce

inVars == <<phase, wire, whole, part, nonce, delivered>>
outVars == <<enonce, outbuf, opened>>
vars == <<inVars, bridge, sent, mangled, outVars>>

(* prefix is the length the message announces, body the one it has.        *)
Message(kind, val, body) ==
  [kind |-> kind, val |-> val, body |-> body, prefix |-> body, intact |-> TRUE]

Kinds == {"head", "msg1", "msg3", "frame"}
Reading == {"head", "msg1", "msg3", "astray", "framed"}
Replying == {"reply", "misreply"}
Open == Reading \cup Replying

TypeOK ==
  /\ phase \in Open \cup {"expired", "refused", "ended"}
  /\ bridge \in {"dial", "await", "up", "left"}
  /\ whole \in 0 .. Len(wire) /\ part \in Nat
  /\ \A i \in DOMAIN wire : wire[i].kind \in Kinds /\ wire[i].val \in 0 .. MaxFrames
  /\ sent \in 0 .. MaxFrames /\ nonce \in 0 .. sent /\ delivered \in Seq(1 .. MaxFrames)
  /\ mangled \in 0 .. MaxMangles
  /\ enonce \in 0 .. MaxFrames /\ opened \in 0 .. enonce

Init ==
  /\ phase = "head" /\ bridge = "dial"
  /\ wire = << >> /\ whole = 0 /\ part = 0
  /\ sent = 0 /\ nonce = 0 /\ delivered = << >> /\ mangled = 0
  /\ enonce = 0 /\ outbuf = << >> /\ opened = 0

-----------------------------------------------------------------------------
(* The bridge and the network.                                             *)

BridgeDials ==
  /\ bridge = "dial"
  /\ wire' = wire \o <<Message("head", 0, HEAD_LEN), Message("msg1", 0, HsLen)>>
  /\ bridge' = "await"
  /\ UNCHANGED <<phase, whole, part, nonce, delivered, sent, mangled, outVars>>

(* The reply has come: msg3, and frames right behind it if it likes.       *)
BridgeProves ==
  /\ bridge = "await" /\ phase = "msg3"
  /\ wire' = Append(wire, Message("msg3", 0, HsLen))
  /\ bridge' = "up"
  /\ UNCHANGED <<phase, whole, part, nonce, delivered, sent, mangled, outVars>>

(* val numbers the frame, and is the nonce it is sealed under plus one.    *)
BridgeSends(l) ==
  /\ bridge = "up" /\ sent < MaxFrames
  /\ sent' = sent + 1
  /\ wire' = Append(wire, Message("frame", sent + 1, l))
  /\ UNCHANGED <<phase, bridge, whole, part, nonce, delivered, mangled, outVars>>

BridgeLeaves ==
  /\ bridge # "left"
  /\ bridge' = "left"
  /\ UNCHANGED <<inVars, sent, mangled, outVars>>

Prefix(m) == IF m.kind = "head" THEN 0 ELSE 2

Arrive ==
  /\ whole < Len(wire)
  /\ LET m == wire[whole + 1] IN
       IF part + 1 = Prefix(m) + m.body
       THEN whole' = whole + 1 /\ part' = 0
       ELSE part' = part + 1 /\ UNCHANGED whole
  /\ UNCHANGED <<phase, bridge, wire, nonce, delivered, sent, mangled, outVars>>

(* A message under way is damaged, lost, duplicated, or its prefix (which  *)
(* the seal does not cover) changed, before any of it arrives.             *)
Mangled(m, how) ==
  CASE how = "corrupt" -> {<<[m EXCEPT !.intact = FALSE]>>}
    [] how = "drop"    -> {<< >>}
    [] how = "repeat"  -> {<<m, m>>}
    [] how = "cut"     -> IF m.kind = "head" THEN {}
                          ELSE {<<[m EXCEPT !.prefix = @ + d]>> : d \in {-1, 1}}

Mangle ==
  /\ mangled < MaxMangles
  /\ \E i \in DOMAIN wire : \E how \in MangleKinds : \E ms \in Mangled(wire[i], how) :
       /\ i > whole + 1 \/ (i = whole + 1 /\ part = 0)
       /\ wire' = SubSeq(wire, 1, i - 1) \o ms \o SubSeq(wire, i + 1, Len(wire))
  /\ mangled' = mangled + 1
  /\ UNCHANGED <<phase, bridge, whole, part, nonce, delivered, sent, outVars>>

-----------------------------------------------------------------------------
(* Reading.  Arrived(n): the next n units of the stream are there.         *)

First == wire[1]
Arrived(n) ==
  IF whole = 0 THEN part >= n
  ELSE n <= Prefix(First) + First.body \/ whole > 1 \/ part > 0

Announced == wire # << >> /\ Arrived(Prefix(First))
Complete == Announced /\ Arrived(Prefix(First) + First.prefix)

Take == wire' = Tail(wire) /\ whole' = whole - 1

(* Mutant: a buffered reader takes all that has arrived with the message. *)
TakeBuffered == wire' = SubSeq(wire, whole + 1, Len(wire)) /\ whole' = 0

(* read_exact of the preamble and read_frame of the handshake consume the  *)
(* message and not a unit more.                                            *)
TakeExactly == Take

(* A wrong magic or version, a handshake message that is not the one due,  *)
(* a sealed one that does not open.                                        *)
Refused == phase' = "refused" /\ UNCHANGED <<wire, whole, part, nonce, delivered>>

Accepts(kind) == First.kind = kind /\ First.intact /\ First.prefix = First.body

ReadHead ==
  /\ phase = "head" /\ wire # << >> /\ Arrived(HEAD_LEN)
  /\ \/ Accepts("head") /\ TakeExactly /\ phase' = "msg1" /\ UNCHANGED <<part, nonce, delivered>>
     \/ ~Accepts("head") /\ Refused
  /\ UNCHANGED <<bridge, sent, mangled, outVars>>

(* A damaged msg1 of the right length reads like any other.                *)
Misread == phase = "msg1" /\ First.kind = "msg1" /\ ~First.intact /\ First.prefix = First.body

(* read_frame checks the announced length before it waits for the body.    *)
ReadHandshake ==
  /\ phase \in {"msg1", "msg3", "astray"} /\ Announced
  /\ \/ /\ First.prefix <= MAX_HANDSHAKE_MSG /\ Complete /\ Accepts(phase)
        /\ TakeExactly
        /\ phase' = IF phase = "msg1" THEN "reply" ELSE "framed"
        /\ UNCHANGED <<part, nonce, delivered>>
     \/ /\ First.prefix <= MAX_HANDSHAKE_MSG /\ Complete /\ Misread
        /\ TakeExactly
        /\ phase' = "misreply"
        /\ UNCHANGED <<part, nonce, delivered>>
     \/ /\ First.prefix <= MAX_HANDSHAKE_MSG /\ Complete /\ ~Accepts(phase) /\ ~Misread
        /\ Refused
     \/ First.prefix > MAX_HANDSHAKE_MSG /\ Refused
  /\ UNCHANGED <<bridge, sent, mangled, outVars>>

(* write_frame of the second message, flushed.                             *)
Reply ==
  /\ phase \in Replying
  /\ phase' = IF phase = "reply" THEN "msg3" ELSE "astray"
  /\ UNCHANGED <<bridge, wire, whole, part, nonce, delivered, sent, mangled, outVars>>

(* Mutant: a sealed message is opened under the nonce it brings. *)
OpensAny == Accepts("frame")

(* transport.read_message(self.nonce, ..)                                  *)
Opens == Accepts("frame") /\ First.val = nonce + 1

(* Mutant: the body is not waited for. *)
DecodeEager ==
  /\ phase = "framed" /\ Announced
  /\ Take
  /\ nonce' = nonce + 1
  /\ delivered' = Append(delivered, First.val)
  /\ UNCHANGED <<phase, part, bridge, sent, mangled, outVars>>

(* NoiseDecoder::decode, as FramedRead calls it: nothing is consumed until *)
(* the whole message is there; an error ends read_loop.                    *)
Decode ==
  /\ phase = "framed" /\ Announced
  /\ \/ /\ First.prefix >= TAG_LEN /\ Complete /\ Opens
        /\ Take
        /\ nonce' = nonce + 1
        /\ delivered' = Append(delivered, First.val)
        /\ UNCHANGED <<phase, part>>
     \/ First.prefix >= TAG_LEN /\ Complete /\ ~Opens /\ Refused
     \/ First.prefix < TAG_LEN /\ Refused
  /\ UNCHANGED <<bridge, sent, mangled, outVars>>

Stalled == phase \in Reading /\ whole = Len(wire) /\ part = 0 /\ ~Complete

(* End of file, once all that was sent has been read.                      *)
ReadEof ==
  /\ Stalled /\ bridge = "left"
  /\ phase' = "ended"
  /\ UNCHANGED <<bridge, wire, whole, part, nonce, delivered, sent, mangled, outVars>>

(* Mutant: only the preamble is under a timeout. *)
ExpirePreamble ==
  /\ phase = "head"
  /\ phase' = "expired"
  /\ UNCHANGED <<bridge, wire, whole, part, nonce, delivered, sent, mangled, outVars>>

(* PREAMBLE_TIMEOUT in serve, handshake_timeout in serve_bridge.           *)
Expire ==
  /\ phase \in Open \ {"framed"}
  /\ phase' = "expired"
  /\ UNCHANGED <<bridge, wire, whole, part, nonce, delivered, sent, mangled, outVars>>

-----------------------------------------------------------------------------
(* Writing.                                                                *)

(* Mutant: the nonce moves on at the flush, not with every message. *)
EncodePerFlush ==
  /\ phase = "framed" /\ enonce < MaxFrames
  /\ outbuf' = Append(outbuf, enonce)
  /\ enonce' = IF outbuf = << >> THEN enonce + 1 ELSE enonce
  /\ UNCHANGED <<inVars, bridge, sent, mangled, opened>>

(* NoiseEncoder::encode, called by feed.  A mux frame always fits.         *)
Encode ==
  /\ phase = "framed" /\ enonce < MaxFrames
  /\ outbuf' = Append(outbuf, enonce)
  /\ enonce' = enonce + 1
  /\ UNCHANGED <<inVars, bridge, sent, mangled, opened>>

(* The bridge opens the next flushed frame, or gives up.                   *)
BridgeOpens ==
  /\ phase = "framed" /\ bridge = "up" /\ outbuf # << >>
  /\ outbuf' = Tail(outbuf)
  /\ IF Head(outbuf) = opened
     THEN opened' = opened + 1 /\ UNCHANGED phase
     ELSE phase' = "refused" /\ UNCHANGED opened
  /\ UNCHANGED <<bridge, wire, whole, part, nonce, delivered, sent, mangled, enonce>>

-----------------------------------------------------------------------------
Next ==
  \/ BridgeDials \/ BridgeProves \/ BridgeLeaves \/ Arrive \/ Mangle
  \/ \E l \in BodyLens : BridgeSends(l)
  \/ ReadHead \/ ReadHandshake \/ Reply \/ Decode \/ ReadEof \/ Expire
  \/ Encode \/ BridgeOpens

Spec == Init /\ [][Next]_vars

(* The network delivers what is sent, a task with something to read runs,  *)
(* and a timer fires.  Nothing makes the bridge go on.                     *)
Fairness ==
  /\ WF_vars(Arrive) /\ WF_vars(ReadHead) /\ WF_vars(ReadHandshake)
  /\ WF_vars(Reply) /\ WF_vars(Decode) /\ WF_vars(ReadEof) /\ WF_vars(Expire)

LiveSpec == Spec /\ Fairness

-----------------------------------------------------------------------------
(* Without a mangled message neither end ever refuses one, however the     *)
(* stream is split and however close the first frames follow msg3: no unit *)
(* is lost between the exact reads of the handshake (src/noise.rs:119) and *)
(* the buffered ones after it, and the nonces of the two ends agree.       *)
HonestNeverRefused == mangled = 0 => phase # "refused"

(* Decoded frames are what the bridge sent, in order, once each, whatever  *)
(* is dropped, repeated, damaged or cut on the way: the link breaks first. *)
Pipe == INSTANCE FramePipe WITH
          Values <- 1 .. MaxFrames, sent <- [i \in 1 .. sent |-> i],
          open <- phase \in Open
ImplementsFramePipe == Pipe!Spec

(* Every frame of an adopted bridge comes out at the other end, unless the *)
(* link was mangled or the handshake ran out of time.                      *)
NothingLost ==
  \A k \in 1 .. MaxFrames :
    sent >= k ~> (Len(delivered) >= k \/ mangled > 0 \/ phase = "expired")

(* "the whole XX flow is bounded, not just the preamble read before it"    *)
(* (src/lib.rs:224): wherever a bridge stalls, its attempt ends.           *)
AdoptionEnds == phase = "head" ~> phase \notin Open \ {"framed"}
=============================================================================

------------------------- MODULE NoiseLink_proofs -------------------------
(***************************************************************************)
(* A bridge link delivers the frames sealed for it, in order and once      *)
(* each, whatever is done to the messages on the way, and refuses none if  *)
(* nothing is: for every preamble, handshake and frame length, any number  *)
(* of frames and of mangled messages.                                      *)
(***************************************************************************)
EXTENDS NoiseLink, SequenceTheorems, TLAPS

Phases == Open \cup {"expired", "refused", "ended"}
Broken == {"refused", "misreply", "astray"}
Units(m) == Prefix(m) + m.body

(* What can be on the wire once n frames were sealed: whatever was done to *)
(* a frame, its number is one that was sealed.                             *)
Msgs(n) ==
  {m \in [kind : Kinds, val : 0 .. MaxFrames, body : Nat \ {0}, prefix : Int, intact : BOOLEAN] :
     /\ m.kind = "head" => m.body = HEAD_LEN
     /\ m.kind = "frame" => m.val \in 1 .. n}

(* part counts units of the message after the whole ones, never all of it. *)
Framing ==
  /\ whole \in 0 .. Len(wire) /\ part \in Nat
  /\ whole = Len(wire) => part = 0
  /\ whole < Len(wire) => part < Units(wire[whole + 1])

Scalars ==
  /\ phase \in Phases /\ bridge \in {"dial", "await", "up", "left"}
  /\ sent \in 0 .. MaxFrames /\ mangled \in 0 .. MaxMangles

(* The frames decoded so far are the first ones sealed.                    *)
Decoded ==
  /\ nonce \in 0 .. sent
  /\ delivered \in Seq(1 .. MaxFrames) /\ Len(delivered) = nonce
  /\ \A i \in 1 .. nonce : delivered[i] = i

InInv == Scalars /\ wire \in Seq(Msgs(sent)) /\ Framing /\ Decoded

(* The write buffer holds the nonces the bridge expects next.              *)
OutInv ==
  /\ enonce \in 0 .. MaxFrames /\ opened \in Nat /\ outbuf \in Seq(Nat)
  /\ opened + Len(outbuf) = enonce
  /\ \A i \in 1 .. Len(outbuf) : outbuf[i] = opened + i - 1

(* The n-th message an honest bridge sends.                                *)
KindAt(n) == IF n = 1 THEN "head" ELSE IF n = 2 THEN "msg1" ELSE IF n = 3 THEN "msg3" ELSE "frame"
Nth(m, n) ==
  /\ m.intact /\ m.prefix = m.body /\ m.kind = KindAt(n)
  /\ n \in {2, 3} => m.body = HsLen
  /\ n > 3 => m.val = n - 3 /\ m.body >= TAG_LEN

Consumed ==
  IF phase = "head" THEN 0 ELSE IF phase = "msg1" THEN 1
  ELSE IF phase \in {"reply", "msg3"} THEN 2 ELSE 3 + nonce
Emitted == IF bridge = "dial" THEN 0 ELSE IF bridge = "await" THEN 2 ELSE 3 + sent

(* Untouched, the wire carries on where the reader stopped.                *)
InOrder ==
  /\ \A i \in 1 .. Len(wire) : Nth(wire[i], Consumed + i)
  /\ bridge # "left" => Consumed + Len(wire) = Emitted
HonestInv ==
  mangled = 0 => phase \notin Broken /\ (phase \in Open => InOrder)

(* No frame is sealed, and none is decoded, before the handshake is over.  *)
NotYet ==
  /\ bridge \in {"dial", "await"} => sent = 0
  /\ phase \in {"head", "msg1", "reply", "msg3"} => nonce = 0

LinkInv == InInv /\ OutInv /\ NotYet /\ HonestInv

-----------------------------------------------------------------------------
(* A message has units.                                                    *)
LEMMA UnitsType ==
  ASSUME NEW n, NEW m \in Msgs(n)
  PROVE  Units(m) \in Nat \ {0}
BY DEF Units, Prefix, Msgs

(* A message whose units have all arrived is among the whole ones, so that *)
(* taking it takes no unit of the next.                                    *)
LEMMA WholeArrived ==
  ASSUME InInv, wire # << >>, Arrived(Units(First))
  PROVE  whole > 0
<1>1. Len(wire) \in Nat \ {0} /\ First \in Msgs(sent)
  BY EmptySeq, ElementOfSeq DEF InInv, First
<1>2. Units(First) \in Nat
  BY <1>1 DEF Units, Prefix, Msgs
<1> QED
  BY <1>1, <1>2 DEF InInv, Framing, Arrived, First

LEMMA TakeFraming ==
  ASSUME InInv, wire # << >>, whole > 0, Take, UNCHANGED <<part, sent>>
  PROVE  /\ wire' \in Seq(Msgs(sent')) /\ Framing'
         /\ Len(wire') = Len(wire) - 1
         /\ \A i \in 1 .. Len(wire') : wire'[i] = wire[i + 1]
<1>1. /\ wire' \in Seq(Msgs(sent)) /\ Len(wire') = Len(wire) - 1
      /\ \A i \in 1 .. Len(wire') : wire'[i] = wire[i + 1]
  BY HeadTailProperties DEF InInv, Take
<1>2. Len(wire) \in Nat /\ Len(wire') \in Nat
  BY <1>1, LenProperties DEF InInv
<1>3. whole \in 0 .. Len(wire) /\ whole' = whole - 1 /\ part' = part /\ part \in Nat
  BY DEF InInv, Framing, Take
<1>4. ASSUME whole' < Len(wire') PROVE wire'[whole' + 1] = wire[whole + 1] /\ whole < Len(wire)
  BY <1>1, <1>2, <1>3, <1>4
<1>5. whole' = Len(wire') => part' = 0
  BY <1>1, <1>2, <1>3 DEF InInv, Framing
<1>6. whole' < Len(wire') => part' < Units(wire'[whole' + 1])
  BY <1>3, <1>4 DEF InInv, Framing
<1> QED
  BY <1>1, <1>2, <1>3, <1>5, <1>6 DEF Framing

(* A wire that only grew at its end.                                       *)
LEMMA GrownFraming ==
  ASSUME InInv, wire' \in Seq(Msgs(sent')), Len(wire') >= Len(wire),
         \A i \in 1 .. Len(wire) : wire'[i] = wire[i], UNCHANGED <<whole, part>>
  PROVE  Framing'
<1>1. /\ Len(wire) \in Nat /\ Len(wire') \in Nat /\ whole \in 0 .. Len(wire)
      /\ part \in Nat /\ whole' = whole /\ part' = part
  BY LenProperties DEF InInv, Framing
<1>2. ASSUME whole < Len(wire') PROVE part < Units(wire'[whole + 1])
  <2>1. CASE whole = Len(wire)
    <3>1. wire'[whole + 1] \in Msgs(sent')
      BY <1>1, <1>2, ElementOfSeq
    <3>2. part = 0
      BY <2>1 DEF InInv, Framing
    <3> QED
      BY <3>1, <3>2, UnitsType
  <2>2. CASE whole < Len(wire)
    BY <1>1, <2>2 DEF InInv, Framing
  <2> QED
    BY <1>1, <2>1, <2>2
<1>3. whole = Len(wire') => part = 0
  BY <1>1 DEF InInv, Framing
<1> QED
  BY <1>1, <1>2, <1>3 DEF Framing

(* What is sent lands behind what is on the wire.                          *)
LEMMA SendFraming ==
  ASSUME InInv, NEW ms, ms \in Seq(Msgs(sent')), sent' \in Nat, sent <= sent',
         wire' = wire \o ms, UNCHANGED <<whole, part>>
  PROVE  /\ wire' \in Seq(Msgs(sent')) /\ Framing'
         /\ Len(wire') = Len(wire) + Len(ms)
         /\ \A i \in 1 .. Len(wire) : wire'[i] = wire[i]
         /\ \A i \in 1 .. Len(ms) : wire'[Len(wire) + i] = ms[i]
<1>1. Msgs(sent) \subseteq Msgs(sent')
  BY DEF Msgs, InInv, Scalars
<1>2. wire \in Seq(Msgs(sent')) /\ Len(wire) \in Nat /\ Len(ms) \in Nat
  BY <1>1, SeqMonotonic, LenProperties DEF InInv
<1>3. /\ wire' \in Seq(Msgs(sent')) /\ Len(wire') = Len(wire) + Len(ms)
      /\ \A i \in 1 .. Len(wire) + Len(ms) :
           wire'[i] = IF i <= Len(wire) THEN wire[i] ELSE ms[i - Len(wire)]
  BY <1>2, ConcatProperties
<1>4. \A i \in 1 .. Len(wire) : wire'[i] = wire[i]
  BY <1>2, <1>3
<1>5. \A i \in 1 .. Len(ms) : wire'[Len(wire) + i] = ms[i]
  BY <1>2, <1>3
<1>6. Len(wire') >= Len(wire)
  BY <1>2, <1>3
<1> QED
  BY <1>3, <1>4, <1>5, <1>6, GrownFraming

(* Whatever is done to a message, its number stays one that was sealed.    *)
LEMMA MangledType ==
  ASSUME InInv, NEW i \in DOMAIN wire, NEW how \in AllMangles, NEW ms \in Mangled(wire[i], how)
  PROVE  ms \in Seq(Msgs(sent))
<1> DEFINE m == wire[i]
<1>1. m \in Msgs(sent)
  BY LenProperties DEF InInv
<1>2. CASE how = "corrupt"
  <2>1. ms = <<[m EXCEPT !.intact = FALSE]>>
    BY <1>2 DEF Mangled
  <2>2. [m EXCEPT !.intact = FALSE] \in Msgs(sent)
    BY <1>1 DEF Msgs
  <2> QED
    BY <2>1, <2>2
<1>3. CASE how = "drop"
  BY <1>3 DEF Mangled
<1>4. CASE how = "repeat"
  <2>1. ms = <<m, m>>
    BY <1>4 DEF Mangled
  <2> QED
    BY <1>1, <2>1
<1>5. CASE how = "cut"
  <2>1. PICK d \in {-1, 1} : ms = <<[m EXCEPT !.prefix = @ + d]>>
    BY <1>5 DEF Mangled
  <2>2. [m EXCEPT !.prefix = @ + d] \in Msgs(sent)
    BY <1>1 DEF Msgs
  <2> QED
    BY <2>1, <2>2
<1> QED
  BY <1>2, <1>3, <1>4, <1>5 DEF AllMangles

(* Messages are mangled before any unit of them arrives.                   *)
LEMMA MangleFraming ==
  ASSUME InInv, Mangle
  PROVE  wire' \in Seq(Msgs(sent')) /\ Framing'
<1>1. PICK i \in DOMAIN wire, how \in MangleKinds : \E ms \in Mangled(wire[i], how) :
        /\ i > whole + 1 \/ (i = whole + 1 /\ part = 0)
        /\ wire' = SubSeq(wire, 1, i - 1) \o ms \o SubSeq(wire, i + 1, Len(wire))
  BY DEF Mangle
<1>2. PICK ms \in Mangled(wire[i], how) :
        /\ i > whole + 1 \/ (i = whole + 1 /\ part = 0)
        /\ wire' = SubSeq(wire, 1, i - 1) \o ms \o SubSeq(wire, i + 1, Len(wire))
  BY <1>1
<1>3. ms \in Seq(Msgs(sent)) /\ UNCHANGED <<whole, part, sent>>
  BY MangledType, BoundsNat DEF Mangle
<1>4. Len(wire) \in Nat /\ i \in 1 .. Len(wire) /\ \A j \in 1 .. Len(wire) : wire[j] \in Msgs(sent)
  BY LenProperties DEF InInv
<1> DEFINE a == SubSeq(wire, 1, i - 1)
           b == SubSeq(wire, i + 1, Len(wire))
<1>5. a \in Seq(Msgs(sent)) /\ Len(a) = i - 1 /\ \A j \in 1 .. i - 1 : a[j] = wire[j]
  <2>1. \A j \in 1 .. i - 1 : wire[j] \in Msgs(sent)
    BY <1>4
  <2> QED
    BY <1>4, <2>1, SubSeqProperties
<1>6. b \in Seq(Msgs(sent))
  <2>1. \A j \in i + 1 .. Len(wire) : wire[j] \in Msgs(sent)
    BY <1>4
  <2> QED
    BY <1>4, <2>1, SubSeqProperties
<1> HIDE DEF a, b
<1>7. /\ a \o ms \in Seq(Msgs(sent)) /\ Len(a \o ms) = i - 1 + Len(ms) /\ Len(ms) \in Nat
      /\ \A j \in 1 .. i - 1 : (a \o ms)[j] = wire[j]
  BY <1>3, <1>4, <1>5, ConcatProperties, LenProperties
<1>8. /\ wire' \in Seq(Msgs(sent)) /\ Len(wire') = i - 1 + Len(ms) + Len(b) /\ Len(b) \in Nat
      /\ \A j \in 1 .. i - 1 : wire'[j] = wire[j]
  <2>1. wire' = (a \o ms) \o b
    BY <1>2 DEF a, b
  <2> QED
    BY <1>4, <1>6, <1>7, <2>1, ConcatProperties, LenProperties
<1>9. whole \in 0 .. i - 1 /\ part \in Nat /\ Len(wire') >= i - 1
  <2>1. whole \in Nat /\ part \in Nat /\ whole <= i - 1
    BY <1>2, <1>4 DEF InInv, Framing
  <2> QED
    BY <1>4, <1>7, <1>8, <2>1
<1>10. whole = Len(wire') => part = 0
  BY <1>2, <1>4, <1>9
<1>11. ASSUME whole < Len(wire') PROVE part < Units(wire'[whole + 1])
  <2>1. CASE whole = i - 1
    <3>1. part = 0
      BY <1>2, <1>4, <2>1
    <3>2. wire'[whole + 1] \in Msgs(sent)
      BY <1>8, <1>9, <1>11, ElementOfSeq
    <3> QED
      BY <3>1, <3>2 DEF Units, Prefix, Msgs
  <2>2. CASE whole < i - 1
    <3>1. wire'[whole + 1] = wire[whole + 1] /\ whole < Len(wire)
      BY <1>4, <1>8, <1>9, <2>2
    <3> QED
      BY <3>1 DEF InInv, Framing
  <2> QED
    BY <1>4, <1>9, <2>1, <2>2
<1>12. whole \in 0 .. Len(wire')
  BY <1>4, <1>7, <1>8, <1>9
<1> QED
  BY <1>3, <1>8, <1>9, <1>10, <1>11, <1>12 DEF Framing

(* A unit arrives.                                                         *)
LEMMA ArriveFraming ==
  ASSUME InInv, Arrive
  PROVE  wire' \in Seq(Msgs(sent')) /\ Framing'
<1>1. /\ UNCHANGED <<wire, sent>> /\ Len(wire) \in Nat /\ whole < Len(wire)
      /\ whole \in Nat /\ part \in Nat /\ part < Units(wire[whole + 1])
  BY LenProperties DEF InInv, Framing, Arrive
<1>2. \A j \in 1 .. Len(wire) : Units(wire[j]) \in Nat \ {0}
  <2> TAKE j \in 1 .. Len(wire)
  <2>1. wire[j] \in Msgs(sent)
    BY ElementOfSeq DEF InInv
  <2> QED
    BY <2>1 DEF Units, Prefix, Msgs
<1>3. CASE part + 1 = Units(wire[whole + 1])
  <2>1. whole' = whole + 1 /\ part' = 0
    BY <1>3 DEF Arrive, Units
  <2> QED
    BY <1>1, <1>2, <2>1 DEF InInv, Framing
<1>4. CASE part + 1 # Units(wire[whole + 1])
  <2>1. whole' = whole /\ part' = part + 1
    BY <1>4 DEF Arrive, Units
  <2>2. Units(wire[whole + 1]) \in Nat
    BY <1>1, <1>2
  <2> QED
    BY <1>1, <1>4, <2>1, <2>2 DEF InInv, Framing
<1> QED
  BY <1>3, <1>4

-----------------------------------------------------------------------------
(* What the bridge puts on the wire is well formed.                        *)
LEMMA HandshakeTypes ==
  ASSUME NEW n
  PROVE  /\ Message("head", 0, HEAD_LEN) \in Msgs(n)
         /\ Message("msg1", 0, HsLen) \in Msgs(n)
         /\ Message("msg3", 0, HsLen) \in Msgs(n)
BY LensFit, BoundsNat DEF Message, Msgs, Kinds

LEMMA FrameType ==
  ASSUME NEW n \in 1 .. MaxFrames, NEW l \in BodyLens
  PROVE  Message("frame", n, l) \in Msgs(n)
<1>1. l \in Nat \ {0}
  BY LensFit
<1> QED
  BY <1>1, BoundsNat DEF Message, Msgs, Kinds

(* The messages of each send, as one sequence.                             *)
LEMMA Sends ==
  ASSUME InInv
  PROVE  /\ BridgeDials =>
              /\ wire' = wire \o <<Message("head", 0, HEAD_LEN), Message("msg1", 0, HsLen)>>
              /\ <<Message("head", 0, HEAD_LEN), Message("msg1", 0, HsLen)>> \in Seq(Msgs(sent'))
         /\ BridgeProves =>
              /\ wire' = wire \o <<Message("msg3", 0, HsLen)>>
              /\ <<Message("msg3", 0, HsLen)>> \in Seq(Msgs(sent'))
         /\ \A l \in BodyLens : BridgeSends(l) =>
              /\ wire' = wire \o <<Message("frame", sent + 1, l)>>
              /\ <<Message("frame", sent + 1, l)>> \in Seq(Msgs(sent'))
<1>1. ASSUME NEW m PROVE Append(wire, m) = wire \o <<m>>
  <2>1. wire \in Seq(Msgs(sent) \cup {m})
    BY SeqMonotonic DEF InInv
  <2> QED
    BY <2>1, AppendIsConcat
<1>2. ASSUME NEW n, NEW m \in Msgs(n) PROVE <<m>> \in Seq(Msgs(n))
  OBVIOUS
<1>3. ASSUME NEW n, NEW m \in Msgs(n), NEW k \in Msgs(n) PROVE <<m, k>> \in Seq(Msgs(n))
  OBVIOUS
<1>4. ASSUME BridgeDials
      PROVE  /\ wire' = wire \o <<Message("head", 0, HEAD_LEN), Message("msg1", 0, HsLen)>>
             /\ <<Message("head", 0, HEAD_LEN), Message("msg1", 0, HsLen)>> \in Seq(Msgs(sent'))
  BY <1>3, <1>4, HandshakeTypes DEF BridgeDials
<1>5. ASSUME BridgeProves
      PROVE  /\ wire' = wire \o <<Message("msg3", 0, HsLen)>>
             /\ <<Message("msg3", 0, HsLen)>> \in Seq(Msgs(sent'))
  BY <1>1, <1>2, <1>5, HandshakeTypes DEF BridgeProves
<1>6. ASSUME NEW l \in BodyLens, BridgeSends(l)
      PROVE  /\ wire' = wire \o <<Message("frame", sent + 1, l)>>
             /\ <<Message("frame", sent + 1, l)>> \in Seq(Msgs(sent'))
  <2>1. sent' = sent + 1 /\ sent + 1 \in 1 .. MaxFrames
    BY <1>6, BoundsNat DEF BridgeSends, InInv, Scalars
  <2>2. Message("frame", sent + 1, l) \in Msgs(sent')
    BY <2>1, FrameType
  <2> QED
    BY <1>1, <1>2, <1>6, <2>2 DEF BridgeSends
<1> QED
  BY <1>4, <1>5, <1>6

(* A frame that opens is the next one sealed, and has arrived whole.       *)
LEMMA OpensNext ==
  ASSUME InInv, Announced, Complete, Opens
  PROVE  whole > 0 /\ wire # << >> /\ First.val = nonce + 1 /\ nonce + 1 \in 1 .. sent
<1>1. wire # << >> /\ First \in Msgs(sent)
  BY EmptySeq, ElementOfSeq DEF InInv, Announced, First
<1>2. First.val = nonce + 1 /\ nonce + 1 \in 1 .. sent
  BY <1>1 DEF Opens, Accepts, Msgs
<1>3. Arrived(Units(First))
  BY DEF Complete, Opens, Accepts, Units
<1> QED
  BY <1>1, <1>2, <1>3, WholeArrived

(* A handshake message accepted, or a preamble, has arrived whole.         *)
LEMMA AcceptsWhole ==
  ASSUME InInv, wire # << >>, NEW kind, Accepts(kind),
         \/ kind = "head" /\ Arrived(HEAD_LEN)
         \/ Complete
  PROVE  whole > 0
<1>1. First \in Msgs(sent)
  BY EmptySeq, ElementOfSeq DEF InInv, First
<1>2. Arrived(Units(First))
  <2>1. CASE kind = "head" /\ Arrived(HEAD_LEN)
    <3>1. Units(First) = HEAD_LEN
      BY <1>1, <2>1, LensFit DEF Accepts, Units, Prefix, Msgs
    <3> QED
      BY <2>1, <3>1
  <2>2. CASE Complete
    BY <2>2 DEF Complete, Accepts, Units
  <2> QED
    BY <2>1, <2>2
<1> QED
  BY <1>2, WholeArrived

(* So has a damaged msg1 that was read.                                    *)
LEMMA MisreadWhole ==
  ASSUME InInv, wire # << >>, Misread, Complete
  PROVE  whole > 0
<1>1. Arrived(Units(First))
  BY DEF Complete, Misread, Units
<1> QED
  BY <1>1, WholeArrived

(* Every step keeps the reading side in order.                             *)
LEMMA InStep ==
  ASSUME InInv, OutInv, [Next]_vars
  PROVE  InInv'
<1>1. ASSUME Scalars', wire' \in Seq(Msgs(sent')), Framing', sent <= sent',
             UNCHANGED <<nonce, delivered>>
      PROVE  InInv'
  <2>1. Decoded'
    BY <1>1 DEF InInv, Decoded, Scalars
  <2> QED
    BY <1>1, <2>1 DEF InInv
<1>2. ASSUME phase' \in Phases, UNCHANGED <<bridge, wire, whole, part, sent, nonce, delivered, mangled>>
      PROVE  InInv'
  BY <1>2 DEF InInv, Scalars, Framing, Decoded
<1>3. sent \in Nat
  BY DEF InInv, Scalars
<1>0. ASSUME NEW ms, ms \in Seq(Msgs(sent')), wire' = wire \o ms, Scalars', sent <= sent',
             UNCHANGED <<whole, part, nonce, delivered>>
      PROVE  InInv'
  <2>1. sent' \in Nat
    BY <1>0 DEF Scalars
  <2>2. wire' \in Seq(Msgs(sent')) /\ Framing'
    BY <1>0, <2>1, SendFraming
  <2> QED
    BY <1>0, <1>1, <2>2
<1>4. CASE BridgeDials
  <2>1. Scalars' /\ UNCHANGED <<sent, whole, part, nonce, delivered>>
    BY <1>4 DEF BridgeDials, InInv, Scalars
  <2>2. PICK ms : ms = <<Message("head", 0, HEAD_LEN), Message("msg1", 0, HsLen)>>
    OBVIOUS
  <2>3. ms \in Seq(Msgs(sent')) /\ wire' = wire \o ms
    BY <1>4, <2>2, Sends
  <2> QED
    BY <1>0, <1>3, <2>1, <2>3
<1>5. CASE BridgeProves
  <2>1. Scalars' /\ UNCHANGED <<sent, whole, part, nonce, delivered>>
    BY <1>5 DEF BridgeProves, InInv, Scalars
  <2>2. PICK ms : ms = <<Message("msg3", 0, HsLen)>>
    OBVIOUS
  <2>3. ms \in Seq(Msgs(sent')) /\ wire' = wire \o ms
    BY <1>5, <2>2, Sends
  <2> QED
    BY <1>0, <1>3, <2>1, <2>3
<1>6. ASSUME NEW l \in BodyLens, BridgeSends(l) PROVE InInv'
  <2>1. Scalars' /\ sent' = sent + 1 /\ UNCHANGED <<whole, part, nonce, delivered>>
    BY <1>6, BoundsNat DEF BridgeSends, InInv, Scalars
  <2>2. PICK ms : ms = <<Message("frame", sent + 1, l)>>
    OBVIOUS
  <2>3. ms \in Seq(Msgs(sent')) /\ wire' = wire \o ms
    BY <1>6, <2>2, Sends
  <2> QED
    BY <1>0, <1>3, <2>1, <2>3
<1>7. CASE BridgeLeaves
  <2>1. Scalars' /\ UNCHANGED <<wire, whole, part, sent, nonce, delivered>>
    BY <1>7 DEF BridgeLeaves, inVars, InInv, Scalars
  <2> QED
    BY <1>1, <1>3, <2>1 DEF InInv, Framing
<1>8. CASE Arrive
  <2>1. Scalars' /\ UNCHANGED <<sent, nonce, delivered>>
    BY <1>8 DEF Arrive, InInv, Scalars
  <2> QED
    BY <1>1, <1>3, <1>8, <2>1, ArriveFraming
<1>9. CASE Mangle
  <2>1. Scalars' /\ UNCHANGED <<sent, nonce, delivered>>
    BY <1>9, BoundsNat DEF Mangle, InInv, Scalars
  <2> QED
    BY <1>1, <1>3, <1>9, <2>1, MangleFraming
<1>10. ASSUME wire # << >>, whole > 0, Take, phase' \in Phases,
              UNCHANGED <<part, nonce, delivered, bridge, sent, mangled>>
       PROVE  InInv'
  <2>1. Scalars'
    BY <1>10 DEF InInv, Scalars
  <2> QED
    BY <1>1, <1>3, <1>10, <2>1, TakeFraming
<1>11. CASE ReadHead
  <2>1. CASE Accepts("head") /\ TakeExactly /\ phase' = "msg1" /\ UNCHANGED <<part, nonce, delivered>>
    BY <1>10, <1>11, <2>1, AcceptsWhole DEF ReadHead, TakeExactly, Phases, Open, Reading, Replying
  <2>2. CASE Refused
    BY <1>2, <1>11, <2>2 DEF ReadHead, Refused, Phases
  <2> QED
    BY <1>11, <2>1, <2>2 DEF ReadHead
<1>12. CASE ReadHandshake
  <2>1. CASE /\ Complete /\ Accepts(phase) /\ TakeExactly
             /\ phase' = IF phase = "msg1" THEN "reply" ELSE "framed"
             /\ UNCHANGED <<part, nonce, delivered>>
    <3>1. wire # << >> /\ phase' \in Phases
      BY <1>12, <2>1 DEF ReadHandshake, Announced, Phases, Open, Reading, Replying
    <3> QED
      BY <1>10, <1>12, <2>1, <3>1, AcceptsWhole DEF ReadHandshake, TakeExactly
  <2>2. CASE Refused
    BY <1>2, <1>12, <2>2 DEF ReadHandshake, Refused, Phases
  <2>3. CASE /\ Complete /\ Misread /\ TakeExactly /\ phase' = "misreply"
             /\ UNCHANGED <<part, nonce, delivered>>
    <3>1. wire # << >> /\ phase' \in Phases
      BY <1>12, <2>3 DEF ReadHandshake, Announced, Phases, Open, Replying
    <3> QED
      BY <1>10, <1>12, <2>3, <3>1, MisreadWhole DEF ReadHandshake, TakeExactly
  <2> QED
    BY <1>12, <2>1, <2>2, <2>3 DEF ReadHandshake
<1>13. CASE Decode
  <2>1. CASE /\ Complete /\ Opens /\ Take /\ nonce' = nonce + 1
             /\ delivered' = Append(delivered, First.val) /\ UNCHANGED <<phase, part>>
    <3>1. Scalars' /\ UNCHANGED <<part, sent>> /\ Announced
      BY <1>13, <2>1 DEF Decode, InInv, Scalars
    <3>2. whole > 0 /\ wire # << >> /\ First.val = nonce + 1 /\ nonce + 1 \in 1 .. sent
      BY <2>1, <3>1, OpensNext
    <3>3. First.val \in 1 .. MaxFrames
      BY <3>2, BoundsNat DEF InInv, Scalars
    <3>4. /\ delivered' \in Seq(1 .. MaxFrames) /\ Len(delivered') = nonce + 1
          /\ \A i \in 1 .. nonce : delivered'[i] = i
          /\ delivered'[nonce + 1] = nonce + 1
      BY <2>1, <3>2, <3>3, AppendProperties DEF InInv, Decoded
    <3>5. Decoded'
      BY <2>1, <3>1, <3>2, <3>4 DEF InInv, Decoded, Scalars
    <3> QED
      BY <2>1, <3>1, <3>2, <3>5, TakeFraming DEF InInv
  <2>2. CASE Refused
    BY <1>2, <1>13, <2>2 DEF Decode, Refused, Phases
  <2> QED
    BY <1>13, <2>1, <2>2 DEF Decode
<1>14. CASE Reply \/ ReadEof \/ Expire
  BY <1>2, <1>14 DEF Reply, ReadEof, Expire, Phases, Open, Reading, Replying
<1>15. CASE Encode
  BY <1>2, <1>15 DEF Encode, inVars, InInv, Scalars
<1>16. CASE BridgeOpens
  <2>1. phase' \in Phases /\ UNCHANGED <<bridge, wire, whole, part, sent, nonce, delivered, mangled>>
    BY <1>16 DEF BridgeOpens, InInv, Scalars, Phases
  <2> QED
    BY <1>2, <2>1
<1>17. CASE UNCHANGED vars
  BY <1>2, <1>17 DEF vars, inVars, InInv, Scalars
<1> QED
  BY <1>4, <1>5, <1>6, <1>7, <1>8, <1>9, <1>11, <1>12, <1>13, <1>14, <1>15, <1>16, <1>17 DEF Next

(* Every step keeps the writing side in order.                             *)
LEMMA OutStep ==
  ASSUME OutInv, [Next]_vars
  PROVE  OutInv'
<1>1. CASE Encode
  <2>1. outbuf' = Append(outbuf, enonce) /\ enonce' = enonce + 1 /\ opened' = opened /\ enonce < MaxFrames
    BY <1>1 DEF Encode
  <2>2. enonce \in Nat /\ Len(outbuf) \in Nat
    BY LenProperties DEF OutInv
  <2>3. /\ outbuf' \in Seq(Nat) /\ Len(outbuf') = Len(outbuf) + 1
        /\ outbuf'[Len(outbuf) + 1] = enonce
        /\ \A i \in 1 .. Len(outbuf) : outbuf'[i] = outbuf[i]
    BY <2>1, <2>2, AppendProperties DEF OutInv
  <2>4. ASSUME NEW i \in 1 .. Len(outbuf') PROVE outbuf'[i] = opened + i - 1
    <3>1. CASE i = Len(outbuf) + 1
      BY <2>2, <2>3, <3>1 DEF OutInv
    <3>2. CASE i # Len(outbuf) + 1
      <4>1. Len(outbuf) \in Nat
        BY LenProperties DEF OutInv
      <4>2. i \in 1 .. Len(outbuf)
        BY <2>3, <3>2, <4>1
      <4> QED
        BY <2>3, <4>2 DEF OutInv
    <3> QED
      BY <3>1, <3>2
  <2> QED
    BY <2>1, <2>2, <2>3, <2>4, BoundsNat DEF OutInv
<1>2. CASE BridgeOpens
  <2>1. outbuf # << >> /\ outbuf' = Tail(outbuf) /\ enonce' = enonce
    BY <1>2 DEF BridgeOpens
  <2>2. Len(outbuf) \in Nat \ {0} /\ outbuf[1] = opened /\ Head(outbuf) = outbuf[1]
    BY <2>1, EmptySeq DEF OutInv
  <2>3. opened' = opened + 1
    BY <1>2, <2>2 DEF BridgeOpens
  <2>4. /\ outbuf' \in Seq(Nat) /\ Len(outbuf') = Len(outbuf) - 1
        /\ \A i \in 1 .. Len(outbuf') : outbuf'[i] = outbuf[i + 1]
    BY <2>1, HeadTailProperties DEF OutInv
  <2>5. ASSUME NEW i \in 1 .. Len(outbuf') PROVE outbuf'[i] = opened' + i - 1
    BY <2>2, <2>3, <2>4 DEF OutInv
  <2>6. enonce' \in 0 .. MaxFrames /\ opened' \in Nat
    BY <2>1, <2>3 DEF OutInv
  <2>7. opened \in Nat /\ opened + Len(outbuf) = enonce
    BY DEF OutInv
  <2>8. opened' + Len(outbuf') = enonce'
    BY <2>1, <2>2, <2>3, <2>4, <2>7
  <2> QED
    BY <2>4, <2>5, <2>6, <2>8 DEF OutInv
<1>3. CASE ~(Encode \/ BridgeOpens)
  <2>1. UNCHANGED outVars
    BY <1>3 DEF Next, vars, BridgeDials, BridgeProves, BridgeSends, BridgeLeaves, Arrive, Mangle,
                ReadHead, ReadHandshake, Reply, Decode, ReadEof, Expire
  <2> QED
    BY <2>1 DEF outVars, OutInv
<1> QED
  BY <1>1, <1>2, <1>3

(* Frames come after the handshake, at both ends.                          *)
LEMMA NotYetStep ==
  ASSUME InInv, NotYet, [Next]_vars
  PROVE  NotYet'
<1>1. CASE \E l \in BodyLens : BridgeSends(l)
  BY <1>1 DEF BridgeSends, NotYet
<1>2. CASE BridgeDials \/ BridgeProves \/ BridgeLeaves
  BY <1>2 DEF BridgeDials, BridgeProves, BridgeLeaves, inVars, NotYet
<1>3. CASE ReadHead \/ ReadHandshake
  BY <1>3 DEF ReadHead, ReadHandshake, Refused, NotYet
<1>4. CASE Reply \/ ReadEof \/ Expire
  BY <1>4 DEF Reply, ReadEof, Expire, NotYet
<1>5. CASE Decode
  BY <1>5 DEF Decode, Refused, NotYet
<1>6. CASE BridgeOpens
  BY <1>6 DEF BridgeOpens, NotYet
<1>7. CASE UNCHANGED <<phase, nonce, bridge, sent>>
  BY <1>7 DEF NotYet
<1> QED
  BY <1>1, <1>2, <1>3, <1>4, <1>5, <1>6, <1>7 DEF Next, vars, inVars, Arrive, Mangle, Encode

-----------------------------------------------------------------------------
(* The reader stands where it did and the wire grew by the next messages.  *)
LEMMA SendsInOrder ==
  ASSUME InInv, InOrder, Consumed \in Nat, Consumed' = Consumed, NEW ms, ms \in Seq(Msgs(sent')),
         sent' \in Nat, sent <= sent', wire' = wire \o ms, UNCHANGED <<whole, part>>,
         bridge # "left", Emitted' = Emitted + Len(ms),
         \A i \in 1 .. Len(ms) : Nth(ms[i], Emitted + i)
  PROVE  InOrder'
<1>1. /\ Len(wire') = Len(wire) + Len(ms)
      /\ \A i \in 1 .. Len(wire) : wire'[i] = wire[i]
      /\ \A i \in 1 .. Len(ms) : wire'[Len(wire) + i] = ms[i]
  BY SendFraming
<1>2. Len(wire) \in Nat /\ Len(ms) \in Nat /\ Consumed + Len(wire) = Emitted
  BY LenProperties DEF InInv, InOrder
<1> HIDE DEF Consumed, Emitted
<1>3. ASSUME NEW i \in 1 .. Len(wire') PROVE Nth(wire'[i], Consumed + i)
  <2>1. CASE i <= Len(wire)
    BY <1>1, <1>2, <1>3, <2>1 DEF InOrder
  <2>2. CASE i > Len(wire)
    <3>1. PICK j \in 1 .. Len(ms) : i = Len(wire) + j
      <4>1. i - Len(wire) \in 1 .. Len(ms) /\ i = Len(wire) + (i - Len(wire))
        BY <1>1, <1>2, <1>3, <2>2
      <4> QED
        BY <4>1
    <3>2. wire'[i] = ms[j] /\ Consumed + i = Emitted + j
      BY <1>1, <1>2, <3>1
    <3> QED
      BY <3>1, <3>2
  <2> QED
    BY <1>1, <1>2, <1>3, <2>1, <2>2
<1>4. Consumed' + Len(wire') = Emitted'
  BY <1>1, <1>2
<1>5. \A i \in 1 .. Len(wire') : Nth(wire'[i], Consumed' + i)
  BY <1>3
<1> QED
  BY <1>4, <1>5 DEF InOrder

(* The reader took one message.                                            *)
LEMMA TakesInOrder ==
  ASSUME InInv, InOrder, Consumed \in Nat, wire # << >>, Len(wire') = Len(wire) - 1,
         \A i \in 1 .. Len(wire') : wire'[i] = wire[i + 1],
         Consumed' = Consumed + 1, UNCHANGED <<bridge, sent>>
  PROVE  InOrder'
<1>1. Len(wire) \in Nat \ {0}
  BY EmptySeq DEF InInv
<1>2. Emitted' = Emitted
  BY DEF Emitted
<1> HIDE DEF Consumed, Emitted
<1>3. ASSUME NEW i \in 1 .. Len(wire') PROVE Nth(wire'[i], Consumed' + i)
  <2>1. i + 1 \in 1 .. Len(wire) /\ Consumed' + i = Consumed + (i + 1)
    BY <1>1, <1>3
  <2>2. Nth(wire[i + 1], Consumed + (i + 1))
    BY <2>1 DEF InOrder
  <2> QED
    BY <1>3, <2>1, <2>2
<1>4. bridge' # "left" => Consumed' + Len(wire') = Emitted'
  BY <1>1, <1>2 DEF InOrder
<1> QED
  BY <1>3, <1>4 DEF InOrder

(* The next message is the one due.                                        *)
LEMMA FirstDue ==
  ASSUME InInv, InOrder, Consumed \in Nat, wire # << >>
  PROVE  Nth(First, Consumed + 1)
<1>1. 1 \in 1 .. Len(wire)
  BY EmptySeq DEF InInv
<1> QED
  BY <1>1 DEF InOrder, First

(* As long as nothing is mangled the reader finds what is due.             *)
LEMMA HonestStep ==
  ASSUME LinkInv, [Next]_vars
  PROVE  HonestInv'
<1> SUFFICES ASSUME mangled' = 0 PROVE phase' \notin Broken /\ (phase' \in Open => InOrder')
  BY DEF HonestInv
<1>1. ~Mangle /\ mangled = 0
  BY DEF LinkInv, InInv, Scalars, Next, vars, inVars, BridgeDials, BridgeProves, BridgeSends, BridgeLeaves,
         Arrive, Mangle, ReadHead, ReadHandshake, Reply, Decode, ReadEof, Expire, Encode, BridgeOpens
<1>2. InInv /\ OutInv /\ phase \notin Broken /\ (phase \in Open => InOrder)
  BY <1>1 DEF LinkInv, HonestInv
<1>3. nonce \in Nat /\ sent \in Nat /\ Consumed \in Nat
  BY <1>2 DEF InInv, Scalars, Decoded, Consumed
<1>4. ASSUME UNCHANGED <<phase, bridge, wire, sent, nonce>>
      PROVE  phase' \notin Broken /\ (phase' \in Open => InOrder')
  BY <1>2, <1>4 DEF InOrder, Consumed, Emitted
<1>5. ASSUME NEW ms, ms \in Seq(Msgs(sent')), wire' = wire \o ms, sent' \in Nat, sent <= sent',
             UNCHANGED <<phase, whole, part, nonce>>, bridge # "left", Emitted' = Emitted + Len(ms),
             \A i \in 1 .. Len(ms) : Nth(ms[i], Emitted + i)
      PROVE  phase' \notin Broken /\ (phase' \in Open => InOrder')
  <2>1. Consumed' = Consumed
    BY <1>5 DEF Consumed
  <2> QED
    BY <1>2, <1>3, <1>5, <2>1, SendsInOrder
<1>6. CASE BridgeDials
  <2>1. PICK ms : ms = <<Message("head", 0, HEAD_LEN), Message("msg1", 0, HsLen)>>
    OBVIOUS
  <2>2. ms \in Seq(Msgs(sent')) /\ wire' = wire \o ms
    BY <1>2, <1>6, <2>1, Sends
  <2>3. Len(ms) = 2 /\ Nth(ms[1], 1) /\ Nth(ms[2], 2)
    BY <2>1 DEF Message, Nth, KindAt
  <2>4. Emitted = 0 /\ Emitted' = 2 /\ bridge # "left" /\ UNCHANGED <<phase, whole, part, nonce, sent>>
    BY <1>6 DEF BridgeDials, Emitted
  <2>5. \A i \in 1 .. Len(ms) : Nth(ms[i], Emitted + i)
    BY <2>3, <2>4
  <2>6. sent' \in Nat /\ sent <= sent' /\ Emitted' = Emitted + Len(ms)
    BY <1>3, <2>3, <2>4
  <2> QED
    BY <1>5, <2>2, <2>4, <2>5, <2>6
<1>7. CASE BridgeProves
  <2>1. PICK ms : ms = <<Message("msg3", 0, HsLen)>>
    OBVIOUS
  <2>2. ms \in Seq(Msgs(sent')) /\ wire' = wire \o ms
    BY <1>2, <1>7, <2>1, Sends
  <2>3. Len(ms) = 1 /\ Nth(ms[1], 3)
    BY <2>1 DEF Message, Nth, KindAt
  <2>4. sent = 0
    BY <1>7 DEF BridgeProves, LinkInv, NotYet
  <2>5. Emitted = 2 /\ Emitted' = 3 /\ bridge # "left" /\ UNCHANGED <<phase, whole, part, nonce, sent>>
    BY <1>7, <2>4 DEF BridgeProves, Emitted
  <2>6. \A i \in 1 .. Len(ms) : Nth(ms[i], Emitted + i)
    BY <2>3, <2>5
  <2>7. sent' \in Nat /\ sent <= sent' /\ Emitted' = Emitted + Len(ms)
    BY <1>3, <2>3, <2>5
  <2> QED
    BY <1>5, <2>2, <2>5, <2>6, <2>7
<1>8. ASSUME NEW l \in BodyLens, BridgeSends(l)
      PROVE  phase' \notin Broken /\ (phase' \in Open => InOrder')
  <2>1. PICK ms : ms = <<Message("frame", sent + 1, l)>>
    OBVIOUS
  <2>2. ms \in Seq(Msgs(sent')) /\ wire' = wire \o ms
    BY <1>2, <1>8, <2>1, Sends
  <2>3. Len(ms) = 1 /\ Nth(ms[1], 3 + sent + 1)
    BY <1>3, <2>1, LensFit DEF Message, Nth, KindAt
  <2>4. /\ Emitted = 3 + sent /\ Emitted' = 3 + sent + 1 /\ bridge # "left" /\ sent' = sent + 1
        /\ UNCHANGED <<phase, whole, part, nonce>>
    BY <1>3, <1>8 DEF BridgeSends, Emitted
  <2>5. \A i \in 1 .. Len(ms) : Nth(ms[i], Emitted + i)
    BY <2>3, <2>4
  <2>6. sent' \in Nat /\ sent <= sent' /\ Emitted' = Emitted + Len(ms)
    BY <1>3, <2>3, <2>4
  <2> QED
    BY <1>5, <2>2, <2>4, <2>5, <2>6
<1>9. CASE BridgeLeaves
  BY <1>2, <1>9 DEF BridgeLeaves, inVars, InOrder, Consumed
<1>10. CASE Arrive
  BY <1>4, <1>10 DEF Arrive
<1>11. ASSUME Take, wire # << >>, whole > 0, UNCHANGED <<part, bridge, sent>>, phase \in Open,
              phase' \notin Broken, Consumed' = Consumed + 1
       PROVE  phase' \notin Broken /\ (phase' \in Open => InOrder')
  <2>1. /\ Len(wire') = Len(wire) - 1
        /\ \A i \in 1 .. Len(wire') : wire'[i] = wire[i + 1]
    BY <1>2, <1>11, TakeFraming
  <2> QED
    BY <1>2, <1>3, <1>11, <2>1, TakesInOrder
<1>12. CASE ReadHead
  <2>1. phase = "head" /\ phase \in Open /\ wire # << >> /\ Arrived(HEAD_LEN) /\ Consumed = 0
    BY <1>12 DEF ReadHead, Open, Reading, Replying, Consumed
  <2>2. Accepts("head")
    BY <1>2, <1>3, <2>1, FirstDue DEF Nth, KindAt, Accepts
  <2>3. Take /\ phase' = "msg1" /\ UNCHANGED <<part, bridge, sent>>
    BY <1>12, <2>2 DEF ReadHead, TakeExactly
  <2>4. Consumed' = Consumed + 1
    BY <2>1, <2>3 DEF Consumed
  <2> QED
    BY <1>2, <1>11, <2>1, <2>2, <2>3, <2>4, AcceptsWhole DEF Broken
<1>13. CASE ReadHandshake
  <2>1. phase \in {"msg1", "msg3"} /\ phase \in Open /\ wire # << >>
    BY <1>2, <1>13 DEF ReadHandshake, Broken, Open, Reading, Announced
  <2>2. Consumed = IF phase = "msg1" THEN 1 ELSE 2
    BY <2>1 DEF Consumed
  <2>3. Accepts(phase) /\ First.prefix = HsLen
    BY <1>2, <1>3, <2>1, <2>2, FirstDue DEF Nth, KindAt, Accepts
  <2>4. /\ Complete /\ Take /\ phase' = (IF phase = "msg1" THEN "reply" ELSE "framed")
        /\ UNCHANGED <<part, nonce, bridge, sent>>
    BY <1>13, <2>3, LensFit DEF ReadHandshake, TakeExactly, Accepts, Misread
  <2>5. nonce = 0
    BY <2>1 DEF LinkInv, NotYet
  <2>6. Consumed' = Consumed + 1
    BY <2>1, <2>2, <2>4, <2>5 DEF Consumed
  <2>7. phase' \notin Broken
    BY <2>4 DEF Broken
  <2> QED
    BY <1>2, <1>11, <2>1, <2>3, <2>4, <2>6, <2>7, AcceptsWhole
<1>14. CASE Decode
  <2>1. phase = "framed" /\ phase \in Open /\ wire # << >> /\ Announced /\ Consumed = 3 + nonce
    BY <1>14 DEF Decode, Open, Reading, Replying, Announced, Consumed
  <2>2. Nth(First, 3 + nonce + 1)
    BY <1>2, <1>3, <2>1, FirstDue
  <2>3. Accepts("frame") /\ First.val = nonce + 1 /\ First.prefix >= TAG_LEN
    BY <1>3, <2>2 DEF Nth, KindAt, Accepts
  <2>4. Opens
    BY <2>3 DEF Opens
  <2>5. ~(First.prefix < TAG_LEN)
    <3>1. First.prefix \in Int
      BY <1>2, <2>1, EmptySeq, ElementOfSeq DEF InInv, First, Msgs
    <3> QED
      BY <2>3, <3>1, LensFit
  <2>6. Complete /\ Take /\ nonce' = nonce + 1 /\ UNCHANGED <<phase, part, bridge, sent>>
    BY <1>14, <2>4, <2>5 DEF Decode
  <2>7. Consumed' = Consumed + 1
    BY <1>3, <2>1, <2>6 DEF Consumed
  <2>8. whole > 0
    BY <1>2, <2>1, <2>4, <2>6, OpensNext
  <2> QED
    BY <1>2, <1>11, <2>1, <2>6, <2>7, <2>8
<1>15. CASE Reply
  BY <1>2, <1>15 DEF Reply, Broken, InOrder, Consumed, Emitted, Open, Reading, Replying
<1>16. CASE ReadEof \/ Expire
  BY <1>16 DEF ReadEof, Expire, Broken, Open, Reading, Replying
<1>17. CASE Encode
  BY <1>4, <1>17 DEF Encode, inVars
<1>18. CASE BridgeOpens
  <2>1. Head(outbuf) = opened
    BY <1>2, <1>18, EmptySeq DEF OutInv, BridgeOpens
  <2> QED
    BY <1>4, <1>18, <2>1 DEF BridgeOpens
<1>19. CASE UNCHANGED vars
  BY <1>4, <1>19 DEF vars, inVars
<1> QED
  BY <1>1, <1>6, <1>7, <1>8, <1>9, <1>10, <1>12, <1>13, <1>14, <1>15, <1>16, <1>17, <1>18, <1>19 DEF Next

-----------------------------------------------------------------------------
(* A fresh connection.                                                     *)
LEMMA LinkInit ==
  ASSUME Init
  PROVE  LinkInv
<1> USE DEF Init
<1>1. InInv
  <2>1. Scalars /\ Framing
    BY BoundsNat, EmptySeq DEF Scalars, Phases, Open, Reading, Replying, Framing
  <2>2. wire \in Seq(Msgs(sent)) /\ Decoded
    BY EmptySeq DEF Decoded
  <2> QED
    BY <2>1, <2>2 DEF InInv
<1>2. OutInv
  BY BoundsNat, EmptySeq DEF OutInv
<1>3. HonestInv
  BY EmptySeq DEF HonestInv, Broken, InOrder, Consumed, Emitted
<1> QED
  BY <1>1, <1>2, <1>3 DEF LinkInv, NotYet

(* The inductive invariant holds throughout.                               *)
THEOREM LinkInvTheorem == Spec => []LinkInv
<1>1. ASSUME LinkInv, [Next]_vars PROVE LinkInv'
  BY <1>1, InStep, OutStep, NotYetStep, HonestStep DEF LinkInv
<1> QED
  BY <1>1, LinkInit, PTL DEF Spec

(* Every variable keeps its type, and neither nonce runs ahead of what was *)
(* sealed under it.                                                        *)
THEOREM LinkTypeTheorem == Spec => []TypeOK
<1>1. ASSUME LinkInv PROVE TypeOK
  <2>1. \A i \in DOMAIN wire : wire[i].kind \in Kinds /\ wire[i].val \in 0 .. MaxFrames
    BY <1>1, LenProperties DEF LinkInv, InInv, Msgs
  <2>2. opened \in 0 .. enonce
    BY <1>1, LenProperties DEF LinkInv, OutInv
  <2> QED
    BY <1>1, <2>1, <2>2 DEF LinkInv, InInv, OutInv, Scalars, Framing, Decoded, Phases, Open, TypeOK
<1> QED
  BY <1>1, LinkInvTheorem, PTL

(* The exact reads of the handshake (src/noise.rs:119) and the buffered    *)
(* ones after it lose no unit between them, and the nonces of the two ends *)
(* agree: nothing an honest bridge sends is refused.                       *)
THEOREM HonestTheorem == Spec => []HonestNeverRefused
<1>1. LinkInv => HonestNeverRefused
  BY DEF LinkInv, HonestInv, Broken, HonestNeverRefused
<1> QED
  BY <1>1, LinkInvTheorem, PTL

-----------------------------------------------------------------------------
(* Sealing another frame extends the sent sequence by its number.          *)
LEMMA SealedExtends ==
  ASSUME NEW n \in Nat
  PROVE  [i \in 1 .. n + 1 |-> i] = Append([i \in 1 .. n |-> i], n + 1)
<1> DEFINE s == [i \in 1 .. n |-> i]
           t == [i \in 1 .. n + 1 |-> i]
<1>1. s \in Seq(Nat) /\ Len(s) = n /\ t \in Seq(Nat) /\ Len(t) = n + 1
  BY IsASeq
<1>2. /\ Append(s, n + 1) \in Seq(Nat) /\ Len(Append(s, n + 1)) = n + 1
      /\ \A i \in 1 .. n : Append(s, n + 1)[i] = i
      /\ Append(s, n + 1)[n + 1] = n + 1
  BY <1>1, AppendProperties
<1>3. \A i \in 1 .. n + 1 : t[i] = Append(s, n + 1)[i]
  BY <1>2
<1> QED
  BY <1>1, <1>2, <1>3, SeqEqual

(* Every step of the link is a step of the pipe, or leaves it as it is.    *)
LEMMA PipeStep ==
  ASSUME LinkInv, [Next]_vars
  PROVE  [Pipe!Next]_(Pipe!vars)
<1> USE DEF Pipe!vars
<1> DEFINE sealed == [i \in 1 .. sent |-> i]
           isOpen == phase \in Open
<1>1. sent \in Nat /\ nonce \in 0 .. sent /\ Len(delivered) = nonce
  BY DEF LinkInv, InInv, Scalars, Decoded
<1>2. ASSUME UNCHANGED <<sent, delivered>>, isOpen' = isOpen PROVE UNCHANGED Pipe!vars
  BY <1>2
<1>3. ASSUME UNCHANGED <<sent, delivered>>, isOpen, ~isOpen' PROVE Pipe!Next
  BY <1>3 DEF Pipe!Next, Pipe!Break
<1>4. CASE \E l \in BodyLens : BridgeSends(l)
  <2>1. sent' = sent + 1 /\ UNCHANGED <<phase, delivered>> /\ sent + 1 \in 1 .. MaxFrames
    BY <1>1, <1>4, BoundsNat DEF BridgeSends
  <2>2. sealed' = Append(sealed, sent + 1)
    BY <1>1, <2>1, SealedExtends
  <2>3. PICK v \in 1 .. MaxFrames : v = sent + 1
    BY <2>1
  <2>4. Pipe!Send(v)
    BY <2>1, <2>2, <2>3 DEF Pipe!Send
  <2>5. \E w \in 1 .. MaxFrames : Pipe!Send(w)
    BY <2>4
  <2> QED
    BY <2>5 DEF Pipe!Next
<1>5. CASE Decode
  <2>1. phase = "framed" /\ isOpen /\ Announced /\ sent' = sent
    BY <1>5 DEF Decode, Open, Reading
  <2>2. CASE Complete /\ Opens /\ delivered' = Append(delivered, First.val) /\ UNCHANGED phase
    <3>1. First.val = nonce + 1 /\ nonce + 1 \in 1 .. sent
      BY <2>1, <2>2, OpensNext DEF LinkInv
    <3>2. Len(sealed) = sent /\ sealed[nonce + 1] = nonce + 1
      BY <1>1, <3>1, IsASeq
    <3>3. Pipe!Deliver
      BY <1>1, <2>1, <2>2, <3>1, <3>2 DEF Pipe!Deliver
    <3> QED
      BY <3>3 DEF Pipe!Next
  <2>3. CASE Refused
    BY <1>3, <2>1, <2>3 DEF Refused, Open, Reading, Replying
  <2> QED
    BY <1>5, <2>2, <2>3 DEF Decode
<1>6. CASE BridgeDials \/ BridgeProves \/ BridgeLeaves \/ Arrive \/ Mangle \/ Encode
  <2>1. UNCHANGED <<phase, sent, delivered>>
    BY <1>6 DEF BridgeDials, BridgeProves, BridgeLeaves, Arrive, Mangle, Encode, inVars
  <2> QED
    BY <1>2, <2>1
<1>7. CASE ReadHead \/ ReadHandshake \/ Reply \/ ReadEof \/ Expire \/ BridgeOpens
  <2>1. UNCHANGED <<sent, delivered>> /\ isOpen
    BY <1>7 DEF ReadHead, ReadHandshake, Reply, ReadEof, Expire, BridgeOpens, Refused, Stalled,
              Open, Reading, Replying
  <2> QED
    BY <1>2, <1>3, <2>1
<1>8. CASE UNCHANGED vars
  BY <1>2, <1>8 DEF vars, inVars
<1> QED
  BY <1>4, <1>5, <1>6, <1>7, <1>8 DEF Next

(* The link implements the abstract pipe (FramePipe): frames are decoded   *)
(* in the order in which they were sealed, each once and none that was     *)
(* not, whatever is dropped, repeated, damaged or cut on the way           *)
(* (src/noise.rs:92-116).                                                  *)
THEOREM PipeRefinement == Spec => ImplementsFramePipe
<1>1. Init => Pipe!Init
  <2> SUFFICES ASSUME Init PROVE Pipe!Init
    OBVIOUS
  <2>1. [i \in 1 .. sent |-> i] = << >>
    BY DEF Init
  <2> QED
    BY <2>1 DEF Init, Pipe!Init, Open, Reading
<1> QED
  BY <1>1, LinkInvTheorem, PipeStep, PTL DEF Spec, ImplementsFramePipe, Pipe!Spec
=============================================================================

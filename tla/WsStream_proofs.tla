-------------------------- MODULE WsStream_proofs --------------------------
(***************************************************************************)
(* The staging buffer of a phone's carrier is bounded, for every socket    *)
(* size, frame length and backlog limit, and for any number of frames the  *)
(* phone and the bridge send.                                              *)
(***************************************************************************)
EXTENDS WsStream, SequenceTheorems, TLAPS

(* The most that is staged before a close frame.                           *)
OutMax == IF DataLen > MAX_PONG_BACKLOG + 1 THEN DataLen ELSE MAX_PONG_BACKLOG + 1

(* OutgoingBounded is not inductive: a close may be staged on top of a     *)
(* full buffer, and only once, because it sets closed.                     *)
StageInv ==
  /\ outgoing \in Nat /\ sock \in 0 .. SockCap
  /\ closed \in BOOLEAN
  /\ outgoing <= OutMax + 1
  /\ ~closed => outgoing <= OutMax

(* What a drain leaves staged.                                             *)
LEMMA DrainLeaves ==
  ASSUME NEW staged \in Nat, NEW who, sock \in 0 .. SockCap, Drain(staged, who)
  PROVE  /\ outgoing' \in Nat /\ outgoing' <= staged
         /\ outgoing' <= (IF staged <= SockCap - sock THEN 0 ELSE staged - (SockCap - sock))
         /\ sock' \in 0 .. SockCap
  BY WsBounds DEF Drain, Least

(* A ping stages at most one unit, and only below the limit.               *)
LEMMA PongLimited ==
  ASSUME outgoing \in Nat
  PROVE  Pong \in {0, 1} /\ (Pong = 1 => outgoing <= MAX_PONG_BACKLOG)
  BY WsBounds DEF Pong

(* Every step keeps the bound.                                             *)
LEMMA StageStep ==
  ASSUME StageInv, [Next]_vars
  PROVE  StageInv'
<1>0. /\ OutMax \in Nat /\ DataLen \in Nat /\ DataLen <= OutMax
      /\ MAX_PONG_BACKLOG \in Nat /\ MAX_PONG_BACKLOG + 1 <= OutMax /\ SockCap \in Nat
  BY WsBounds DEF OutMax
<1>1. ASSUME UNCHANGED <<outgoing, sock, closed>>
      PROVE  StageInv'
  BY <1>1 DEF StageInv, OutMax
<1>2. CASE PhoneReads
  <2>1. UNCHANGED <<outgoing, closed>> /\ sock' \in 0 .. SockCap
    BY <1>0, <1>2 DEF PhoneReads, StageInv
  <2> QED
    BY <2>1 DEF StageInv, OutMax
<1>3. CASE Decode
  <2> DEFINE k == Head(incoming)
             staged == outgoing + (IF k = "ping" THEN Pong ELSE 0)
  <2>1. staged \in Nat /\ staged <= OutMax + 1 /\ (outgoing <= OutMax => staged <= OutMax)
    BY <1>0, PongLimited DEF StageInv
  <2>2. closed' = (closed \/ k = "close")
    BY <1>3 DEF Decode, ClosedBy
  <2>3. outgoing' \in Nat /\ outgoing' <= staged /\ sock' \in 0 .. SockCap
    <3>1. CASE phone
      <4>1. Drain(staged, "up")
        BY <1>3, <3>1 DEF Decode
      <4> HIDE DEF staged
      <4> QED
        BY <2>1, <4>1, DrainLeaves DEF StageInv
    <3>2. CASE ~phone
      <4>1. outgoing' = staged /\ sock' = sock
        BY <1>3, <3>2 DEF Decode
      <4> QED
        BY <2>1, <4>1 DEF StageInv
    <3> QED
      BY <3>1, <3>2
  <2> HIDE DEF staged, k
  <2>4. outgoing' <= OutMax + 1
    BY <1>0, <2>1, <2>3
  <2>5. ASSUME ~closed' PROVE outgoing' <= OutMax
    <3>1. outgoing <= OutMax
      BY <2>2, <2>5 DEF StageInv
    <3> QED
      BY <1>0, <2>1, <2>3, <3>1
  <2>6. closed' \in BOOLEAN
    BY <2>2
  <2>7. OutMax' = OutMax
    BY DEF OutMax
  <2> QED
    BY <2>3, <2>4, <2>5, <2>6, <2>7 DEF StageInv
<1>4. CASE PollWrite
  <2>0. OutMax' = OutMax
    BY DEF OutMax
  <2>1. closed' \in BOOLEAN /\ (~closed' => ~closed)
    <3>1. UNCHANGED <<closed, phone>>
      BY <1>4 DEF PollWrite
    <3> QED
      BY <3>1 DEF StageInv
  <2>2. CASE outgoing > SockCap - sock
    <3>0. ~(outgoing <= SockCap - sock)
      BY <1>0, <2>2 DEF StageInv
    <3>1. Drain(outgoing, "down")
      BY <1>4, <3>0 DEF PollWrite
    <3>2. outgoing' \in Nat /\ outgoing' <= outgoing /\ sock' \in 0 .. SockCap
      BY <3>1, DrainLeaves DEF StageInv
    <3>3. outgoing' <= OutMax + 1 /\ (~closed => outgoing' <= OutMax)
      BY <1>0, <3>2 DEF StageInv
    <3> QED
      BY <2>0, <2>1, <3>2, <3>3 DEF StageInv
  <2>3. CASE outgoing <= SockCap - sock
    <3>0. ~(outgoing > SockCap - sock)
      BY <1>0, <2>3 DEF StageInv
    <3>1. Drain(outgoing + DataLen, "down")
      BY <1>4, <3>0 DEF PollWrite
    <3>2. outgoing + DataLen \in Nat
      BY <1>0 DEF StageInv
    <3> DEFINE staged == outgoing + DataLen
    <3>3. staged \in Nat /\ Drain(staged, "down")
      BY <3>1, <3>2
    <3> HIDE DEF staged
    <3>4. /\ outgoing' \in Nat /\ sock' \in 0 .. SockCap
          /\ outgoing' <= (IF staged <= SockCap - sock THEN 0 ELSE staged - (SockCap - sock))
      BY <3>3, DrainLeaves DEF StageInv
    <3>5. outgoing' <= DataLen
      BY <1>0, <2>3, <3>4 DEF StageInv, staged
    <3>6. outgoing' <= OutMax + 1 /\ outgoing' <= OutMax
      BY <1>0, <3>4, <3>5
    <3> QED
      BY <2>0, <2>1, <3>4, <3>6 DEF StageInv
  <2> QED
    BY <1>0, <2>2, <2>3 DEF StageInv
<1>5. CASE PollShutdown
  <2> DEFINE staged == outgoing + (IF closed THEN 0 ELSE 1)
  <2>1. staged \in Nat /\ staged <= OutMax + 1
    BY <1>0 DEF StageInv
  <2>2. closed' = TRUE
    BY <1>5 DEF PollShutdown
  <2>3. Drain(staged, "down") \/ (outgoing' = staged /\ UNCHANGED sock)
    BY <1>5 DEF PollShutdown
  <2> HIDE DEF staged
  <2>4. outgoing' \in Nat /\ outgoing' <= staged /\ sock' \in 0 .. SockCap
    BY <2>1, <2>3, DrainLeaves DEF StageInv
  <2> QED
    BY <1>0, <2>1, <2>2, <2>4 DEF StageInv, OutMax
<1>6. CASE UplinkEnds
  <2>1. outgoing' = 0 /\ UNCHANGED <<sock, closed>>
    BY <1>6 DEF UplinkEnds
  <2> QED
    BY <1>0, <2>1 DEF StageInv, OutMax
<1>7. CASE \/ \E k \in Kinds : PhoneSends(k)
           \/ PhoneHangsUp \/ UpPoll \/ ReadPlain \/ DecodeFails \/ ReadClosed \/ ReadSocket
           \/ ReadEof \/ ReadPends \/ UpWake \/ UpSent \/ DownRecv \/ PollWriteFails
           \/ UNCHANGED vars
  <2>1. UNCHANGED <<outgoing, sock, closed>>
    BY <1>7 DEF PhoneSends, PhoneHangsUp, UpPoll, ReadPlain, DecodeFails, ReadClosed,
                ReadSocket, ReadEof, ReadPends, UpWake, UpSent, DownRecv, PollWriteFails, vars
  <2> QED
    BY <1>1, <2>1
<1> QED
  BY <1>2, <1>3, <1>4, <1>5, <1>6, <1>7 DEF Next, UpStep, DownStep

(* Nothing is staged at first.                                             *)
LEMMA StageInit ==
  ASSUME Init
  PROVE  StageInv
<1>1. OutMax \in Nat /\ 0 <= OutMax /\ 0 <= OutMax + 1 /\ 0 \in 0 .. SockCap
  BY WsBounds DEF OutMax
<1>2. closed \in BOOLEAN /\ outgoing = 0 /\ sock = 0
  BY DEF Init
<1> QED
  BY <1>1, <1>2 DEF StageInv

(* A phone that pings and never reads, or a bridge that sends to it, makes *)
(* the proxy stage no more than one frame past the backlog limit and a     *)
(* close (src/ws.rs:36-39, 177, 251-257, 273).                             *)
THEOREM BacklogTheorem == Spec => []OutgoingBounded
<1>1. Init => StageInv
  BY StageInit
<1>2. StageInv /\ [Next]_vars => StageInv'
  BY StageStep
<1>3. StageInv => OutgoingBounded
  BY DEF StageInv, OutgoingBounded, OutMax
<1> QED
  BY <1>1, <1>2, <1>3, PTL DEF Spec

-----------------------------------------------------------------------------
(* A read of the socket moves whole frames and leaves the rest in order.   *)
LEMMA ReadSocketTypes ==
  ASSUME wire \in Seq(Kinds), incoming \in Seq(Kinds), part \in {0, 1}, ReadSocket
  PROVE  wire' \in Seq(Kinds) /\ incoming' \in Seq(Kinds) /\ part' \in {0, 1}
<1>1. Len(wire) \in Nat /\ \A i \in 1 .. Len(wire) : wire[i] \in Kinds
  BY LenProperties
<1>2. PICK n \in 1 .. 2 * Len(wire) - part :
        /\ incoming' = incoming \o SubSeq(wire, 1, (part + n) \div 2)
        /\ wire' = SubSeq(wire, (part + n) \div 2 + 1, Len(wire))
        /\ part' = (part + n) % 2
  BY DEF ReadSocket
<1>3. PICK whole \in 0 .. Len(wire) : whole = (part + n) \div 2
  BY <1>1
<1>4. part' \in {0, 1}
  BY <1>1, <1>2
<1>5. SubSeq(wire, 1, whole) \in Seq(Kinds)
  <2>1. \A i \in 1 .. whole : wire[i] \in Kinds
    BY <1>1
  <2> QED
    BY <2>1, SubSeqProperties
<1>6. SubSeq(wire, whole + 1, Len(wire)) \in Seq(Kinds)
  <2>1. \A i \in whole + 1 .. Len(wire) : wire[i] \in Kinds
    BY <1>1
  <2> QED
    BY <1>1, <2>1, SubSeqProperties
<1> QED
  BY <1>2, <1>3, <1>4, <1>5, <1>6, ConcatProperties

ReadTypes ==
  /\ sent \in 0 .. MaxFrames /\ phone \in BOOLEAN
  /\ wire \in Seq(Kinds) /\ incoming \in Seq(Kinds) /\ part \in {0, 1}
  /\ plain \in 0 .. MaxPlain
TaskTypes ==
  /\ up \in {"ready", "poll", "parked", "send", "eof", "end"}
  /\ wwake \in {"none", "up", "down"}
  /\ chunks \in 0 .. MaxChunks
  /\ down \in {"recv", "write", "parked", "shut", "shut_parked", "done"}
  /\ stolen \in BOOLEAN

(* Every step keeps the types of the reading side.                         *)
LEMMA ReadTypesStep ==
  ASSUME ReadTypes, [Next]_vars
  PROVE  ReadTypes'
<1>1. ASSUME NEW k \in Kinds, PhoneSends(k) PROVE ReadTypes'
  BY <1>1, WsBounds, AppendProperties DEF PhoneSends, ReadTypes
<1>2. CASE PhoneReads \/ PhoneHangsUp
  BY <1>2 DEF PhoneReads, PhoneHangsUp, readVars, ReadTypes
<1>3. CASE ReadPlain
  <2>1. plain' \in 0 .. MaxPlain
    BY <1>3, WsBounds DEF ReadPlain, ReadTypes
  <2> QED
    BY <1>3, <2>1 DEF ReadPlain, ReadTypes
<1>4. CASE Decode
  <2>1. incoming' = Tail(incoming) /\ incoming # << >> /\ UNCHANGED <<sent, phone, wire, part>>
    BY <1>4 DEF Decode
  <2>2. plain' \in 0 .. MaxPlain
    <3>1. PICK n \in 0 .. (IF Head(incoming) = "data" THEN MaxPlain ELSE 0) : plain' = plain + n
      BY <1>4 DEF Decode
    <3>2. plain = 0 /\ n \in 0 .. MaxPlain
      BY <1>4, WsBounds DEF Decode, PlainTaken
    <3> QED
      BY <3>1, <3>2
  <2>3. incoming' \in Seq(Kinds)
    BY <2>1, HeadTailProperties DEF ReadTypes
  <2> QED
    BY <2>1, <2>2, <2>3 DEF ReadTypes
<1>5. CASE ReadSocket
  <2>1. UNCHANGED <<sent, phone, plain>>
    BY <1>5 DEF ReadSocket
  <2> QED
    BY <1>5, <2>1, ReadSocketTypes DEF ReadTypes
<1>6. CASE UNCHANGED <<sent, phone, readVars>>
  BY <1>6 DEF readVars, ReadTypes
<1> QED
  BY <1>1, <1>2, <1>3, <1>4, <1>5, <1>6 DEF Next, UpStep, DownStep, vars, UpPoll, DecodeFails, ReadClosed,
     ReadEof, ReadPends, UpWake, UpSent, DownRecv, PollWrite, PollWriteFails, PollShutdown, UplinkEnds

(* Every step keeps the types of the two tasks.                            *)
LEMMA TaskTypesStep ==
  ASSUME TaskTypes, [Next]_vars
  PROVE  TaskTypes'
<1>1. ASSUME NEW staged, NEW who \in {"up", "down"}, Drain(staged, who)
      PROVE  wwake' \in {"none", "up", "down"} /\ stolen' \in BOOLEAN
  BY <1>1 DEF Drain, TaskTypes
<1>2. ASSUME WakeWriter
      PROVE  /\ up' \in {"ready", "poll", "parked", "send", "eof", "end"}
             /\ wwake' \in {"none", "up", "down"}
             /\ down' \in {"recv", "write", "parked", "shut", "shut_parked", "done"}
  <2>1. down' \in {down, "write", "shut"}
    BY <1>2, Zenon DEF WakeWriter
  <2> QED
    BY <1>2, <2>1 DEF WakeWriter, TaskTypes
<1>3. CASE PhoneReads \/ PhoneHangsUp
  BY <1>2, <1>3 DEF PhoneReads, PhoneHangsUp, TaskTypes
<1>4. CASE Decode
  <2>1. UNCHANGED <<up, chunks, down>>
    BY <1>4 DEF Decode
  <2>2. PICK staged : Drain(staged, "up") \/ UNCHANGED <<wwake, stolen>>
    BY <1>4 DEF Decode
  <2>3. wwake' \in {"none", "up", "down"} /\ stolen' \in BOOLEAN
    BY <1>1, <2>2 DEF TaskTypes
  <2> QED
    BY <2>1, <2>3 DEF TaskTypes
<1>5. CASE PollWrite \/ PollShutdown
  <2>1. UNCHANGED <<up, chunks>> /\ down' \in {"recv", "parked", "shut_parked", "done"}
    BY <1>5 DEF PollWrite, PollShutdown
  <2>2. PICK staged : Drain(staged, "down") \/ UNCHANGED <<wwake, stolen>>
    BY <1>5 DEF PollWrite, PollShutdown
  <2>3. wwake' \in {"none", "up", "down"} /\ stolen' \in BOOLEAN
    BY <1>1, <2>2 DEF TaskTypes
  <2> QED
    BY <2>1, <2>3 DEF TaskTypes
<1>6. CASE DownRecv
  BY <1>6, WsBounds DEF DownRecv, TaskTypes
<1>7. CASE \/ \E k \in Kinds : PhoneSends(k)
           \/ UpPoll \/ ReadPlain \/ DecodeFails \/ ReadClosed \/ ReadSocket
           \/ ReadEof \/ ReadPends \/ UpWake \/ UpSent \/ PollWriteFails \/ UplinkEnds
           \/ UNCHANGED vars
  <2>1. /\ UNCHANGED <<wwake, chunks, stolen>>
        /\ up' \in {up, "ready", "poll", "parked", "send", "eof", "end"}
        /\ down' \in {down, "shut", "done"}
    BY <1>7 DEF PhoneSends, UpPoll, ReadPlain, DecodeFails, ReadClosed, ReadSocket, ReadEof, ReadPends,
                UpWake, UpSent, PollWriteFails, UplinkEnds, vars
  <2> QED
    BY <2>1 DEF TaskTypes
<1> QED
  BY <1>3, <1>4, <1>5, <1>6, <1>7 DEF Next, UpStep, DownStep

(* Every variable keeps its type: in particular the payload in hand is     *)
(* never more than one frame's, because decode (src/ws.rs:173) runs only   *)
(* once the payload before it has been taken (src/ws.rs:210).              *)
THEOREM WsTypeTheorem == Spec => []TypeOK
<1> DEFINE Inv == StageInv /\ ReadTypes /\ TaskTypes
<1>1. Init => Inv
  <2> SUFFICES ASSUME Init PROVE ReadTypes /\ TaskTypes
    BY StageInit
  <2>1. phone \in BOOLEAN /\ stolen \in BOOLEAN
    BY DEF Init
  <2>2. /\ sent = 0 /\ wire = << >> /\ part = 0 /\ incoming = << >> /\ plain = 0 /\ chunks = 0
        /\ up = "ready" /\ wwake = "none" /\ down = "recv"
    BY DEF Init
  <2>3. 0 \in 0 .. MaxFrames /\ 0 \in 0 .. MaxPlain /\ 0 \in 0 .. MaxChunks /\ << >> \in Seq(Kinds)
    BY WsBounds, EmptySeq
  <2> QED
    BY <2>1, <2>2, <2>3 DEF ReadTypes, TaskTypes
<1>2. Inv /\ [Next]_vars => Inv'
  BY StageStep, ReadTypesStep, TaskTypesStep
<1>3. Inv => TypeOK
  BY DEF StageInv, ReadTypes, TaskTypes, TypeOK
<1> HIDE DEF Inv
<1> QED
  BY <1>1, <1>2, <1>3, PTL DEF Spec

(* The reader waits for the socket, and reports the end of the stream,     *)
(* only with nothing in hand: neither in the turns of its own loop nor by  *)
(* a wake-up meant for the writer does it get there otherwise              *)
(* (src/ws.rs:217).                                                        *)
THEOREM NothingInHandTheorem == Spec => []NothingInHand
<1>1. Init => NothingInHand
  BY DEF Init, NothingInHand
<1>2. ASSUME NothingInHand, [Next]_vars PROVE NothingInHand'
  <2>1. ASSUME UNCHANGED <<plain, incoming>>, up' \notin {"parked", "eof"} \/ up' = up
        PROVE  NothingInHand'
    BY <1>2, <2>1 DEF NothingInHand
  <2>2. CASE PhoneReads \/ PhoneHangsUp
    <3>1. UNCHANGED <<plain, incoming>> /\ up' \in {up, "ready"}
      BY <2>2 DEF PhoneReads, PhoneHangsUp, WakeWriter, readVars
    <3> QED
      BY <2>1, <3>1
  <2>3. CASE ReadPlain \/ Decode \/ ReadSocket
    <3>1. up' \in {"poll", "send"}
      BY <2>3 DEF ReadPlain, Decode, ReadSocket, NothingBuffered, PlainTaken
    <3> QED
      BY <3>1 DEF NothingInHand
  <2>4. CASE ReadClosed \/ ReadEof \/ ReadPends
    BY <2>4 DEF ReadClosed, ReadEof, ReadPends, NothingBuffered, PlainTaken, readVars, NothingInHand
  <2>5. CASE \/ \E k \in Kinds : PhoneSends(k)
             \/ UpPoll \/ DecodeFails \/ UpWake \/ UpSent \/ DownRecv \/ PollWrite
             \/ PollWriteFails \/ PollShutdown \/ UplinkEnds \/ UNCHANGED vars
    <3>1. UNCHANGED <<plain, incoming>> /\ (up' \notin {"parked", "eof"} \/ up' = up)
      BY <2>5 DEF PhoneSends, UpPoll, DecodeFails, UpWake, UpSent, DownRecv, PollWrite, PollWriteFails,
                  PollShutdown, UplinkEnds, vars, readVars
    <3> QED
      BY <2>1, <3>1
  <2> QED
    BY <1>2, <2>2, <2>3, <2>4, <2>5 DEF Next, UpStep, DownStep
<1> QED
  BY <1>1, <1>2, PTL DEF Spec
=============================================================================

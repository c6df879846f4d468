------------------------- MODULE MuxSession_proofs -------------------------
(***************************************************************************)
(* Theorems about MuxSession, for every number of clients, every capacity  *)
(* and every subset of faults.                                             *)
(***************************************************************************)
EXTENDS MuxSession, FiniteSetTheorems, SequenceTheorems, TLAPS

(* A task that has reserved an id keeps it to the end.                     *)
IdAssigned ==
  \A c \in Clients :
    pc[c] \in {"reserved", "announce", "head", "head_push", "up", "closing"} \/ up[c] # "none"
      => id[c] \in Ids

(* TypeOK is not inductive alone: the budget's range needs BudgetExact,    *)
(* and the ids of queued frames need IdAssigned.                           *)
Inv == TypeOK /\ BudgetExact /\ IdAssigned

-----------------------------------------------------------------------------
(* The ids and the sets counted by BudgetExact are finite.                 *)
LEMMA FiniteCounts ==
  /\ IsFiniteSet(Ids)
  /\ IsFiniteSet(Held) /\ Cardinality(Held) \in Nat
  /\ IsFiniteSet(Reserved) /\ Cardinality(Reserved) \in Nat
<1>1. IsFiniteSet(Ids)
  BY FS_Interval, IdsWide DEF Ids
<1>2. IsFiniteSet(Held)
  BY <1>1, FS_Subset DEF Held
<1>3. IsFiniteSet(Reserved)
  BY ClientsFinite, FS_Subset DEF Reserved
<1> QED
  BY <1>1, <1>2, <1>3, FS_CardinalityType

(* The same for the next state.                                            *)
LEMMA FiniteCountsNext ==
  /\ IsFiniteSet(Held') /\ Cardinality(Held') \in Nat
  /\ IsFiniteSet(Reserved') /\ Cardinality(Reserved') \in Nat
<1>1. IsFiniteSet(Ids)
  BY FiniteCounts
<1>2. IsFiniteSet(Held')
  BY <1>1, FS_Subset DEF Held
<1>3. IsFiniteSet(Reserved')
  BY ClientsFinite, FS_Subset DEF Reserved
<1> QED
  BY <1>2, <1>3, FS_CardinalityType

(* Entering an owner under i adds one entry unless it displaces one.       *)
LEMMA PutEntry ==
  ASSUME TypeOK, NEW i \in Ids, NEW o, o # None, streams' = [streams EXCEPT ![i] = o]
  PROVE  Cardinality(Held') = Cardinality(Held) + 1 - Freed(i)
<1>1. Held' = Held \cup {i}
  BY DEF Held, TypeOK
<1>2. i \in Held <=> streams[i] # None
  BY DEF Held
<1>3. Cardinality(Held \cup {i}) =
        IF i \in Held THEN Cardinality(Held) ELSE Cardinality(Held) + 1
  BY FiniteCounts, FS_AddElement
<1>4. Cardinality(Held) \in Nat
  BY FiniteCounts
<1> QED
  BY <1>1, <1>2, <1>3, <1>4 DEF Freed

(* Removing id i takes one entry away if there was one.                    *)
LEMMA DropEntry ==
  ASSUME TypeOK, NEW i \in Ids, streams' = [streams EXCEPT ![i] = None]
  PROVE  Cardinality(Held') = Cardinality(Held) - Freed(i)
<1>1. Held' = Held \ {i}
  BY DEF Held, TypeOK
<1>2. i \in Held <=> streams[i] # None
  BY DEF Held
<1>3. Cardinality(Held \ {i}) =
        IF i \in Held THEN Cardinality(Held) - 1 ELSE Cardinality(Held)
  BY FiniteCounts, FS_RemoveElement
<1>4. Cardinality(Held) \in Nat
  BY FiniteCounts
<1> QED
  BY <1>1, <1>2, <1>3, <1>4 DEF Freed

(* A sweep leaves no entry.                                                *)
LEMMA SweepEmpties ==
  ASSUME Sweep
  PROVE  Cardinality(Held') = 0
<1>1. Held' = {}
  BY DEF Sweep, Held
<1> QED
  BY <1>1, FS_EmptySet

(* A step that changes neither the entries nor who is reserved keeps the   *)
(* balance.                                                                *)
LEMMA SameBalance ==
  ASSUME BudgetExact, UNCHANGED <<streams, budget>>, Reserved' = Reserved
  PROVE  BudgetExact'
<1>1. Held' = Held
  BY DEF Held
<1> QED
  BY <1>1 DEF BudgetExact

(* A removal keeps the balance: the permit goes back with the entry.       *)
LEMMA RemoveBalance ==
  ASSUME TypeOK, BudgetExact, NEW i \in Ids, Remove(i), Reserved' = Reserved
  PROVE  BudgetExact' /\ budget' \in Nat
<1>1. Cardinality(Held') = Cardinality(Held) - Freed(i)
  BY DropEntry DEF Remove
<1>2. Freed(i) \in {0, 1}
  BY DEF Freed
<1> QED
  BY <1>1, <1>2, FiniteCounts, BoundsPositive DEF BudgetExact, Remove, TypeOK

(* So does a sweep.                                                        *)
LEMMA SweepBalance ==
  ASSUME TypeOK, BudgetExact, Sweep, Reserved' = Reserved
  PROVE  BudgetExact' /\ budget' \in Nat
<1>1. budget' = budget + Cardinality(Held) /\ Cardinality(Held') = 0
  BY SweepEmpties DEF Sweep
<1>2. budget \in Nat /\ Cardinality(Held) \in Nat /\ Cardinality(Reserved) \in Nat
  BY FiniteCounts, BoundsPositive DEF TypeOK
<1> QED
  BY <1>1, <1>2 DEF BudgetExact

(* Until its shutdown is through, a downlink leaves its stream alone.      *)
LEMMA DownlinkStays ==
  ASSUME NEW c \in Clients,
         DownlinkEnd(c) \/ DownlinkWriteFails(c) \/ DownlinkWrite(c) \/ DownlinkGrant(c)
  PROVE  /\ pc[c] = "up"
         /\ UNCHANGED <<streams, nextId, budget, credit, gate, inbox, id, pc, up, batch,
                        writer, reader, rsend, bridge, bview, shut>>
BY DEF DownlinkEnd, DownlinkWriteFails, DownlinkWrite, DownlinkGrant, linkVars

-----------------------------------------------------------------------------
(* Every step keeps the budget balanced.                                   *)
LEMMA BudgetStep ==
  ASSUME Inv, [Next]_vars
  PROVE  BudgetExact' /\ budget' \in 0 .. MaxStreams
<1> USE DEF Inv
<1>1. BudgetExact' /\ budget' \in Nat
  <2>1. ASSUME NEW c \in Clients, OpenReserve(c)
        PROVE  BudgetExact' /\ budget' \in Nat
    <3>1. UNCHANGED streams /\ Held' = Held
      BY <2>1 DEF OpenReserve, Held
    <3>2. CASE budget > 0
      <4>1. Reserved' = Reserved \cup {c} /\ c \notin Reserved
        BY <2>1, <3>2 DEF OpenReserve, Reserved, TypeOK
      <4>2. budget' = budget - 1
        BY <2>1, <3>2 DEF OpenReserve, TypeOK
      <4>3. Cardinality(Reserved') = Cardinality(Reserved) + 1
        BY <4>1, FiniteCounts, FS_AddElement
      <4> QED
        BY <3>1, <3>2, <4>2, <4>3, FiniteCounts, BoundsPositive DEF BudgetExact, TypeOK
    <3>3. CASE budget = 0
      <4>1. Reserved' = Reserved /\ budget' = budget
        BY <2>1, <3>3 DEF OpenReserve, Reserved, TypeOK
      <4> QED
        BY <3>1, <4>1 DEF BudgetExact, TypeOK
    <3> QED
      BY <3>2, <3>3, <2>1 DEF OpenReserve
  <2>2. ASSUME NEW c \in Clients, OpenInsert(c)
        PROVE  BudgetExact' /\ budget' \in Nat
    <3>1. Reserved' = Reserved \ {c} /\ c \in Reserved
      BY <2>2 DEF OpenInsert, Reserved, TypeOK
    <3>2. id[c] \in Ids
      BY <2>2 DEF OpenInsert, IdAssigned
    <3>3. Cardinality(Held') = Cardinality(Held) + 1 - Freed(id[c])
      BY <2>2, <3>2, PutEntry, OwnersDistinct DEF OpenInsert, Insert
    <3>4. budget' = budget + Freed(id[c]) /\ Freed(id[c]) \in {0, 1}
      BY <2>2 DEF OpenInsert, Insert, Freed
    <3>5. Cardinality(Reserved') = Cardinality(Reserved) - 1
      BY <3>1, FiniteCounts, FS_RemoveElement
    <3>6. budget \in Nat /\ Cardinality(Held) \in Nat /\ Cardinality(Reserved) \in Nat
      BY FiniteCounts, BoundsPositive DEF TypeOK
    <3>7. CASE Freed(id[c]) = 0
      BY <3>3, <3>4, <3>5, <3>6, <3>7 DEF BudgetExact
    <3>8. CASE Freed(id[c]) = 1
      BY <3>3, <3>4, <3>5, <3>6, <3>8 DEF BudgetExact
    <3> QED
      BY <3>4, <3>7, <3>8
  <2>3. ASSUME NEW c \in Clients, OpenAnnounce(c)
        PROVE  BudgetExact' /\ budget' \in Nat
    <3>1. Reserved' = Reserved
      BY <2>3 DEF OpenAnnounce, Reserved, TypeOK
    <3>2. id[c] \in Ids
      BY <2>3 DEF OpenAnnounce, IdAssigned
    <3> QED
      BY <2>3, <3>1, <3>2, RemoveBalance, SameBalance DEF OpenAnnounce, TypeOK
  <2>4. ASSUME NEW c \in Clients,
               HeadAcquire(c) \/ HeadPush(c) \/ UplinkRead(c) \/ UplinkHangup(c)
               \/ UplinkAcquire(c) \/ UplinkPush(c) \/ DownlinkRecv(c)
               \/ AbandonedAssigned(c) \/ ClosePush(c)
        PROVE  BudgetExact' /\ budget' \in Nat
    <3>1. Reserved' = Reserved
      BY <2>4 DEF HeadAcquire, HeadPush, UplinkRead, UplinkHangup, UplinkAcquire,
                  UplinkPush, DownlinkRecv, AbandonedAssigned, ClosePush, Reserved, TypeOK
    <3>2. UNCHANGED <<streams, budget>>
      BY <2>4 DEF HeadAcquire, HeadPush, UplinkRead, UplinkHangup, UplinkAcquire,
                  UplinkPush, DownlinkRecv, AbandonedAssigned, ClosePush
    <3> QED
      BY <3>1, <3>2, SameBalance DEF TypeOK
  <2>5. ASSUME NEW c \in Clients, pc[c] = "up", CloseStream(c)
        PROVE  BudgetExact' /\ budget' \in Nat
    <3>1. Reserved' = Reserved
      BY <2>5 DEF CloseStream, Reserved, TypeOK
    <3>2. id[c] \in Ids
      BY <2>5 DEF IdAssigned
    <3> QED
      BY <2>5, <3>1, <3>2, RemoveBalance DEF CloseStream
  <2>6. ASSUME NEW c \in Clients,
               DownlinkEnd(c) \/ DownlinkWriteFails(c) \/ DownlinkWrite(c)
               \/ DownlinkGrant(c) \/ DownlinkShutdown(c) \/ UplinkEnds(c)
        PROVE  BudgetExact' /\ budget' \in Nat
    <3>1. pc[c] = "up" /\ (CloseStream(c) \/ UNCHANGED <<streams, budget, pc>>)
      BY <2>6, DownlinkStays DEF DownlinkShutdown, UplinkEnds
    <3>2. CASE UNCHANGED <<streams, budget, pc>>
      <4>1. Reserved' = Reserved
        BY <3>2 DEF Reserved
      <4> QED
        BY <3>2, <4>1, SameBalance DEF TypeOK
    <3> QED
      BY <2>5, <3>1, <3>2
  <2>7. ASSUME NEW i \in Ids, RecvOpen(i)
        PROVE  BudgetExact' /\ budget' \in Nat
    <3>1. Reserved' = Reserved
      BY <2>7 DEF RecvOpen, clientVars, Reserved
    <3>2. CASE budget > 0
      <4>1. streams' = [streams EXCEPT ![i] = Peer] /\ budget' = budget - 1 + Freed(i)
        BY <2>7, <3>2 DEF RecvOpen, TypeOK
      <4>2. Cardinality(Held') = Cardinality(Held) + 1 - Freed(i)
        BY <4>1, PutEntry, OwnersDistinct
      <4>3. Freed(i) \in {0, 1}
        BY DEF Freed
      <4> QED
        BY <3>1, <3>2, <4>1, <4>2, <4>3, FiniteCounts DEF BudgetExact, TypeOK
    <3>3. CASE ~(budget > 0)
      <4>1. UNCHANGED <<streams, budget>>
        BY <2>7, <3>3 DEF RecvOpen
      <4> QED
        BY <3>1, <4>1, SameBalance DEF TypeOK
    <3> QED
      BY <3>2, <3>3
  <2>8. ASSUME NEW i \in Ids, RecvData(i)
        PROVE  BudgetExact' /\ budget' \in Nat
    <3>1. Reserved' = Reserved
      BY <2>8 DEF RecvData, Reserved
    <3> QED
      BY <2>8, <3>1, SameBalance, RemoveBalance DEF RecvData, TypeOK
  <2>9. ASSUME NEW i \in Ids, RecvWindow(i) \/ RecvClose(i)
        PROVE  BudgetExact' /\ budget' \in Nat
    <3>1. Reserved' = Reserved
      BY <2>9 DEF RecvWindow, RecvClose, Reserved
    <3> QED
      BY <2>9, <3>1, SameBalance, RemoveBalance DEF RecvWindow, RecvClose, TypeOK
  <2>10. ASSUME ReaderSweep \/ ShutdownSweep
         PROVE  BudgetExact' /\ budget' \in Nat
    <3>1. Reserved' = Reserved
      BY <2>10 DEF ReaderSweep, ShutdownSweep, Reserved
    <3> QED
      BY <2>10, <3>1, SweepBalance DEF ReaderSweep, ShutdownSweep
  <2>11. ASSUME UNCHANGED <<streams, budget, pc>>
         PROVE  BudgetExact' /\ budget' \in Nat
    <3>1. Reserved' = Reserved
      BY <2>11 DEF Reserved
    <3> QED
      BY <2>11, <3>1, SameBalance DEF TypeOK
  <2>12. ASSUME \/ RecvKeepalive \/ ReaderPush \/ RecvBad \/ ReaderEof \/ IdleTimeout
                \/ ReaderAbortsWriter \/ ReaderCancelled
                \/ WriterStep \/ ShutdownAbort \/ BridgeFalters \/ UNCHANGED vars
         PROVE  UNCHANGED <<streams, budget, pc>>
    BY <2>12 DEF RecvKeepalive, ReaderPush, RecvBad, ReaderEof, IdleTimeout, ReadLoopEnds,
                 ReaderAbortsWriter, ReaderCancelled, WriterStep, WriterRecv, WriterFlush,
                 WriterFails, WriterCancelled, WriterEnds, ShutdownAbort, BridgeFalters,
                 vars, clientVars
  <2> QED
    BY <2>1, <2>2, <2>3, <2>4, <2>5, <2>6, <2>7, <2>8, <2>9, <2>10, <2>11, <2>12
       DEF Next, ClientStep, ReaderStep
<1>2. Cardinality(Held') \in Nat /\ Cardinality(Reserved') \in Nat
  BY FiniteCountsNext
<1> QED
  BY <1>1, <1>2, BoundsPositive DEF BudgetExact

-----------------------------------------------------------------------------
(* A control frame for a known id is a frame.                              *)
LEMMA ControlType ==
  ASSUME NEW i \in Ids, NEW k \in Kinds
  PROVE  Control(i, k) \in Frames
BY DEF Control, Frames

(* A successful send keeps the outbox typed and within its capacity.       *)
LEMMA PushType ==
  ASSUME TypeOK, NEW f \in Frames, Push(f)
  PROVE  out' \in Seq(Frames) /\ Len(out') <= OutCap
<1>0. Cardinality(Holders) \in Nat
  <2>1. Holders \subseteq Clients
    BY DEF Holders
  <2> QED
    BY <2>1, ClientsFinite, FS_Subset, FS_CardinalityType
<1>1. out \in Seq(Frames) /\ out' = Append(out, f) /\ Len(out) < OutCap
  BY <1>0, BoundsPositive DEF Push, Room, TypeOK
<1>2. Len(out') = Len(out) + 1 /\ out' \in Seq(Frames) /\ Len(out) \in Nat
  BY <1>1
<1> QED
  BY <1>1, <1>2, BoundsPositive

(* Neither does taking a batch from it.                                    *)
LEMMA BatchType ==
  ASSUME TypeOK, WriterRecv
  PROVE  /\ out' \in Seq(Frames) /\ Len(out') <= OutCap
         /\ batch' \in Seq(Frames) /\ Len(batch') <= WriteBatch
<1> DEFINE n == IF Len(out) < WriteBatch THEN Len(out) ELSE WriteBatch
<1>1. out \in Seq(Frames) /\ Len(out) \in Nat /\ Len(out) <= OutCap
  BY DEF TypeOK
<1>2. n \in Nat /\ n <= Len(out) /\ n <= WriteBatch /\ n >= 1
  <2>1. out # << >>
    BY DEF WriterRecv
  <2>2. Len(out) > 0
    BY <1>1, <2>1
  <2> QED
    BY <1>1, <2>2, BoundsPositive
<1>3. batch' = SubSeq(out, 1, n) /\ out' = SubSeq(out, n + 1, Len(out))
  BY DEF WriterRecv
<1> HIDE DEF n
<1>4. batch' \in Seq(Frames) /\ Len(batch') = n
  BY <1>1, <1>2, <1>3
<1>5. out' \in Seq(Frames) /\ Len(out') = Len(out) - n
  BY <1>1, <1>2, <1>3
<1> QED
  BY <1>1, <1>2, <1>4, <1>5, BoundsPositive

(* Closing a stream leaves its inbox empty and every other as it was.      *)
LEMMA CloseEmptiesInbox ==
  ASSUME TypeOK, NEW c \in Clients, CloseStream(c)
  PROVE  inbox' \in [Clients -> 0 .. InboxFrames]
<1>1. inbox \in [Clients -> 0 .. InboxFrames] /\ inbox' = [inbox EXCEPT ![c] = 0]
  BY DEF TypeOK, CloseStream
<1>2. 0 \in 0 .. InboxFrames
  BY BoundsPositive
<1> QED
  BY <1>1, <1>2

(* Every step keeps the types and the assignment of ids.                   *)
LEMMA TypeStep ==
  ASSUME Inv, [Next]_vars
  PROVE  TypeOK' /\ IdAssigned'
<1> USE DEF Inv
<1>0. budget' \in 0 .. MaxStreams
  BY BudgetStep
<1>1. ASSUME NEW c \in Clients, OpenReserve(c)
      PROVE  TypeOK' /\ IdAssigned'
  <2>1. (nextId + 1) % IdMod \in Ids
    BY IdsWide DEF TypeOK, Ids
  <2>2. TypeOK'
    <3>1. nextId' \in Ids /\ id' \in [Clients -> Ids \cup {NoId}]
      <4>1. nextId' = (nextId + 1) % IdMod \/ nextId' = nextId
        BY <1>1 DEF OpenReserve
      <4>2. id' = [id EXCEPT ![c] = nextId] \/ id' = id
        BY <1>1 DEF OpenReserve
      <4>3. nextId \in Ids /\ id \in [Clients -> Ids \cup {NoId}]
        BY DEF TypeOK
      <4>4. nextId' \in Ids
        BY <2>1, <4>1, <4>3
      <4>5. id' \in [Clients -> Ids \cup {NoId}]
        BY <4>2, <4>3
      <4> QED
        BY <4>4, <4>5
    <3>2. pc' = [pc EXCEPT ![c] = "reserved"] \/ pc' = [pc EXCEPT ![c] = "done"]
      BY <1>1 DEF OpenReserve
    <3> QED
      BY <1>0, <1>1, <3>1, <3>2 DEF OpenReserve, TypeOK, linkVars
  <2>3. IdAssigned'
    BY <1>1 DEF OpenReserve, TypeOK, IdAssigned
  <2> QED
    BY <2>2, <2>3
<1>2. ASSUME NEW c \in Clients, OpenInsert(c)
      PROVE  TypeOK' /\ IdAssigned'
  BY <1>0, <1>2 DEF OpenInsert, Insert, TypeOK, IdAssigned, linkVars
<1>3. ASSUME NEW c \in Clients, OpenAnnounce(c)
      PROVE  TypeOK' /\ IdAssigned'
  <2>1. Control(id[c], "OPEN") \in Frames
    BY <1>3, ControlType DEF OpenAnnounce, IdAssigned, Kinds
  <2>2. out' \in Seq(Frames) /\ Len(out') <= OutCap
    BY <1>3, <2>1, PushType DEF OpenAnnounce, SendFails, TypeOK
  <2>3. streams' \in [Ids -> Clients \cup {Peer, None}]
    BY <1>3 DEF OpenAnnounce, Remove, TypeOK
  <2> QED
    BY <1>0, <1>3, <2>2, <2>3 DEF OpenAnnounce, TypeOK, IdAssigned
<1>4. ASSUME NEW c \in Clients, HeadAcquire(c) \/ UplinkAcquire(c)
      PROVE  TypeOK' /\ IdAssigned'
  <2>1. credit \in [Clients -> Nat]
    BY DEF TypeOK
  <2>2. \/ credit' = credit
        \/ credit[c] > 0 /\ credit' = [credit EXCEPT ![c] = credit[c] - 1]
    BY <1>4 DEF HeadAcquire, UplinkAcquire
  <2>3. credit' \in [Clients -> Nat]
    BY <2>1, <2>2
  <2>4. CASE HeadAcquire(c)
    <3>1. pc' = [pc EXCEPT ![c] = "head_push"] \/ pc' = [pc EXCEPT ![c] = "done"]
      BY <2>4 DEF HeadAcquire
    <3>2. TypeOK'
      BY <1>0, <2>3, <2>4, <3>1 DEF HeadAcquire, TypeOK, linkVars
    <3>3. IdAssigned'
      BY <2>4, <3>1 DEF HeadAcquire, TypeOK, IdAssigned
    <3> QED
      BY <3>2, <3>3
  <2>5. CASE UplinkAcquire(c)
    <3>1. up' = [up EXCEPT ![c] = "push"] \/ up' = [up EXCEPT ![c] = "end"]
      BY <2>5 DEF UplinkAcquire
    <3>2. TypeOK'
      BY <1>0, <2>3, <2>5, <3>1 DEF UplinkAcquire, TypeOK, linkVars
    <3>3. IdAssigned'
      BY <2>5, <3>1 DEF UplinkAcquire, TypeOK, IdAssigned
    <3> QED
      BY <3>2, <3>3
  <2> QED
    BY <1>4, <2>4, <2>5
<1>5. ASSUME NEW c \in Clients, HeadPush(c) \/ UplinkPush(c)
      PROVE  TypeOK' /\ IdAssigned'
  <2>1. Control(id[c], "DATA") \in Frames
    BY <1>5, ControlType DEF HeadPush, UplinkPush, IdAssigned, Kinds
  <2>2. out' \in Seq(Frames) /\ Len(out') <= OutCap
    BY <1>5, <2>1, PushType DEF HeadPush, UplinkPush, SendFails, TypeOK
  <2>3. TypeOK'
    BY <1>0, <1>5, <2>2 DEF HeadPush, UplinkPush, TypeOK
  <2>4. IdAssigned'
    BY <1>5 DEF HeadPush, UplinkPush, TypeOK, IdAssigned
  <2> QED
    BY <2>3, <2>4
<1>6. ASSUME NEW c \in Clients, UplinkRead(c) \/ UplinkHangup(c) \/ AbandonedAssigned(c)
      PROVE  TypeOK' /\ IdAssigned'
  <2>1. TypeOK'
    <3>1. up' \in [Clients -> {"none", "read", "credit", "push", "end"}]
      BY <1>6 DEF UplinkRead, UplinkHangup, AbandonedAssigned, TypeOK
    <3>2. down' \in [Clients -> {"recv", "write", "grant", "shut", "queued", "holds"}]
      BY <1>6 DEF UplinkRead, UplinkHangup, AbandonedAssigned, TypeOK
    <3>3. UNCHANGED <<streams, nextId, credit, gate, inbox, id, pc, linkVars>>
      BY <1>6 DEF UplinkRead, UplinkHangup, AbandonedAssigned
    <3> QED
      BY <1>0, <3>1, <3>2, <3>3 DEF TypeOK, linkVars
  <2>2. IdAssigned'
    BY <1>6 DEF UplinkRead, UplinkHangup, AbandonedAssigned, TypeOK, IdAssigned
  <2> QED
    BY <2>1, <2>2
<1>7. ASSUME NEW c \in Clients, DownlinkRecv(c)
      PROVE  TypeOK' /\ IdAssigned'
  <2>1. inbox' \in [Clients -> 0 .. InboxFrames]
    BY <1>7, BoundsPositive DEF DownlinkRecv, TypeOK
  <2> QED
    BY <1>0, <1>7, <2>1 DEF DownlinkRecv, TypeOK, IdAssigned, linkVars
<1>8. ASSUME NEW c \in Clients, DownlinkShutdown(c) \/ UplinkEnds(c)
      PROVE  TypeOK' /\ IdAssigned'
  <2>0. CloseStream(c)
    BY <1>8 DEF DownlinkShutdown, UplinkEnds
  <2>1. inbox' \in [Clients -> 0 .. InboxFrames]
    BY <2>0, CloseEmptiesInbox
  <2>2. down' \in [Clients -> {"recv", "write", "grant", "shut", "queued", "holds"}]
    BY <1>8 DEF DownlinkShutdown, UplinkEnds, TypeOK
  <2>3. streams' \in [Ids -> Clients \cup {Peer, None}] /\ pc' = [pc EXCEPT ![c] = "closing"]
    BY <2>0 DEF CloseStream, Remove, TypeOK
  <2>4. UNCHANGED <<nextId, credit, gate, id, up, linkVars>> /\ pc[c] = "up"
    BY <1>8 DEF DownlinkShutdown, UplinkEnds
  <2> QED
    BY <1>0, <2>1, <2>2, <2>3, <2>4 DEF TypeOK, IdAssigned, linkVars
<1>9. ASSUME NEW c \in Clients,
             DownlinkEnd(c) \/ DownlinkWriteFails(c) \/ DownlinkWrite(c) \/ DownlinkGrant(c)
      PROVE  TypeOK' /\ IdAssigned'
  <2>0. /\ pc[c] = "up"
        /\ UNCHANGED <<streams, nextId, budget, credit, gate, inbox, id, pc, up, batch,
                       writer, reader, rsend, bridge, bview, shut>>
    BY <1>9, DownlinkStays
  <2>1. Control(id[c], "WINDOW") \in Frames
    BY <2>0, ControlType DEF IdAssigned, Kinds
  <2>2. out' \in Seq(Frames) /\ Len(out') <= OutCap
    <3>1. Push(Control(id[c], "WINDOW")) \/ UNCHANGED out
      BY <1>9 DEF DownlinkEnd, DownlinkWriteFails, DownlinkWrite, DownlinkGrant, Grant,
                  SendFails, linkVars
    <3> QED
      BY <2>1, <3>1, PushType DEF TypeOK
  <2>3. down' \in [Clients -> {"recv", "write", "grant", "shut", "queued", "holds"}]
    BY <1>9 DEF DownlinkEnd, DownlinkWriteFails, DownlinkWrite, DownlinkGrant, Grant, TypeOK
  <2> QED
    BY <1>0, <2>0, <2>2, <2>3 DEF TypeOK, IdAssigned
<1>10. ASSUME NEW c \in Clients, ClosePush(c)
       PROVE  TypeOK' /\ IdAssigned'
  <2>1. Control(id[c], "CLOSE") \in Frames
    BY <1>10, ControlType DEF ClosePush, IdAssigned, Kinds
  <2>2. out' \in Seq(Frames) /\ Len(out') <= OutCap
    BY <1>10, <2>1, PushType DEF ClosePush, SendFails, TypeOK
  <2>3. down' \in [Clients -> {"recv", "write", "grant", "shut", "queued", "holds"}]
    BY <1>10 DEF ClosePush, TypeOK
  <2> QED
    BY <1>0, <1>10, <2>2, <2>3 DEF ClosePush, TypeOK, IdAssigned
<1>11. ASSUME RecvKeepalive \/ ReaderCancelled
       PROVE  TypeOK' /\ IdAssigned'
  <2>1. Control(0, "DATA") \in Frames
    BY ControlType, IdsWide DEF Ids, Kinds
  <2> QED
    BY <1>0, <1>11, <2>1 DEF RecvKeepalive, ReaderCancelled, ReaderSends, NothingToSend,
                             TypeOK, IdAssigned, clientVars
<1>12. ASSUME NEW i \in Ids, RecvOpen(i)
       PROVE  TypeOK' /\ IdAssigned'
  <2>1. Control(i, "CLOSE") \in Frames
    BY ControlType DEF Kinds
  <2>2. streams' \in [Ids -> Clients \cup {Peer, None}]
    BY <1>12 DEF RecvOpen, TypeOK
  <2>3. /\ reader' \in {"next", "send", "sweep", "swept", "dead"}
        /\ rsend' \in [frame : Frames, holds : Clients \cup {None}]
    BY <1>12, <2>1 DEF RecvOpen, ReaderSends, TypeOK
  <2>4. bview' \in [Ids -> {"none", "open", "closed"}]
    BY <1>12 DEF RecvOpen, TypeOK
  <2> QED
    BY <1>0, <1>12, <2>2, <2>3, <2>4 DEF RecvOpen, TypeOK, IdAssigned, clientVars
<1>13. ASSUME NEW i \in Ids, RecvData(i)
       PROVE  TypeOK' /\ IdAssigned'
  <2>1. Control(i, "CLOSE") \in Frames
    BY ControlType DEF Kinds
  <2>2. inbox' \in [Clients -> 0 .. InboxFrames]
    <3>1. inbox \in [Clients -> 0 .. InboxFrames] /\ InboxFrames \in Nat
      BY BoundsPositive DEF TypeOK
    <3>2. \/ inbox' = inbox
          \/ /\ inbox[streams[i]] < InboxFrames /\ streams[i] \in Clients
             /\ inbox' = [inbox EXCEPT ![streams[i]] = inbox[streams[i]] + 1]
      BY <1>13 DEF RecvData
    <3> QED
      BY <3>1, <3>2
  <2>3. gate' \in [Clients -> BOOLEAN] /\ streams' \in [Ids -> Clients \cup {Peer, None}]
    <3>1. gate' = gate \/ gate' = [c \in Clients |-> gate[c] /\ c \notin {streams[i]}]
      BY <1>13 DEF RecvData, CloseGates
    <3>2. streams' = streams \/ streams' = [streams EXCEPT ![i] = None]
      BY <1>13 DEF RecvData, Remove
    <3> QED
      BY <3>1, <3>2 DEF TypeOK
  <2>4. /\ reader' \in {"next", "send", "sweep", "swept", "dead"}
        /\ rsend' \in [frame : Frames, holds : Clients \cup {None}]
    BY <1>13, <2>1 DEF RecvData, ReaderSends, TypeOK
  <2> QED
    BY <1>0, <1>13, <2>2, <2>3, <2>4 DEF RecvData, TypeOK, IdAssigned
<1>14. ASSUME NEW i \in Ids, RecvWindow(i)
       PROVE  TypeOK' /\ IdAssigned'
  <2>1. PICK grant \in 1 .. MaxPermits - credit[streams[i]] :
          credit' = [credit EXCEPT ![streams[i]] = @ + grant]
    BY <1>14 DEF RecvWindow
  <2>2. credit \in [Clients -> Nat] /\ streams[i] \in Clients /\ grant \in Nat
    BY <1>14, BoundsPositive DEF RecvWindow, TypeOK
  <2>3. credit' \in [Clients -> Nat]
    BY <2>1, <2>2
  <2> QED
    BY <1>0, <1>14, <2>3 DEF RecvWindow, TypeOK, IdAssigned, linkVars
<1>15. ASSUME NEW i \in Ids, RecvClose(i)
       PROVE  TypeOK' /\ IdAssigned'
  <2>1. gate' \in [Clients -> BOOLEAN]
    BY <1>15 DEF RecvClose, CloseGates, TypeOK
  <2> QED
    BY <1>0, <1>15, <2>1 DEF RecvClose, Remove, TypeOK, IdAssigned
<1>16. ASSUME ReaderPush
       PROVE  TypeOK' /\ IdAssigned'
  <2>1. Control(0, "DATA") \in Frames
    BY ControlType, IdsWide DEF Ids, Kinds
  <2>2. out' \in Seq(Frames) /\ Len(out') <= OutCap
    BY <1>16, PushType DEF ReaderPush, SendFails, TypeOK
  <2> QED
    BY <1>0, <1>16, <2>1, <2>2 DEF ReaderPush, NothingToSend, TypeOK, IdAssigned, clientVars
<1>17. ASSUME RecvBad \/ ReaderEof \/ IdleTimeout \/ ReaderAbortsWriter \/ ShutdownAbort
              \/ UNCHANGED vars
       PROVE  TypeOK' /\ IdAssigned'
  BY <1>0, <1>17 DEF RecvBad, ReaderEof, IdleTimeout, ReadLoopEnds, ReaderAbortsWriter,
                     ShutdownAbort, vars, TypeOK, IdAssigned, clientVars, linkVars
<1>18. ASSUME ReaderSweep \/ ShutdownSweep
       PROVE  TypeOK' /\ IdAssigned'
  <2>1. gate' \in [Clients -> BOOLEAN] /\ streams' \in [Ids -> Clients \cup {Peer, None}]
    BY <1>18 DEF ReaderSweep, ShutdownSweep, Sweep, CloseGates, TypeOK
  <2> QED
    BY <1>0, <1>18, <2>1 DEF ReaderSweep, ShutdownSweep, TypeOK, IdAssigned
<1>19. ASSUME WriterRecv
       PROVE  TypeOK' /\ IdAssigned'
  BY <1>0, <1>19, BatchType DEF WriterRecv, TypeOK, IdAssigned, clientVars
<1>20. ASSUME WriterFlush
       PROVE  TypeOK' /\ IdAssigned'
  <2>1. \A i \in Ids : ViewAfterBatch(i) \in {"none", "open", "closed"}
    BY DEF ViewAfterBatch, TypeOK
  <2>2. << >> \in Seq(Frames) /\ Len(<< >>) <= WriteBatch
    BY BoundsPositive
  <2>3. bview' \in [Ids -> {"none", "open", "closed"}]
    BY <1>20, <2>1 DEF WriterFlush, TypeOK
  <2> QED
    BY <1>0, <1>20, <2>2, <2>3 DEF WriterFlush, TypeOK, IdAssigned, clientVars
<1>21. ASSUME WriterFails \/ WriterCancelled
       PROVE  TypeOK' /\ IdAssigned'
  <2>1. << >> \in Seq(Frames) /\ Len(<< >>) <= WriteBatch /\ Len(<< >>) <= OutCap
    BY BoundsPositive
  <2> QED
    BY <1>0, <1>21, <2>1 DEF WriterFails, WriterCancelled, WriterEnds, TypeOK, IdAssigned,
                             clientVars
<1>22. ASSUME BridgeFalters
       PROVE  TypeOK' /\ IdAssigned'
  BY <1>0, <1>22 DEF BridgeFalters, TypeOK, IdAssigned, clientVars
<1> QED
  BY <1>1, <1>2, <1>3, <1>4, <1>5, <1>6, <1>7, <1>8, <1>9, <1>10, <1>11, <1>12, <1>13,
     <1>14, <1>15, <1>16, <1>17, <1>18, <1>19, <1>20, <1>21, <1>22
     DEF Next, ClientStep, ReaderStep, WriterStep

(* The initial state satisfies the invariant.                              *)
LEMMA InvInit ==
  ASSUME Init
  PROVE  Inv
<1>1. Held = {} /\ Reserved = {}
  BY DEF Init, Held, Reserved
<1>2. BudgetExact
  BY <1>1, FS_EmptySet, BoundsPositive DEF Init, BudgetExact
<1>3. Control(0, "DATA") \in Frames /\ << >> \in Seq(Frames) /\ Len(<< >>) = 0
  BY ControlType, IdsWide DEF Ids, Kinds
<1>4. TypeOK
  BY <1>3, BoundsPositive, IdsWide DEF Init, TypeOK, NothingToSend, Ids
<1>5. IdAssigned
  BY DEF Init, IdAssigned
<1> QED
  BY <1>2, <1>4, <1>5 DEF Inv

(* Types, the balance of the budget and the ids of the tasks past their    *)
(* reservation hold together in every reachable state of the session.      *)
THEOREM MuxInvTheorem == Spec => []Inv
<1>1. Init => Inv
  BY InvInit
<1>2. Inv /\ [Next]_vars => Inv'
  BY BudgetStep, TypeStep DEF Inv
<1> QED
  BY <1>1, <1>2, PTL DEF Spec

(* The session keeps its bounds: the outbox, the writer's batch (WRITE_    *)
(* BATCH, src/mux.rs:105) and every inbox stay within their capacities,    *)
(* the budget never goes below zero nor above max_streams, and no sender   *)
(* takes credit it does not have.  Credit itself has no upper bound here:  *)
(* add_permits (src/mux.rs:272) takes whatever the bridge grants.          *)
THEOREM MuxTypeTheorem == Spec => []TypeOK
<1>1. Inv => TypeOK
  BY DEF Inv
<1> QED
  BY <1>1, MuxInvTheorem, PTL

(* The stream budget balances in every reachable state: however opens,     *)
(* closes, evictions, refusals and the two sweeps interleave, no permit of *)
(* src/mux.rs:65 is lost or returned twice.                                *)
THEOREM BudgetTheorem == Spec => []BudgetExact
<1>1. Inv => BudgetExact
  BY DEF Inv
<1> QED
  BY <1>1, MuxInvTheorem, PTL

-----------------------------------------------------------------------------
(* Evicted streams.  Ids identify streams only while next_id has not       *)
(* wrapped and the bridge opens no id the proxy may use.                   *)
IdsNeverWrap ==
  /\ Cardinality(Clients) + 1 < IdMod
  /\ \A i \in BridgeOpens : i > Cardinality(Clients)

Named == {c \in Clients : id[c] # NoId}

(* Ids are handed out in order, once each, and an entry is under the id of *)
(* its owner.                                                              *)
NamesUnique ==
  /\ nextId = Cardinality(Named) + 1
  /\ \A c \in Clients : pc[c] = "idle" => id[c] = NoId
  /\ \A c \in Clients : id[c] # NoId => id[c] < nextId
  /\ \A c, d \in Clients : id[c] = id[d] /\ id[c] # NoId => c = d
  /\ \A i \in Ids : streams[i] \in Clients => id[streams[i]] = i

Entered(c) == pc[c] \in {"announce", "head", "head_push", "up"}

GateInv == Inv /\ NamesUnique /\ EvictionClosesGate

(* Clients with an id are finitely many, at most all of them.              *)
LEMMA NamedBound ==
  /\ IsFiniteSet(Named) /\ Cardinality(Named) \in Nat
  /\ Cardinality(Clients) \in Nat /\ Cardinality(Named) <= Cardinality(Clients)
<1>1. Named \subseteq Clients
  BY DEF Named
<1> QED
  BY <1>1, ClientsFinite, FS_Subset, FS_CardinalityType

(* No id handed out is one the bridge may open.                            *)
LEMMA PeerIdsApart ==
  ASSUME IdsNeverWrap, Inv, NamesUnique, NEW c \in Clients, NEW i \in BridgeOpens
  PROVE  id[c] # i
<1>1. CASE id[c] = NoId
  BY <1>1, PeerIds, IdsWide DEF NoId, Ids
<1>2. CASE id[c] # NoId
  <2>1. id[c] < Cardinality(Named) + 1 /\ id[c] \in Ids
    BY <1>2 DEF NamesUnique, Inv, TypeOK
  <2>2. i > Cardinality(Clients) /\ i \in Ids
    BY PeerIds DEF IdsNeverWrap
  <2> QED
    BY <2>1, <2>2, NamedBound, IdsWide DEF Ids
<1> QED
  BY <1>1, <1>2

(* A reservation takes an id nobody has, and next_id does not wrap.        *)
LEMMA ReserveNames ==
  ASSUME IdsNeverWrap, Inv, NamesUnique, NEW c \in Clients, OpenReserve(c)
  PROVE  NamesUnique'
<1>0. UNCHANGED streams /\ pc[c] = "idle" /\ id[c] = NoId
  BY DEF OpenReserve, NamesUnique
<1>t. /\ id \in [Clients -> Ids \cup {NoId}] /\ nextId \in Ids
      /\ pc \in [Clients -> {"idle", "reserved", "announce", "head", "head_push",
                             "up", "closing", "done"}]
  BY DEF Inv, TypeOK
<1>1. CASE budget > 0
  <2>1. /\ id' = [id EXCEPT ![c] = nextId] /\ nextId' = (nextId + 1) % IdMod
        /\ pc' = [pc EXCEPT ![c] = "reserved"]
    BY <1>1 DEF OpenReserve
  <2>2. Named' = Named \cup {c} /\ c \notin Named
    <3>1. nextId # NoId
      BY <1>t, IdsWide DEF Ids, NoId
    <3> QED
      BY <1>0, <1>t, <2>1, <3>1 DEF Named
  <2>3. Cardinality(Named') = Cardinality(Named) + 1
    BY <2>2, NamedBound, FS_AddElement
  <2>4. Named' \subseteq Clients
    BY DEF Named
  <2>5. Cardinality(Named') <= Cardinality(Clients)
    BY <2>4, ClientsFinite, FS_Subset
  <2>6. nextId' = nextId + 1
    <3>1. nextId = Cardinality(Named) + 1
      BY DEF NamesUnique
    <3>2. nextId + 1 \in Nat /\ nextId + 1 < IdMod
      BY <2>3, <2>5, <3>1, NamedBound, IdsWide DEF IdsNeverWrap
    <3>3. \A m \in Nat : m < IdMod => m % IdMod = m
      BY IdsWide
    <3> QED
      BY <2>1, <3>2, <3>3
  <2>7. nextId' = Cardinality(Named') + 1
    BY <2>3, <2>6, NamedBound DEF NamesUnique
  <2>8. \A d \in Clients : pc'[d] = "idle" => id'[d] = NoId
    BY <1>t, <2>1 DEF NamesUnique
  <2>9. \A d \in Clients : id'[d] # NoId => id'[d] < nextId'
    <3>1. \A d \in Clients : id[d] # NoId => id[d] < nextId
      BY DEF NamesUnique
    <3>2. nextId \in Int /\ \A d \in Clients : id[d] \in Int
      BY <1>t, IdsWide DEF Ids, NoId
    <3> QED
      BY <1>t, <2>1, <2>6, <3>1, <3>2
  <2>10. \A d, e \in Clients : id'[d] = id'[e] /\ id'[d] # NoId => d = e
    <3>1. \A d \in Clients : id[d] # nextId
      <4>1. \A d \in Clients : id[d] # NoId => id[d] < nextId
        BY DEF NamesUnique
      <4>2. nextId \in Nat /\ \A d \in Clients : id[d] \in Int
        BY <1>t, IdsWide DEF Ids, NoId
      <4> QED
        BY <4>1, <4>2 DEF NoId
    <3>2. \A d \in Clients : id'[d] = IF d = c THEN nextId ELSE id[d]
      BY <1>t, <2>1
    <3> QED
      BY <3>1, <3>2 DEF NamesUnique
  <2>11. \A i \in Ids : streams'[i] \in Clients => id'[streams'[i]] = i
    <3>1. \A i \in Ids : streams[i] \in Clients => id[streams[i]] = i /\ i # NoId
      BY IdsWide DEF NamesUnique, Ids, NoId
    <3> QED
      BY <1>0, <1>t, <2>1, <3>1
  <2> QED
    BY <2>7, <2>8, <2>9, <2>10, <2>11 DEF NamesUnique
<1>2. CASE ~(budget > 0)
  <2>1. UNCHANGED <<id, nextId>> /\ pc' = [pc EXCEPT ![c] = "done"]
    BY <1>2 DEF OpenReserve
  <2>2. Named' = Named
    BY <2>1 DEF Named
  <2> QED
    BY <1>0, <1>t, <2>1, <2>2 DEF NamesUnique
<1> QED
  BY <1>1, <1>2

(* A step that hands out no id keeps the names, provided any new entry is  *)
(* under the id of its owner and nobody becomes idle.                      *)
LEMMA KeepNames ==
  ASSUME NamesUnique, UNCHANGED <<id, nextId>>,
         \A c \in Clients : pc'[c] = "idle" => pc[c] = "idle",
         \A i \in Ids : streams'[i] \in Clients =>
             streams'[i] = streams[i] \/ id[streams'[i]] = i
  PROVE  NamesUnique'
<1>1. Named' = Named
  BY DEF Named
<1> QED
  BY <1>1 DEF NamesUnique

(* Nobody's entry changes and nobody enters: the gates stay as they are.   *)
LEMMA KeepGates ==
  ASSUME EvictionClosesGate, UNCHANGED <<streams, gate, id>>,
         \A c \in Clients : Entered(c)' => Entered(c)
  PROVE  EvictionClosesGate'
BY DEF EvictionClosesGate, Entered, Owns

(* One client's own removal touches nobody else's entry.                   *)
LEMMA OwnRemoval ==
  ASSUME Inv, NamesUnique, EvictionClosesGate, NEW c \in Clients, id[c] \in Ids,
         Remove(id[c]), UNCHANGED <<gate, id>>,
         ~Entered(c)', \A d \in Clients \ {c} : pc'[d] = pc[d]
  PROVE  EvictionClosesGate'
<1> SUFFICES ASSUME NEW d \in Clients, Entered(d)', ~Owns(d)'
             PROVE  ~gate'[d]
  BY DEF EvictionClosesGate, Entered
<1>1. d # c /\ Entered(d)
  BY DEF Entered
<1>2. id[d] # id[c]
  BY <1>1, IdsWide DEF NamesUnique, Ids, NoId
<1>3. ~Owns(d)
  BY <1>2 DEF Owns, Remove, Inv, TypeOK
<1> QED
  BY <1>1, <1>3 DEF EvictionClosesGate, Entered

(* Whoever loses its entry in a step that closes the gates of the owners   *)
(* it evicts ends up with its gate closed.                                 *)
LEMMA Eviction ==
  ASSUME EvictionClosesGate, UNCHANGED <<id, pc>>, NEW owners, CloseGates(owners),
         \A d \in Clients : Owns(d) /\ ~Owns(d)' => d \in owners
  PROVE  EvictionClosesGate'
<1> SUFFICES ASSUME NEW d \in Clients, Entered(d)', ~Owns(d)'
             PROVE  ~gate'[d]
  BY DEF EvictionClosesGate, Entered
<1>1. gate'[d] <=> gate[d] /\ d \notin owners
  BY DEF CloseGates
<1>2. Entered(d)
  BY DEF Entered
<1> QED
  BY <1>1, <1>2 DEF EvictionClosesGate, Entered

(* A step keeps the names and the gates.                                   *)
LEMMA GateStep ==
  ASSUME IdsNeverWrap, GateInv, [Next]_vars
  PROVE  NamesUnique' /\ EvictionClosesGate'
<1> USE DEF GateInv
<1>0. /\ pc \in [Clients -> {"idle", "reserved", "announce", "head", "head_push",
                             "up", "closing", "done"}]
      /\ streams \in [Ids -> Clients \cup {Peer, None}]
  BY DEF Inv, TypeOK
<1>1. ASSUME NEW c \in Clients, OpenReserve(c)
      PROVE  NamesUnique' /\ EvictionClosesGate'
  <2>1. NamesUnique'
    BY <1>1, ReserveNames
  <2>2. \A d \in Clients : Entered(d)' => Entered(d) /\ d # c
    BY <1>0, <1>1 DEF OpenReserve, Entered
  <2>3. \A d \in Clients \ {c} : id'[d] = id[d]
    BY <1>1 DEF OpenReserve, Inv, TypeOK
  <2>4. UNCHANGED <<streams, gate>>
    BY <1>1 DEF OpenReserve
  <2> QED
    BY <2>1, <2>2, <2>3, <2>4 DEF EvictionClosesGate, Entered, Owns
<1>2. ASSUME NEW c \in Clients, OpenInsert(c)
      PROVE  NamesUnique' /\ EvictionClosesGate'
  <2>1. /\ pc[c] = "reserved" /\ id[c] \in Ids
        /\ streams' = [streams EXCEPT ![id[c]] = c]
        /\ pc' = [pc EXCEPT ![c] = "announce"]
        /\ UNCHANGED <<id, nextId, gate>>
    BY <1>2 DEF OpenInsert, Insert, Inv, IdAssigned
  <2>2. NamesUnique'
    BY <1>0, <2>1, KeepNames
  <2>3. ASSUME NEW d \in Clients, Entered(d)', ~Owns(d)'
        PROVE  ~gate'[d]
    <3>1. d # c
      BY <1>0, <2>1, <2>3 DEF Owns
    <3>2. id[d] # id[c]
      BY <2>1, <3>1, IdsWide DEF NamesUnique, Ids, NoId
    <3>3. Entered(d) /\ ~Owns(d)
      BY <1>0, <2>1, <2>3, <3>1, <3>2 DEF Owns, Entered
    <3> QED
      BY <2>1, <3>3 DEF EvictionClosesGate, Entered
  <2> QED
    BY <2>2, <2>3 DEF EvictionClosesGate, Entered
<1>3. ASSUME NEW c \in Clients, OpenAnnounce(c)
      PROVE  NamesUnique' /\ EvictionClosesGate'
  <2>1. id[c] \in Ids /\ pc[c] = "announce" /\ UNCHANGED <<id, nextId, gate>>
    BY <1>3 DEF OpenAnnounce, Inv, IdAssigned
  <2>2. CASE pc' = [pc EXCEPT ![c] = "head"] /\ UNCHANGED streams
    <3>1. \A d \in Clients : (pc'[d] = "idle" => pc[d] = "idle") /\ (Entered(d)' => Entered(d))
      BY <1>0, <2>1, <2>2 DEF Entered
    <3> QED
      BY <2>1, <2>2, <3>1, KeepNames, KeepGates
  <2>3. CASE pc' = [pc EXCEPT ![c] = "done"] /\ Remove(id[c])
    <3>1. /\ ~Entered(c)' /\ \A d \in Clients \ {c} : pc'[d] = pc[d]
          /\ \A d \in Clients : pc'[d] = "idle" => pc[d] = "idle"
      BY <1>0, <2>3 DEF Entered
    <3>2. EvictionClosesGate'
      BY <2>1, <2>3, <3>1, OwnRemoval
    <3>3. NamesUnique'
      BY <1>0, <2>1, <2>3, <3>1, KeepNames, OwnersDistinct DEF Remove
    <3> QED
      BY <3>2, <3>3
  <2> QED
    BY <1>3, <2>2, <2>3 DEF OpenAnnounce
<1>4. ASSUME NEW c \in Clients,
             HeadAcquire(c) \/ HeadPush(c) \/ UplinkRead(c) \/ UplinkHangup(c)
             \/ UplinkAcquire(c) \/ UplinkPush(c) \/ DownlinkRecv(c)
             \/ AbandonedAssigned(c) \/ ClosePush(c)
      PROVE  NamesUnique' /\ EvictionClosesGate'
  <2>1. UNCHANGED <<streams, gate, id, nextId>>
    BY <1>4 DEF HeadAcquire, HeadPush, UplinkRead, UplinkHangup, UplinkAcquire,
                UplinkPush, DownlinkRecv, AbandonedAssigned, ClosePush
  <2>2. \A d \in Clients : (pc'[d] = "idle" => pc[d] = "idle") /\ (Entered(d)' => Entered(d))
    BY <1>0, <1>4 DEF HeadAcquire, HeadPush, UplinkRead, UplinkHangup, UplinkAcquire,
                      UplinkPush, DownlinkRecv, AbandonedAssigned, ClosePush, Entered
  <2> QED
    BY <2>1, <2>2, KeepNames, KeepGates
<1>5. ASSUME NEW c \in Clients, pc[c] = "up", CloseStream(c), UNCHANGED <<id, nextId, gate>>
      PROVE  NamesUnique' /\ EvictionClosesGate'
  <2>1. id[c] \in Ids
    BY <1>5 DEF Inv, IdAssigned
  <2>2. /\ ~Entered(c)' /\ \A d \in Clients \ {c} : pc'[d] = pc[d]
        /\ \A d \in Clients : pc'[d] = "idle" => pc[d] = "idle"
    BY <1>0, <1>5 DEF CloseStream, Entered
  <2>3. EvictionClosesGate'
    BY <1>5, <2>1, <2>2, OwnRemoval DEF CloseStream
  <2>4. NamesUnique'
    BY <1>0, <1>5, <2>1, <2>2, KeepNames, OwnersDistinct DEF CloseStream, Remove
  <2> QED
    BY <2>3, <2>4
<1>6. ASSUME NEW c \in Clients,
             DownlinkEnd(c) \/ DownlinkWriteFails(c) \/ DownlinkWrite(c)
             \/ DownlinkGrant(c) \/ DownlinkShutdown(c) \/ UplinkEnds(c)
      PROVE  NamesUnique' /\ EvictionClosesGate'
  <2>1. pc[c] = "up" /\ UNCHANGED <<id, nextId, gate>>
    BY <1>6, DownlinkStays DEF DownlinkShutdown, UplinkEnds
  <2>2. CASE CloseStream(c)
    BY <1>5, <2>1, <2>2
  <2>3. CASE UNCHANGED <<streams, pc>>
    <3>1. \A d \in Clients : Entered(d)' => Entered(d)
      BY <2>3 DEF Entered
    <3> QED
      BY <2>1, <2>3, <3>1, KeepNames, KeepGates
  <2> QED
    BY <1>6, <2>2, <2>3, DownlinkStays DEF DownlinkShutdown, UplinkEnds
<1>7. ASSUME NEW i \in Ids, RecvOpen(i)
      PROVE  NamesUnique' /\ EvictionClosesGate'
  <2>1. UNCHANGED <<id, nextId, gate, pc>> /\ i \in BridgeOpens
    BY <1>7 DEF RecvOpen, clientVars
  <2>2. streams' = streams \/ streams' = [streams EXCEPT ![i] = Peer]
    BY <1>7 DEF RecvOpen
  <2>3. NamesUnique'
    BY <1>0, <2>1, <2>2, KeepNames, OwnersDistinct
  <2>4. \A d \in Clients : id[d] # i
    BY <2>1, PeerIdsApart
  <2>5. \A d \in Clients : Owns(d)' <=> Owns(d)
    BY <1>0, <2>1, <2>2, <2>4 DEF Owns
  <2> QED
    BY <2>1, <2>3, <2>5 DEF EvictionClosesGate
<1>8. ASSUME NEW i \in Ids, Remove(i), CloseGates({streams[i]}), UNCHANGED <<id, nextId, pc>>
      PROVE  NamesUnique' /\ EvictionClosesGate'
  <2>1. streams' = [streams EXCEPT ![i] = None]
    BY <1>8 DEF Remove
  <2>2. \A d \in Clients : Owns(d) /\ ~Owns(d)' => d \in {streams[i]}
    BY <1>0, <1>8, <2>1 DEF Owns
  <2>3. EvictionClosesGate'
    BY <1>8, <2>2, Eviction
  <2>4. NamesUnique'
    BY <1>0, <1>8, <2>1, KeepNames, OwnersDistinct
  <2> QED
    BY <2>3, <2>4
<1>9. ASSUME UNCHANGED <<streams, gate, id, nextId, pc>>
      PROVE  NamesUnique' /\ EvictionClosesGate'
  <2>1. \A d \in Clients : Entered(d)' => Entered(d)
    BY <1>9 DEF Entered
  <2> QED
    BY <1>9, <2>1, KeepNames, KeepGates
<1>10. ASSUME NEW i \in Ids, RecvData(i) \/ RecvWindow(i) \/ RecvClose(i)
       PROVE  NamesUnique' /\ EvictionClosesGate'
  BY <1>8, <1>9, <1>10 DEF RecvData, RecvWindow, RecvClose
<1>11. ASSUME ReaderSweep \/ ShutdownSweep
       PROVE  NamesUnique' /\ EvictionClosesGate'
  <2>1. Sweep /\ UNCHANGED <<id, nextId, pc>>
    BY <1>11 DEF ReaderSweep, ShutdownSweep
  <2>2. \A d \in Clients : Owns(d) => d \in {streams[i] : i \in Ids}
    BY DEF Owns
  <2>3. EvictionClosesGate'
    BY <2>1, <2>2, Eviction DEF Sweep
  <2>4. NamesUnique'
    BY <2>1, KeepNames, OwnersDistinct DEF Sweep
  <2> QED
    BY <2>3, <2>4
<1>12. ASSUME \/ RecvKeepalive \/ ReaderPush \/ RecvBad \/ ReaderEof \/ IdleTimeout
              \/ ReaderAbortsWriter \/ ReaderCancelled
              \/ WriterStep \/ ShutdownAbort \/ BridgeFalters \/ UNCHANGED vars
       PROVE  NamesUnique' /\ EvictionClosesGate'
  <2>1. UNCHANGED <<streams, gate, id, nextId, pc>>
    BY <1>12 DEF RecvKeepalive, ReaderPush, RecvBad, ReaderEof, IdleTimeout, ReadLoopEnds,
                 ReaderAbortsWriter, ReaderCancelled, WriterStep, WriterRecv, WriterFlush,
                 WriterFails, WriterCancelled, WriterEnds, ShutdownAbort, BridgeFalters,
                 vars, clientVars
  <2> QED
    BY <1>9, <2>1
<1> QED
  BY <1>1, <1>2, <1>3, <1>4, <1>6, <1>7, <1>10, <1>11, <1>12
     DEF Next, ClientStep, ReaderStep

LEMMA GateInit ==
  ASSUME Init
  PROVE  GateInv
<1>1. Inv
  BY InvInit
<1>2. Named = {}
  BY DEF Init, Named
<1>3. Cardinality(Named) = 0
  BY <1>2, FS_EmptySet
<1>4. NamesUnique
  BY <1>3, OwnersDistinct DEF Init, NamesUnique
<1>5. EvictionClosesGate
  BY DEF Init, EvictionClosesGate
<1> QED
  BY <1>1, <1>4, <1>5 DEF GateInv

(* For as long as ids do not wrap, a stream evicted by the bridge, by an   *)
(* overflow or by either sweep has its credit gate closed: no head and no  *)
(* uplink of a stream that is still spliced waits for credit in vain       *)
(* (src/mux.rs:124, 159, 262, 277).                                        *)
THEOREM GateTheorem ==
  ASSUME IdsNeverWrap
  PROVE  Spec => []EvictionClosesGate
<1>1. Init => GateInv
  BY GateInit
<1>2. GateInv /\ [Next]_vars => GateInv'
  <2> SUFFICES ASSUME GateInv, [Next]_vars PROVE GateInv'
    OBVIOUS
  <2>1. Inv'
    BY BudgetStep, TypeStep DEF Inv, GateInv
  <2> QED
    BY <2>1, GateStep DEF GateInv
<1>3. GateInv => EvictionClosesGate
  BY DEF GateInv
<1> QED
  BY <1>1, <1>2, <1>3, PTL DEF Spec

-----------------------------------------------------------------------------
(* Half-open streams.  Ids the bridge may have heard of: those it may open *)
(* itself, and those whose OPEN has been queued.                           *)
Announced(i) ==
  \E c \in Clients : id[c] = i /\ pc[c] \notin {"idle", "reserved", "announce"}
Known(i) == i \in BridgeOpens \/ Announced(i)

(* Frames that change the bridge's view.                                   *)
Marks == {"OPEN", "CLOSE"}

(* The OPEN of an id comes before every other mark of it.                  *)
OpenFirst(q) ==
  \A m, n \in DOMAIN q : m < n /\ q[m].id = q[n].id /\ q[n].kind = "OPEN" => q[m].kind \notin Marks

NoMark(q, i) == \A n \in DOMAIN q : q[n].id = i => q[n].kind \notin Marks
Ahead(p, q) == \A n \in DOMAIN q : q[n].kind = "OPEN" => NoMark(p, q[n].id)

Has(q, f) == \E n \in DOMAIN q : q[n] = f
KnownFrame(f) == (f.kind = "OPEN" => Announced(f.id)) /\ (f.kind = "CLOSE" => Known(f.id))
KnownFrames(q) == \A f \in Frames : Has(q, f) => KnownFrame(f)

(* One OPEN for each id and ahead of its CLOSE, through outbox and batch,  *)
(* and gone from both when the bridge believes the stream open.            *)
OrderInv ==
  /\ writer # "flush" => batch = << >>
  /\ OpenFirst(out) /\ OpenFirst(batch) /\ Ahead(batch, out)
  /\ KnownFrames(out) /\ KnownFrames(batch)
  /\ reader = "send" =>
       rsend.frame.kind # "OPEN" /\ (rsend.frame.kind = "CLOSE" => Known(rsend.frame.id))
  /\ \A i \in Ids : bview[i] = "open" => Known(i) /\ ~InFlight(i, "OPEN")

(* On a live link nobody has evicted a stream before its OPEN is queued.   *)
EntryInv == LinkAlive => \A c \in Clients : pc[c] = "announce" => streams[id[c]] = c

(* NoHalfOpen, for the ids the bridge is about to believe open as well.    *)
Pending(i) == bview[i] = "open" \/ InFlight(i, "OPEN")
HalfInv == LinkAlive => \A i \in Ids : Pending(i) /\ streams[i] = None => CloseComing(i)

LEMMA InFlightIs ==
  /\ \A i, k : InFlight(i, k) <=> Has(out, Control(i, k)) \/ Has(batch, Control(i, k))
  /\ \A i, k : InFlight(i, k)' <=> Has(out', Control(i, k)) \/ Has(batch', Control(i, k))
BY DEF InFlight, Has

(* What a queue holds after a send.                                        *)
LEMMA AppendHas ==
  ASSUME NEW q \in Seq(Frames), NEW f \in Frames
  PROVE  /\ DOMAIN q = 1 .. Len(q) /\ Len(q) \in Nat
         /\ DOMAIN Append(q, f) = 1 .. Len(q) + 1
         /\ Append(q, f)[Len(q) + 1] = f /\ \A n \in 1 .. Len(q) : Append(q, f)[n] = q[n]
         /\ \A g : Has(Append(q, f), g) <=> Has(q, g) \/ f = g
<1> DEFINE r == Append(q, f)
<1>1. /\ r \in Seq(Frames) /\ Len(r) = Len(q) + 1 /\ r[Len(q) + 1] = f
      /\ \A n \in 1 .. Len(q) : r[n] = q[n]
  BY AppendProperties
<1>2. DOMAIN q = 1 .. Len(q) /\ Len(q) \in Nat /\ DOMAIN r = 1 .. Len(r)
  BY <1>1, LenProperties
<1> HIDE DEF r
<1>3. ASSUME NEW g PROVE Has(r, g) <=> Has(q, g) \/ f = g
  <2>1. \A n \in DOMAIN r : n \in DOMAIN q \/ n = Len(q) + 1
    BY <1>1, <1>2
  <2>2. Len(q) + 1 \in DOMAIN r /\ \A n \in DOMAIN q : n \in DOMAIN r
    BY <1>1, <1>2
  <2> QED
    BY <1>1, <1>2, <2>1, <2>2, Zenon DEF Has
<1> QED
  BY <1>1, <1>2, <1>3 DEF r

(* ... and after the writer took its batch.                                *)
LEMMA BatchSplit ==
  ASSUME TypeOK, WriterRecv
  PROVE  \E n \in 1 .. Len(out) :
           /\ DOMAIN out = 1 .. Len(out) /\ Len(out) \in Nat
           /\ DOMAIN batch' = 1 .. n /\ \A k \in 1 .. n : batch'[k] = out[k]
           /\ DOMAIN out' = 1 .. Len(out) - n /\ \A k \in 1 .. Len(out) - n : out'[k] = out[n + k]
<1> DEFINE n == IF Len(out) < WriteBatch THEN Len(out) ELSE WriteBatch
<1>1. out \in Seq(Frames) /\ Len(out) \in Nat /\ DOMAIN out = 1 .. Len(out)
  BY LenProperties DEF TypeOK
<1>2. n \in 1 .. Len(out)
  <2>1. out # << >>
    BY DEF WriterRecv
  <2>2. Len(out) > 0
    BY <1>1, <2>1
  <2> QED
    BY <1>1, <2>2, BoundsPositive
<1>3. batch' = SubSeq(out, 1, n) /\ out' = SubSeq(out, n + 1, Len(out))
  BY DEF WriterRecv
<1> HIDE DEF n
<1>4. DOMAIN batch' = 1 .. n /\ \A k \in 1 .. n : batch'[k] = out[k]
  BY <1>1, <1>2, <1>3
<1>5. DOMAIN out' = 1 .. Len(out) - n /\ \A k \in 1 .. Len(out) - n : out'[k] = out[n + k]
  BY <1>1, <1>2, <1>3
<1> QED
  BY <1>1, <1>2, <1>4, <1>5

LEMMA BatchHas ==
  ASSUME TypeOK, WriterRecv, NEW g
  PROVE  Has(out, g) <=> Has(out', g) \/ Has(batch', g)
<1>1. PICK n \in 1 .. Len(out) :
        /\ DOMAIN out = 1 .. Len(out) /\ Len(out) \in Nat
        /\ DOMAIN batch' = 1 .. n /\ \A k \in 1 .. n : batch'[k] = out[k]
        /\ DOMAIN out' = 1 .. Len(out) - n /\ \A k \in 1 .. Len(out) - n : out'[k] = out[n + k]
  BY BatchSplit
<1>2. ASSUME NEW k \in DOMAIN out, out[k] = g PROVE Has(out', g) \/ Has(batch', g)
  <2>1. CASE k <= n
    <3>1. k \in DOMAIN batch' /\ batch'[k] = g
      BY <1>1, <1>2, <2>1
    <3> QED
      BY <3>1 DEF Has
  <2>2. CASE ~(k <= n)
    <3>1. PICK j \in 1 .. Len(out) - n : k = n + j
      <4>1. k - n \in 1 .. Len(out) - n /\ k = n + (k - n)
        BY <1>1, <2>2
      <4> QED
        BY <4>1
    <3>2. j \in DOMAIN out' /\ out'[j] = g
      BY <1>1, <1>2, <3>1
    <3> QED
      BY <3>2 DEF Has
  <2> QED
    BY <2>1, <2>2
<1>3. ASSUME NEW k \in DOMAIN batch', batch'[k] = g PROVE Has(out, g)
  <2>1. k \in DOMAIN out /\ out[k] = g
    BY <1>1, <1>3
  <2> QED
    BY <2>1 DEF Has
<1>4. ASSUME NEW k \in DOMAIN out', out'[k] = g PROVE Has(out, g)
  <2>1. n + k \in DOMAIN out /\ out[n + k] = g
    BY <1>1, <1>4
  <2> QED
    BY <2>1 DEF Has
<1> QED
  BY <1>2, <1>3, <1>4 DEF Has

(* A stream past its announcement keeps its id and never goes back.        *)
LEMMA KnownGrows ==
  ASSUME Inv, NamesUnique, [Next]_vars
  PROVE  \A i : (Announced(i) => Announced(i)') /\ (Known(i) => Known(i)')
<1> DEFINE Early == {"idle", "reserved", "announce"}
<1>0. /\ pc \in [Clients -> {"idle", "reserved", "announce", "head", "head_push",
                             "up", "closing", "done"}]
      /\ id \in [Clients -> Ids \cup {NoId}]
  BY DEF Inv, TypeOK
<1>1. ASSUME NEW d \in Clients, pc[d] \notin Early
      PROVE  id'[d] = id[d] /\ pc'[d] \notin Early
  <2>1. ASSUME NEW c \in Clients, OpenReserve(c) PROVE id'[d] = id[d] /\ pc'[d] \notin Early
    BY <1>0, <1>1, <2>1 DEF OpenReserve
  <2>2. ASSUME NEW c \in Clients, OpenInsert(c) \/ OpenAnnounce(c)
        PROVE  id'[d] = id[d] /\ pc'[d] \notin Early
    BY <1>0, <1>1, <2>2 DEF OpenInsert, OpenAnnounce
  <2>3. ASSUME NEW c \in Clients, HeadAcquire(c) \/ HeadPush(c)
        PROVE  id'[d] = id[d] /\ pc'[d] \notin Early
    BY <1>0, <1>1, <2>3 DEF HeadAcquire, HeadPush
  <2>4. ASSUME NEW c \in Clients,
               \/ DownlinkEnd(c) \/ DownlinkWrite(c) \/ DownlinkWriteFails(c)
               \/ DownlinkGrant(c) \/ DownlinkShutdown(c) \/ UplinkEnds(c) \/ ClosePush(c)
        PROVE  id'[d] = id[d] /\ pc'[d] \notin Early
    <3>1. UNCHANGED id
      BY <2>4 DEF DownlinkEnd, DownlinkWrite, DownlinkWriteFails, DownlinkGrant,
                  DownlinkShutdown, UplinkEnds, ClosePush
    <3>2. \/ UNCHANGED pc \/ pc' = [pc EXCEPT ![c] = "closing"] \/ pc' = [pc EXCEPT ![c] = "done"]
      BY <2>4, Zenon DEF DownlinkEnd, DownlinkWrite, DownlinkWriteFails, DownlinkGrant,
                  DownlinkShutdown, UplinkEnds, ClosePush, CloseStream, Grant
    <3> QED
      BY <1>0, <1>1, <3>1, <3>2
  <2>5. CASE UNCHANGED <<id, pc>>
    BY <1>1, <2>5
  <2> QED
    BY <2>1, <2>2, <2>3, <2>4, <2>5
       DEF Next, ClientStep, ReaderStep, WriterStep, UplinkRead, UplinkHangup, UplinkAcquire,
           UplinkPush, DownlinkRecv, AbandonedAssigned, RecvKeepalive, ReaderPush, RecvBad,
           ReaderEof, IdleTimeout, ReadLoopEnds, ReaderSweep, ReaderAbortsWriter,
           ReaderCancelled, RecvOpen, RecvData, RecvWindow, RecvClose, WriterRecv, WriterFlush,
           WriterFails, WriterCancelled, WriterEnds, ShutdownSweep, ShutdownAbort,
           BridgeFalters, vars, clientVars
<1> QED
  BY <1>1 DEF Announced, Known

(* Who puts which mark into the outbox.                                    *)
Sent(f) ==
  \/ f.kind \in {"DATA", "WINDOW"}
  \/ \E c \in Clients : pc[c] = "announce" /\ pc'[c] = "head" /\ id'[c] = id[c]
                        /\ f = Control(id[c], "OPEN")
  \/ \E c \in Clients : pc[c] = "closing" /\ id[c] \in Ids /\ f = Control(id[c], "CLOSE")
  \/ reader = "send" /\ f = rsend.frame

LinkMoves ==
  \/ UNCHANGED <<out, batch, writer>>
  \/ \E f \in Frames : Sent(f) /\ out' = Append(out, f) /\ UNCHANGED <<batch, writer, bview>>
  \/ WriterRecv \/ WriterFlush \/ WriterEnds

LEMMA QueueMoves ==
  ASSUME Inv, [Next]_vars
  PROVE  LinkMoves
<1>0. /\ pc \in [Clients -> {"idle", "reserved", "announce", "head", "head_push",
                             "up", "closing", "done"}]
      /\ TypeOK
  BY DEF Inv, TypeOK
<1>1. ASSUME NEW c \in Clients, OpenAnnounce(c) PROVE LinkMoves
  <2>1. id[c] \in Ids /\ UNCHANGED <<batch, writer, bview, id>> /\ pc[c] = "announce"
    BY <1>1 DEF Inv, IdAssigned, OpenAnnounce
  <2>2. CASE Push(Control(id[c], "OPEN")) /\ pc' = [pc EXCEPT ![c] = "head"]
    <3>1. Control(id[c], "OPEN") \in Frames /\ pc'[c] = "head"
      BY <1>0, <2>1, <2>2, ControlType DEF Kinds
    <3>2. Sent(Control(id[c], "OPEN"))
      BY <2>1, <3>1 DEF Sent
    <3> QED
      BY <2>1, <2>2, <3>1, <3>2 DEF LinkMoves, Push
  <2>3. CASE SendFails
    BY <2>1, <2>3 DEF LinkMoves, SendFails
  <2> QED
    BY <1>1, <2>2, <2>3, Zenon DEF OpenAnnounce
<1>2. ASSUME NEW c \in Clients, HeadPush(c) \/ UplinkPush(c) \/ DownlinkWrite(c) \/ DownlinkGrant(c)
      PROVE LinkMoves
  <2>1. id[c] \in Ids /\ UNCHANGED <<batch, writer, bview>>
    <3>1. pc[c] \in {"head_push", "up"} \/ up[c] # "none"
      BY <1>2 DEF HeadPush, UplinkPush, DownlinkWrite, DownlinkGrant
    <3> QED
      BY <1>2, <3>1 DEF Inv, IdAssigned, HeadPush, UplinkPush, DownlinkWrite, DownlinkGrant
  <2>2. \/ \E k \in {"DATA", "WINDOW"} : Push(Control(id[c], k))
        \/ UNCHANGED out
    BY <1>2, Zenon DEF HeadPush, UplinkPush, DownlinkWrite, DownlinkGrant, Grant, SendFails
  <2>3. ASSUME NEW k \in {"DATA", "WINDOW"}, Push(Control(id[c], k)) PROVE LinkMoves
    <3>1. Control(id[c], k) \in Frames /\ Sent(Control(id[c], k))
      BY <2>1, ControlType DEF Kinds, Sent, Control
    <3> QED
      BY <2>1, <2>3, <3>1 DEF LinkMoves, Push
  <2> QED
    BY <2>1, <2>2, <2>3 DEF LinkMoves
<1>3. ASSUME NEW c \in Clients, ClosePush(c) PROVE LinkMoves
  <2>1. id[c] \in Ids /\ UNCHANGED <<batch, writer, bview>> /\ pc[c] = "closing"
    BY <1>3 DEF Inv, IdAssigned, ClosePush
  <2>2. CASE Push(Control(id[c], "CLOSE"))
    <3>1. Control(id[c], "CLOSE") \in Frames /\ Sent(Control(id[c], "CLOSE"))
      BY <2>1, ControlType DEF Kinds, Sent
    <3> QED
      BY <2>1, <2>2, <3>1 DEF LinkMoves, Push
  <2>3. CASE SendFails
    BY <2>1, <2>3 DEF LinkMoves, SendFails
  <2> QED
    BY <1>3, <2>2, <2>3, Zenon DEF ClosePush
<1>4. CASE ReaderPush
  <2>1. rsend.frame \in Frames /\ UNCHANGED <<batch, writer, bview>> /\ reader = "send"
    BY <1>0, <1>4 DEF TypeOK, ReaderPush
  <2>2. CASE Push(rsend.frame)
    BY <2>1, <2>2 DEF LinkMoves, Push, Sent
  <2>3. CASE SendFails
    BY <2>1, <2>3 DEF LinkMoves, SendFails
  <2> QED
    BY <1>4, <2>2, <2>3, Zenon DEF ReaderPush
<1>5. CASE WriterStep
  BY <1>5 DEF WriterStep, WriterFails, WriterCancelled, LinkMoves
<1>6. CASE UNCHANGED <<out, batch, writer>>
  BY <1>6 DEF LinkMoves
<1> QED
  BY <1>1, <1>2, <1>3, <1>4, <1>5, <1>6
     DEF Next, ClientStep, ReaderStep, OpenReserve, OpenInsert, HeadAcquire, UplinkRead,
         UplinkHangup, UplinkAcquire, DownlinkRecv, DownlinkEnd, DownlinkWriteFails,
         DownlinkShutdown, UplinkEnds, AbandonedAssigned, RecvKeepalive, RecvBad, ReaderEof,
         IdleTimeout, ReadLoopEnds, ReaderSweep, ReaderAbortsWriter, ReaderCancelled,
         RecvOpen, RecvData, RecvWindow, RecvClose, ShutdownSweep, ShutdownAbort,
         BridgeFalters, vars, linkVars

(* What the reader parks on, and whom the bridge comes to believe open.    *)
LEMMA ReaderMoves ==
  ASSUME Inv, [Next]_vars, reader' = "send"
  PROVE  \/ reader = "send" /\ rsend' = rsend
         \/ rsend'.frame.kind = "DATA"
         \/ \E i \in Ids : /\ i \in BridgeOpens \/ bview[i] = "open"
                           /\ rsend'.frame = Control(i, "CLOSE")
<1>1. CASE RecvKeepalive
  BY <1>1 DEF RecvKeepalive, ReaderSends, Control
<1>2. ASSUME NEW i \in Ids, RecvOpen(i) \/ RecvData(i)
      PROVE  \/ reader = "send" /\ rsend' = rsend
             \/ \E j \in Ids : /\ j \in BridgeOpens \/ bview[j] = "open"
                               /\ rsend'.frame = Control(j, "CLOSE")
  <2>1. reader = "next" /\ (i \in BridgeOpens \/ bview[i] = "open")
    BY <1>2 DEF RecvOpen, RecvData, BridgeSends
  <2>2. CASE UNCHANGED reader
    BY <2>1, <2>2
  <2>3. ASSUME NEW h, rsend' = [frame |-> Control(i, "CLOSE"), holds |-> h]
        PROVE  rsend'.frame = Control(i, "CLOSE")
    BY <2>3
  <2> QED
    BY <1>2, <2>1, <2>2, <2>3, Zenon DEF RecvOpen, RecvData, ReaderSends
<1>3. CASE ReaderPush \/ RecvBad \/ ReaderEof \/ IdleTimeout \/ ReaderSweep \/ ReaderAbortsWriter
           \/ ReaderCancelled
  BY <1>3 DEF ReaderPush, RecvBad, ReaderEof, IdleTimeout, ReadLoopEnds, ReaderSweep,
              ReaderAbortsWriter, ReaderCancelled
<1>4. CASE UNCHANGED <<reader, rsend>>
  BY <1>4
<1> QED
  BY <1>1, <1>2, <1>3, <1>4
     DEF Next, ClientStep, ReaderStep, WriterStep, OpenReserve, OpenInsert, OpenAnnounce,
         HeadAcquire, HeadPush, UplinkRead, UplinkHangup, UplinkAcquire, UplinkPush,
         DownlinkRecv, DownlinkEnd, DownlinkWrite, DownlinkWriteFails, DownlinkGrant,
         DownlinkShutdown, UplinkEnds, AbandonedAssigned, ClosePush, RecvWindow, RecvClose,
         WriterRecv, WriterFlush, WriterFails, WriterCancelled, WriterEnds, ShutdownSweep,
         ShutdownAbort, BridgeFalters, vars, linkVars

LEMMA ViewMoves ==
  ASSUME Inv, [Next]_vars, NEW i \in Ids, bview'[i] = "open"
  PROVE  \/ bview[i] = "open"
         \/ RecvOpen(i)
         \/ WriterFlush /\ ViewAfterBatch(i) = "open"
<1>0. bview \in [Ids -> {"none", "open", "closed"}]
  BY DEF Inv, TypeOK
<1>1. ASSUME NEW j \in Ids, RecvOpen(j) PROVE bview[i] = "open" \/ RecvOpen(i)
  <2>1. bview' = [bview EXCEPT ![j] = "open"]
    BY <1>1 DEF RecvOpen
  <2>2. CASE i = j
    BY <1>1, <2>2
  <2>3. CASE i # j
    BY <1>0, <2>1, <2>3
  <2> QED
    BY <2>2, <2>3
<1>2. ASSUME NEW j \in Ids, RecvClose(j) PROVE bview[i] = "open"
  BY <1>0, <1>2 DEF RecvClose
<1>3. CASE WriterFlush
  BY <1>3 DEF WriterFlush
<1>4. CASE WriterFails \/ WriterCancelled \/ BridgeFalters
  BY <1>4 DEF WriterFails, WriterCancelled, WriterEnds, BridgeFalters
<1>5. CASE UNCHANGED bview
  BY <1>5
<1> QED
  BY <1>1, <1>2, <1>3, <1>4, <1>5
     DEF Next, ClientStep, ReaderStep, WriterStep, OpenReserve, OpenInsert, OpenAnnounce,
         HeadAcquire, HeadPush, UplinkRead, UplinkHangup, UplinkAcquire, UplinkPush,
         DownlinkRecv, DownlinkEnd, DownlinkWrite, DownlinkWriteFails, DownlinkGrant,
         DownlinkShutdown, UplinkEnds, AbandonedAssigned, ClosePush, RecvKeepalive,
         ReaderPush, RecvBad, ReaderEof, IdleTimeout, ReadLoopEnds, ReaderSweep,
         ReaderAbortsWriter, ReaderCancelled, RecvData, RecvWindow, WriterRecv,
         ShutdownSweep, ShutdownAbort, vars, linkVars

(* A batch leaves the stream open when it does not mention it, or when its *)
(* OPEN is the only mark.                                                  *)
LEMMA FlushView ==
  ASSUME TypeOK, OpenFirst(batch), NEW i \in Ids, ViewAfterBatch(i) = "open"
  PROVE  \/ bview[i] = "open" /\ NoMark(batch, i)
         \/ Has(batch, Control(i, "OPEN")) /\ ~Has(batch, Control(i, "CLOSE"))
<1> DEFINE about == {k \in DOMAIN batch : batch[k].id = i /\ batch[k].kind \in {"OPEN", "CLOSE"}}
<1>0. /\ DOMAIN batch = 1 .. Len(batch) /\ Len(batch) \in Nat
      /\ \A k \in DOMAIN batch : batch[k] \in Frames
  <2>1. batch \in Seq(Frames)
    BY DEF TypeOK
  <2>2. DOMAIN batch = 1 .. Len(batch) /\ Len(batch) \in Nat
    BY <2>1, LenProperties
  <2> QED
    BY <2>1, <2>2, ElementOfSeq
<1>1. CASE about = {}
  <2>1. bview[i] = "open"
    BY <1>1 DEF ViewAfterBatch
  <2> QED
    BY <1>1, <2>1 DEF NoMark, Marks
<1>2. CASE about # {}
  <2>1. PICK k \in about : batch[k].kind = "OPEN" /\ \A j \in about : j <= k
    BY <1>2 DEF ViewAfterBatch
  <2>2. batch[k] = Control(i, "OPEN")
    BY <1>0, <2>1 DEF Frames, Control
  <2>3. ASSUME NEW j \in DOMAIN batch, batch[j] = Control(i, "CLOSE") PROVE FALSE
    <3>1. batch[j].id = i /\ batch[j].kind = "CLOSE"
      BY <2>3 DEF Control
    <3>2. j \in about
      BY <3>1
    <3>3. j <= k /\ j # k
      BY <2>1, <3>1, <3>2
    <3>4. j < k /\ batch[j].id = batch[k].id
      BY <1>0, <2>1, <3>1, <3>3
    <3> QED
      BY <2>1, <3>1, <3>4 DEF OpenFirst, Marks
  <2> QED
    BY <2>1, <2>2, <2>3 DEF Has
<1> QED
  BY <1>1, <1>2

(* Frames about an id nobody knows are not queued.                         *)
LEMMA Unheard ==
  ASSUME NEW q \in Seq(Frames), KnownFrames(q), NEW i, ~Known(i)
  PROVE  NoMark(q, i)
<1> SUFFICES ASSUME NEW n \in DOMAIN q, q[n].id = i PROVE q[n].kind \notin Marks
  BY DEF NoMark
<1>1. q[n] \in Frames /\ Has(q, q[n])
  BY LenProperties, ElementOfSeq DEF Has
<1>2. KnownFrame(q[n])
  BY <1>1 DEF KnownFrames
<1> QED
  BY <1>2 DEF KnownFrame, Known, Marks

LEMMA NoMarkHas ==
  ASSUME NEW q, NEW i, NoMark(q, i), NEW k \in Marks
  PROVE  ~Has(q, Control(i, k))
BY DEF NoMark, Has, Control

(* An id whose OPEN is not queued yet is not known.                        *)
LEMMA NotKnownYet ==
  ASSUME IdsNeverWrap, Inv, NamesUnique, NEW c \in Clients, pc[c] \in {"reserved", "announce"}
  PROVE  ~Known(id[c])
<1>1. id[c] \in Ids /\ id[c] # NoId
  BY IdsWide DEF Inv, IdAssigned, Ids, NoId
<1>2. id[c] \notin BridgeOpens
  BY PeerIdsApart
<1>3. ASSUME NEW d \in Clients, id[d] = id[c] PROVE d = c
  BY <1>1, <1>3 DEF NamesUnique
<1> QED
  BY <1>2, <1>3 DEF Known, Announced

LEMMA AnnouncedApart ==
  ASSUME IdsNeverWrap, Inv, NamesUnique, NEW i \in BridgeOpens
  PROVE  ~Announced(i)
BY PeerIdsApart DEF Announced

(* Order survives a send that opens only what nobody has marked.           *)
LEMMA OrderPush ==
  ASSUME NEW q \in Seq(Frames), NEW p, NEW f \in Frames,
         OpenFirst(q), Ahead(p, q),
         f.kind = "OPEN" => NoMark(q, f.id) /\ NoMark(p, f.id)
  PROVE  OpenFirst(Append(q, f)) /\ Ahead(p, Append(q, f))
<1> DEFINE r == Append(q, f)
<1>1. /\ DOMAIN q = 1 .. Len(q) /\ Len(q) \in Nat /\ DOMAIN r = 1 .. Len(q) + 1
      /\ r[Len(q) + 1] = f /\ \A n \in 1 .. Len(q) : r[n] = q[n]
  BY AppendHas
<1> HIDE DEF r
<1>2. \A n \in DOMAIN r : n \in DOMAIN q \/ n = Len(q) + 1
  BY <1>1
<1>3. OpenFirst(r)
  <2> SUFFICES ASSUME NEW m \in DOMAIN r, NEW n \in DOMAIN r, m < n, r[m].id = r[n].id,
                      r[n].kind = "OPEN"
               PROVE  r[m].kind \notin Marks
    BY DEF OpenFirst
  <2>1. m \in DOMAIN q /\ r[m] = q[m]
    BY <1>1
  <2>2. CASE n = Len(q) + 1
    BY <1>1, <2>1, <2>2 DEF NoMark
  <2>3. CASE n \in DOMAIN q
    <3>1. r[n] = q[n]
      BY <1>1, <2>3
    <3> QED
      BY <2>1, <2>3, <3>1 DEF OpenFirst
  <2> QED
    BY <1>2, <2>2, <2>3
<1>4. Ahead(p, r)
  BY <1>1, <1>2, Zenon DEF Ahead
<1> QED
  BY <1>3, <1>4 DEF r

(* ... and the writer taking its batch.                                    *)
LEMMA OrderBatch ==
  ASSUME TypeOK, WriterRecv, OpenFirst(out)
  PROVE  OpenFirst(out') /\ OpenFirst(batch') /\ Ahead(batch', out')
<1>1. PICK n \in 1 .. Len(out) :
        /\ DOMAIN out = 1 .. Len(out) /\ Len(out) \in Nat
        /\ DOMAIN batch' = 1 .. n /\ \A k \in 1 .. n : batch'[k] = out[k]
        /\ DOMAIN out' = 1 .. Len(out) - n /\ \A k \in 1 .. Len(out) - n : out'[k] = out[n + k]
  BY BatchSplit
<1>2. OpenFirst(batch')
  BY <1>1 DEF OpenFirst
<1>3. OpenFirst(out')
  <2> SUFFICES ASSUME NEW m \in DOMAIN out', NEW k \in DOMAIN out', m < k, out'[m].id = out'[k].id,
                      out'[k].kind = "OPEN"
               PROVE  out'[m].kind \notin Marks
    BY DEF OpenFirst
  <2>1. /\ n + m \in DOMAIN out /\ n + k \in DOMAIN out /\ n + m < n + k
        /\ out'[m] = out[n + m] /\ out'[k] = out[n + k]
    BY <1>1
  <2> QED
    BY <2>1 DEF OpenFirst
<1>4. Ahead(batch', out')
  <2> SUFFICES ASSUME NEW k \in DOMAIN out', NEW m \in DOMAIN batch', out'[k].kind = "OPEN",
                      batch'[m].id = out'[k].id
               PROVE  batch'[m].kind \notin Marks
    BY DEF Ahead, NoMark
  <2>1. /\ m \in DOMAIN out /\ n + k \in DOMAIN out /\ m < n + k
        /\ batch'[m] = out[m] /\ out'[k] = out[n + k]
    BY <1>1
  <2> QED
    BY <2>1 DEF OpenFirst
<1> QED
  BY <1>2, <1>3, <1>4

LEMMA EmptyOrder ==
  /\ OpenFirst(<< >>) /\ KnownFrames(<< >>)
  /\ \A q : Ahead(q, << >>) /\ Ahead(<< >>, q)
  /\ \A f : ~Has(<< >>, f)
BY DEF OpenFirst, KnownFrames, Ahead, NoMark, Has

(* The outbox and the batch keep their order.                              *)
LEMMA OrderKept ==
  ASSUME IdsNeverWrap, Inv, NamesUnique, OrderInv, [Next]_vars
  PROVE  /\ writer' # "flush" => batch' = << >>
         /\ OpenFirst(out') /\ OpenFirst(batch') /\ Ahead(batch', out')
<1>0. TypeOK /\ out \in Seq(Frames) /\ batch \in Seq(Frames)
  BY DEF Inv, TypeOK
<1>1. CASE UNCHANGED <<out, batch, writer>>
  BY <1>1 DEF OrderInv
<1>2. ASSUME NEW f \in Frames, Sent(f), out' = Append(out, f), UNCHANGED <<batch, writer>>
      PROVE  /\ writer' # "flush" => batch' = << >>
             /\ OpenFirst(out') /\ OpenFirst(batch') /\ Ahead(batch', out')
  <2>1. ASSUME f.kind = "OPEN" PROVE NoMark(out, f.id) /\ NoMark(batch, f.id)
    <3>1. CASE \E c \in Clients : pc[c] = "announce" /\ f = Control(id[c], "OPEN")
      <4>1. PICK c \in Clients : pc[c] = "announce" /\ f = Control(id[c], "OPEN")
        BY <3>1
      <4>2. f.id = id[c] /\ ~Known(id[c])
        BY <4>1, NotKnownYet DEF Control
      <4>3. ~Known(f.id)
        BY <4>2
      <4> QED
        BY <1>0, <4>3, Unheard DEF OrderInv
    <3>2. CASE reader = "send" /\ f = rsend.frame
      BY <2>1, <3>2 DEF OrderInv
    <3> QED
      BY <1>2, <2>1, <3>1, <3>2 DEF Sent, Control
  <2>2. OpenFirst(out') /\ Ahead(batch, out')
    BY <1>0, <1>2, <2>1, OrderPush DEF OrderInv
  <2> QED
    BY <1>2, <2>2 DEF OrderInv
<1>3. CASE WriterRecv
  <2>1. writer' = "flush"
    BY <1>3 DEF WriterRecv
  <2> QED
    BY <1>0, <1>3, <2>1, OrderBatch DEF OrderInv
<1>4. CASE WriterFlush \/ WriterEnds
  <2>1. batch' = << >> /\ (out' = out \/ out' = << >>)
    BY <1>4 DEF WriterFlush, WriterEnds
  <2> QED
    BY <2>1, EmptyOrder DEF OrderInv
<1> QED
  BY <1>1, <1>2, <1>3, <1>4, QueueMoves DEF LinkMoves

(* Every frame queued after a step was queued before, or was just sent.    *)
LEMMA HasMoves ==
  ASSUME Inv, [Next]_vars, NEW g \in Frames, Has(out', g) \/ Has(batch', g)
  PROVE  Has(out, g) \/ Has(batch, g) \/ Sent(g)
<1>0. TypeOK /\ out \in Seq(Frames) /\ batch \in Seq(Frames)
  BY DEF Inv, TypeOK
<1>1. ASSUME NEW f \in Frames, Sent(f), out' = Append(out, f), UNCHANGED batch
      PROVE  Has(out, g) \/ Has(batch, g) \/ Sent(g)
  <2>1. Has(out', g) => Has(out, g) \/ f = g
    BY <1>0, <1>1, AppendHas
  <2> QED
    BY <1>1, <2>1
<1>2. CASE WriterRecv
  BY <1>0, <1>2, BatchHas
<1>3. CASE WriterFlush \/ WriterEnds
  <2>1. batch' = << >> /\ (out' = out \/ out' = << >>)
    BY <1>3 DEF WriterFlush, WriterEnds
  <2> QED
    BY <2>1, EmptyOrder
<1> QED
  BY <1>1, <1>2, <1>3, QueueMoves DEF LinkMoves

LEMMA SentKnown ==
  ASSUME Inv, NamesUnique, OrderInv, [Next]_vars, NEW f \in Frames, Sent(f)
  PROVE  KnownFrame(f)'
<1>1. CASE f.kind \in {"DATA", "WINDOW"}
  BY <1>1 DEF KnownFrame
<1>2. ASSUME NEW c \in Clients, pc'[c] = "head", id'[c] = id[c], f = Control(id[c], "OPEN")
      PROVE  KnownFrame(f)'
  <2>1. f.id = id'[c] /\ f.kind = "OPEN"
    BY <1>2 DEF Control
  <2> QED
    BY <1>2, <2>1 DEF KnownFrame, Announced
<1>3. ASSUME NEW c \in Clients, pc[c] = "closing", f = Control(id[c], "CLOSE")
      PROVE  KnownFrame(f)'
  <2>1. f.id = id[c] /\ f.kind = "CLOSE"
    BY <1>3 DEF Control
  <2>2. Known(f.id)
    BY <1>3, <2>1 DEF Known, Announced
  <2> QED
    BY <2>1, <2>2, KnownGrows DEF KnownFrame
<1>4. CASE reader = "send" /\ f = rsend.frame
  <2>1. f.kind # "OPEN" /\ (f.kind = "CLOSE" => Known(f.id))
    BY <1>4 DEF OrderInv
  <2> QED
    BY <2>1, KnownGrows DEF KnownFrame
<1> QED
  BY <1>1, <1>2, <1>3, <1>4 DEF Sent

LEMMA OrderStep ==
  ASSUME IdsNeverWrap, Inv, NamesUnique, OrderInv, [Next]_vars
  PROVE  OrderInv'
<1>0. TypeOK /\ out \in Seq(Frames) /\ batch \in Seq(Frames)
  BY DEF Inv, TypeOK
<1>1. /\ writer' # "flush" => batch' = << >>
      /\ OpenFirst(out)' /\ OpenFirst(batch)' /\ Ahead(batch, out)'
  BY OrderKept DEF OpenFirst, Ahead, NoMark
<1>2. KnownFrames(out)' /\ KnownFrames(batch)'
  <2> SUFFICES ASSUME NEW f \in Frames, Has(out', f) \/ Has(batch', f) PROVE KnownFrame(f)'
    BY DEF KnownFrames, Has
  <2>1. CASE Has(out, f) \/ Has(batch, f)
    <3>1. KnownFrame(f)
      BY <2>1 DEF OrderInv, KnownFrames
    <3> QED
      BY <3>1, KnownGrows DEF KnownFrame
  <2>2. CASE Sent(f)
    BY <2>2, SentKnown
  <2> QED
    BY <2>1, <2>2, HasMoves
<1>3. ASSUME reader' = "send"
      PROVE  rsend'.frame.kind # "OPEN" /\ (rsend'.frame.kind = "CLOSE" => Known(rsend.frame.id)')
  <2>1. CASE reader = "send" /\ rsend' = rsend
    <3>1. rsend.frame.kind # "OPEN" /\ (rsend.frame.kind = "CLOSE" => Known(rsend.frame.id))
      BY <2>1 DEF OrderInv
    <3>2. PICK i : i = rsend.frame.id
      OBVIOUS
    <3>3. Known(i) => Known(i)'
      BY KnownGrows
    <3> QED
      BY <2>1, <3>1, <3>2, <3>3 DEF Known, Announced
  <2>2. CASE rsend'.frame.kind = "DATA"
    BY <2>2
  <2>3. ASSUME NEW i \in Ids, i \in BridgeOpens \/ bview[i] = "open",
               rsend'.frame = Control(i, "CLOSE")
        PROVE  rsend'.frame.kind # "OPEN" /\ Known(rsend.frame.id)'
    <3>1. Known(i)
      BY <2>3 DEF OrderInv, Known
    <3>2. Known(i)'
      BY <3>1, KnownGrows
    <3>3. rsend'.frame.kind = "CLOSE" /\ rsend'.frame.id = i
      BY <2>3 DEF Control
    <3> QED
      BY <3>2, <3>3 DEF Known, Announced
  <2> QED
    BY <1>3, <2>1, <2>2, <2>3, ReaderMoves
<1>4. ASSUME NEW i \in Ids, bview'[i] = "open"
      PROVE  Known(i)' /\ ~InFlight(i, "OPEN")'
  <2>0. Control(i, "OPEN") \in Frames
    BY ControlType DEF Kinds
  <2> DEFINE o == Control(i, "OPEN")
  <2>o. o.id = i /\ o.kind = "OPEN"
    BY DEF Control
  <2> HIDE DEF o
  <2> SUFFICES Known(i)' /\ ~Has(out', o) /\ ~Has(batch', o)
    BY InFlightIs DEF o
  <2>1. CASE bview[i] = "open" /\ ~WriterFlush
    <3>1. Known(i) /\ ~Has(out, o) /\ ~Has(batch, o)
      BY <2>1, InFlightIs DEF OrderInv, o
    <3>2. Known(i)'
      BY <3>1, KnownGrows
    <3>3. ~Sent(o)
      <4>1. ASSUME NEW c \in Clients, pc[c] = "announce", o = Control(id[c], "OPEN") PROVE FALSE
        <5>1. id[c] = i
          BY <2>o, <4>1 DEF Control
        <5> QED
          BY <3>1, <4>1, <5>1, NotKnownYet
      <4>2. ~(reader = "send" /\ o = rsend.frame)
        BY <2>o DEF OrderInv
      <4>3. ASSUME NEW c \in Clients, o = Control(id[c], "CLOSE") PROVE FALSE
        BY <2>o, <4>3 DEF Control
      <4> QED
        BY <2>o, <4>1, <4>2, <4>3 DEF Sent
    <3> QED
      BY <2>0, <3>1, <3>2, <3>3, HasMoves DEF o
  <2>2. CASE RecvOpen(i)
    <3>1. i \in BridgeOpens /\ UNCHANGED <<out, batch>>
      BY <2>2 DEF RecvOpen
    <3>2. ~Announced(i)
      BY <3>1, AnnouncedApart
    <3>3. ~Has(out, o) /\ ~Has(batch, o)
      BY <2>0, <2>o, <3>2 DEF OrderInv, KnownFrames, KnownFrame, o
    <3> QED
      BY <3>1, <3>3 DEF Known
  <2>3. CASE WriterFlush
    <3>1. out' = out /\ batch' = << >>
      BY <2>3 DEF WriterFlush
    <3>2. ~Has(batch', o)
      BY <3>1, EmptyOrder
    <3>3. CASE bview[i] = "open"
      <4>1. Known(i) /\ ~Has(out, o)
        BY <3>3, InFlightIs DEF OrderInv, o
      <4> QED
        BY <3>1, <3>2, <4>1, KnownGrows
    <3>4. CASE bview[i] # "open"
      <4>1. ViewAfterBatch(i) = "open"
        BY <1>4, <2>3, <3>4 DEF WriterFlush
      <4>2. Has(batch, o)
        BY <1>0, <3>4, <4>1, FlushView DEF OrderInv, o
      <4>3. Announced(i)
        BY <2>0, <2>o, <4>2 DEF OrderInv, KnownFrames, KnownFrame, o
      <4>4. ~Has(out, o)
        <5> SUFFICES ASSUME NEW n \in DOMAIN out, out[n] = o PROVE FALSE
          BY DEF Has
        <5>1. NoMark(batch, i)
          BY <2>o DEF OrderInv, Ahead
        <5> QED
          BY <2>o, <4>2, <5>1 DEF NoMark, Has, Marks
      <4> QED
        BY <3>1, <3>2, <4>3, <4>4, KnownGrows DEF Known
    <3> QED
      BY <3>3, <3>4
  <2> QED
    BY <1>4, <2>1, <2>2, <2>3, ViewMoves
<1> QED
  BY <1>1, <1>2, <1>3, <1>4 DEF OrderInv

(* A link that is alive was alive: every way it dies is final.             *)
LEMMA AliveBack ==
  ASSUME Inv, [Next]_vars, LinkAlive'
  PROVE  LinkAlive /\ ~ReaderSweep /\ ~ShutdownSweep
<1>1. bridge = "up" /\ writer # "dead" /\ reader \in {"next", "send"} /\ shut = "no"
  BY DEF LinkAlive, Next, ClientStep, ReaderStep, WriterStep, OpenReserve, OpenInsert,
         OpenAnnounce, HeadAcquire, HeadPush, UplinkRead, UplinkHangup, UplinkAcquire,
         UplinkPush, DownlinkRecv, DownlinkEnd, DownlinkWrite, DownlinkWriteFails,
         DownlinkGrant, DownlinkShutdown, UplinkEnds, AbandonedAssigned, ClosePush,
         RecvKeepalive, ReaderPush, RecvBad, ReaderEof, IdleTimeout, ReadLoopEnds,
         ReaderSweep, ReaderAbortsWriter, ReaderCancelled, RecvOpen, RecvData, RecvWindow,
         RecvClose, WriterRecv, WriterFlush, WriterFails, WriterCancelled, WriterEnds,
         ShutdownSweep, ShutdownAbort, BridgeFalters, BridgeSends, vars, linkVars
<1>2. ~ReaderSweep /\ ~ShutdownSweep
  BY DEF LinkAlive, ReaderSweep, ShutdownSweep
<1> QED
  BY <1>1, <1>2 DEF LinkAlive

(* Who changes the entry of an id while the link lives.                    *)
Closes(c, i) ==
  /\ pc[c] = "up" /\ pc'[c] = "closing" /\ id[c] = i /\ UNCHANGED <<id, out, batch, writer, bview>>
Evicts(i) ==
  /\ bview[i] = "open" /\ UNCHANGED <<out, batch, writer, bview>>
  /\ reader' = "send" /\ rsend'.frame = Control(i, "CLOSE")

LEMMA EntryMoves ==
  ASSUME Inv, [Next]_vars, LinkAlive', NEW i \in Ids, streams'[i] # streams[i]
  PROVE  \/ \E c \in Clients : OpenInsert(c) /\ id[c] = i
         \/ \E c \in Clients : Closes(c, i)
         \/ RecvOpen(i) \/ Evicts(i) \/ RecvClose(i)
<1> DEFINE Moved == \/ \E c \in Clients : OpenInsert(c) /\ id[c] = i
                    \/ \E c \in Clients : Closes(c, i)
                    \/ RecvOpen(i) \/ Evicts(i) \/ RecvClose(i)
<1> SUFFICES Moved
  OBVIOUS
<1>0. /\ streams \in [Ids -> Clients \cup {Peer, None}]
      /\ pc \in [Clients -> {"idle", "reserved", "announce", "head", "head_push",
                             "up", "closing", "done"}]
  BY DEF Inv, TypeOK
<1>1. LinkAlive /\ ~ReaderSweep /\ ~ShutdownSweep
  BY AliveBack
<1>2. ASSUME NEW c \in Clients, OpenInsert(c) PROVE Moved
  <2>1. streams' = [streams EXCEPT ![id[c]] = c]
    BY <1>2 DEF OpenInsert, Insert
  <2>2. id[c] = i
    BY <1>0, <2>1
  <2> QED
    BY <1>2, <2>2
<1>3. ASSUME NEW c \in Clients,
             DownlinkShutdown(c) \/ UplinkEnds(c)
      PROVE  Moved
  <2>1. pc[c] = "up" /\ CloseStream(c) /\ UNCHANGED id /\ UNCHANGED linkVars
    BY <1>3 DEF DownlinkShutdown, UplinkEnds
  <2>2. streams' = [streams EXCEPT ![id[c]] = None] /\ pc' = [pc EXCEPT ![c] = "closing"]
    BY <2>1 DEF CloseStream, Remove
  <2>3. id[c] = i /\ pc'[c] = "closing"
    BY <1>0, <2>2
  <2> QED
    BY <2>1, <2>3 DEF Closes, linkVars
<1>4. ASSUME NEW c \in Clients,
             DownlinkEnd(c) \/ DownlinkWriteFails(c) \/ DownlinkWrite(c) \/ DownlinkGrant(c)
      PROVE  Moved
  BY <1>4, DownlinkStays
<1>5. ASSUME NEW c \in Clients, OpenAnnounce(c) PROVE Moved
  <2>1. writer # "dead"
    BY <1>1 DEF LinkAlive
  <2>2. UNCHANGED streams
    BY <1>5, <2>1, Zenon DEF OpenAnnounce, SendFails
  <2> QED
    BY <2>2
<1>6. ASSUME NEW j \in Ids, RecvOpen(j) \/ RecvClose(j) PROVE Moved
  <2>1. i = j
    <3>1. CASE UNCHANGED streams
      BY <3>1
    <3>2. CASE \E o : streams' = [streams EXCEPT ![j] = o]
      BY <1>0, <3>2
    <3> QED
      BY <1>6, <3>1, <3>2, Zenon DEF RecvOpen, RecvClose, Remove
  <2> QED
    BY <1>6, <2>1
<1>7. ASSUME NEW j \in Ids, RecvData(j) PROVE Moved
  <2>1. bview[j] = "open" /\ UNCHANGED <<out, batch, writer, bview>>
    BY <1>7 DEF RecvData, BridgeSends
  <2>2. CASE Remove(j) /\ ReaderSends(Control(j, "CLOSE"), streams[j])
    <3>1. streams' = [streams EXCEPT ![j] = None]
      BY <2>2 DEF Remove
    <3>2. i = j
      BY <1>0, <3>1
    <3>3. reader' = "send" /\ rsend'.frame = Control(j, "CLOSE")
      BY <2>2 DEF ReaderSends
    <3> QED
      BY <2>1, <3>2, <3>3 DEF Evicts
  <2> QED
    BY <1>7, <2>2, Zenon DEF RecvData
<1>8. CASE ReaderSweep \/ ShutdownSweep
  BY <1>1, <1>8
<1>9. ~UNCHANGED streams
  OBVIOUS
<1> QED
  BY <1>2, <1>3, <1>4, <1>5, <1>6, <1>7, <1>8, <1>9
     DEF Next, ClientStep, ReaderStep, WriterStep, OpenReserve, HeadAcquire, HeadPush,
         UplinkRead, UplinkHangup, UplinkAcquire, UplinkPush, DownlinkRecv, AbandonedAssigned,
         ClosePush, RecvKeepalive, ReaderPush, RecvBad, ReaderEof, IdleTimeout, ReadLoopEnds,
         ReaderAbortsWriter, ReaderCancelled, RecvWindow, WriterRecv, WriterFlush, WriterFails,
         WriterCancelled, WriterEnds, ShutdownAbort, BridgeFalters, vars

LEMMA EntryStep ==
  ASSUME IdsNeverWrap, Inv, NamesUnique, OrderInv, EntryInv, [Next]_vars
  PROVE  EntryInv'
<1> SUFFICES ASSUME LinkAlive', NEW c \in Clients, pc'[c] = "announce"
             PROVE  streams'[id'[c]] = c
  BY DEF EntryInv
<1>0. /\ streams \in [Ids -> Clients \cup {Peer, None}]
      /\ pc \in [Clients -> {"idle", "reserved", "announce", "head", "head_push",
                             "up", "closing", "done"}]
      /\ id \in [Clients -> Ids \cup {NoId}]
  BY DEF Inv, TypeOK
<1>1. LinkAlive
  BY AliveBack
<1>2. CASE OpenInsert(c)
  <2>1. streams' = [streams EXCEPT ![id[c]] = c] /\ id' = id /\ pc[c] = "reserved"
    BY <1>2 DEF OpenInsert, Insert
  <2>2. id[c] \in Ids
    BY <2>1 DEF Inv, IdAssigned
  <2> QED
    BY <1>0, <2>1, <2>2
<1>3. CASE ~OpenInsert(c)
  <2>1. pc[c] = "announce" /\ id'[c] = id[c]
    <3>1. ASSUME NEW d \in Clients, OpenReserve(d) \/ OpenInsert(d) \/ OpenAnnounce(d)
          PROVE  pc[c] = "announce" /\ id'[c] = id[c]
      BY <1>0, <1>3, <3>1 DEF OpenReserve, OpenInsert, OpenAnnounce
    <3>2. ASSUME NEW d \in Clients, HeadAcquire(d) \/ HeadPush(d)
          PROVE  pc[c] = "announce" /\ id'[c] = id[c]
      BY <1>0, <3>2 DEF HeadAcquire, HeadPush
    <3>3. ASSUME NEW d \in Clients,
                 \/ DownlinkEnd(d) \/ DownlinkWrite(d) \/ DownlinkWriteFails(d)
                 \/ DownlinkGrant(d) \/ DownlinkShutdown(d) \/ UplinkEnds(d) \/ ClosePush(d)
          PROVE  pc[c] = "announce" /\ id'[c] = id[c]
      <4>1. UNCHANGED id
        BY <3>3 DEF DownlinkEnd, DownlinkWrite, DownlinkWriteFails, DownlinkGrant,
                    DownlinkShutdown, UplinkEnds, ClosePush
      <4>2. \/ UNCHANGED pc \/ pc' = [pc EXCEPT ![d] = "closing"] \/ pc' = [pc EXCEPT ![d] = "done"]
        BY <3>3, Zenon DEF DownlinkEnd, DownlinkWrite, DownlinkWriteFails, DownlinkGrant,
                    DownlinkShutdown, UplinkEnds, ClosePush, CloseStream, Grant
      <4> QED
        BY <1>0, <4>1, <4>2
    <3>4. CASE UNCHANGED <<id, pc>>
      BY <3>4
    <3> QED
      BY <3>1, <3>2, <3>3, <3>4
         DEF Next, ClientStep, ReaderStep, WriterStep, UplinkRead, UplinkHangup, UplinkAcquire,
             UplinkPush, DownlinkRecv, AbandonedAssigned, RecvKeepalive, ReaderPush, RecvBad,
             ReaderEof, IdleTimeout, ReadLoopEnds, ReaderSweep, ReaderAbortsWriter,
             ReaderCancelled, RecvOpen, RecvData, RecvWindow, RecvClose, WriterRecv,
             WriterFlush, WriterFails, WriterCancelled, WriterEnds, ShutdownSweep,
             ShutdownAbort, BridgeFalters, vars, clientVars
  <2>2. streams[id[c]] = c /\ id[c] \in Ids /\ id[c] # NoId
    BY <1>1, <2>1, IdsWide DEF EntryInv, Inv, IdAssigned, Ids, NoId
  <2>3. ~Known(id[c])
    BY <2>1, NotKnownYet
  <2>4. PICK i \in Ids : i = id[c]
    BY <2>2
  <2>5. streams'[i] = streams[i]
    <3> SUFFICES ASSUME streams'[i] # streams[i] PROVE FALSE
      OBVIOUS
    <3>1. \A d \in Clients : id[d] = i => d = c
      BY <2>2, <2>4 DEF NamesUnique
    <3>2. i \notin BridgeOpens /\ bview[i] # "open"
      BY <2>3, <2>4 DEF Known, OrderInv
    <3>3. ~RecvOpen(i) /\ ~Evicts(i) /\ ~RecvClose(i)
      BY <3>2 DEF RecvOpen, Evicts, RecvClose, BridgeSends
    <3>4. ~(\E d \in Clients : OpenInsert(d) /\ id[d] = i)
      BY <1>3, <3>1
    <3>5. ~(\E d \in Clients : Closes(d, i))
      BY <2>1, <3>1 DEF Closes
    <3> QED
      BY <3>3, <3>4, <3>5, EntryMoves
  <2> QED
    BY <2>1, <2>2, <2>4, <2>5
<1> QED
  BY <1>2, <1>3

(* Whom the bridge newly believes open, or is about to.                    *)
LEMMA PendingMoves ==
  ASSUME Inv, OrderInv, [Next]_vars, NEW i \in Ids, Pending(i)'
  PROVE  \/ Pending(i)
         \/ RecvOpen(i)
         \/ \E c \in Clients : pc[c] = "announce" /\ id[c] = i /\ UNCHANGED streams
<1> DEFINE o == Control(i, "OPEN")
<1>0. o \in Frames /\ o.id = i /\ o.kind = "OPEN" /\ TypeOK
  BY ControlType DEF Kinds, Control, Inv
<1> HIDE DEF o
<1>1. CASE bview'[i] = "open" /\ WriterFlush /\ ViewAfterBatch(i) = "open"
  <2>1. bview[i] = "open" \/ Has(batch, o)
    BY <1>0, <1>1, FlushView DEF OrderInv, o
  <2> QED
    BY <2>1, InFlightIs DEF Pending, o
<1>2. CASE bview'[i] = "open"
  BY <1>1, <1>2, ViewMoves DEF Pending
<1>3. CASE InFlight(i, "OPEN")'
  <2>1. Has(out', o) \/ Has(batch', o)
    BY <1>3, InFlightIs DEF o
  <2>2. Has(out, o) \/ Has(batch, o) \/ Sent(o)
    BY <1>0, <2>1, HasMoves
  <2>3. CASE Has(out, o) \/ Has(batch, o)
    BY <2>3, InFlightIs DEF Pending, o
  <2>4. CASE Sent(o)
    <3>1. ~(reader = "send" /\ o = rsend.frame)
      BY <1>0 DEF OrderInv
    <3>2. \A c \in Clients : o # Control(id[c], "CLOSE")
      BY <1>0 DEF Control
    <3>3. PICK c \in Clients : pc[c] = "announce" /\ pc'[c] = "head" /\ o = Control(id[c], "OPEN")
      BY <1>0, <2>4, <3>1, <3>2 DEF Sent
    <3>4. id[c] = i
      BY <1>0, <3>3 DEF Control
    <3>5. UNCHANGED streams
      <4>0. pc \in [Clients -> {"idle", "reserved", "announce", "head", "head_push",
                                "up", "closing", "done"}]
        BY <1>0 DEF TypeOK
      <4>1. ASSUME NEW d \in Clients, OpenReserve(d) \/ OpenInsert(d) PROVE FALSE
        BY <3>3, <4>0, <4>1 DEF OpenReserve, OpenInsert
      <4>2. ASSUME NEW d \in Clients, OpenAnnounce(d) PROVE UNCHANGED streams
        BY <3>3, <4>0, <4>2 DEF OpenAnnounce
      <4>3. ASSUME NEW d \in Clients,
                   \/ DownlinkEnd(d) \/ DownlinkWrite(d) \/ DownlinkWriteFails(d)
                   \/ DownlinkGrant(d) \/ DownlinkShutdown(d) \/ UplinkEnds(d)
            PROVE  UNCHANGED streams
        <5>1. UNCHANGED <<streams, pc>> \/ pc' = [pc EXCEPT ![d] = "closing"]
          BY <4>3, Zenon DEF DownlinkEnd, DownlinkWrite, DownlinkWriteFails, DownlinkGrant,
                      DownlinkShutdown, UplinkEnds, CloseStream, Grant
        <5> QED
          BY <3>3, <4>0, <5>1
      <4>4. CASE UNCHANGED pc
        BY <3>3, <4>4
      <4>5. CASE UNCHANGED streams
        BY <4>5
      <4> QED
        BY <4>1, <4>2, <4>3, <4>4, <4>5
           DEF Next, ClientStep, ReaderStep, WriterStep, HeadAcquire, HeadPush, UplinkRead,
               UplinkHangup, UplinkAcquire, UplinkPush, DownlinkRecv, AbandonedAssigned,
               ClosePush, RecvKeepalive, ReaderPush, RecvBad, ReaderEof, IdleTimeout,
               ReadLoopEnds, ReaderSweep, ReaderAbortsWriter, ReaderCancelled, RecvOpen,
               RecvData, RecvWindow, RecvClose, WriterRecv, WriterFlush, WriterFails,
               WriterCancelled, WriterEnds, ShutdownSweep, ShutdownAbort, BridgeFalters, vars,
               clientVars
    <3> QED
      BY <3>3, <3>4, <3>5
  <2> QED
    BY <2>2, <2>3, <2>4
<1> QED
  BY <1>2, <1>3 DEF Pending

(* On a live link a CLOSE reaches the bridge, and then it believes the     *)
(* stream closed: until that, the CLOSE is still on its way.               *)
LEMMA QueuedCloseStays ==
  ASSUME Inv, OrderInv, [Next]_vars, LinkAlive', NEW i \in Ids, Pending(i)',
         InFlight(i, "CLOSE")
  PROVE  InFlight(i, "CLOSE")'
<1> DEFINE g == Control(i, "CLOSE")
<1>0. /\ g \in Frames /\ g.id = i /\ g.kind = "CLOSE"
      /\ TypeOK /\ out \in Seq(Frames) /\ batch \in Seq(Frames)
  BY ControlType DEF Kinds, Control, Inv, TypeOK
<1>1. Has(out, g) \/ Has(batch, g)
  BY InFlightIs
<1> SUFFICES Has(out', g) \/ Has(batch', g)
  BY InFlightIs
<1>a. LinkAlive
  BY AliveBack
<1>2. CASE UNCHANGED <<out, batch, writer>>
  BY <1>1, <1>2
<1>3. ASSUME NEW f \in Frames, out' = Append(out, f), UNCHANGED batch
      PROVE  Has(out', g) \/ Has(batch', g)
  <2>1. Has(out, g) => Has(out', g)
    BY <1>0, <1>3, AppendHas
  <2> QED
    BY <1>1, <1>3, <2>1
<1>4. CASE WriterRecv
  <2>1. batch = << >>
    BY <1>4 DEF WriterRecv, OrderInv
  <2>2. Has(out, g)
    BY <1>1, <2>1, EmptyOrder
  <2> QED
    BY <1>0, <1>4, <2>2, BatchHas
<1>5. CASE WriterFlush
  <2>1. /\ out' = out /\ batch' = << >>
        /\ bview'[i] = ViewAfterBatch(i)
    BY <1>5, <1>a DEF WriterFlush, LinkAlive
  <2>2. ASSUME Has(batch, g) PROVE FALSE
    <3>1. ~NoMark(batch, i)
      BY <2>2, NoMarkHas DEF Marks
    <3>2. CASE bview'[i] = "open"
      <4>1. \/ NoMark(batch, i)
            \/ ~Has(batch, g)
        BY <1>0, <2>1, <3>2, FlushView DEF OrderInv
      <4> QED
        BY <2>2, <3>1, <4>1
    <3>3. CASE Has(out', Control(i, "OPEN"))
      <4>1. PICK n \in DOMAIN out : out[n] = Control(i, "OPEN")
        BY <2>1, <3>3 DEF Has
      <4>2. out[n].id = i /\ out[n].kind = "OPEN"
        BY <4>1 DEF Control
      <4>3. NoMark(batch, out[n].id)
        BY <4>2 DEF OrderInv, Ahead
      <4> QED
        BY <3>1, <4>2, <4>3
    <3>4. ~Has(batch', Control(i, "OPEN"))
      BY <2>1, EmptyOrder
    <3> QED
      BY <3>2, <3>3, <3>4, InFlightIs DEF Pending
  <2> QED
    BY <1>1, <2>1, <2>2
<1>6. CASE WriterEnds
  BY <1>6 DEF WriterEnds, LinkAlive
<1> QED
  BY <1>2, <1>3, <1>4, <1>5, <1>6, QueueMoves DEF LinkMoves

LEMMA ReaderCloseStays ==
  ASSUME Inv, [Next]_vars, LinkAlive', NEW i \in Ids,
         reader = "send", rsend.frame = Control(i, "CLOSE")
  PROVE  CloseComing(i)'
<1>a. LinkAlive
  BY AliveBack
<1>0. Control(i, "CLOSE") \in Frames /\ out \in Seq(Frames)
  BY ControlType DEF Kinds, Inv, TypeOK
<1>1. CASE ReaderPush
  <2>1. writer # "dead"
    BY <1>a DEF LinkAlive
  <2>2. out' = Append(out, Control(i, "CLOSE"))
    BY <1>1, <2>1, Zenon DEF ReaderPush, Push, SendFails
  <2>3. Has(out', Control(i, "CLOSE"))
    BY <1>0, <2>2, AppendHas
  <2> QED
    BY <2>3, InFlightIs DEF CloseComing
<1>2. CASE UNCHANGED <<reader, rsend>>
  BY <1>2 DEF CloseComing
<1> QED
  BY <1>1, <1>2, <1>a
     DEF Next, ClientStep, ReaderStep, WriterStep, OpenReserve, OpenInsert, OpenAnnounce,
         HeadAcquire, HeadPush, UplinkRead, UplinkHangup, UplinkAcquire, UplinkPush,
         DownlinkRecv, DownlinkEnd, DownlinkWrite, DownlinkWriteFails, DownlinkGrant,
         DownlinkShutdown, UplinkEnds, AbandonedAssigned, ClosePush, RecvKeepalive, RecvBad,
         ReaderEof, IdleTimeout, ReadLoopEnds, ReaderSweep, ReaderAbortsWriter,
         ReaderCancelled, RecvOpen, RecvData, RecvWindow, RecvClose, BridgeSends,
         WriterRecv, WriterFlush, WriterFails, WriterCancelled, WriterEnds, ShutdownSweep,
         ShutdownAbort, BridgeFalters, LinkAlive, vars, linkVars

LEMMA ClientCloseStays ==
  ASSUME Inv, [Next]_vars, LinkAlive', NEW i \in Ids, NEW c \in Clients,
         pc[c] = "closing", id[c] = i
  PROVE  CloseComing(i)'
<1>a. LinkAlive
  BY AliveBack
<1>0. /\ pc \in [Clients -> {"idle", "reserved", "announce", "head", "head_push",
                             "up", "closing", "done"}]
      /\ id \in [Clients -> Ids \cup {NoId}]
      /\ Control(i, "CLOSE") \in Frames /\ out \in Seq(Frames)
  BY ControlType DEF Kinds, Inv, TypeOK
<1>2. CASE ClosePush(c)
  <2>1. writer # "dead"
    BY <1>a DEF LinkAlive
  <2>2. out' = Append(out, Control(i, "CLOSE"))
    BY <1>2, <2>1, Zenon DEF ClosePush, Push, SendFails
  <2>3. Has(out', Control(i, "CLOSE"))
    BY <1>0, <2>2, AppendHas
  <2>4. InFlight(i, "CLOSE")'
    BY <2>3, InFlightIs
  <2> QED
    BY <2>4 DEF CloseComing
<1>3. CASE pc'[c] = "closing" /\ id'[c] = id[c]
  BY <1>3 DEF CloseComing
<1>4. ASSUME NEW d \in Clients, OpenReserve(d) \/ OpenInsert(d) \/ OpenAnnounce(d)
      PROVE  pc'[c] = "closing" /\ id'[c] = id[c]
  BY <1>0, <1>4 DEF OpenReserve, OpenInsert, OpenAnnounce
<1>5. ASSUME NEW d \in Clients, HeadAcquire(d) \/ HeadPush(d)
      PROVE  pc'[c] = "closing" /\ id'[c] = id[c]
  BY <1>0, <1>5 DEF HeadAcquire, HeadPush
<1>6. ASSUME NEW d \in Clients,
             \/ DownlinkEnd(d) \/ DownlinkWrite(d) \/ DownlinkWriteFails(d)
             \/ DownlinkGrant(d) \/ DownlinkShutdown(d) \/ UplinkEnds(d)
      PROVE  pc'[c] = "closing" /\ id'[c] = id[c]
  <2>1. UNCHANGED id
    BY <1>6 DEF DownlinkEnd, DownlinkWrite, DownlinkWriteFails, DownlinkGrant,
                DownlinkShutdown, UplinkEnds
  <2>2. \/ UNCHANGED pc \/ pc' = [pc EXCEPT ![d] = "closing"]
    BY <1>6, Zenon DEF DownlinkEnd, DownlinkWrite, DownlinkWriteFails, DownlinkGrant,
                DownlinkShutdown, UplinkEnds, CloseStream, Grant
  <2> QED
    BY <1>0, <2>1, <2>2
<1>7. ASSUME NEW d \in Clients, ClosePush(d), d # c
      PROVE  pc'[c] = "closing" /\ id'[c] = id[c]
  BY <1>0, <1>7 DEF ClosePush
<1>8. CASE UNCHANGED <<id, pc>>
  BY <1>3, <1>8
<1> QED
  BY <1>2, <1>3, <1>4, <1>5, <1>6, <1>7, <1>8
     DEF Next, ClientStep, ReaderStep, WriterStep, UplinkRead, UplinkHangup, UplinkAcquire,
         UplinkPush, DownlinkRecv, AbandonedAssigned, RecvKeepalive, ReaderPush, RecvBad,
         ReaderEof, IdleTimeout, ReadLoopEnds, ReaderSweep, ReaderAbortsWriter,
         ReaderCancelled, RecvOpen, RecvData, RecvWindow, RecvClose, WriterRecv, WriterFlush,
         WriterFails, WriterCancelled, WriterEnds, ShutdownSweep, ShutdownAbort,
         BridgeFalters, vars, clientVars

(* An entry the bridge knows of, or is about to, is not dropped in silence.*)
LEMMA HalfStep ==
  ASSUME IdsNeverWrap, Inv, NamesUnique, OrderInv, EntryInv, HalfInv, [Next]_vars
  PROVE  HalfInv'
<1> SUFFICES ASSUME LinkAlive', NEW i \in Ids, Pending(i)', streams'[i] = None
             PROVE  CloseComing(i)'
  BY DEF HalfInv
<1>0. /\ streams \in [Ids -> Clients \cup {Peer, None}]
      /\ bview \in [Ids -> {"none", "open", "closed"}]
  BY DEF Inv, TypeOK
<1>1. LinkAlive
  BY AliveBack
<1>2. CASE RecvOpen(i)
  <2>1. CASE streams' = [streams EXCEPT ![i] = Peer]
    BY <1>0, <2>1, OwnersDistinct
  <2>2. CASE ReaderSends(Control(i, "CLOSE"), None)
    BY <2>2 DEF ReaderSends, CloseComing
  <2> QED
    BY <1>2, <2>1, <2>2, Zenon DEF RecvOpen
<1>3. CASE streams[i] = None /\ ~RecvOpen(i)
  <2>1. Pending(i)
    <3>1. ASSUME NEW c \in Clients, pc[c] = "announce", id[c] = i PROVE FALSE
      BY <1>1, <1>3, <3>1, OwnersDistinct DEF EntryInv
    <3> QED
      BY <1>3, <3>1, PendingMoves
  <2>2. CloseComing(i)
    BY <1>1, <1>3, <2>1 DEF HalfInv
  <2>3. CASE InFlight(i, "CLOSE")
    BY <2>3, QueuedCloseStays DEF CloseComing
  <2>4. CASE reader = "send" /\ rsend.frame = Control(i, "CLOSE")
    BY <2>4, ReaderCloseStays
  <2>5. CASE \E c \in Clients : pc[c] = "closing" /\ id[c] = i
    BY <2>5, ClientCloseStays
  <2> QED
    BY <2>2, <2>3, <2>4, <2>5 DEF CloseComing
<1>4. CASE streams[i] # None /\ ~RecvOpen(i)
  <2>1. ASSUME NEW c \in Clients, OpenInsert(c), id[c] = i PROVE FALSE
    <3>1. streams'[i] = c
      BY <1>0, <2>1 DEF OpenInsert, Insert
    <3> QED
      BY <3>1, OwnersDistinct
  <2>2. ASSUME NEW c \in Clients, Closes(c, i) PROVE CloseComing(i)'
    BY <2>2 DEF Closes, CloseComing
  <2>3. CASE Evicts(i)
    BY <2>3 DEF Evicts, CloseComing
  <2>4. CASE RecvClose(i)
    <3>1. bview[i] = "open" /\ bview'[i] = "closed" /\ out' = out /\ batch' = batch
      BY <1>0, <2>4 DEF RecvClose, BridgeSends
    <3>2. ~InFlight(i, "OPEN")
      BY <3>1 DEF OrderInv
    <3>3. ~InFlight(i, "OPEN")'
      BY <3>1, <3>2, InFlightIs
    <3> QED
      BY <3>1, <3>3 DEF Pending
  <2> QED
    BY <1>4, <2>1, <2>2, <2>3, <2>4, EntryMoves
<1> QED
  BY <1>2, <1>3, <1>4

(* For as long as ids do not wrap and the link lives, a stream that lost   *)
(* its entry (closed by its splice, overflowed, refused) while the bridge  *)
(* believes it open has a CLOSE on its way (src/mux.rs:234, 264, 329): no  *)
(* interleaving of the reader, the writer's batches, opens and closes      *)
(* leaves the bridge with a stream that the proxy has forgotten.           *)
THEOREM HalfOpenTheorem ==
  ASSUME IdsNeverWrap
  PROVE  Spec => []NoHalfOpen
<1> DEFINE IInv == Inv /\ NamesUnique /\ EvictionClosesGate /\ OrderInv /\ EntryInv /\ HalfInv
<1>1. Init => IInv
  <2> SUFFICES ASSUME Init PROVE IInv
    OBVIOUS
  <2>1. Inv /\ NamesUnique /\ EvictionClosesGate
    BY GateInit DEF GateInv
  <2>2. ~(\E i, k : InFlight(i, k))
    BY InFlightIs, EmptyOrder DEF Init
  <2>3. OrderInv
    BY <2>2, EmptyOrder DEF Init, OrderInv
  <2>4. EntryInv /\ HalfInv
    BY <2>2 DEF Init, EntryInv, HalfInv, Pending
  <2> QED
    BY <2>1, <2>3, <2>4
<1>2. IInv /\ [Next]_vars => IInv'
  <2> SUFFICES ASSUME IInv, [Next]_vars PROVE IInv'
    OBVIOUS
  <2>1. Inv'
    BY BudgetStep, TypeStep DEF Inv
  <2>2. NamesUnique' /\ EvictionClosesGate'
    BY <2>1, GateStep DEF GateInv
  <2>3. OrderInv' /\ EntryInv'
    BY OrderStep, EntryStep
  <2>4. HalfInv'
    BY HalfStep
  <2> QED
    BY <2>1, <2>2, <2>3, <2>4
<1>3. IInv => NoHalfOpen
  BY DEF HalfInv, Pending, NoHalfOpen
<1> QED
  BY <1>1, <1>2, <1>3, PTL DEF Spec
=============================================================================

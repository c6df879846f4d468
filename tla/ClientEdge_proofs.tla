------------------------- MODULE ClientEdge_proofs -------------------------
(***************************************************************************)
(* The per-IP slots of TLS clients are accounted for exactly, although two *)
(* tasks share each of them: for any number of connections and addresses   *)
(* and every ceiling.                                                      *)
(***************************************************************************)
EXTENDS ClientEdge, IpSlots_proofs, TLAPS

Types ==
  /\ ip \in [Conns -> IPs]
  /\ phone \in [Conns -> {"on", "gone", "mute"}]
  /\ conn \in [Conns -> {"accepted", "claim", "tls", "http", "handed", "passed", "done"}]
  /\ tun \in [Conns -> {"none", "upgrade", "head", "serve", "splice", "closing", "done"}]
  /\ uplink \in [Conns -> {"none", "read", "credit", "outbox", "end"}]
  /\ evicted \in [Conns -> BOOLEAN]
  /\ refs \in [Conns -> 0 .. 2]
  /\ slot \in [Conns -> {"none", "held", "unslot", "reclaim", "free"}]
  /\ perIp \in SlotMaps(MaxPerIp)

One(holds) == IF holds THEN 1 ELSE 0

(* The two tasks of a connection share its slot: each holds one reference, *)
(* and the slot is held as long as one of them runs.  Nothing is there     *)
(* before the claim, and an uplink only from the splice on.                *)
Shared(c) ==
  /\ refs[c] = One(Serving(c)) + One(Tunnelling(c))
  /\ slot[c] = "held" <=> Uses(c)
  /\ conn[c] \in {"accepted", "claim"} => slot[c] = "none" /\ tun[c] = "none"
  /\ uplink[c] # "none" => tun[c] \in {"splice", "closing", "done"}

Counted(a) == {c \in Conns : ip[c] = a /\ slot[c] \in {"held", "unslot"}}
CountsMatch == \A a \in IPs : SlotCount(a) = Cardinality(Counted(a))

ClientInv == Types /\ (\A c \in Conns : Shared(c)) /\ CountsMatch

(* A step of one connection keeps what the others share.                   *)
LEMMA OthersShare ==
  ASSUME \A d \in Conns : Shared(d), NEW c \in Conns, Shared(c)',
         \A d \in Conns \ {c} : /\ conn'[d] = conn[d] /\ tun'[d] = tun[d]
                                /\ uplink'[d] = uplink[d]
                                /\ refs'[d] = refs[d] /\ slot'[d] = slot[d]
  PROVE  \A d \in Conns : Shared(d)'
<1> SUFFICES ASSUME NEW d \in Conns, d # c PROVE Shared(d)'
  OBVIOUS
<1> QED
  BY DEF Shared, Serving, Tunnelling, Uses, One

(* Dropping a reference leaves the slot to the other holder, or releases   *)
(* it: no path releases it twice and none forgets it (src/edge.rs).        *)
LEMMA DropRefShares ==
  ASSUME ClientInv, NEW c \in Conns, DropRef(c), UNCHANGED <<ip, phone, evicted, perIp>>,
         conn' \in [Conns -> {"accepted", "claim", "tls", "http", "handed", "passed", "done"}],
         tun' \in [Conns -> {"none", "upgrade", "head", "serve", "splice", "closing", "done"}],
         UNCHANGED uplink,
         \A d \in Conns \ {c} : conn'[d] = conn[d] /\ tun'[d] = tun[d],
         \/ Serving(c) /\ conn'[c] \in {"passed", "done"} /\ tun'[c] = tun[c]
         \/ Tunnelling(c) /\ tun'[c] = "done" /\ conn'[c] = conn[c]
  PROVE  Types' /\ \A d \in Conns : Shared(d)'
<1>1. refs[c] \in {1, 2} /\ slot[c] = "held" /\ Shared(c)
  BY DEF ClientInv, Shared, Uses, One
<1>2. refs'[c] = refs[c] - 1 /\ slot'[c] = IF refs[c] = 1 THEN "unslot" ELSE "held"
  BY <1>1 DEF DropRef, ClientInv, Types
<1>3. \A d \in Conns \ {c} : refs'[d] = refs[d] /\ slot'[d] = slot[d]
  BY DEF DropRef, ClientInv, Types
<1>4. Types'
  <2>1. refs' \in [Conns -> 0 .. 2]
    <3>1. refs[c] - 1 \in 0 .. 2
      BY <1>1
    <3> QED
      BY <3>1 DEF DropRef, ClientInv, Types
  <2>2. slot' \in [Conns -> {"none", "held", "unslot", "reclaim", "free"}]
    BY <1>1 DEF DropRef, ClientInv, Types
  <2> QED
    BY <2>1, <2>2 DEF ClientInv, Types
<1>5. Shared(c)'
  BY <1>1, <1>2 DEF ClientInv, Types, Shared, Serving, Tunnelling, Uses, One
<1>6. \A d \in Conns : Shared(d)'
  BY <1>3, <1>5, OthersShare DEF ClientInv
<1> QED
  BY <1>4, <1>6

(* Every step keeps the types and the sharing.                             *)
LEMMA SharedStep ==
  ASSUME ClientInv, [Next]_vars
  PROVE  Types' /\ \A c \in Conns : Shared(c)'
<1> USE DEF ClientInv
<1>1. ASSUME NEW c \in Conns, Peek(c) PROVE Types' /\ \A d \in Conns : Shared(d)'
  <2>1. PICK l \in {"claim", "done"} : conn' = [conn EXCEPT ![c] = l]
    BY <1>1 DEF Peek, ConnTo
  <2>2. conn[c] = "accepted" /\ UNCHANGED <<ip, phone, tun, uplink, evicted, refs, slot, perIp>>
    BY <1>1 DEF Peek, slotVars
  <2>3. Types'
    BY <2>1, <2>2 DEF Types
  <2>4. Shared(c)'
    BY <2>1, <2>2 DEF Types, Shared, Serving, Tunnelling, Uses, One
  <2> QED
    BY <2>1, <2>2, <2>3, <2>4, OthersShare DEF Types
<1>2. ASSUME NEW c \in Conns, ClaimSlot(c) PROVE Types' /\ \A d \in Conns : Shared(d)'
  <2>0. conn[c] = "claim" /\ UNCHANGED <<ip, phone, tun, uplink, evicted>>
    BY <1>2 DEF ClaimSlot
  <2>1. CASE /\ Claim(ip[c], MaxPerIp) /\ refs' = [refs EXCEPT ![c] = 1]
             /\ slot' = [slot EXCEPT ![c] = "held"] /\ ConnTo(c, "tls")
    <3>1. perIp' \in SlotMaps(MaxPerIp)
      BY <2>1, ClaimCounts, CeilingPositive DEF Types
    <3>2. Types'
      BY <2>0, <2>1, <3>1 DEF Types, ConnTo
    <3>3. Shared(c)'
      BY <2>0, <2>1 DEF Types, Shared, Serving, Tunnelling, Uses, One, ConnTo
    <3> QED
      BY <2>0, <2>1, <3>2, <3>3, OthersShare DEF Types, ConnTo
  <2>2. CASE Refuse(ip[c], MaxPerIp) /\ ConnTo(c, "done") /\ UNCHANGED <<refs, slot>>
    <3>1. Types'
      BY <2>0, <2>2 DEF Types, ConnTo, Refuse
    <3>2. Shared(c)'
      BY <2>0, <2>2 DEF Types, Shared, Serving, Tunnelling, Uses, One, ConnTo
    <3> QED
      BY <2>0, <2>2, <3>1, <3>2, OthersShare DEF Types, ConnTo
  <2> QED
    BY <1>2, <2>1, <2>2 DEF ClaimSlot
<1>3. ASSUME NEW c \in Conns, TlsAccept(c) \/ HandOver(c)
      PROVE  Types' /\ \A d \in Conns : Shared(d)'
  <2>1. PICK l \in {"http", "handed"} : conn' = [conn EXCEPT ![c] = l]
    BY <1>3 DEF TlsAccept, HandOver, ConnTo
  <2>2. /\ conn[c] \in {"tls", "http"}
        /\ UNCHANGED <<ip, phone, tun, uplink, evicted, refs, slot, perIp>>
    BY <1>3 DEF TlsAccept, HandOver, slotVars
  <2>3. Types'
    BY <2>1, <2>2 DEF Types
  <2>4. Shared(c)'
    BY <2>1, <2>2 DEF Types, Shared, Serving, Tunnelling, Uses, One
  <2> QED
    BY <2>1, <2>2, <2>3, <2>4, OthersShare DEF Types
<1>4. ASSUME NEW c \in Conns, Upgrade(c) PROVE Types' /\ \A d \in Conns : Shared(d)'
  <2>1. /\ conn[c] = "http" /\ tun[c] = "none" /\ tun' = [tun EXCEPT ![c] = "upgrade"]
        /\ refs' = [refs EXCEPT ![c] = refs[c] + 1]
        /\ UNCHANGED <<ip, phone, conn, uplink, evicted, slot, perIp>>
    BY <1>4 DEF Upgrade, TunTo
  <2>2. refs[c] = 1
    BY <2>1 DEF Shared, Serving, Tunnelling, One
  <2>3. Types'
    BY <2>1, <2>2 DEF Types
  <2>4. Shared(c)'
    BY <2>1, <2>2 DEF Types, Shared, Serving, Tunnelling, Uses, One
  <2> QED
    BY <2>1, <2>3, <2>4, OthersShare DEF Types
<1>5. ASSUME NEW c \in Conns, ServeReturns(c) \/ ServeEnds(c)
      PROVE  Types' /\ \A d \in Conns : Shared(d)'
  <2>1. PICK l \in {"passed", "done"} : conn' = [conn EXCEPT ![c] = l]
    BY <1>5 DEF ServeReturns, ServeEnds, ConnTo
  <2>2. Serving(c) /\ DropRef(c) /\ UNCHANGED <<ip, phone, tun, uplink, evicted, perIp>>
    BY <1>5 DEF ServeReturns, ServeEnds, Serving
  <2> QED
    BY <2>1, <2>2, DropRefShares DEF Types
<1>6. ASSUME NEW c \in Conns, Tunnelling(c), TunnelReturns(c),
             UNCHANGED <<ip, phone, conn, uplink, evicted, perIp>>
      PROVE  Types' /\ \A d \in Conns : Shared(d)'
  <2>1. tun' = [tun EXCEPT ![c] = "done"] /\ DropRef(c)
    BY <1>6 DEF TunnelReturns, TunTo
  <2> QED
    BY <1>6, <2>1, DropRefShares DEF Types
<1>7. ASSUME NEW c \in Conns, Tunnelling(c),
             NEW l \in {"head", "serve", "splice", "closing"}, TunTo(c, l),
             UNCHANGED <<ip, phone, conn, evicted, refs, slot, perIp>>,
             \/ (tun[c] \in {"splice", "closing"} => l = "closing") /\ UNCHANGED uplink
             \/ l = "splice" /\ UplinkTo(c, "read")
      PROVE  Types' /\ \A d \in Conns : Shared(d)'
  <2>1. tun' = [tun EXCEPT ![c] = l]
    BY <1>7 DEF TunTo
  <2>2. Types'
    BY <1>7, <2>1 DEF Types, UplinkTo
  <2>3. Shared(c)'
    BY <1>7, <2>1 DEF Types, Shared, Serving, Tunnelling, Uses, One, UplinkTo
  <2> QED
    BY <1>7, <2>1, <2>2, <2>3, OthersShare DEF Types, UplinkTo
<1>8. ASSUME NEW c \in Conns, Upgraded(c) PROVE Types' /\ \A d \in Conns : Shared(d)'
  BY <1>6, <1>7, <1>8 DEF Upgraded, Tunnelling
<1>9. ASSUME NEW c \in Conns, Head(c) PROVE Types' /\ \A d \in Conns : Shared(d)'
  BY <1>6, <1>7, <1>9 DEF Head, Tunnelling
<1>10. ASSUME NEW c \in Conns, ServeClient(c) PROVE Types' /\ \A d \in Conns : Shared(d)'
  BY <1>6, <1>7, <1>10 DEF ServeClient, Tunnelling
<1>11. ASSUME NEW c \in Conns, SpliceEnds(c) PROVE Types' /\ \A d \in Conns : Shared(d)'
  BY <1>7, <1>11 DEF SpliceEnds, Tunnelling, slotVars
<1>12. ASSUME NEW c \in Conns,
              UplinkParks(c) \/ UplinkGranted(c) \/ UplinkPushed(c) \/ UplinkEnds(c)
       PROVE  Types' /\ \A d \in Conns : Shared(d)'
  <2>1. PICK l \in {"read", "credit", "outbox", "end"} : uplink' = [uplink EXCEPT ![c] = l]
    BY <1>12 DEF UplinkParks, UplinkGranted, UplinkPushed, UplinkEnds, UplinkTo
  <2>2. /\ uplink[c] # "none"
        /\ UNCHANGED <<ip, phone, conn, tun, evicted, refs, slot, perIp>>
    BY <1>12 DEF UplinkParks, UplinkGranted, UplinkPushed, UplinkEnds, slotVars
  <2>3. Types'
    BY <2>1, <2>2 DEF Types
  <2>4. Shared(c)'
    BY <2>1, <2>2 DEF Types, Shared, Serving, Tunnelling, Uses, One
  <2> QED
    BY <2>1, <2>2, <2>3, <2>4, OthersShare DEF Types
<1>13. ASSUME NEW c \in Conns, DropSlot(c) PROVE Types' /\ \A d \in Conns : Shared(d)'
  <2>1. /\ slot[c] = "unslot" /\ Release(ip[c]) /\ slot' = [slot EXCEPT ![c] = "reclaim"]
        /\ UNCHANGED <<ip, phone, conn, tun, uplink, evicted, refs>>
    BY <1>13 DEF DropSlot, taskVars
  <2>2. perIp' \in SlotMaps(MaxPerIp)
    BY <2>1, CeilingPositive DEF Types, Release, SlotMaps, Absent
  <2>3. Types'
    BY <2>1, <2>2 DEF Types
  <2>4. Shared(c)'
    BY <2>1 DEF Types, Shared, Serving, Tunnelling, Uses, One
  <2> QED
    BY <2>1, <2>3, <2>4, OthersShare DEF Types
<1>14. ASSUME NEW c \in Conns, ReclaimSlot(c) PROVE Types' /\ \A d \in Conns : Shared(d)'
  <2>1. /\ slot[c] = "reclaim" /\ Reclaim(ip[c]) /\ slot' = [slot EXCEPT ![c] = "free"]
        /\ UNCHANGED <<ip, phone, conn, tun, uplink, evicted, refs>>
    BY <1>14 DEF ReclaimSlot, taskVars
  <2>2. perIp' \in SlotMaps(MaxPerIp)
    BY <2>1, ReclaimCounts, CeilingPositive DEF Types
  <2>3. Types'
    BY <2>1, <2>2 DEF Types
  <2>4. Shared(c)'
    BY <2>1 DEF Types, Shared, Serving, Tunnelling, Uses, One
  <2> QED
    BY <2>1, <2>3, <2>4, OthersShare DEF Types
<1>15. ASSUME NEW c \in Conns, Evict(c) \/ PhoneLeaves(c)
       PROVE  Types' /\ \A d \in Conns : Shared(d)'
  <2>1. UNCHANGED <<ip, conn, tun, uplink, refs, slot, perIp>>
    BY <1>15 DEF Evict, PhoneLeaves, taskVars, slotVars
  <2>2. evicted' \in [Conns -> BOOLEAN] /\ phone' \in [Conns -> {"on", "gone", "mute"}]
    <3>1. CASE Evict(c)
      BY <3>1 DEF Evict, Types
    <3>2. CASE PhoneLeaves(c)
      BY <3>2 DEF PhoneLeaves, Types
    <3> QED
      BY <1>15, <3>1, <3>2
  <2> QED
    BY <2>1, <2>2 DEF Types, Shared, Serving, Tunnelling, Uses, One
<1>16. ASSUME UNCHANGED vars PROVE Types' /\ \A d \in Conns : Shared(d)'
  BY <1>16 DEF vars, taskVars, slotVars, Types, Shared, Serving, Tunnelling, Uses, One
<1>17. ASSUME NEW c \in Conns, CloseReturns(c) PROVE Types' /\ \A d \in Conns : Shared(d)'
  BY <1>6, <1>17 DEF CloseReturns, Tunnelling
<1> QED
  BY <1>1, <1>2, <1>3, <1>4, <1>5, <1>8, <1>9, <1>10, <1>11, <1>12, <1>13, <1>14, <1>15, <1>16,
     <1>17
     DEF Next, TaskStep

-----------------------------------------------------------------------------
(* A step that changes no count, and no connection's being counted.        *)
LEMMA CountsKept ==
  ASSUME CountsMatch, UNCHANGED ip, \A a \in IPs : SlotCount(a)' = SlotCount(a),
         \A c \in Conns : slot'[c] \in {"held", "unslot"} <=> slot[c] \in {"held", "unslot"}
  PROVE  CountsMatch'
<1>1. \A a \in IPs : Counted(a)' = Counted(a)
  BY DEF Counted
<1> QED
  BY <1>1 DEF CountsMatch

(* A claim counts the connection it is for.                                *)
LEMMA ClaimMatches ==
  ASSUME ClientInv, NEW c \in Conns, slot[c] = "none", Claim(ip[c], MaxPerIp), UNCHANGED ip,
         slot' = [slot EXCEPT ![c] = "held"]
  PROVE  CountsMatch'
<1> PICK a \in IPs : a = ip[c]
  BY DEF ClientInv, Types
<1>1. /\ SlotCount(a)' = SlotCount(a) + 1
      /\ \A b \in IPs \ {a} : perIp'[b] = perIp[b]
  BY ClaimCounts, CeilingPositive DEF ClientInv, Types
<1>2. slot'[c] = "held" /\ \A d \in Conns \ {c} : slot'[d] = slot[d]
  BY DEF ClientInv, Types
<1>3. \A b \in IPs \ {a} : Counted(b)' = Counted(b)
  BY <1>2 DEF Counted
<1>4. Counted(a)' = Counted(a) \cup {c} /\ c \notin Counted(a) /\ Counted(a) \subseteq Conns
  BY <1>2 DEF Counted
<1>5. Cardinality(Counted(a)') = Cardinality(Counted(a)) + 1
  BY <1>4, OneJoins, ConnsFinite
<1>6. SlotCount(a)' = Cardinality(Counted(a)')
  BY <1>1, <1>5 DEF ClientInv, CountsMatch
<1>7. \A b \in IPs \ {a} : SlotCount(b)' = Cardinality(Counted(b)')
  BY <1>1, <1>3, SameEntrySameCount DEF ClientInv, CountsMatch
<1> QED
  BY <1>6, <1>7 DEF CountsMatch

(* The decrement of Drop discounts the connection whose last task let go,  *)
(* and is never the one that saturates.                                    *)
LEMMA ReleaseMatches ==
  ASSUME ClientInv, NEW c \in Conns, slot[c] = "unslot", Release(ip[c]), UNCHANGED ip,
         slot' = [slot EXCEPT ![c] = "reclaim"]
  PROVE  CountsMatch'
<1> PICK a \in IPs : a = ip[c]
  BY DEF ClientInv, Types
<1>1. slot'[c] = "reclaim" /\ \A d \in Conns \ {c} : slot'[d] = slot[d]
  BY DEF ClientInv, Types
<1>2. Counted(a)' = Counted(a) \ {c} /\ c \in Counted(a) /\ Counted(a) \subseteq Conns
  BY <1>1 DEF Counted
<1>3. Cardinality(Counted(a)') = Cardinality(Counted(a)) - 1 /\ Cardinality(Counted(a)) > 0
  BY <1>2, OneLeaves, ConnsFinite
<1>4. SlotCount(a) > 0
  BY <1>3 DEF ClientInv, CountsMatch
<1>5. /\ SlotCount(a)' = SlotCount(a) - 1
      /\ \A b \in IPs \ {a} : perIp'[b] = perIp[b]
  BY <1>4, ReleaseCounts, CeilingPositive DEF ClientInv, Types
<1>6. \A b \in IPs \ {a} : Counted(b)' = Counted(b)
  BY <1>1 DEF Counted
<1>7. SlotCount(a)' = Cardinality(Counted(a)')
  BY <1>3, <1>5 DEF ClientInv, CountsMatch
<1>8. \A b \in IPs \ {a} : SlotCount(b)' = Cardinality(Counted(b)')
  BY <1>5, <1>6, SameEntrySameCount DEF ClientInv, CountsMatch
<1> QED
  BY <1>7, <1>8 DEF CountsMatch

(* Every step keeps the counts.                                            *)
LEMMA CountsStep ==
  ASSUME ClientInv, [Next]_vars
  PROVE  CountsMatch'
<1>1. ASSUME UNCHANGED <<ip, perIp, slot>> PROVE CountsMatch'
  BY <1>1, CountsKept DEF ClientInv, SlotCount
<1>2. ASSUME NEW c \in Conns, Uses(c), DropRef(c), UNCHANGED <<ip, perIp>> PROVE CountsMatch'
  <2>1. slot[c] = "held"
    BY <1>2 DEF ClientInv, Shared
  <2>2. \A d \in Conns : slot'[d] \in {"held", "unslot"} <=> slot[d] \in {"held", "unslot"}
    BY <1>2, <2>1 DEF ClientInv, Types, DropRef
  <2> QED
    BY <1>2, <2>2, CountsKept DEF ClientInv, SlotCount
<1>3. ASSUME NEW c \in Conns, ClaimSlot(c) PROVE CountsMatch'
  <2>1. slot[c] = "none" /\ UNCHANGED ip
    BY <1>3 DEF ClaimSlot, ClientInv, Shared
  <2>2. CASE Claim(ip[c], MaxPerIp) /\ slot' = [slot EXCEPT ![c] = "held"]
    BY <2>1, <2>2, ClaimMatches
  <2>3. CASE UNCHANGED <<perIp, slot>>
    BY <1>1, <2>1, <2>3
  <2> QED
    BY <1>3, <2>2, <2>3 DEF ClaimSlot, Refuse
<1>4. ASSUME NEW c \in Conns, DropSlot(c) PROVE CountsMatch'
  BY <1>4, ReleaseMatches DEF DropSlot
<1>5. ASSUME NEW c \in Conns, ReclaimSlot(c) PROVE CountsMatch'
  <2>1. \A a \in IPs : SlotCount(a)' = SlotCount(a)
    BY <1>5, ReclaimCounts, CeilingPositive DEF ReclaimSlot, ClientInv, Types
  <2>2. \A d \in Conns : slot'[d] \in {"held", "unslot"} <=> slot[d] \in {"held", "unslot"}
    BY <1>5 DEF ReclaimSlot, ClientInv, Types
  <2> QED
    BY <1>5, <2>1, <2>2, CountsKept DEF ClientInv, ReclaimSlot
<1>6. ASSUME NEW c \in Conns, ServeReturns(c) \/ ServeEnds(c) PROVE CountsMatch'
  BY <1>2, <1>6 DEF ServeReturns, ServeEnds, Uses, Serving
<1>7. ASSUME NEW c \in Conns, Upgraded(c) \/ Head(c) \/ ServeClient(c) \/ CloseReturns(c)
      PROVE  CountsMatch'
  <2>1. Uses(c) /\ UNCHANGED <<ip, perIp>> /\ (DropRef(c) \/ UNCHANGED slot)
    BY <1>7 DEF Upgraded, Head, ServeClient, CloseReturns, TunnelReturns, Uses, Tunnelling
  <2> QED
    BY <1>1, <1>2, <2>1
<1>8. ASSUME NEW c \in Conns,
             \/ Peek(c) \/ HandOver(c) \/ TlsAccept(c) \/ Upgrade(c) \/ UplinkParks(c)
             \/ UplinkGranted(c) \/ UplinkPushed(c) \/ UplinkEnds(c) \/ SpliceEnds(c)
             \/ Evict(c) \/ PhoneLeaves(c)
      PROVE  CountsMatch'
  <2>1. UNCHANGED <<ip, perIp, slot>>
    BY <1>8 DEF Peek, HandOver, TlsAccept, Upgrade, UplinkParks, UplinkGranted, UplinkPushed,
                UplinkEnds, SpliceEnds, Evict, PhoneLeaves, slotVars
  <2> QED
    BY <1>1, <2>1
<1>9. ASSUME UNCHANGED vars PROVE CountsMatch'
  BY <1>1, <1>9 DEF vars, slotVars
<1> QED
  BY <1>3, <1>4, <1>5, <1>6, <1>7, <1>8, <1>9 DEF Next, TaskStep

(* Nothing is claimed at the start.                                        *)
LEMMA ClientInit ==
  ASSUME Init
  PROVE  ClientInv
<1>1. Types
  BY DEF Init, Types, SlotMaps
<1>2. \A c \in Conns : Shared(c)
  BY DEF Init, Shared, Serving, Tunnelling, Uses, One
<1>3. \A a \in IPs : Counted(a) = {} /\ SlotCount(a) = 0
  BY DEF Init, Counted, SlotCount, Absent
<1>4. CountsMatch
  BY <1>3, FS_EmptySet DEF CountsMatch
<1> QED
  BY <1>1, <1>2, <1>4 DEF ClientInv

(* The inductive invariant holds throughout.                               *)
THEOREM ClientInvTheorem == Spec => []ClientInv
<1>1. ASSUME ClientInv, [Next]_vars PROVE ClientInv'
  BY <1>1, SharedStep, CountsStep DEF ClientInv
<1> QED
  BY <1>1, ClientInit, PTL DEF Spec

-----------------------------------------------------------------------------
(* Every variable keeps its type; no connection's slot has more than two   *)
(* holders, and no count passes the ceiling.                               *)
THEOREM ClientTypeTheorem == Spec => []TypeOK
<1>1. ClientInv => TypeOK
  BY DEF ClientInv, Types, TypeOK, SlotMaps
<1> QED
  BY <1>1, ClientInvTheorem, PTL

(* "Same guard, same drift-free accounting" (src/lib.rs:85), whatever the  *)
(* order in which the tasks of a connection let go.                        *)
THEOREM ClientSlotsTheorem == Spec => []ClientSlotsExact
<1>1. ASSUME ClientInv, NEW a \in IPs
      PROVE  Counted(a) = {c \in Conns : ip[c] = a /\ (Uses(c) \/ slot[c] = "unslot")}
  BY <1>1 DEF ClientInv, Shared, Counted
<1>2. ClientInv => ClientSlotsExact
  BY <1>1 DEF ClientInv, CountsMatch, ClientSlotsExact
<1> QED
  BY <1>2, ClientInvTheorem, PTL
=============================================================================

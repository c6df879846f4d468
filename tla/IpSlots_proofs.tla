-------------------------- MODULE IpSlots_proofs --------------------------
(***************************************************************************)
(* What one claim, and each of the two steps of a release, does to the     *)
(* counts of IpSlots, and how the number of a set's members moves with it. *)
(* BridgeRegistry_proofs and ClientEdge_proofs rest on these lemmas.       *)
(***************************************************************************)
EXTENDS IpSlots, FiniteSetTheorems, TLAPS

(* The map of counts under a ceiling.                                      *)
SlotMaps(max) == [IPs -> {Absent} \cup 0 .. max]

(* A count is a number under the ceiling.                                  *)
LEMMA CountType ==
  ASSUME NEW max \in Nat, perIp \in SlotMaps(max), NEW a \in IPs
  PROVE  SlotCount(a) \in 0 .. max
BY DEF SlotMaps, SlotCount, Absent

(* IpSlot::claim adds one to the count of its address (src/lib.rs:96-103). *)
LEMMA ClaimCounts ==
  ASSUME NEW max \in Nat, perIp \in SlotMaps(max), NEW a \in IPs, Claim(a, max)
  PROVE  /\ perIp' \in SlotMaps(max)
         /\ SlotCount(a)' = SlotCount(a) + 1
         /\ perIp'[a] # 0
         /\ \A b \in IPs \ {a} : perIp'[b] = perIp[b]
<1>1. SlotCount(a) \in 0 .. max /\ SlotCount(a) < max
  BY CountType DEF Claim
<1>2. perIp' = [perIp EXCEPT ![a] = SlotCount(a) + 1]
  BY DEF Claim
<1>3. perIp'[a] = SlotCount(a) + 1 /\ \A b \in IPs \ {a} : perIp'[b] = perIp[b]
  BY <1>2 DEF SlotMaps
<1>4. SlotCount(a) + 1 \in 0 .. max
  BY <1>1
<1> HIDE DEF SlotCount
<1>5. perIp' \in SlotMaps(max)
  BY <1>2, <1>4 DEF SlotMaps
<1>6. SlotCount(a)' = SlotCount(a) + 1
  BY <1>1, <1>3 DEF SlotCount, Absent
<1> QED
  BY <1>1, <1>3, <1>5, <1>6

(* The first half of Drop takes one away from a count that is not zero     *)
(* (src/lib.rs:109-111).                                                   *)
LEMMA ReleaseCounts ==
  ASSUME NEW max \in Nat, perIp \in SlotMaps(max), NEW a \in IPs, Release(a), SlotCount(a) > 0
  PROVE  /\ perIp' \in SlotMaps(max)
         /\ SlotCount(a)' = SlotCount(a) - 1
         /\ \A b \in IPs \ {a} : perIp'[b] = perIp[b]
<1>1. perIp[a] \in 0 .. max /\ perIp[a] > 0 /\ SlotCount(a) = perIp[a]
  BY DEF SlotMaps, SlotCount, Absent
<1>2. perIp' = [perIp EXCEPT ![a] = perIp[a] - 1]
  BY <1>1 DEF Release
<1>3. perIp'[a] = perIp[a] - 1 /\ \A b \in IPs \ {a} : perIp'[b] = perIp[b]
  BY <1>2 DEF SlotMaps
<1>4. perIp' \in SlotMaps(max)
  BY <1>1, <1>2 DEF SlotMaps
<1> QED
  BY <1>1, <1>3, <1>4 DEF SlotCount, Absent

(* The second half changes no count and leaves no zero behind              *)
(* (src/lib.rs:115).                                                       *)
LEMMA ReclaimCounts ==
  ASSUME NEW max \in Nat, perIp \in SlotMaps(max), NEW a \in IPs, Reclaim(a)
  PROVE  /\ perIp' \in SlotMaps(max)
         /\ perIp'[a] # 0
         /\ \A b \in IPs : SlotCount(b)' = SlotCount(b)
         /\ \A b \in IPs \ {a} : perIp'[b] = perIp[b]
<1>1. \A b \in IPs \ {a} : perIp'[b] = perIp[b]
  BY DEF Reclaim, SlotMaps
<1>2. perIp' \in SlotMaps(max) /\ perIp'[a] # 0 /\ SlotCount(a)' = SlotCount(a)
  <2>1. CASE perIp[a] = 0
    <3>1. perIp' = [perIp EXCEPT ![a] = Absent]
      BY <2>1 DEF Reclaim
    <3>2. perIp'[a] = Absent
      BY <3>1 DEF SlotMaps
    <3> QED
      BY <2>1, <3>1, <3>2 DEF SlotMaps, SlotCount, Absent
  <2>2. CASE perIp[a] # 0
    BY <2>2 DEF Reclaim, SlotCount
  <2> QED
    BY <2>1, <2>2
<1> QED
  BY <1>1, <1>2 DEF SlotCount

(* An address whose entry a step leaves alone keeps its count.             *)
LEMMA SameEntrySameCount ==
  ASSUME NEW a, perIp'[a] = perIp[a]
  PROVE  SlotCount(a)' = SlotCount(a)
BY DEF SlotCount

-----------------------------------------------------------------------------
(* Part of a finite set has a number of members.                           *)
LEMMA PartCounts ==
  ASSUME NEW U, IsFiniteSet(U), NEW S, S \subseteq U
  PROVE  IsFiniteSet(S) /\ Cardinality(S) \in Nat
BY FS_Subset, FS_CardinalityType

(* One member more.                                                        *)
LEMMA OneJoins ==
  ASSUME NEW U, IsFiniteSet(U), NEW S, S \subseteq U, NEW x, x \notin S
  PROVE  Cardinality(S \cup {x}) = Cardinality(S) + 1
BY FS_Subset, FS_AddElement

(* One member less.                                                        *)
LEMMA OneLeaves ==
  ASSUME NEW U, IsFiniteSet(U), NEW S, S \subseteq U, NEW x, x \in S
  PROVE  Cardinality(S \ {x}) = Cardinality(S) - 1 /\ Cardinality(S) > 0
<1>1. IsFiniteSet(S) /\ Cardinality(S) \in Nat /\ S # {}
  BY PartCounts
<1>2. Cardinality(S) # 0
  BY <1>1, FS_EmptySet
<1>3. Cardinality(S \ {x}) = Cardinality(S) - 1
  BY <1>1, FS_RemoveElement
<1> QED
  BY <1>1, <1>2, <1>3
=============================================================================

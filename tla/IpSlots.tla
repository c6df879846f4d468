----------------------------- MODULE IpSlots -----------------------------
(***************************************************************************)
(* The per-IP ceilings (IpSlot of src/lib.rs): a map from address to count *)
(* whose slots are claimed in one step under the entry's lock and released *)
(* in two, so that claims and releases of others come between.  Bridges    *)
(* (BridgeRegistry) and TLS clients (ClientEdge) each have such a map.     *)
(***************************************************************************)
EXTENDS Integers

CONSTANT IPs
VARIABLE perIp  \* address -> its count, or Absent

Absent == -1
SlotCount(a) == IF perIp[a] = Absent THEN 0 ELSE perIp[a]

(* IpSlot::claim: entry(ip).or_insert(0), then the ceiling.                *)
Claim(a, max) ==
  /\ SlotCount(a) < max
  /\ perIp' = [perIp EXCEPT ![a] = SlotCount(a) + 1]
Refuse(a, max) == SlotCount(a) >= max /\ UNCHANGED perIp

(* Drop for IpSlot, first half: the saturating decrement.                  *)
Release(a) == perIp' = IF perIp[a] > 0 THEN [perIp EXCEPT ![a] = @ - 1] ELSE perIp

(* Second half: remove_if the count is zero.                               *)
Reclaim(a) == perIp' = IF perIp[a] = 0 THEN [perIp EXCEPT ![a] = Absent] ELSE perIp
=============================================================================

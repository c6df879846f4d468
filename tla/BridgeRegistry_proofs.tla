----------------------- MODULE BridgeRegistry_proofs -----------------------
(***************************************************************************)
(* The routing table names only links that are served, and a live link is  *)
(* never stranded without its route; the permits and the per-IP slots are  *)
(* accounted for exactly; and registration implements RouteTable: for any  *)
(* number of connections, keys and addresses and whatever the ceilings.    *)
(***************************************************************************)
EXTENDS BridgeRegistry, IpSlots_proofs, TLAPS

Labels == {"accepted", "admit", "slot", "handshake", "register", "displace",
           "serving", "unslot", "reclaim", "unbudget", "gone"}

(* The part of the state that registration is about.                       *)
RegTypes ==
  /\ pc \in [Conns -> Labels]
  /\ key \in [Conns -> Keys \cup {None}]
  /\ prev \in [Conns -> Conns \cup {None}]
  /\ link \in [Conns -> {"none", "live", "aborted", "dead"}]
  /\ table \in [Keys -> Conns \cup {None}]

(* A connection past its handshake has a key, and one about to displace    *)
(* has somebody to displace.                                               *)
Keyed ==
  \A c \in Conns :
    /\ pc[c] \in {"register", "displace", "serving"} => key[c] \in Keys
    /\ pc[c] = "displace" => prev[c] \in Conns

RegInv == RegTypes /\ Keyed /\ RoutesServed /\ NoStrandedLink

(* A task that stays out of the registered states, and leaves its key, its *)
(* link and the table alone, disturbs nothing.                             *)
LEMMA Bystander ==
  ASSUME RegInv, NEW c \in Conns, NEW l \in Labels, GoTo(c, l),
         ~Registered(c), l \notin {"register", "displace", "serving"},
         UNCHANGED <<key, prev, link, table>>
  PROVE  RegInv'
<1>1. pc' \in [Conns -> Labels] /\ pc' = [pc EXCEPT ![c] = l]
  BY DEF RegInv, RegTypes, GoTo
<1>2. RegTypes' /\ Keyed'
  BY <1>1 DEF RegInv, RegTypes, Keyed
<1>3. \A d \in Conns : Registered(d)' <=> Registered(d)
  BY <1>1 DEF Registered, RegInv, RegTypes
<1>4. \A d \in Conns : pc[d] = "displace" <=> pc'[d] = "displace"
  BY <1>1 DEF Registered, RegInv, RegTypes
<1>5. RoutesServed'
  BY <1>3 DEF RegInv, RegTypes, RoutesServed
<1>6. NoStrandedLink'
  BY <1>3, <1>4 DEF RegInv, NoStrandedLink
<1> QED
  BY <1>2, <1>5, <1>6 DEF RegInv

(* Taking the route over.                                                  *)
LEMMA RegisterStep ==
  ASSUME RegInv, NEW c \in Conns, Register(c)
  PROVE  RegInv'
<1> DEFINE k == key[c]
<1>0. k \in Keys /\ pc[c] = "register" /\ table[k] \in Conns \cup {None}
  BY DEF Register, RegInv, RegTypes, Keyed
<1>1. /\ table' = [table EXCEPT ![k] = c] /\ prev' = [prev EXCEPT ![c] = table[k]]
      /\ pc' = [pc EXCEPT ![c] = IF table[k] = None THEN "serving" ELSE "displace"]
      /\ UNCHANGED <<key, link>>
  BY DEF Register, GoTo
<1>2. RegTypes'
  BY <1>0, <1>1 DEF RegInv, RegTypes, Labels
<1>3. Keyed'
  BY <1>0, <1>1, NoneApart DEF RegInv, RegTypes, Keyed
<1>4. \A d \in Conns : d # c => (Registered(d)' <=> Registered(d))
  BY <1>1 DEF Registered, RegInv, RegTypes
<1>5. Registered(c)' /\ ~Registered(c)
  BY <1>0, <1>1 DEF Registered, RegInv, RegTypes
<1>6. RoutesServed'
  <2> SUFFICES ASSUME NEW j \in Keys, table'[j] # None
               PROVE  pc'[table'[j]] \in {"displace", "serving"} /\ key'[table'[j]] = j
    BY DEF RoutesServed, Registered
  <2>1. CASE j = k
    <3>1. table'[j] = c
      BY <1>0, <1>1, <2>1 DEF RegInv, RegTypes
    <3>2. pc'[c] \in {"displace", "serving"}
      BY <1>5 DEF Registered
    <3> QED
      BY <1>1, <2>1, <3>1, <3>2
  <2>2. CASE j # k
    <3>1. table'[j] = table[j] /\ table[j] # None /\ table[j] \in Conns
      BY <1>0, <1>1, <2>2 DEF RegInv, RegTypes
    <3>2. pc[table[j]] \in {"displace", "serving"} /\ key[table[j]] = j
      BY <3>1 DEF RegInv, RoutesServed, Registered
    <3>3. table[j] # c
      BY <1>0, <3>2
    <3>4. pc'[table[j]] = pc[table[j]]
      BY <1>1, <3>1, <3>3 DEF RegInv, RegTypes
    <3> QED
      BY <1>1, <3>1, <3>2, <3>4
  <2> QED
    BY <2>1, <2>2
<1>7. NoStrandedLink'
  <2> SUFFICES ASSUME NEW d \in Conns, Registered(d)', link'[d] = "live"
               PROVE  \/ table'[key'[d]] = d
                      \/ \E e \in Conns : pc'[e] = "displace" /\ prev'[e] = d
    BY DEF NoStrandedLink
  <2>1. CASE d = c
    BY <1>0, <1>1, <2>1 DEF RegInv, RegTypes
  <2>2. CASE d # c
    <3>1. Registered(d) /\ link[d] = "live" /\ key[d] \in Keys
      BY <1>1, <1>4, <2>2 DEF RegInv, Keyed, Registered
    <3>2. CASE table[key[d]] = d /\ key[d] # k
      BY <1>0, <1>1, <3>1, <3>2 DEF RegInv, RegTypes
    <3>3. CASE table[key[d]] = d /\ key[d] = k
      <4>1. pc'[c] = "displace" /\ prev'[c] = d
        BY <1>0, <1>1, <3>3, NoneApart DEF RegInv, RegTypes
      <4> QED
        BY <4>1
    <3>4. ASSUME NEW e \in Conns, pc[e] = "displace", prev[e] = d
          PROVE  pc'[e] = "displace" /\ prev'[e] = d
      BY <1>0, <1>1, <3>4 DEF RegInv, RegTypes
    <3> QED
      BY <3>1, <3>2, <3>3, <3>4 DEF RegInv, NoStrandedLink
  <2> QED
    BY <2>1, <2>2
<1> QED
  BY <1>2, <1>3, <1>6, <1>7 DEF RegInv

(* Shutting the displaced link down.                                       *)
LEMMA DisplaceStep ==
  ASSUME RegInv, NEW c \in Conns, Displace(c)
  PROVE  RegInv'
<1> DEFINE p == prev[c]
<1>0. pc[c] = "displace" /\ p \in Conns
  BY DEF Displace, RegInv, Keyed
<1>1. /\ link' = [link EXCEPT ![p] = IF link[p] = "live" THEN "aborted" ELSE link[p]]
      /\ prev' = [prev EXCEPT ![c] = None] /\ pc' = [pc EXCEPT ![c] = "serving"]
      /\ UNCHANGED <<key, table>>
  BY DEF Displace, GoTo
<1>2. RegTypes'
  BY <1>0, <1>1 DEF RegInv, RegTypes, Labels
<1>3. Keyed'
  BY <1>0, <1>1 DEF RegInv, RegTypes, Keyed
<1>4. \A d \in Conns : Registered(d)' <=> Registered(d)
  BY <1>0, <1>1 DEF Registered, RegInv, RegTypes
<1>5. RoutesServed'
  BY <1>1, <1>4 DEF RegInv, RegTypes, RoutesServed
<1>6. NoStrandedLink'
  <2> SUFFICES ASSUME NEW d \in Conns, Registered(d)', link'[d] = "live"
               PROVE  \/ table'[key'[d]] = d
                      \/ \E e \in Conns : pc'[e] = "displace" /\ prev'[e] = d
    BY DEF NoStrandedLink
  <2>1. d # p /\ link[d] = "live" /\ Registered(d)
    BY <1>0, <1>1, <1>4 DEF RegInv, RegTypes
  <2>2. ASSUME NEW e \in Conns, pc[e] = "displace", prev[e] = d
        PROVE  pc'[e] = "displace" /\ prev'[e] = d
    BY <1>1, <2>1, <2>2 DEF RegInv, RegTypes
  <2> QED
    BY <1>1, <2>1, <2>2 DEF RegInv, NoStrandedLink
<1> QED
  BY <1>2, <1>3, <1>5, <1>6 DEF RegInv

(* A dead link clears its own route only.                                  *)
LEMMA UnregisterStep ==
  ASSUME RegInv, NEW c \in Conns, Unregister(c)
  PROVE  RegInv'
<1>0. pc[c] = "serving" /\ link[c] = "dead" /\ key[c] \in Keys
  BY DEF Unregister, RegInv, Keyed
<1>1. /\ table' = IF table[key[c]] = c THEN [table EXCEPT ![key[c]] = None] ELSE table
      /\ pc' = [pc EXCEPT ![c] = "unslot"] /\ UNCHANGED <<key, prev, link>>
  BY DEF Unregister, GoTo
<1>2. RegTypes'
  BY <1>0, <1>1 DEF RegInv, RegTypes, Labels
<1>3. Keyed'
  BY <1>0, <1>1 DEF RegInv, RegTypes, Keyed
<1>4. \A d \in Conns : d # c => (Registered(d)' <=> Registered(d))
  BY <1>1 DEF Registered, RegInv, RegTypes
<1>5. \A j \in Keys : table'[j] # None => table'[j] = table[j] /\ table[j] # c
  <2> SUFFICES ASSUME NEW j \in Keys, table'[j] # None
               PROVE  table'[j] = table[j] /\ table[j] # c
    OBVIOUS
  <2>1. table'[j] = table[j]
    BY <1>0, <1>1 DEF RegInv, RegTypes
  <2>2. ASSUME table[j] = c PROVE FALSE
    <3>1. key[c] = j
      BY <2>1, <2>2 DEF RegInv, RoutesServed
    <3> QED
      BY <1>0, <1>1, <2>2, <3>1 DEF RegInv, RegTypes
  <2> QED
    BY <2>1, <2>2
<1>6. RoutesServed'
  BY <1>1, <1>4, <1>5 DEF RegInv, RegTypes, RoutesServed
<1>7. NoStrandedLink'
  <2> SUFFICES ASSUME NEW d \in Conns, Registered(d)', link'[d] = "live"
               PROVE  \/ table'[key'[d]] = d
                      \/ \E e \in Conns : pc'[e] = "displace" /\ prev'[e] = d
    BY DEF NoStrandedLink
  <2>1. d # c /\ link[d] = "live" /\ key[d] \in Keys
    BY <1>0, <1>1, <1>4 DEF RegInv, RegTypes, Keyed, Registered
  <2>2. Registered(d)
    BY <1>4, <2>1
  <2>3. table[key[d]] = d => table'[key'[d]] = d
    BY <1>0, <1>1, <2>1 DEF RegInv, RegTypes
  <2>4. ASSUME NEW e \in Conns, pc[e] = "displace", prev[e] = d
        PROVE  pc'[e] = "displace" /\ prev'[e] = d
    BY <1>0, <1>1, <2>4 DEF RegInv, RegTypes
  <2> QED
    BY <2>1, <2>2, <2>3, <2>4 DEF RegInv, NoStrandedLink
<1> QED
  BY <1>2, <1>3, <1>6, <1>7 DEF RegInv

(* A link that ends only relaxes what is asked of it.                      *)
LEMMA LinkEnds ==
  ASSUME RegInv, NEW c \in Conns, LinkDies(c) \/ LinkAborted(c)
  PROVE  RegInv'
<1>1. link' = [link EXCEPT ![c] = "dead"] /\ UNCHANGED <<pc, key, prev, table>>
  BY DEF LinkDies, LinkAborted
<1>2. \A d \in Conns : link'[d] = "live" => link[d] = "live"
  BY <1>1 DEF RegInv, RegTypes
<1>3. RegTypes' /\ Keyed' /\ RoutesServed'
  BY <1>1 DEF RegInv, RegTypes, Keyed, RoutesServed, Registered
<1>4. NoStrandedLink'
  BY <1>1, <1>2 DEF RegInv, NoStrandedLink, Registered
<1> QED
  BY <1>3, <1>4 DEF RegInv

(* A finished handshake gives a connection its key and a live link; it is  *)
(* not registered yet.                                                     *)
LEMMA HandshakeStep ==
  ASSUME RegInv, NEW c \in Conns, NEW k \in Keys, Handshake(c, k)
  PROVE  RegInv'
<1>1. /\ pc[c] = "handshake" /\ pc' = [pc EXCEPT ![c] = "register"]
      /\ key' = [key EXCEPT ![c] = k] /\ link' = [link EXCEPT ![c] = "live"]
      /\ UNCHANGED <<prev, table>>
  BY DEF Handshake, GoTo
<1>2. RegTypes' /\ Keyed'
  BY <1>1 DEF RegInv, RegTypes, Keyed, Labels
<1>3. \A d \in Conns : Registered(d)' <=> Registered(d)
  BY <1>1 DEF Registered, RegInv, RegTypes
<1>4. \A d \in Conns : Registered(d) => key'[d] = key[d] /\ link'[d] = link[d]
  BY <1>1 DEF Registered, RegInv, RegTypes
<1>5. \A d \in Conns : pc[d] = "displace" <=> pc'[d] = "displace"
  BY <1>1 DEF RegInv, RegTypes
<1>6. RoutesServed'
  BY <1>1, <1>3, <1>4 DEF RegInv, RegTypes, RoutesServed
<1>7. NoStrandedLink'
  BY <1>1, <1>3, <1>4, <1>5 DEF RegInv, NoStrandedLink
<1> QED
  BY <1>2, <1>6, <1>7 DEF RegInv

(* Every step keeps the invariant.                                         *)
LEMMA RegStep ==
  ASSUME RegInv, [Next]_vars
  PROVE  RegInv'
<1>1. ASSUME UNCHANGED vars PROVE RegInv'
  BY <1>1 DEF vars, RegInv, RegTypes, Keyed, RoutesServed, NoStrandedLink, Registered
<1>2. ASSUME NEW c \in Conns, \E a \in IPs : Preamble(c, a) PROVE RegInv'
  <2>1. PICK l \in {"admit", "gone"} : GoTo(c, l)
    BY <1>2 DEF Preamble
  <2> QED
    BY <1>2, <2>1, Bystander DEF Preamble, Registered, Labels
<1>3. ASSUME NEW c \in Conns, TakeBudget(c) PROVE RegInv'
  <2>1. PICK l \in {"slot", "gone"} : GoTo(c, l)
    BY <1>3 DEF TakeBudget
  <2> QED
    BY <1>3, <2>1, Bystander DEF TakeBudget, Registered, Labels
<1>4. ASSUME NEW c \in Conns, ClaimSlot(c) PROVE RegInv'
  <2>1. PICK l \in {"handshake", "unbudget"} : GoTo(c, l)
    BY <1>4 DEF ClaimSlot
  <2> QED
    BY <1>4, <2>1, Bystander DEF ClaimSlot, Registered, Labels
<1>5. ASSUME NEW c \in Conns, HandshakeFails(c) PROVE RegInv'
  <2>1. GoTo(c, "unslot") /\ pc[c] = "handshake" /\ UNCHANGED <<key, prev, link, table>>
    BY <1>5 DEF HandshakeFails
  <2> QED
    BY <2>1, Bystander DEF Registered, Labels
<1>6. ASSUME NEW c \in Conns, DropSlot(c) PROVE RegInv'
  <2>1. GoTo(c, "reclaim") /\ pc[c] = "unslot" /\ UNCHANGED <<key, prev, link, table>>
    BY <1>6 DEF DropSlot
  <2> QED
    BY <2>1, Bystander DEF Registered, Labels
<1>7. ASSUME NEW c \in Conns, ReclaimSlot(c) PROVE RegInv'
  <2>1. GoTo(c, "unbudget") /\ pc[c] = "reclaim" /\ UNCHANGED <<key, prev, link, table>>
    BY <1>7 DEF ReclaimSlot
  <2> QED
    BY <2>1, Bystander DEF Registered, Labels
<1>8. ASSUME NEW c \in Conns, DropBudget(c) PROVE RegInv'
  <2>1. GoTo(c, "gone") /\ pc[c] = "unbudget" /\ UNCHANGED <<key, prev, link, table>>
    BY <1>8 DEF DropBudget
  <2> QED
    BY <2>1, Bystander DEF Registered, Labels
<1> QED
  BY <1>1, <1>2, <1>3, <1>4, <1>5, <1>6, <1>7, <1>8, RegisterStep, DisplaceStep,
     UnregisterStep, LinkEnds, HandshakeStep DEF Next, TaskStep

(* No connection is registered at the start.                               *)
LEMMA RegInit ==
  ASSUME Init
  PROVE  RegInv
BY NoneApart DEF Init, RegInv, RegTypes, Labels, Keyed, RoutesServed, NoStrandedLink, Registered

(* Labels, keys and routes of the connections agree in every reachable     *)
(* state of the registry.                                                  *)
THEOREM RegTheorem == Spec => []RegInv
<1>1. Init => RegInv
  BY RegInit
<1>2. RegInv /\ [Next]_vars => RegInv'
  BY RegStep
<1> QED
  BY <1>1, <1>2, PTL DEF Spec

(* Every route is served by a task that will remove it, unless a newer     *)
(* registration replaces it first (src/lib.rs:238-251).                    *)
THEOREM RouteTheorem == Spec => []RoutesServed
<1>1. RegInv => RoutesServed
  BY DEF RegInv
<1> QED
  BY <1>1, RegTheorem, PTL

(* No registered link stays live without a route unless the registration   *)
(* that took it over is about to shut it down (src/lib.rs:238-251).        *)
THEOREM StrandedTheorem == Spec => []NoStrandedLink
<1>1. RegInv => NoStrandedLink
  BY DEF RegInv
<1> QED
  BY <1>1, RegTheorem, PTL

-----------------------------------------------------------------------------
(* Admission: the budget of links and the slots of an address.             *)

Budgeted == {c \in Conns : HasBudget(c)}
Slotted(a) == {c \in Conns : HasSlot(c) /\ ip[c] = a}

(* A connection past its preamble has an address.                          *)
Addressed ==
  \A c \in Conns : pc[c] \notin {"accepted", "unbudget", "gone"} => ip[c] \in IPs

AdmitTypes ==
  /\ pc \in [Conns -> Labels]
  /\ ip \in [Conns -> IPs \cup {None}]
  /\ budget \in Nat
  /\ perIp \in SlotMaps(MaxPerIp)

(* The exact counts keep the budget in its range, so TypeOK needs them.    *)
AdmitInv == AdmitTypes /\ Addressed /\ BudgetExact /\ SlotsExact /\ ZerosReclaimed

(* The sets that are counted are finite.                                   *)
LEMMA AdmitFinite ==
  /\ IsFiniteSet(Conns) /\ MaxPerIp \in Nat /\ MaxBridges \in Nat
  /\ Cardinality(Budgeted) \in Nat /\ Budgeted \subseteq Conns
  /\ \A a : Slotted(a) \subseteq Conns /\ Cardinality(Slotted(a)) \in Nat
<1>1. Budgeted \subseteq Conns /\ \A a : Slotted(a) \subseteq Conns
  BY DEF Budgeted, Slotted
<1>2. \A a : Cardinality(Slotted(a)) \in Nat
  BY <1>1, ConnsFinite, PartCounts
<1> QED
  BY <1>1, <1>2, ConnsFinite, CeilingsPositive, PartCounts

(* A task that keeps hold of both resources while it moves on, or never    *)
(* had either, leaves every count as it was.                               *)
LEMMA Passes ==
  ASSUME AdmitInv, NEW c \in Conns, NEW l \in Labels, GoTo(c, l),
         UNCHANGED <<ip, budget, perIp>>, ip[c] \in IPs,
         LET holding == {"handshake", "register", "displace", "serving", "unslot"}
             without == {"accepted", "admit", "gone"}
         IN  \/ pc[c] \in holding /\ l \in holding
             \/ pc[c] \in without /\ l \in without
  PROVE  AdmitInv'
<1>1. pc' = [pc EXCEPT ![c] = l] /\ pc' \in [Conns -> Labels]
  BY DEF GoTo, AdmitInv, AdmitTypes
<1>2. AdmitTypes' /\ Addressed'
  BY <1>1 DEF AdmitInv, AdmitTypes, Addressed
<1>3. \A d \in Conns : /\ HasBudget(d)' <=> HasBudget(d)
                       /\ HasSlot(d)' <=> HasSlot(d)
                       /\ pc[d] = "reclaim" => pc'[d] = "reclaim"
  BY <1>1 DEF AdmitInv, AdmitTypes, HasBudget, HasSlot
<1>4. {d \in Conns : HasBudget(d)}' = {d \in Conns : HasBudget(d)}
  BY <1>3
<1>5. \A a \in IPs : {d \in Conns : HasSlot(d) /\ ip[d] = a}'
                      = {d \in Conns : HasSlot(d) /\ ip[d] = a}
  BY <1>3
<1>6. BudgetExact'
  BY <1>4 DEF AdmitInv, BudgetExact
<1>7. SlotsExact'
  BY <1>5, SameEntrySameCount DEF AdmitInv, SlotsExact
<1>8. ZerosReclaimed'
  BY <1>3 DEF AdmitInv, ZerosReclaimed
<1> QED
  BY <1>2, <1>6, <1>7, <1>8 DEF AdmitInv

(* The first byte and the preamble: the connection gets its address.       *)
LEMMA PreambleAdmits ==
  ASSUME AdmitInv, NEW c \in Conns, NEW a \in IPs, Preamble(c, a)
  PROVE  AdmitInv'
<1>1. PICK l \in {"admit", "gone"} : pc' = [pc EXCEPT ![c] = l]
  BY DEF Preamble, GoTo
<1>2. /\ pc[c] = "accepted" /\ ip' = [ip EXCEPT ![c] = a]
      /\ UNCHANGED <<budget, perIp>>
  BY DEF Preamble
<1>3. AdmitTypes' /\ Addressed'
  BY <1>1, <1>2 DEF AdmitInv, AdmitTypes, Addressed, Labels
<1>4. \A d \in Conns : /\ HasBudget(d)' <=> HasBudget(d)
                       /\ HasSlot(d)' <=> HasSlot(d)
                       /\ pc[d] = "reclaim" => pc'[d] = "reclaim" /\ ip'[d] = ip[d]
                       /\ HasSlot(d) => ip'[d] = ip[d]
  BY <1>1, <1>2 DEF AdmitInv, AdmitTypes, HasBudget, HasSlot
<1>5. {d \in Conns : HasBudget(d)}' = {d \in Conns : HasBudget(d)}
  BY <1>4
<1>6. \A b \in IPs : {d \in Conns : HasSlot(d) /\ ip[d] = b}'
                      = {d \in Conns : HasSlot(d) /\ ip[d] = b}
  BY <1>4
<1>7. BudgetExact'
  BY <1>2, <1>5 DEF AdmitInv, BudgetExact
<1>8. SlotsExact'
  BY <1>2, <1>6, SameEntrySameCount DEF AdmitInv, SlotsExact
<1>9. ZerosReclaimed'
  BY <1>2, <1>4 DEF AdmitInv, ZerosReclaimed
<1> QED
  BY <1>3, <1>7, <1>8, <1>9 DEF AdmitInv

(* A permit is taken, or there is none and the connection goes.            *)
LEMMA TakesBudget ==
  ASSUME AdmitInv, NEW c \in Conns, TakeBudget(c)
  PROVE  AdmitInv'
<1>1. pc[c] = "admit" /\ ip[c] \in IPs /\ UNCHANGED <<ip, perIp>>
  BY DEF TakeBudget, AdmitInv, Addressed
<1>2. CASE budget = 0 /\ UNCHANGED budget /\ GoTo(c, "gone")
  BY <1>1, <1>2, Passes DEF Labels
<1>3. CASE budget > 0 /\ budget' = budget - 1 /\ GoTo(c, "slot")
  <2>1. pc' = [pc EXCEPT ![c] = "slot"]
    BY <1>3 DEF GoTo
  <2>2. AdmitTypes' /\ Addressed'
    BY <1>1, <1>3, <2>1 DEF AdmitInv, AdmitTypes, Addressed, Labels
  <2>3. \A d \in Conns : /\ HasSlot(d)' <=> HasSlot(d)
                         /\ pc[d] = "reclaim" => pc'[d] = "reclaim"
    BY <1>1, <2>1 DEF AdmitInv, AdmitTypes, HasSlot
  <2>4. Budgeted' = Budgeted \cup {c} /\ c \notin Budgeted
    BY <1>1, <2>1 DEF AdmitInv, AdmitTypes, Budgeted, HasBudget
  <2>5. Cardinality(Budgeted') = Cardinality(Budgeted) + 1
    BY <2>4, AdmitFinite, OneJoins
  <2>6. BudgetExact'
    BY <1>3, <2>5, AdmitFinite DEF AdmitInv, AdmitTypes, BudgetExact, Budgeted
  <2>7. \A a \in IPs : Slotted(a)' = Slotted(a)
    BY <1>1, <2>3 DEF Slotted
  <2>8. SlotsExact'
    BY <1>1, <2>7, SameEntrySameCount DEF AdmitInv, SlotsExact, Slotted
  <2>9. ZerosReclaimed'
    BY <1>1, <2>3 DEF AdmitInv, ZerosReclaimed
  <2> QED
    BY <2>2, <2>6, <2>8, <2>9 DEF AdmitInv
<1> QED
  BY <1>2, <1>3 DEF TakeBudget

(* A connection that holds no slot moves on with its permit.               *)
LEMMA StaysBudgeted ==
  ASSUME AdmitInv, NEW c \in Conns, NEW l \in Labels, GoTo(c, l), UNCHANGED <<ip, budget>>,
         HasBudget(c), HasBudget(c)', ip[c] \in IPs
  PROVE  Addressed' /\ BudgetExact'
<1>1. pc' = [pc EXCEPT ![c] = l] /\ pc' \in [Conns -> Labels]
  BY DEF GoTo, AdmitInv, AdmitTypes
<1>2. Addressed'
  BY <1>1 DEF AdmitInv, AdmitTypes, Addressed
<1>3. Budgeted' = Budgeted
  BY <1>1 DEF AdmitInv, AdmitTypes, Budgeted, HasBudget
<1> QED
  BY <1>2, <1>3 DEF AdmitInv, BudgetExact, Budgeted

(* A slot is claimed under the entry's lock, or refused.                   *)
LEMMA ClaimsSlot ==
  ASSUME AdmitInv, NEW c \in Conns, ClaimSlot(c)
  PROVE  AdmitInv'
<1>a. PICK a \in IPs : a = ip[c]
  BY DEF ClaimSlot, AdmitInv, Addressed
<1>0. /\ pc[c] = "slot" /\ a = ip[c] /\ UNCHANGED <<ip, budget>>
      /\ perIp \in SlotMaps(MaxPerIp) /\ MaxPerIp \in Nat
  BY <1>a, AdmitFinite DEF ClaimSlot, AdmitInv, AdmitTypes
<1>1. CASE Refuse(a, MaxPerIp) /\ GoTo(c, "unbudget")
  <2>1. UNCHANGED perIp /\ pc' = [pc EXCEPT ![c] = "unbudget"]
    BY <1>1 DEF Refuse, GoTo
  <2>2. HasBudget(c) /\ HasBudget(c)'
    BY <1>0, <2>1 DEF AdmitInv, AdmitTypes, HasBudget
  <2>3. AdmitTypes' /\ Addressed' /\ BudgetExact'
    BY <1>0, <1>1, <2>1, <2>2, StaysBudgeted DEF AdmitInv, AdmitTypes, Labels
  <2>4. \A d \in Conns : /\ HasSlot(d)' <=> HasSlot(d)
                         /\ pc[d] = "reclaim" => pc'[d] = "reclaim"
    BY <1>0, <2>1 DEF AdmitInv, AdmitTypes, HasSlot
  <2>5. \A b \in IPs : Slotted(b)' = Slotted(b)
    BY <1>0, <2>4 DEF Slotted
  <2>6. SlotsExact'
    BY <2>1, <2>5, SameEntrySameCount DEF AdmitInv, SlotsExact, Slotted
  <2>7. ZerosReclaimed'
    BY <1>0, <2>1, <2>4 DEF AdmitInv, ZerosReclaimed
  <2> QED
    BY <2>3, <2>6, <2>7 DEF AdmitInv
<1>2. CASE Claim(a, MaxPerIp) /\ GoTo(c, "handshake")
  <2>1. pc' = [pc EXCEPT ![c] = "handshake"]
    BY <1>2 DEF GoTo
  <2>2. /\ perIp' \in SlotMaps(MaxPerIp) /\ SlotCount(a)' = SlotCount(a) + 1
        /\ perIp'[a] # 0 /\ \A b \in IPs \ {a} : perIp'[b] = perIp[b]
    BY <1>0, <1>2, ClaimCounts
  <2>3. HasBudget(c) /\ HasBudget(c)'
    BY <1>0, <2>1 DEF AdmitInv, AdmitTypes, HasBudget
  <2>4. AdmitTypes' /\ Addressed' /\ BudgetExact'
    BY <1>0, <1>2, <2>1, <2>2, <2>3, StaysBudgeted DEF AdmitInv, AdmitTypes, Labels
  <2>5. Slotted(a)' = Slotted(a) \cup {c} /\ c \notin Slotted(a)
    BY <1>0, <2>1 DEF AdmitInv, AdmitTypes, Slotted, HasSlot
  <2>6. \A b \in IPs \ {a} : Slotted(b)' = Slotted(b)
    BY <1>0, <2>1 DEF AdmitInv, AdmitTypes, Slotted, HasSlot
  <2>7. Cardinality(Slotted(a)') = Cardinality(Slotted(a)) + 1
    BY <2>5, AdmitFinite, OneJoins
  <2>8. SlotsExact'
    <3> SUFFICES ASSUME NEW b \in IPs PROVE SlotCount(b)' = Cardinality(Slotted(b)')
      BY DEF SlotsExact, Slotted
    <3>1. SlotCount(b) = Cardinality(Slotted(b))
      BY DEF AdmitInv, SlotsExact, Slotted
    <3>2. CASE b = a
      BY <2>2, <2>7, <3>1, <3>2
    <3>3. CASE b # a
      BY <2>2, <2>6, <3>1, <3>3, SameEntrySameCount
    <3> QED
      BY <3>2, <3>3
  <2>9. ZerosReclaimed'
    <3> SUFFICES ASSUME NEW b \in IPs, perIp'[b] = 0
                 PROVE  \E d \in Conns : pc'[d] = "reclaim" /\ ip'[d] = b
      BY DEF ZerosReclaimed
    <3>1. b # a /\ perIp[b] = 0
      BY <2>2
    <3>2. PICK d \in Conns : pc[d] = "reclaim" /\ ip[d] = b
      BY <3>1 DEF AdmitInv, ZerosReclaimed
    <3> QED
      BY <1>0, <2>1, <3>2 DEF AdmitInv, AdmitTypes
  <2> QED
    BY <2>4, <2>8, <2>9 DEF AdmitInv
<1> QED
  BY <1>a, <1>1, <1>2 DEF ClaimSlot

(* The first half of a release: the count falls with the holder, and a     *)
(* count of zero is left for this task to reclaim.                         *)
LEMMA DropsSlot ==
  ASSUME AdmitInv, NEW c \in Conns, DropSlot(c)
  PROVE  AdmitInv'
<1>a. PICK a \in IPs : a = ip[c]
  BY DEF DropSlot, AdmitInv, Addressed
<1>0. /\ pc[c] = "unslot" /\ pc' = [pc EXCEPT ![c] = "reclaim"] /\ Release(a)
      /\ UNCHANGED <<ip, budget>> /\ perIp \in SlotMaps(MaxPerIp) /\ MaxPerIp \in Nat
  BY <1>a, AdmitFinite DEF DropSlot, GoTo, AdmitInv, AdmitTypes
<1>1. c \in Slotted(a) /\ Slotted(a)' = Slotted(a) \ {c}
  BY <1>a, <1>0 DEF AdmitInv, AdmitTypes, Slotted, HasSlot
<1>2. Cardinality(Slotted(a)') = Cardinality(Slotted(a)) - 1 /\ Cardinality(Slotted(a)) > 0
  BY <1>1, AdmitFinite, OneLeaves
<1>3. \A b \in IPs : SlotCount(b) = Cardinality(Slotted(b))
  BY DEF AdmitInv, SlotsExact, Slotted
<1>4. /\ perIp' \in SlotMaps(MaxPerIp) /\ SlotCount(a)' = SlotCount(a) - 1
      /\ \A b \in IPs \ {a} : perIp'[b] = perIp[b]
  BY <1>0, <1>2, <1>3, ReleaseCounts
<1>5. HasBudget(c) /\ HasBudget(c)'
  BY <1>0 DEF AdmitInv, AdmitTypes, HasBudget
<1>6. AdmitTypes' /\ Addressed' /\ BudgetExact'
  BY <1>a, <1>0, <1>4, <1>5, StaysBudgeted DEF AdmitInv, AdmitTypes, Labels, GoTo
<1>7. \A b \in IPs \ {a} : Slotted(b)' = Slotted(b)
  BY <1>a, <1>0 DEF AdmitInv, AdmitTypes, Slotted, HasSlot
<1>8. SlotsExact'
  <2> SUFFICES ASSUME NEW b \in IPs PROVE SlotCount(b)' = Cardinality(Slotted(b)')
    BY DEF SlotsExact, Slotted
  <2>1. CASE b = a
    BY <1>2, <1>3, <1>4, <2>1
  <2>2. CASE b # a
    BY <1>3, <1>4, <1>7, <2>2, SameEntrySameCount
  <2> QED
    BY <2>1, <2>2
<1>9. ZerosReclaimed'
  <2> SUFFICES ASSUME NEW b \in IPs, perIp'[b] = 0
               PROVE  \E d \in Conns : pc'[d] = "reclaim" /\ ip'[d] = b
    BY DEF ZerosReclaimed
  <2>1. CASE b = a
    BY <1>a, <1>0, <2>1 DEF AdmitInv, AdmitTypes
  <2>2. CASE b # a
    <3>1. PICK d \in Conns : pc[d] = "reclaim" /\ ip[d] = b
      BY <1>4, <2>2 DEF AdmitInv, ZerosReclaimed
    <3> QED
      BY <1>0, <3>1 DEF AdmitInv, AdmitTypes
  <2> QED
    BY <2>1, <2>2
<1> QED
  BY <1>6, <1>8, <1>9 DEF AdmitInv

(* The second half: a claim that came between has left a count above zero, *)
(* which stays; a zero goes.                                               *)
LEMMA ReclaimsSlot ==
  ASSUME AdmitInv, NEW c \in Conns, ReclaimSlot(c)
  PROVE  AdmitInv'
<1>a. PICK a \in IPs : a = ip[c]
  BY DEF ReclaimSlot, AdmitInv, Addressed
<1>0. /\ pc[c] = "reclaim" /\ pc' = [pc EXCEPT ![c] = "unbudget"] /\ Reclaim(a)
      /\ UNCHANGED <<ip, budget>> /\ perIp \in SlotMaps(MaxPerIp) /\ MaxPerIp \in Nat
  BY <1>a, AdmitFinite DEF ReclaimSlot, GoTo, AdmitInv, AdmitTypes
<1>1. /\ perIp' \in SlotMaps(MaxPerIp) /\ perIp'[a] # 0
      /\ \A b \in IPs : SlotCount(b)' = SlotCount(b)
      /\ \A b \in IPs \ {a} : perIp'[b] = perIp[b]
  BY <1>0, ReclaimCounts
<1>2. HasBudget(c) /\ HasBudget(c)'
  BY <1>0 DEF AdmitInv, AdmitTypes, HasBudget
<1>3. AdmitTypes' /\ Addressed' /\ BudgetExact'
  BY <1>a, <1>0, <1>1, <1>2, StaysBudgeted DEF AdmitInv, AdmitTypes, Labels, GoTo
<1>4. \A b \in IPs : Slotted(b)' = Slotted(b)
  BY <1>0 DEF AdmitInv, AdmitTypes, Slotted, HasSlot
<1>5. SlotsExact'
  BY <1>1, <1>4 DEF AdmitInv, SlotsExact, Slotted
<1>6. ZerosReclaimed'
  <2> SUFFICES ASSUME NEW b \in IPs, perIp'[b] = 0
               PROVE  \E d \in Conns : pc'[d] = "reclaim" /\ ip'[d] = b
    BY DEF ZerosReclaimed
  <2>1. b # a /\ perIp[b] = 0
    BY <1>1
  <2>2. PICK d \in Conns : pc[d] = "reclaim" /\ ip[d] = b
    BY <2>1 DEF AdmitInv, ZerosReclaimed
  <2>3. d # c
    BY <1>a, <2>1, <2>2
  <2> QED
    BY <1>0, <2>2, <2>3 DEF AdmitInv, AdmitTypes
<1> QED
  BY <1>3, <1>5, <1>6 DEF AdmitInv

(* The permit goes back last.                                              *)
LEMMA DropsBudget ==
  ASSUME AdmitInv, NEW c \in Conns, DropBudget(c)
  PROVE  AdmitInv'
<1>0. /\ pc[c] = "unbudget" /\ pc' = [pc EXCEPT ![c] = "gone"] /\ budget' = budget + 1
      /\ UNCHANGED <<ip, perIp>>
  BY DEF DropBudget, GoTo
<1>1. AdmitTypes' /\ Addressed'
  BY <1>0 DEF AdmitInv, AdmitTypes, Addressed, Labels
<1>2. c \in Budgeted /\ Budgeted' = Budgeted \ {c}
  BY <1>0 DEF AdmitInv, AdmitTypes, Budgeted, HasBudget
<1>3. Cardinality(Budgeted') = Cardinality(Budgeted) - 1
  BY <1>2, AdmitFinite, OneLeaves
<1>4. BudgetExact'
  BY <1>0, <1>3, AdmitFinite DEF AdmitInv, AdmitTypes, BudgetExact, Budgeted
<1>5. \A b \in IPs : Slotted(b)' = Slotted(b)
  BY <1>0 DEF AdmitInv, AdmitTypes, Slotted, HasSlot
<1>6. SlotsExact'
  BY <1>0, <1>5, SameEntrySameCount DEF AdmitInv, SlotsExact, Slotted
<1>7. ZerosReclaimed'
  BY <1>0 DEF AdmitInv, AdmitTypes, ZerosReclaimed
<1> QED
  BY <1>1, <1>4, <1>6, <1>7 DEF AdmitInv

(* Every step keeps the counts.                                            *)
LEMMA AdmitStep ==
  ASSUME AdmitInv, [Next]_vars
  PROVE  AdmitInv'
<1>1. ASSUME UNCHANGED <<pc, ip, budget, perIp>> PROVE AdmitInv'
  BY <1>1 DEF AdmitInv, AdmitTypes, Addressed, BudgetExact, SlotsExact, ZerosReclaimed,
              HasBudget, HasSlot, SlotCount
<1>2. ASSUME NEW c \in Conns, NEW k \in Keys, Handshake(c, k) PROVE AdmitInv'
  <2>1. GoTo(c, "register") /\ pc[c] = "handshake" /\ UNCHANGED <<ip, budget, perIp>>
    BY <1>2 DEF Handshake
  <2> QED
    BY <2>1, Passes DEF AdmitInv, Addressed, Labels
<1>3. ASSUME NEW c \in Conns, HandshakeFails(c) PROVE AdmitInv'
  <2>1. GoTo(c, "unslot") /\ pc[c] = "handshake" /\ UNCHANGED <<ip, budget, perIp>>
    BY <1>3 DEF HandshakeFails
  <2> QED
    BY <2>1, Passes DEF AdmitInv, Addressed, Labels
<1>4. ASSUME NEW c \in Conns, Register(c) PROVE AdmitInv'
  <2>1. /\ GoTo(c, IF table[key[c]] = None THEN "serving" ELSE "displace")
        /\ pc[c] = "register" /\ UNCHANGED <<ip, budget, perIp>>
    BY <1>4 DEF Register
  <2>2. PICK l \in {"serving", "displace"} : GoTo(c, l)
    BY <2>1
  <2> QED
    BY <2>1, <2>2, Passes DEF AdmitInv, Addressed, Labels
<1>5. ASSUME NEW c \in Conns, Displace(c) PROVE AdmitInv'
  <2>1. GoTo(c, "serving") /\ pc[c] = "displace" /\ UNCHANGED <<ip, budget, perIp>>
    BY <1>5 DEF Displace
  <2> QED
    BY <2>1, Passes DEF AdmitInv, Addressed, Labels
<1>6. ASSUME NEW c \in Conns, Unregister(c) PROVE AdmitInv'
  <2>1. GoTo(c, "unslot") /\ pc[c] = "serving" /\ UNCHANGED <<ip, budget, perIp>>
    BY <1>6 DEF Unregister
  <2> QED
    BY <2>1, Passes DEF AdmitInv, Addressed, Labels
<1>7. ASSUME NEW c \in Conns, LinkDies(c) \/ LinkAborted(c) PROVE AdmitInv'
  BY <1>1, <1>7 DEF LinkDies, LinkAborted
<1>8. ASSUME UNCHANGED vars PROVE AdmitInv'
  BY <1>1, <1>8 DEF vars
<1> QED
  BY <1>2, <1>3, <1>4, <1>5, <1>6, <1>7, <1>8, PreambleAdmits, TakesBudget, ClaimsSlot,
     DropsSlot, ReclaimsSlot, DropsBudget DEF Next, TaskStep

(* Nothing is held at the start.                                           *)
LEMMA AdmitInit ==
  ASSUME Init
  PROVE  AdmitInv
<1>1. {c \in Conns : HasBudget(c)} = {} /\ \A a \in IPs : {c \in Conns : HasSlot(c) /\ ip[c] = a} = {}
  BY DEF Init, HasBudget, HasSlot
<1>2. AdmitTypes /\ Addressed
  BY CeilingsPositive DEF Init, AdmitTypes, Addressed, Labels, SlotMaps
<1>3. BudgetExact
  BY <1>1, FS_EmptySet, CeilingsPositive DEF BudgetExact, Init
<1>4. SlotsExact
  BY <1>1, FS_EmptySet DEF SlotsExact, Init, SlotCount
<1>5. ZerosReclaimed
  BY DEF ZerosReclaimed, Init, Absent
<1> QED
  BY <1>2, <1>3, <1>4, <1>5 DEF AdmitInv

(* Both parts of the state together give the types.                        *)
LEMMA TypesTogether ==
  ASSUME RegInv, AdmitInv
  PROVE  TypeOK
<1>1. budget \in 0 .. MaxBridges
  BY AdmitFinite DEF AdmitInv, AdmitTypes, BudgetExact, Budgeted
<1> QED
  BY <1>1 DEF RegInv, RegTypes, AdmitInv, AdmitTypes, Labels, SlotMaps, TypeOK

(* The registry and its admission counts hold together in every reachable  *)
(* state.                                                                  *)
THEOREM AdmitInvTheorem == Spec => [](RegInv /\ AdmitInv)
<1>1. Init => RegInv /\ AdmitInv
  BY RegInit, AdmitInit
<1>2. (RegInv /\ AdmitInv) /\ [Next]_vars => (RegInv /\ AdmitInv)'
  BY RegStep, AdmitStep
<1> QED
  BY <1>1, <1>2, PTL DEF Spec

(* Every label, count and route stays in its range: above all the free     *)
(* permits of the process-wide budget stay between 0 and max_bridges       *)
(* (src/lib.rs:213).                                                       *)
THEOREM AdmitTypeTheorem == Spec => []TypeOK
<1>1. RegInv /\ AdmitInv => TypeOK
  BY TypesTogether
<1> QED
  BY <1>1, AdmitInvTheorem, PTL

(* No permit of the process-wide budget is lost or returned twice,         *)
(* whatever way out of serve_bridge a connection takes (src/lib.rs:213).   *)
THEOREM AdmissionTheorem == Spec => []BudgetExact
<1>1. RegInv /\ AdmitInv => BudgetExact
  BY DEF AdmitInv
<1> QED
  BY <1>1, AdmitInvTheorem, PTL

(* "the count cannot drift from reality" (src/lib.rs:81): an address's     *)
(* count is the number of its links that hold a slot, however claims and   *)
(* the two steps of releases interleave, and never above the ceiling.      *)
THEOREM SlotTheorem ==
  Spec => [](SlotsExact /\ \A a \in IPs : SlotCount(a) <= MaxPerIp)
<1>1. Init => AdmitInv
  BY AdmitInit
<1>2. AdmitInv /\ [Next]_vars => AdmitInv'
  BY AdmitStep
<1>3. AdmitInv => SlotsExact /\ \A a \in IPs : SlotCount(a) <= MaxPerIp
  BY CountType, CeilingsPositive DEF AdmitInv, AdmitTypes
<1> QED
  BY <1>1, <1>2, <1>3, PTL DEF Spec

(* The map does not keep "every address the process has ever seen"         *)
(* (src/lib.rs:113): a zero is always about to be reclaimed.               *)
THEOREM ReclaimTheorem == Spec => []ZerosReclaimed
<1>1. Init => AdmitInv
  BY AdmitInit
<1>2. AdmitInv /\ [Next]_vars => AdmitInv'
  BY AdmitStep
<1>3. AdmitInv => ZerosReclaimed
  BY DEF AdmitInv
<1> QED
  BY <1>1, <1>2, <1>3, PTL DEF Spec

-----------------------------------------------------------------------------
(* Registration implements the safety part of RouteTable.                  *)

Closed == {"unslot", "reclaim", "unbudget", "gone"}

(* What Status says of a connection, case by case.                         *)
LEMMA StatusCases ==
  ASSUME NEW c \in Conns
  PROVE  /\ Registered(c) /\ table[key[c]] = c => Status[c] = "routed"
         /\ Registered(c) /\ table[key[c]] # c => Status[c] = "condemned"
         /\ pc[c] \in Closed => Status[c] = "closed"
         /\ ~Registered(c) /\ pc[c] \notin Closed => Status[c] = "new"
BY DEF Status, Closed, Registered

LEMMA StatusCasesNext ==
  ASSUME NEW c \in Conns
  PROVE  /\ Registered(c)' /\ table'[key'[c]] = c => Status'[c] = "routed"
         /\ Registered(c)' /\ table'[key'[c]] # c => Status'[c] = "condemned"
         /\ pc'[c] \in Closed => Status'[c] = "closed"
         /\ ~Registered(c)' /\ pc'[c] \notin Closed => Status'[c] = "new"
BY DEF Status, Closed, Registered

(* Status is a function on the connections, now and next.                  *)
LEMMA StatusDomain ==
  /\ Status = [c \in Conns |-> Status[c]]
  /\ Status' = [c \in Conns |-> Status'[c]]
BY DEF Status

(* A connection none of whose own state, nor its route, changes keeps its  *)
(* status.                                                                 *)
LEMMA StatusKept ==
  ASSUME NEW d \in Conns, pc'[d] = pc[d],
         Registered(d) => key'[d] = key[d] /\ (table'[key[d]] = d <=> table[key[d]] = d)
  PROVE  Status'[d] = Status[d]
<1>1. Registered(d)' <=> Registered(d)
  BY DEF Registered
<1>2. CASE Registered(d)
  BY <1>1, <1>2, StatusCases, StatusCasesNext
<1>3. CASE ~Registered(d)
  BY <1>1, <1>3, StatusCases, StatusCasesNext
<1> QED
  BY <1>2, <1>3

(* A task that moves without registering changes no route; it is turned    *)
(* away if it leaves before it was a link, and else nothing shows.         *)
LEMMA OffStage ==
  ASSUME RegInv, NEW c \in Conns, NEW l \in Labels, GoTo(c, l), UNCHANGED table,
         ~Registered(c), l \notin {"displace", "serving"},
         pc[c] \in Closed => l \in Closed,
         \A d \in Conns \ {c} : key'[d] = key[d]
  PROVE  Routes!TurnAway(c) \/ UNCHANGED Routes!vars
<1>1. pc' = [pc EXCEPT ![c] = l]
  BY DEF GoTo
<1>2. \A d \in Conns \ {c} : Status'[d] = Status[d]
  <2> SUFFICES ASSUME NEW d \in Conns \ {c} PROVE Status'[d] = Status[d]
    OBVIOUS
  <2>1. pc'[d] = pc[d]
    BY <1>1 DEF RegInv, RegTypes
  <2> QED
    BY <2>1, StatusKept
<1>3. ~Registered(c)' /\ pc'[c] = l
  BY <1>1 DEF RegInv, RegTypes, Registered
<1>4. CASE pc[c] \notin Closed /\ l \in Closed
  <2>1. Status[c] = "new" /\ Status'[c] = "closed"
    BY <1>3, <1>4, StatusCases, StatusCasesNext
  <2>2. Status' = [Status EXCEPT ![c] = "closed"]
    BY <1>2, <2>1, StatusDomain
  <2> QED
    BY <2>1, <2>2 DEF Routes!TurnAway
<1>5. CASE pc[c] \in Closed \/ l \notin Closed
  <2>1. Status'[c] = Status[c]
    BY <1>3, <1>5, StatusCases, StatusCasesNext
  <2>2. Status' = Status
    BY <1>2, <2>1, StatusDomain
  <2> QED
    BY <2>2 DEF Routes!vars
<1> QED
  BY <1>4, <1>5

(* table.insert takes the key over and condemns the link that had it.      *)
LEMMA RegisterTakesOver ==
  ASSUME RegInv, NEW c \in Conns, Register(c)
  PROVE  \E k \in Keys : Routes!TakeOver(c, k)
<1>a. PICK k \in Keys : k = key[c]
  BY DEF Register, RegInv, Keyed
<1>1. /\ pc[c] = "register" /\ table' = [table EXCEPT ![k] = c] /\ UNCHANGED key
      /\ pc' = [pc EXCEPT ![c] = IF table[k] = None THEN "serving" ELSE "displace"]
  BY <1>a DEF Register, GoTo
<1>2. ~Registered(c) /\ Registered(c)' /\ table'[k] = c
  BY <1>1 DEF RegInv, RegTypes, Registered
<1>3. Status[c] = "new" /\ Status'[c] = "routed"
  BY <1>a, <1>1, <1>2, StatusCases, StatusCasesNext DEF Closed
<1>4. ASSUME NEW d \in Conns, d # c, d = table[k]
      PROVE  Status'[d] = "condemned"
  <2>1. Registered(d) /\ key[d] = k
    BY <1>4, NoneApart DEF RegInv, RoutesServed
  <2>2. Registered(d)'
    BY <1>1, <1>4, <2>1 DEF RegInv, RegTypes, Registered
  <2> QED
    BY <1>1, <1>2, <1>4, <2>1, <2>2, StatusCasesNext
<1>5. ASSUME NEW d \in Conns, d # c, d # table[k]
      PROVE  Status'[d] = Status[d]
  <2>1. pc'[d] = pc[d]
    BY <1>1, <1>5 DEF RegInv, RegTypes
  <2>2. ASSUME Registered(d) PROVE table'[key[d]] = d <=> table[key[d]] = d
    <3>1. key[d] \in Keys
      BY <2>2 DEF RegInv, Keyed, Registered
    <3> QED
      BY <1>1, <1>2, <1>5, <3>1 DEF RegInv, RegTypes
  <2> QED
    BY <1>1, <2>1, <2>2, StatusKept
<1>6. Status' = [d \in Conns |-> IF d = c THEN "routed"
                                 ELSE IF d = table[k] THEN "condemned"
                                 ELSE Status[d]]
  BY <1>3, <1>4, <1>5, StatusDomain
<1>7. Routes!TakeOver(c, k)
  BY <1>1, <1>3, <1>6 DEF Routes!TakeOver
<1> QED
  BY <1>7

(* remove_if clears the route of the link that ends, and no other.         *)
LEMMA UnregisterCloses ==
  ASSUME RegInv, NEW c \in Conns, Unregister(c)
  PROVE  Routes!Close(c)
<1>a. PICK k \in Keys : k = key[c]
  BY DEF Unregister, RegInv, Keyed
<1>1. /\ pc[c] = "serving" /\ pc' = [pc EXCEPT ![c] = "unslot"] /\ UNCHANGED key
      /\ table' = IF table[k] = c THEN [table EXCEPT ![k] = None] ELSE table
  BY <1>a DEF Unregister, GoTo
<1>2. Status[c] \in {"routed", "condemned"}
  BY <1>1, StatusCases DEF Registered
<1>3. Status'[c] = "closed"
  BY <1>1, StatusCasesNext DEF RegInv, RegTypes, Closed
<1>4. \A j \in Keys : table[j] = c => j = k
  BY <1>a, NoneApart DEF RegInv, RoutesServed
<1>5. table' = [j \in Keys |-> IF table[j] = c THEN None ELSE table[j]]
  BY <1>1, <1>4 DEF RegInv, RegTypes
<1>6. ASSUME NEW d \in Conns, d # c PROVE Status'[d] = Status[d]
  <2>1. pc'[d] = pc[d]
    BY <1>1, <1>6 DEF RegInv, RegTypes
  <2>2. ASSUME Registered(d) PROVE table'[key[d]] = d <=> table[key[d]] = d
    <3>1. key[d] \in Keys
      BY <2>2 DEF RegInv, Keyed, Registered
    <3> QED
      BY <1>5, <1>6, <3>1, NoneApart DEF RegInv, RegTypes
  <2> QED
    BY <1>1, <2>1, <2>2, StatusKept
<1>7. Status' = [Status EXCEPT ![c] = "closed"]
  BY <1>3, <1>6, StatusDomain
<1> QED
  BY <1>2, <1>5, <1>7 DEF Routes!Close

(* A step that moves nobody in or out of the registered states and leaves  *)
(* the keys and the table alone does not show.                             *)
LEMMA Unseen ==
  ASSUME \A d \in Conns : Registered(d)' <=> Registered(d),
         \A d \in Conns : pc'[d] \in Closed <=> pc[d] \in Closed,
         UNCHANGED <<key, table>>
  PROVE  UNCHANGED Routes!vars
<1>1. \A d \in Conns : Status'[d] = Status[d]
  BY StatusCases, StatusCasesNext
<1>2. Status' = Status
  BY <1>1, StatusDomain
<1> QED
  BY <1>2 DEF Routes!vars

(* Every step is a step of the routing table, or does not show.            *)
LEMMA RouteStep ==
  ASSUME RegInv, [Next]_vars
  PROVE  [Routes!Next]_(Routes!vars)
<1>1. ASSUME NEW c \in Conns, Routes!TurnAway(c) \/ UNCHANGED Routes!vars
      PROVE  [Routes!Next]_(Routes!vars)
  BY <1>1 DEF Routes!Next
<1>2. ASSUME NEW c \in Conns, NEW a \in IPs, Preamble(c, a)
      PROVE  [Routes!Next]_(Routes!vars)
  <2>1. PICK l \in {"admit", "gone"} : GoTo(c, l)
    BY <1>2 DEF Preamble
  <2> QED
    BY <1>1, <1>2, <2>1, OffStage DEF Preamble, Registered, Closed, Labels
<1>3. ASSUME NEW c \in Conns, TakeBudget(c) PROVE [Routes!Next]_(Routes!vars)
  <2>1. PICK l \in {"slot", "gone"} : GoTo(c, l)
    BY <1>3 DEF TakeBudget
  <2> QED
    BY <1>1, <1>3, <2>1, OffStage DEF TakeBudget, Registered, Closed, Labels
<1>4. ASSUME NEW c \in Conns, ClaimSlot(c) PROVE [Routes!Next]_(Routes!vars)
  <2>1. PICK l \in {"handshake", "unbudget"} : GoTo(c, l)
    BY <1>4 DEF ClaimSlot
  <2> QED
    BY <1>1, <1>4, <2>1, OffStage DEF ClaimSlot, Registered, Closed, Labels
<1>5. ASSUME NEW c \in Conns, NEW k \in Keys, Handshake(c, k)
      PROVE  [Routes!Next]_(Routes!vars)
  <2>1. /\ GoTo(c, "register") /\ pc[c] = "handshake" /\ UNCHANGED table
        /\ \A d \in Conns \ {c} : key'[d] = key[d]
    BY <1>5 DEF Handshake, RegInv, RegTypes
  <2> QED
    BY <1>1, <2>1, OffStage DEF Registered, Closed, Labels
<1>6. ASSUME NEW c \in Conns, HandshakeFails(c) PROVE [Routes!Next]_(Routes!vars)
  <2>1. GoTo(c, "unslot") /\ pc[c] = "handshake" /\ UNCHANGED <<key, table>>
    BY <1>6 DEF HandshakeFails
  <2> QED
    BY <1>1, <2>1, OffStage DEF Registered, Closed, Labels
<1>7. ASSUME NEW c \in Conns, DropSlot(c) \/ ReclaimSlot(c) \/ DropBudget(c)
      PROVE  [Routes!Next]_(Routes!vars)
  <2>1. PICK l \in {"reclaim", "unbudget", "gone"} : GoTo(c, l)
    BY <1>7 DEF DropSlot, ReclaimSlot, DropBudget
  <2>2. pc[c] \in {"unslot", "reclaim", "unbudget"} /\ UNCHANGED <<key, table>>
    BY <1>7 DEF DropSlot, ReclaimSlot, DropBudget
  <2> QED
    BY <1>1, <2>1, <2>2, OffStage DEF Registered, Closed, Labels
<1>8. ASSUME NEW c \in Conns, Register(c) PROVE [Routes!Next]_(Routes!vars)
  BY <1>8, RegisterTakesOver DEF Routes!Next
<1>9. ASSUME NEW c \in Conns, Unregister(c) PROVE [Routes!Next]_(Routes!vars)
  BY <1>9, UnregisterCloses DEF Routes!Next
<1>10. ASSUME NEW c \in Conns, Displace(c) PROVE [Routes!Next]_(Routes!vars)
  <2>1. pc[c] = "displace" /\ pc' = [pc EXCEPT ![c] = "serving"] /\ UNCHANGED <<key, table>>
    BY <1>10 DEF Displace, GoTo
  <2>2. \A d \in Conns : /\ Registered(d)' <=> Registered(d)
                         /\ pc'[d] \in Closed <=> pc[d] \in Closed
    BY <2>1 DEF RegInv, RegTypes, Registered, Closed
  <2> QED
    BY <2>1, <2>2, Unseen
<1>11. ASSUME UNCHANGED <<pc, key, table>> PROVE [Routes!Next]_(Routes!vars)
  BY <1>11, Unseen DEF Registered
<1>12. ASSUME NEW c \in Conns, LinkDies(c) \/ LinkAborted(c)
       PROVE  [Routes!Next]_(Routes!vars)
  BY <1>11, <1>12 DEF LinkDies, LinkAborted
<1> QED
  BY <1>2, <1>3, <1>4, <1>5, <1>6, <1>7, <1>8, <1>9, <1>10, <1>11, <1>12
     DEF Next, TaskStep, vars

(* The proxy's registration, with its displaced links and its racing       *)
(* removals (src/lib.rs:238-251), implements the routing table: a key      *)
(* routes to the link that took it over last, and the end of a link clears *)
(* its own route and no other.                                             *)
THEOREM RouteRefinement == Spec => Routes!SafeSpec
<1>1. Init => RegInv
  BY RegInit
<1>2. RegInv /\ [Next]_vars => RegInv'
  BY RegStep
<1>3. Init => Routes!Init
  BY DEF Init, Routes!Init, Status, Registered
<1>4. RegInv /\ [Next]_vars => [Routes!Next]_(Routes!vars)
  BY RouteStep
<1> QED
  BY <1>1, <1>2, <1>3, <1>4, PTL DEF Spec, Routes!SafeSpec
=============================================================================

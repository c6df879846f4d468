-------------------------- MODULE BridgeRegistry --------------------------
(***************************************************************************)
(* Adoption of bridge connections (run_edge, serve and serve_bridge of     *)
(* src/lib.rs): the process-wide budget of links, the per-IP slots with    *)
(* their two-step release (IpSlots), and the routing table, in which a     *)
(* later registration of a key displaces and shuts down the earlier link.  *)
(*                                                                         *)
(* Each connection is served by a task of its own; a step is what the task *)
(* does between two operations on shared maps.  The session it starts is   *)
(* reduced to link[c]; MuxSession models its inside.  Bytes that precede   *)
(* admission touch no shared state, so the peek and the preamble are one   *)
(* step that hands the connection on or drops it.                          *)
(***************************************************************************)
EXTENDS IpSlots, FiniteSets

CONSTANTS
  Conns,       \* non-TLS connections over the life of the process
  Keys,
  MaxBridges,  \* Limits.max_bridges
  MaxPerIp,    \* Limits.max_bridges_per_ip
  None

ASSUME ConnsFinite == IsFiniteSet(Conns)
ASSUME NoneApart == None \notin Conns \cup Keys \cup IPs
ASSUME CeilingsPositive == MaxBridges \in Nat \ {0} /\ MaxPerIp \in Nat \ {0}

VARIABLES
  pc,      \* connection -> where its task is
  ip, key, \* connection -> its peer address, the key its handshake proved
  prev,    \* connection -> the link it displaced and has not shut down yet
  link,    \* connection -> its MuxSession: none, live, aborted or dead
  budget,  \* free permits of the process-wide budget
  table    \* key -> the connection whose session is in the table, or None

vars == <<pc, ip, key, prev, link, budget, perIp, table>>

TypeOK ==
  /\ pc \in [Conns -> {"accepted", "admit", "slot", "handshake", "register", "displace",
                       "serving", "unslot", "reclaim", "unbudget", "gone"}]
  /\ ip \in [Conns -> IPs \cup {None}]
  /\ key \in [Conns -> Keys \cup {None}]
  /\ prev \in [Conns -> Conns \cup {None}]
  /\ link \in [Conns -> {"none", "live", "aborted", "dead"}]
  /\ budget \in 0 .. MaxBridges
  /\ perIp \in [IPs -> {Absent} \cup 0 .. MaxPerIp]
  /\ table \in [Keys -> Conns \cup {None}]

Init ==
  /\ pc = [c \in Conns |-> "accepted"]
  /\ ip = [c \in Conns |-> None]
  /\ key = [c \in Conns |-> None]
  /\ prev = [c \in Conns |-> None]
  /\ link = [c \in Conns |-> "none"]
  /\ budget = MaxBridges
  /\ perIp = [a \in IPs |-> Absent]
  /\ table = [k \in Keys |-> None]

GoTo(c, l) == pc' = [pc EXCEPT ![c] = l]

-----------------------------------------------------------------------------
(* run_edge and serve: the first byte and the preamble, each under         *)
(* PREAMBLE_TIMEOUT; a wrong version or magic is dropped.                  *)
Preamble(c, a) ==
  /\ pc[c] = "accepted"
  /\ ip' = [ip EXCEPT ![c] = a]
  /\ GoTo(c, "admit") \/ GoTo(c, "gone")
  /\ UNCHANGED <<key, prev, link, budget, perIp, table>>

(* budget.try_acquire_owned                                                *)
TakeBudget(c) ==
  /\ pc[c] = "admit"
  /\ \/ budget > 0 /\ budget' = budget - 1 /\ GoTo(c, "slot")
     \/ budget = 0 /\ UNCHANGED budget /\ GoTo(c, "gone")
  /\ UNCHANGED <<ip, key, prev, link, perIp, table>>

(* Mutant: the ceiling is off by one. *)
ClaimSlotOneMore(c) ==
  /\ pc[c] = "slot"
  /\ \/ Claim(ip[c], MaxPerIp + 1) /\ GoTo(c, "handshake")
     \/ Refuse(ip[c], MaxPerIp + 1) /\ GoTo(c, "unbudget")
  /\ UNCHANGED <<ip, key, prev, link, budget, table>>

(* Mutant: a connection refused its slot forgets its permit. *)
ClaimSlotLeaks(c) ==
  /\ pc[c] = "slot"
  /\ \/ Claim(ip[c], MaxPerIp) /\ GoTo(c, "handshake")
     \/ Refuse(ip[c], MaxPerIp) /\ GoTo(c, "gone")
  /\ UNCHANGED <<ip, key, prev, link, budget, table>>

(* A refused slot drops the permit taken just before.                      *)
ClaimSlot(c) ==
  /\ pc[c] = "slot"
  /\ \/ Claim(ip[c], MaxPerIp) /\ GoTo(c, "handshake")
     \/ Refuse(ip[c], MaxPerIp) /\ GoTo(c, "unbudget")
  /\ UNCHANGED <<ip, key, prev, link, budget, table>>

(* noise::xx_respond under handshake_timeout, and MuxSession::start.       *)
Handshake(c, k) ==
  /\ pc[c] = "handshake"
  /\ key' = [key EXCEPT ![c] = k]
  /\ link' = [link EXCEPT ![c] = "live"]
  /\ GoTo(c, "register")
  /\ UNCHANGED <<ip, prev, budget, perIp, table>>

HandshakeFails(c) ==
  /\ pc[c] = "handshake"
  /\ GoTo(c, "unslot")
  /\ UNCHANGED <<ip, key, prev, link, budget, perIp, table>>

(* table.insert returns the session it displaces.                          *)
Register(c) ==
  /\ pc[c] = "register"
  /\ table' = [table EXCEPT ![key[c]] = c]
  /\ prev' = [prev EXCEPT ![c] = table[key[c]]]
  /\ GoTo(c, IF table[key[c]] = None THEN "serving" ELSE "displace")
  /\ UNCHANGED <<ip, key, link, budget, perIp>>

(* Mutant: the displaced session is forgotten instead of shut down. *)
DisplaceForgets(c) ==
  /\ pc[c] = "displace"
  /\ prev' = [prev EXCEPT ![c] = None]
  /\ GoTo(c, "serving")
  /\ UNCHANGED <<ip, key, link, budget, perIp, table>>

(* previous.shutdown(): aborts both of its tasks.                          *)
Displace(c) ==
  /\ pc[c] = "displace"
  /\ link' = [link EXCEPT ![prev[c]] = IF @ = "live" THEN "aborted" ELSE @]
  /\ prev' = [prev EXCEPT ![c] = None]
  /\ GoTo(c, "serving")
  /\ UNCHANGED <<ip, key, budget, perIp, table>>

(* The bridge hangs up, falls silent or misbehaves: read_loop returns.     *)
LinkDies(c) ==
  /\ link[c] = "live"
  /\ link' = [link EXCEPT ![c] = "dead"]
  /\ UNCHANGED <<pc, ip, key, prev, budget, perIp, table>>

(* The aborted tasks are dropped, which closes the socket.                 *)
LinkAborted(c) ==
  /\ link[c] = "aborted"
  /\ link' = [link EXCEPT ![c] = "dead"]
  /\ UNCHANGED <<pc, ip, key, prev, budget, perIp, table>>

(* Mutant: the entry is removed whoever owns it. *)
UnregisterAnyone(c) ==
  /\ pc[c] = "serving" /\ link[c] = "dead"
  /\ table' = [table EXCEPT ![key[c]] = None]
  /\ GoTo(c, "unslot")
  /\ UNCHANGED <<ip, key, prev, link, budget, perIp>>

(* Mutant: the entry is left to the next registration. *)
UnregisterKeeps(c) ==
  /\ pc[c] = "serving" /\ link[c] = "dead"
  /\ GoTo(c, "unslot")
  /\ UNCHANGED <<ip, key, prev, link, budget, perIp, table>>

(* Mutant: the task insists on removing an entry of its own. *)
UnregisterInsists(c) ==
  /\ pc[c] = "serving" /\ link[c] = "dead" /\ table[key[c]] = c
  /\ table' = [table EXCEPT ![key[c]] = None]
  /\ GoTo(c, "unslot")
  /\ UNCHANGED <<ip, key, prev, link, budget, perIp>>

(* done.await resolves; remove_if drops the entry only while it is ours.   *)
Unregister(c) ==
  /\ pc[c] = "serving" /\ link[c] = "dead"
  /\ table' = IF table[key[c]] = c THEN [table EXCEPT ![key[c]] = None] ELSE table
  /\ GoTo(c, "unslot")
  /\ UNCHANGED <<ip, key, prev, link, budget, perIp>>

(* Every way out drops _per_ip first, in its two steps.                    *)
DropSlot(c) ==
  /\ pc[c] = "unslot"
  /\ Release(ip[c])
  /\ GoTo(c, "reclaim")
  /\ UNCHANGED <<ip, key, prev, link, budget, table>>

(* Mutant: the second half removes the entry unconditionally. *)
ReclaimSlotAlways(c) ==
  /\ pc[c] = "reclaim"
  /\ perIp' = [perIp EXCEPT ![ip[c]] = Absent]
  /\ GoTo(c, "unbudget")
  /\ UNCHANGED <<ip, key, prev, link, budget, table>>

(* Mutant: there is no second half. *)
ReclaimSlotNever(c) ==
  /\ pc[c] = "reclaim"
  /\ GoTo(c, "unbudget")
  /\ UNCHANGED <<ip, key, prev, link, budget, perIp, table>>

ReclaimSlot(c) ==
  /\ pc[c] = "reclaim"
  /\ Reclaim(ip[c])
  /\ GoTo(c, "unbudget")
  /\ UNCHANGED <<ip, key, prev, link, budget, table>>

(* _slots was declared first and is dropped last.                          *)
DropBudget(c) ==
  /\ pc[c] = "unbudget"
  /\ budget' = budget + 1
  /\ GoTo(c, "gone")
  /\ UNCHANGED <<ip, key, prev, link, perIp, table>>

TaskStep(c) ==
  \/ TakeBudget(c) \/ ClaimSlot(c) \/ Register(c) \/ Displace(c)
  \/ Unregister(c) \/ DropSlot(c) \/ ReclaimSlot(c) \/ DropBudget(c)

Next ==
  \E c \in Conns :
    \/ TaskStep(c)
    \/ \E a \in IPs : Preamble(c, a)
    \/ \E k \in Keys : Handshake(c, k)
    \/ HandshakeFails(c) \/ LinkDies(c) \/ LinkAborted(c)

Spec == Init /\ [][Next]_vars

(* tokio runs every ready task and drops every aborted one; the preamble   *)
(* and the handshake are under timeouts.  A live link need never die.      *)
Fairness ==
  \A c \in Conns :
    /\ WF_vars(TaskStep(c)) /\ WF_vars(LinkAborted(c))
    /\ WF_vars(\E a \in IPs : Preamble(c, a))
    /\ WF_vars(HandshakeFails(c) \/ \E k \in Keys : Handshake(c, k))

LiveSpec == Spec /\ Fairness

-----------------------------------------------------------------------------
HasBudget(c) == pc[c] \in {"slot", "handshake", "register", "displace", "serving",
                           "unslot", "reclaim", "unbudget"}
HasSlot(c) == pc[c] \in {"handshake", "register", "displace", "serving", "unslot"}
Registered(c) == pc[c] \in {"displace", "serving"}

(* Permits free and permits held add up: the process never holds more than *)
(* max_bridges links and no way out of serve_bridge leaks a permit.        *)
BudgetExact == budget + Cardinality({c \in Conns : HasBudget(c)}) = MaxBridges

(* "the count cannot drift from reality" (src/lib.rs:81): whatever claims  *)
(* race the two steps of a release, an address's count is the number of    *)
(* its connections that hold a slot.                                       *)
SlotsExact ==
  \A a \in IPs : SlotCount(a) = Cardinality({c \in Conns : HasSlot(c) /\ ip[c] = a})

(* "the map tracks live peers rather than every address the process has    *)
(* ever seen" (src/lib.rs:112): a zero entry is about to be reclaimed.     *)
ZerosReclaimed ==
  \A a \in IPs : perIp[a] = 0 => \E c \in Conns : pc[c] = "reclaim" /\ ip[c] = a

(* No phantom route: the table names only a connection whose task is still *)
(* there to remove it, under the key that connection proved.               *)
RoutesServed ==
  \A k \in Keys : table[k] # None => Registered(table[k]) /\ key[table[k]] = k

(* No stranded link (src/lib.rs:238-245): a registered link that is still  *)
(* live has its route, or the connection that took the route is about to   *)
(* shut it down.                                                           *)
NoStrandedLink ==
  \A c \in Conns :
    Registered(c) /\ link[c] = "live"
      => table[key[c]] = c \/ \E d \in Conns : pc[d] = "displace" /\ prev[d] = c

(* Both admission resources come back once a link is dead.                 *)
SlotsReturn == \A c \in Conns : link[c] = "dead" ~> pc[c] = "gone"

(* The registration implements the routing table of RouteTable, takeover   *)
(* and condemnation included.                                              *)
Status ==
  [c \in Conns |->
     IF Registered(c) THEN IF table[key[c]] = c THEN "routed" ELSE "condemned"
     ELSE IF pc[c] \in {"unslot", "reclaim", "unbudget", "gone"} THEN "closed"
     ELSE "new"]
Routes == INSTANCE RouteTable WITH route <- table, status <- Status
ImplementsRouteTable == Routes!Spec
=============================================================================

---------------------------- MODULE ClientEdge ----------------------------
(***************************************************************************)
(* The TLS branch of run_edge (src/lib.rs) and Edge::serve, handle and     *)
(* tunnel (src/edge.rs): one per-IP slot per client connection, shared by  *)
(* the task that serves HTTP on it and the tunnel task an upgrade spawns,  *)
(* and given back when the last of the two lets go.                        *)
(*                                                                         *)
(* The tunnel ends in serve_client, whose splice appears here as far as it *)
(* keeps the phone's socket: its downlink ends with the stream, but the    *)
(* uplink it spawned is detached and lives on.  MuxSession models the      *)
(* stream and the link; here the bridge may evict the stream at any time,  *)
(* and credit and room in the outbox may or may not ever come (the run     *)
(* MuxFuturelock shows that they need not).  Requests that are not an      *)
(* upgrade (/health, 404, 400) are answered and change nothing.  What a    *)
(* phone sent before it left may still arrive, so leaving disables nothing.*)
(***************************************************************************)
EXTENDS IpSlots, FiniteSets

CONSTANTS
  Conns,     \* connections whose first byte the accept loop waits for
  MaxPerIp   \* Limits.max_clients_per_ip

ASSUME ConnsFinite == IsFiniteSet(Conns)
ASSUME CeilingPositive == MaxPerIp \in Nat \ {0}

VARIABLES
  ip,      \* connection -> peer address
  phone,   \* connection -> on, hung up (gone), or vanished without a word (mute)
  conn,    \* connection -> where the task of run_edge and Edge::serve is
  tun,     \* connection -> where the tunnel task is
  uplink,  \* connection -> where the uplink task of the splice is
  evicted, \* connection -> its stream was closed from the bridge's side
  refs,    \* connection -> references to its Arc<IpSlot>
  slot     \* connection -> none, held, or the two steps of its release

taskVars == <<conn, tun, uplink>>
slotVars == <<refs, slot, perIp>>
vars == <<ip, phone, taskVars, evicted, slotVars>>

TypeOK ==
  /\ ip \in [Conns -> IPs]
  /\ phone \in [Conns -> {"on", "gone", "mute"}]
  /\ conn \in [Conns -> {"accepted", "claim", "tls", "http", "handed", "passed", "done"}]
  /\ tun \in [Conns -> {"none", "upgrade", "head", "serve", "splice", "closing", "done"}]
  /\ uplink \in [Conns -> {"none", "read", "credit", "outbox", "end"}]
  /\ evicted \in [Conns -> BOOLEAN]
  /\ refs \in [Conns -> 0 .. 2]
  /\ slot \in [Conns -> {"none", "held", "unslot", "reclaim", "free"}]
  /\ perIp \in [IPs -> {Absent} \cup 0 .. MaxPerIp]

Init ==
  /\ ip \in [Conns -> IPs]
  /\ phone = [c \in Conns |-> "on"]
  /\ conn = [c \in Conns |-> "accepted"]
  /\ tun = [c \in Conns |-> "none"]
  /\ uplink = [c \in Conns |-> "none"]
  /\ evicted = [c \in Conns |-> FALSE]
  /\ refs = [c \in Conns |-> 0]
  /\ slot = [c \in Conns |-> "none"]
  /\ perIp = [a \in IPs |-> Absent]

ConnTo(c, l) == conn' = [conn EXCEPT ![c] = l]
TunTo(c, l) == tun' = [tun EXCEPT ![c] = l]
UplinkTo(c, l) == uplink' = [uplink EXCEPT ![c] = l]

(* Mutant: every holder of the slot releases it. *)
DropRefEach(c) ==
  /\ refs' = [refs EXCEPT ![c] = @ - 1]
  /\ slot' = [slot EXCEPT ![c] = "unslot"]

(* Dropping an Arc<IpSlot>: the last one runs Drop for IpSlot.             *)
DropRef(c) ==
  /\ refs' = [refs EXCEPT ![c] = @ - 1]
  /\ slot' = [slot EXCEPT ![c] = IF refs[c] = 1 THEN "unslot" ELSE @]

-----------------------------------------------------------------------------
(* run_edge, after accept: the first byte, under PREAMBLE_TIMEOUT, sends a *)
(* TLS client on to its claim; anything else is not a client.              *)
Peek(c) ==
  /\ conn[c] = "accepted"
  /\ ConnTo(c, "claim") \/ ConnTo(c, "done")
  /\ UNCHANGED <<ip, phone, tun, uplink, evicted, slotVars>>

(* Claimed before the handshake.                                           *)
ClaimSlot(c) ==
  /\ conn[c] = "claim"
  /\ \/ /\ Claim(ip[c], MaxPerIp)
        /\ refs' = [refs EXCEPT ![c] = 1]
        /\ slot' = [slot EXCEPT ![c] = "held"]
        /\ ConnTo(c, "tls")
     \/ /\ Refuse(ip[c], MaxPerIp)
        /\ ConnTo(c, "done")
        /\ UNCHANGED <<refs, slot>>
  /\ UNCHANGED <<ip, phone, tun, uplink, evicted>>

-----------------------------------------------------------------------------
(* Edge::serve: the TLS handshake, then HTTP/1.1.  Neither has a timeout.  *)
TlsAccept(c) ==
  /\ conn[c] = "tls"
  /\ ConnTo(c, "http")
  /\ UNCHANGED <<ip, phone, tun, uplink, evicted, slotVars>>

(* Mutant: the tunnel task is not given a share of the slot. *)
UpgradeWithoutSlot(c) ==
  /\ conn[c] = "http" /\ tun[c] = "none"
  /\ TunTo(c, "upgrade")
  /\ UNCHANGED <<ip, phone, conn, uplink, evicted, slotVars>>

(* handle and tunnel: an upgrade on /tunnel spawns the tunnel task with a  *)
(* clone of the slot and answers 101.                                      *)
Upgrade(c) ==
  /\ conn[c] = "http" /\ tun[c] = "none"
  /\ TunTo(c, "upgrade")
  /\ refs' = [refs EXCEPT ![c] = @ + 1]
  /\ UNCHANGED <<ip, phone, conn, uplink, evicted, slot, perIp>>

(* hyper has written the 101 and hands the socket to the tunnel task.      *)
HandOver(c) ==
  /\ conn[c] = "http" /\ tun[c] = "upgrade"
  /\ ConnTo(c, "handed")
  /\ UNCHANGED <<ip, phone, tun, uplink, evicted, slotVars>>

ServeReturns(c) ==
  /\ conn[c] = "handed"
  /\ ConnTo(c, "passed")
  /\ DropRef(c)
  /\ UNCHANGED <<ip, phone, tun, uplink, evicted, perIp>>

(* A failed handshake, a malformed request, the end of the connection, or  *)
(* an answer that cannot be written: the service and the socket go.        *)
ServeEnds(c) ==
  /\ conn[c] \in {"tls", "http"}
  /\ ConnTo(c, "done")
  /\ DropRef(c)
  /\ UNCHANGED <<ip, phone, tun, uplink, evicted, perIp>>

-----------------------------------------------------------------------------
(* The tunnel task.                                                        *)

TunnelReturns(c) == TunTo(c, "done") /\ DropRef(c)

(* upgraded.await fails when hyper drops the upgrade instead, before or    *)
(* with the end of its connection.                                         *)
Upgraded(c) ==
  /\ tun[c] = "upgrade"
  /\ \/ conn[c] \in {"handed", "passed"} /\ TunTo(c, "head") /\ UNCHANGED <<refs, slot>>
     \/ conn[c] \in {"http", "done"} /\ TunnelReturns(c)
  /\ UNCHANGED <<ip, phone, conn, uplink, evicted, perIp>>

(* Mutant: read_exact is awaited without a timeout. *)
HeadWaits(c) ==
  /\ tun[c] = "head" /\ phone[c] # "mute"
  /\ \/ TunTo(c, "serve") /\ UNCHANGED <<refs, slot>>
     \/ TunnelReturns(c)
  /\ UNCHANGED <<ip, phone, conn, uplink, evicted, perIp>>

(* The preamble: read whole and right, or a wrong magic or version, the    *)
(* end of the stream, or PREAMBLE_TIMEOUT.                                 *)
Head(c) ==
  /\ tun[c] = "head"
  /\ \/ TunTo(c, "serve") /\ UNCHANGED <<refs, slot>>
     \/ TunnelReturns(c)
  /\ UNCHANGED <<ip, phone, conn, uplink, evicted, perIp>>

(* serve_client: no such bridge, a full one or a dead link refuse; else    *)
(* OPEN and the head went through the outbox, the splice starts and the    *)
(* uplink is spawned.                                                      *)
ServeClient(c) ==
  /\ tun[c] = "serve"
  /\ \/ TunTo(c, "splice") /\ UplinkTo(c, "read") /\ UNCHANGED <<refs, slot>>
     \/ TunnelReturns(c) /\ UNCHANGED uplink
  /\ UNCHANGED <<ip, phone, conn, evicted, perIp>>

(* The uplink reads from the phone, waits for the stream's credit and then *)
(* for room in the outbox, once for each MAX_PAYLOAD of what it read.      *)
UplinkParks(c) ==
  /\ uplink[c] = "read"
  /\ UplinkTo(c, "credit")
  /\ UNCHANGED <<ip, phone, conn, tun, evicted, slotVars>>

UplinkGranted(c) ==
  /\ uplink[c] = "credit" /\ ~evicted[c]
  /\ UplinkTo(c, "outbox")
  /\ UNCHANGED <<ip, phone, conn, tun, evicted, slotVars>>

(* The frame is queued, or the link is dead and the uplink ends.           *)
UplinkPushed(c) ==
  /\ uplink[c] = "outbox"
  /\ \E l \in {"read", "credit", "end"} : UplinkTo(c, l)
  /\ UNCHANGED <<ip, phone, conn, tun, evicted, slotVars>>

(* It ends when it reads the phone's hang-up, or sends on a stream whose   *)
(* gate the eviction closed.                                               *)
UplinkEnds(c) ==
  /\ \/ uplink[c] = "read" /\ phone[c] = "gone"
     \/ uplink[c] = "credit" /\ evicted[c]
  /\ UplinkTo(c, "end")
  /\ UNCHANGED <<ip, phone, conn, tun, evicted, slotVars>>

(* The bridge's CLOSE, an overflow or a sweep takes the stream.            *)
Evict(c) ==
  /\ tun[c] = "splice" /\ ~evicted[c]
  /\ evicted' = [evicted EXCEPT ![c] = TRUE]
  /\ UNCHANGED <<ip, phone, taskVars, slotVars>>

(* select!: the uplink ended, or the downlink did (its inbox ended, or a   *)
(* write failed).  The uplink is left to itself.                           *)
SpliceEnds(c) ==
  /\ tun[c] = "splice"
  /\ uplink[c] = "end" \/ evicted[c] \/ phone[c] # "on"
  /\ TunTo(c, "closing")
  /\ UNCHANGED <<ip, phone, conn, uplink, evicted, slotVars>>

(* tx.close().await got its CLOSE into the outbox or found the link dead;  *)
(* serve_client returns.                                                   *)
CloseReturns(c) ==
  /\ tun[c] = "closing"
  /\ TunnelReturns(c)
  /\ UNCHANGED <<ip, phone, conn, uplink, evicted, perIp>>

-----------------------------------------------------------------------------
(* Drop for IpSlot, in the task that dropped the last reference.           *)
DropSlot(c) ==
  /\ slot[c] = "unslot"
  /\ Release(ip[c])
  /\ slot' = [slot EXCEPT ![c] = "reclaim"]
  /\ UNCHANGED <<ip, phone, taskVars, evicted, refs>>

ReclaimSlot(c) ==
  /\ slot[c] = "reclaim"
  /\ Reclaim(ip[c])
  /\ slot' = [slot EXCEPT ![c] = "free"]
  /\ UNCHANGED <<ip, phone, taskVars, evicted, refs>>

(* A phone hangs up, or leaves its network without a word.                 *)
PhoneLeaves(c) ==
  /\ phone[c] = "on"
  /\ phone' \in {[phone EXCEPT ![c] = how] : how \in {"gone", "mute"}}
  /\ UNCHANGED <<ip, taskVars, evicted, slotVars>>

TaskStep(c) ==
  \/ Peek(c) \/ ClaimSlot(c) \/ HandOver(c) \/ ServeReturns(c)
  \/ Upgraded(c) \/ Head(c) \/ ServeClient(c)
  \/ DropSlot(c) \/ ReclaimSlot(c)

Next ==
  \E c \in Conns :
    \/ TaskStep(c) \/ TlsAccept(c) \/ Upgrade(c) \/ ServeEnds(c)
    \/ UplinkParks(c) \/ UplinkGranted(c) \/ UplinkPushed(c) \/ UplinkEnds(c)
    \/ SpliceEnds(c) \/ CloseReturns(c) \/ Evict(c) \/ PhoneLeaves(c)

Spec == Init /\ [][Next]_vars

(***************************************************************************)
(* Fairness: tokio runs every ready task; the peek and the preamble are    *)
(* under timeouts; a socket reports the hang-up of its phone to the task   *)
(* that reads it, after the finitely many bytes the phone had sent (SF).   *)
(* The end of the splice is sure once the uplink ended, not when only a    *)
(* write could notice that the phone is gone.  Nothing makes a bridge      *)
(* grant credit or the outbox move, so the steps that wait for them        *)
(* (ServeClient, UplinkGranted, UplinkPushed, CloseReturns) are not fair.  *)
(***************************************************************************)
Fairness ==
  \A c \in Conns :
    /\ WF_vars(HandOver(c)) /\ WF_vars(ServeReturns(c)) /\ WF_vars(Peek(c) \/ ClaimSlot(c))
    /\ WF_vars(Upgraded(c) /\ conn[c] # "http") /\ WF_vars(Head(c))
    /\ WF_vars(DropSlot(c) \/ ReclaimSlot(c))
    /\ WF_vars(ServeEnds(c) /\ phone[c] = "gone")
    /\ SF_vars(UplinkEnds(c))
    /\ WF_vars(SpliceEnds(c) /\ uplink[c] = "end")

LiveSpec == Spec /\ Fairness

-----------------------------------------------------------------------------
Serving(c) == conn[c] \in {"tls", "http", "handed"}
Tunnelling(c) == tun[c] \in {"upgrade", "head", "serve", "splice", "closing"}
Uses(c) == Serving(c) \/ Tunnelling(c)
SocketOpen(c) == Uses(c) \/ uplink[c] \in {"read", "credit", "outbox"}

(* "Same guard, same drift-free accounting" (src/lib.rs:85): in whatever   *)
(* order the HTTP task and the tunnel task of a connection let go, an      *)
(* address's count is the number of its connections one of them still      *)
(* serves, or that are in the act of giving the slot back.                 *)
ClientSlotsExact ==
  \A a \in IPs :
    SlotCount(a) = Cardinality({c \in Conns : ip[c] = a /\ (Uses(c) \/ slot[c] = "unslot")})

(* Awaits that only the link or its bridge can end: for OPEN, the head,    *)
(* DATA or CLOSE to get into the outbox, or for credit behind an open gate.*)
AwaitsLink(c) ==
  \/ tun[c] \in {"serve", "closing"} \/ uplink[c] = "outbox"
  \/ uplink[c] = "credit" /\ ~evicted[c]

(* What no timeout and no write watches when the phone says nothing: the   *)
(* handshake and HTTP (src/edge.rs:62), and the read of a quiet splice.    *)
Unwatched(c) ==
  phone[c] = "mute" /\ (conn[c] \in {"tls", "http"} \/ uplink[c] = "read")

Released(c) ==
  ~SocketOpen(c) /\ slot[c] \in {"none", "free"} /\ conn[c] \in {"passed", "done"}

(* A phone that hangs up or vanishes, wherever its connection was, gives   *)
(* its slot and its socket back and ends its tasks, or else some task of   *)
(* it waits from then on for a link that does not move (MuxFuturelock: a   *)
(* CLOSE behind an abandoned grant; src/lib.rs:288: credit that the bridge *)
(* withholds) or for a phone that left without a word.                     *)
HangupReleases ==
  \A c \in Conns :
    phone[c] # "on" ~> (Released(c) \/ [](AwaitsLink(c) \/ Unwatched(c)))
=============================================================================

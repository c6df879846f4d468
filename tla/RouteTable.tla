---------------------------- MODULE RouteTable ----------------------------
(***************************************************************************)
(* What the proxy promises of its routing table: a key routes to the link  *)
(* that took it over last, a link that lost its key is condemned and       *)
(* closes, and the end of a link clears its own route and no other.        *)
(***************************************************************************)
CONSTANTS Conns, Keys, None

VARIABLES route,   \* key -> the link phones naming it are spliced onto
          status   \* link -> "new", "routed", "condemned" or "closed"

vars == <<route, status>>

Init ==
  /\ route = [k \in Keys |-> None]
  /\ status = [c \in Conns |-> "new"]

TakeOver(c, k) ==
  /\ status[c] = "new"
  /\ route' = [route EXCEPT ![k] = c]
  /\ status' = [d \in Conns |-> IF d = c THEN "routed"
                                ELSE IF d = route[k] THEN "condemned"
                                ELSE status[d]]

Close(c) ==
  /\ status[c] \in {"routed", "condemned"}
  /\ status' = [status EXCEPT ![c] = "closed"]
  /\ route' = [k \in Keys |-> IF route[k] = c THEN None ELSE route[k]]

(* A connection that never becomes a link.                                 *)
TurnAway(c) ==
  /\ status[c] = "new"
  /\ status' = [status EXCEPT ![c] = "closed"]
  /\ UNCHANGED route

Next ==
  \E c \in Conns : Close(c) \/ TurnAway(c) \/ \E k \in Keys : TakeOver(c, k)

SafeSpec == Init /\ [][Next]_vars

(* A condemned link closes; a routed one may serve for ever.               *)
Fairness == \A c \in Conns : WF_vars(status[c] = "condemned" /\ Close(c))

Spec == SafeSpec /\ Fairness
=============================================================================

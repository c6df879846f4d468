---------------------------- MODULE FramePipe ----------------------------
(***************************************************************************)
(* What one direction of a bridge link promises the mux above it: frames   *)
(* come out in the order they went in, each at most once and none that     *)
(* never went in, until the link breaks for good.                          *)
(***************************************************************************)
EXTENDS Integers, Sequences

CONSTANT Values
VARIABLES sent, delivered, open
vars == <<sent, delivered, open>>

Init == sent = << >> /\ delivered = << >> /\ open = TRUE

Send(v) == sent' = Append(sent, v) /\ UNCHANGED <<delivered, open>>

Deliver ==
  /\ open /\ Len(delivered) < Len(sent)
  /\ delivered' = Append(delivered, sent[Len(delivered) + 1])
  /\ UNCHANGED <<sent, open>>

Break == open /\ open' = FALSE /\ UNCHANGED <<sent, delivered>>

Next == (\E v \in Values : Send(v)) \/ Deliver \/ Break

Spec == Init /\ [][Next]_vars
=============================================================================

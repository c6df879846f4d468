------------------------ MODULE FlowControl_proofs ------------------------
(***************************************************************************)
(* Theorems about FlowControl, for every window, payload, threshold and    *)
(* inbox capacity the assumptions allow.                                   *)
(***************************************************************************)
EXTENDS FlowControl, TLAPS

(* What the downlink holds, wherever it is.                                *)
DownTotal == bCredit + inBytes + chunk + pending + granting

(* An overflow loses its frame, so after it only the bound is left.        *)
DownBounded == DownTotal <= WINDOW

(* The inbox's frames and bytes agree.                                     *)
InboxFits == Fits(inFrames, inBytes)

Inv == TypeOK /\ DownConserved /\ DownBounded /\ UpConserved /\ InboxFits

(* One more frame of n bytes, and one less, leave a queue that fits.       *)
LEMMA FitsMore ==
  ASSUME NEW f \in Nat, NEW b \in Nat, NEW n \in MinFrame .. MAX_PAYLOAD, Fits(f, b)
  PROVE  Fits(f + 1, b + n)
<1>1. MinFrame \in Nat /\ MAX_PAYLOAD \in Nat /\ n \in Nat
  BY Sizes
<1>2. (f + 1) * MinFrame = f * MinFrame + MinFrame
  BY <1>1
<1>3. (f + 1) * MAX_PAYLOAD = f * MAX_PAYLOAD + MAX_PAYLOAD
  BY <1>1
<1>4. f * MinFrame \in Nat /\ f * MAX_PAYLOAD \in Nat
  BY <1>1
<1> QED
  BY <1>1, <1>2, <1>3, <1>4 DEF Fits

(* The initial state satisfies the invariant.                              *)
LEMMA InvInit ==
  ASSUME Init
  PROVE  Inv
<1>1. WINDOW \in Nat /\ INBOX_FRAMES \in Nat /\ MAX_PAYLOAD \in Nat /\ HEAD_LEN \in Nat
      /\ MinFrame \in Nat /\ HEAD_LEN <= WINDOW
  BY Sizes
<1>2. InboxFits
  BY <1>1 DEF Init, InboxFits, Fits
<1> QED
  BY <1>1, <1>2 DEF Init, Inv, TypeOK, DownConserved, DownBounded, DownTotal, UpConserved

(* Every step keeps it.                                                    *)
LEMMA InvStep ==
  ASSUME Inv, [Next]_vars
  PROVE  Inv'
<1> USE DEF Inv
<1>0. /\ WINDOW \in Nat /\ INBOX_FRAMES \in Nat /\ MAX_PAYLOAD \in Nat
      /\ MinFrame \in Nat /\ MinFrame >= 1 /\ GRANT_THRESHOLD \in Nat
      /\ MAX_PAYLOAD <= WINDOW
  BY Sizes, ThresholdLeavesAPayload
<1>1. ASSUME NEW n \in MinFrame .. MAX_PAYLOAD, RecvData(n)
      PROVE  Inv'
  <2>0. n \in Nat /\ n >= 1
    BY <1>0
  <2>a. open /\ n <= bCredit /\ bCredit' = bCredit - n
    BY <1>1 DEF RecvData
  <2>b. UNCHANGED <<chunk, pending, granting, upVars>>
    BY <1>1 DEF RecvData
  <2>c. \/ /\ inFrames < INBOX_FRAMES
           /\ inFrames' = inFrames + 1 /\ inBytes' = inBytes + n
           /\ UNCHANGED open
        \/ /\ inFrames = INBOX_FRAMES
           /\ open' = FALSE
           /\ UNCHANGED <<inFrames, inBytes>>
    BY <1>1 DEF RecvData
  <2>1. ASSUME inFrames < INBOX_FRAMES, inFrames' = inFrames + 1, inBytes' = inBytes + n,
               UNCHANGED open
        PROVE  Inv'
    <3>1. InboxFits'
      BY <2>0, <2>1, FitsMore DEF InboxFits, TypeOK, Fits
    <3> QED
      BY <1>0, <2>0, <2>a, <2>b, <2>1, <3>1
         DEF TypeOK, DownConserved, DownBounded, DownTotal, UpConserved, upVars
  <2>2. ASSUME open' = FALSE, UNCHANGED <<inFrames, inBytes>>
        PROVE  Inv'
    <3>1. DownConserved'
      BY <2>2 DEF DownConserved
    <3>2. open' \in BOOLEAN
      BY <2>2
    <3>3. TypeOK'
      BY <1>0, <2>0, <2>a, <2>b, <2>2, <3>2 DEF TypeOK, upVars
    <3>4. DownBounded'
      BY <1>0, <2>0, <2>a, <2>b, <2>2 DEF TypeOK, DownBounded, DownTotal
    <3> QED
      BY <2>b, <2>2, <3>1, <3>3, <3>4 DEF UpConserved, InboxFits, Fits, upVars
  <2> QED
    BY <2>c, <2>1, <2>2
<1>2. ASSUME NEW n \in MinFrame .. MAX_PAYLOAD, DownlinkRecv(n)
      PROVE  Inv'
  <2>0. n \in Nat /\ n >= 1
    BY <1>0
  <2>1. InboxFits'
    BY <1>2 DEF DownlinkRecv, InboxFits, Fits
  <2> QED
    BY <1>0, <1>2, <2>0, <2>1
       DEF DownlinkRecv, TypeOK, DownConserved, DownBounded, DownTotal, UpConserved, upVars
<1>3. ASSUME DownlinkWrite
      PROVE  Inv'
  BY <1>0, <1>3 DEF DownlinkWrite, TypeOK, DownConserved, DownBounded, DownTotal,
                    UpConserved, InboxFits, Fits, upVars
<1>4. ASSUME DownlinkGrant
      PROVE  Inv'
  BY <1>0, <1>4 DEF DownlinkGrant, GrantDue, TypeOK, DownConserved, DownBounded, DownTotal,
                    UpConserved, InboxFits, Fits, upVars
<1>5. ASSUME NEW n \in 1 .. WINDOW, BridgeCredited(n)
      PROVE  Inv'
  BY <1>0, <1>5 DEF BridgeCredited, TypeOK, DownConserved, DownBounded, DownTotal,
                    UpConserved, InboxFits, Fits, upVars
<1>6. ASSUME NEW n \in 1 .. WINDOW, UplinkRead(n)
      PROVE  Inv'
  BY <1>0, <1>6 DEF UplinkRead, TypeOK, DownConserved, DownBounded, DownTotal,
                    UpConserved, InboxFits, Fits, downVars
<1>7. ASSUME UplinkSend
      PROVE  Inv'
  <2> DEFINE take == IF left < MAX_PAYLOAD THEN left ELSE MAX_PAYLOAD
  <2>1. take \in Nat /\ take <= left
    BY <1>0 DEF TypeOK
  <2>2. /\ credit >= take /\ credit' = credit - take /\ upWire' = upWire + take
        /\ left' = left - take /\ UNCHANGED <<downVars, owed>>
    BY <1>7 DEF UplinkSend
  <2> HIDE DEF take
  <2> QED
    BY <1>0, <2>1, <2>2 DEF TypeOK, DownConserved, DownBounded, DownTotal,
                            UpConserved, InboxFits, Fits, downVars
<1>8. ASSUME NEW n \in 1 .. WINDOW, BridgeConsumes(n) \/ RecvWindow(n)
      PROVE  Inv'
  BY <1>0, <1>8 DEF BridgeConsumes, RecvWindow, TypeOK, DownConserved, DownBounded, DownTotal,
                    UpConserved, InboxFits, Fits, downVars
<1>9. ASSUME UNCHANGED vars
      PROVE  Inv'
  BY <1>9 DEF vars, downVars, upVars, TypeOK, DownConserved, DownBounded, DownTotal,
              UpConserved, InboxFits, Fits
<1> QED
  BY <1>1, <1>2, <1>3, <1>4, <1>5, <1>6, <1>7, <1>8, <1>9 DEF Next

(* Both windows, the inbox's frames and its bytes agree in every reachable *)
(* state of a stream.                                                      *)
THEOREM FlowInvTheorem == Spec => []Inv
<1>1. Init => Inv
  BY InvInit
<1>2. Inv /\ [Next]_vars => Inv'
  BY InvStep
<1> QED
  BY <1>1, <1>2, PTL DEF Spec

(* The bridge's window is conserved: batched grants (src/lib.rs:302-308)   *)
(* neither lose nor mint credit.                                           *)
THEOREM WindowTheorem == Spec => []DownConserved
<1>1. Inv => DownConserved
  BY DEF Inv
<1> QED
  BY <1>1, FlowInvTheorem, PTL

(* So is the proxy's: the permits its sends forget (src/mux.rs:307) are    *)
(* what the bridge holds or owes, until a grant adds them back.            *)
THEOREM UpWindowTheorem == Spec => []UpConserved
<1>1. Inv => UpConserved
  BY DEF Inv
<1> QED
  BY <1>1, FlowInvTheorem, PTL

(* Bytes held back below GRANT_THRESHOLD never wedge a stream: a drained   *)
(* stream leaves the bridge credit for a full frame.                       *)
THEOREM NoStallTheorem == Spec => []NoStall
<1>1. Inv => NoStall
  <2> SUFFICES ASSUME Inv, open, inFrames = 0, chunk = 0, granting = 0,
                      pending < GRANT_THRESHOLD
               PROVE  bCredit >= MAX_PAYLOAD
    BY DEF NoStall
  <2>1. inBytes = 0
    BY Sizes DEF Inv, InboxFits, Fits, TypeOK
  <2>2. bCredit + pending = WINDOW
    BY <2>1, Sizes DEF Inv, DownConserved, TypeOK
  <2> QED
    BY <2>2, Sizes, ThresholdLeavesAPayload DEF Inv, TypeOK
<1> QED
  BY <1>1, FlowInvTheorem, PTL

(* A bridge that keeps to its credit and never sends frames so small that  *)
(* a window holds more than INBOX_FRAMES of them does not overflow the     *)
(* inbox (src/mux.rs:260).  The hypothesis is needed: FlowSmallFrames      *)
(* shows the overflow without it.                                          *)
THEOREM NoOverflowTheorem ==
  ASSUME FramesFit
  PROVE  Spec => []HonestBridgeNeverOverflows
<1>1. Init => Inv /\ open
  BY InvInit DEF Init
<1>2. Inv /\ open /\ [Next]_vars => Inv' /\ open'
  <2> SUFFICES ASSUME Inv, open, [Next]_vars PROVE open'
    BY InvStep
  <2>1. ASSUME NEW n \in MinFrame .. MAX_PAYLOAD, RecvData(n), inFrames = INBOX_FRAMES
        PROVE  FALSE
    <3>1. n <= bCredit /\ n >= MinFrame /\ n \in Nat /\ MinFrame \in Nat
      BY <2>1, Sizes DEF RecvData
    <3>2. INBOX_FRAMES * MinFrame <= inBytes
      BY <2>1 DEF Inv, InboxFits, Fits
    <3>3. inBytes + bCredit <= WINDOW
      BY Sizes DEF Inv, DownBounded, DownTotal, TypeOK
    <3>4. (INBOX_FRAMES + 1) * MinFrame = INBOX_FRAMES * MinFrame + MinFrame
      BY <3>1, Sizes
    <3>5. INBOX_FRAMES * MinFrame \in Nat
      BY <3>1, Sizes
    <3> QED
      BY <3>1, <3>2, <3>3, <3>4, <3>5, Sizes DEF FramesFit, Inv, TypeOK
  <2>2. ASSUME NEW n \in MinFrame .. MAX_PAYLOAD, RecvData(n)
        PROVE  open'
    BY <2>1, <2>2 DEF RecvData
  <2>3. ASSUME \/ \E n \in MinFrame .. MAX_PAYLOAD : DownlinkRecv(n)
               \/ DownlinkWrite \/ DownlinkGrant \/ UplinkSend \/ UNCHANGED vars
               \/ \E n \in 1 .. WINDOW :
                    BridgeCredited(n) \/ UplinkRead(n) \/ BridgeConsumes(n) \/ RecvWindow(n)
        PROVE  open' = open
    BY <2>3 DEF DownlinkRecv, DownlinkWrite, DownlinkGrant, UplinkSend, BridgeCredited,
                UplinkRead, BridgeConsumes, RecvWindow, vars, downVars
  <2> QED
    BY <2>2, <2>3 DEF Next
<1>3. Inv /\ open => HonestBridgeNeverOverflows
  BY DEF HonestBridgeNeverOverflows
<1> QED
  BY <1>1, <1>2, <1>3, PTL DEF Spec
=============================================================================

-------------------------- MODULE StreamIo_proofs --------------------------
(***************************************************************************)
(* One mux stream as a byte stream: both windows are conserved, what a     *)
(* successful shutdown leaves behind, and what a drop tells the peer, for  *)
(* every window, payload, threshold and outbox size and any number of      *)
(* reads and writes.                                                       *)
(***************************************************************************)
EXTENDS StreamIo, FiniteSetTheorems, SequenceTheorems, TLAPS

(* The bytes of one chunk.                                                 *)
LEMMA ChunkBytes ==
  ASSUME NEW i, NEW n \in Nat
  PROVE  IsFiniteSet({i} \X (1 .. n)) /\ Cardinality({i} \X (1 .. n)) = n
<1> DEFINE A == {i}
           B == 1 .. n
<1>1. IsFiniteSet(A) /\ Cardinality(A) = 1
  BY FS_Singleton
<1>2. IsFiniteSet(B) /\ Cardinality(B) = n
  BY FS_Interval
<1> HIDE DEF A, B
<1>3. IsFiniteSet(A \X B) /\ Cardinality(A \X B) = Cardinality(A) * Cardinality(B)
  BY <1>1, <1>2, FS_Product
<1>4. Cardinality(A) * Cardinality(B) = n
  BY <1>1, <1>2
<1>5. IsFiniteSet(A \X B) /\ Cardinality(A \X B) = n
  BY <1>3, <1>4
<1> QED
  BY <1>5 DEF A, B

(* Chunks of bounded size have finitely many bytes.                        *)
LEMMA BytesFinite ==
  ASSUME NEW K \in Nat, NEW s \in Seq(0 .. K)
  PROVE  IsFiniteSet(Bytes(s)) /\ Total(s) \in Nat
<1>1. Len(s) \in Nat /\ DOMAIN s = 1 .. Len(s) /\ \A i \in 1 .. Len(s) : s[i] \in 0 .. K
  BY LenProperties
<1>2. IsFiniteSet((1 .. Len(s)) \X (1 .. K))
  <2> DEFINE A == 1 .. Len(s)
             B == 1 .. K
  <2>1. IsFiniteSet(A) /\ IsFiniteSet(B)
    BY <1>1, FS_Interval
  <2> HIDE DEF A, B
  <2>2. IsFiniteSet(A \X B)
    BY <2>1, FS_Product
  <2> QED
    BY <2>2 DEF A, B
<1>3. Bytes(s) \subseteq (1 .. Len(s)) \X (1 .. K)
  BY <1>1 DEF Bytes
<1>4. IsFiniteSet(Bytes(s))
  BY <1>2, <1>3, FS_Subset
<1> QED
  BY <1>4, FS_CardinalityType DEF Total

(* The sum of two parts that have nothing in common.                       *)
LEMMA Apart ==
  ASSUME NEW S, NEW T, IsFiniteSet(S), IsFiniteSet(T), S \cap T = {}
  PROVE  Cardinality(S \cup T) = Cardinality(S) + Cardinality(T)
<1>1. Cardinality(S) \in Nat /\ Cardinality(T) \in Nat
  BY FS_CardinalityType
<1>2. Cardinality(S \cap T) = 0
  BY FS_EmptySet
<1>3. Cardinality(S \cup T) = Cardinality(S) + Cardinality(T) - Cardinality(S \cap T)
  BY FS_Union
<1> QED
  BY <1>1, <1>2, <1>3

LEMMA EmptyTotal == Total(<< >>) = 0
<1>1. Bytes(<< >>) = {}
  BY DEF Bytes
<1> QED
  BY <1>1, FS_EmptySet DEF Total

(* A chunk more.                                                           *)
LEMMA AppendTotal ==
  ASSUME NEW K \in Nat, NEW s \in Seq(0 .. K), NEW n \in 0 .. K
  PROVE  Append(s, n) \in Seq(0 .. K) /\ Total(Append(s, n)) = Total(s) + n
<1> DEFINE t == Append(s, n)
           last == {Len(s) + 1} \X (1 .. n)
<1>1. Len(s) \in Nat /\ DOMAIN s = 1 .. Len(s) /\ \A i \in 1 .. Len(s) : s[i] \in 0 .. K
  BY LenProperties
<1>2. /\ t \in Seq(0 .. K) /\ Len(t) = Len(s) + 1 /\ t[Len(s) + 1] = n
      /\ \A i \in 1 .. Len(s) : t[i] = s[i]
  BY AppendProperties
<1>3. DOMAIN t = 1 .. Len(s) + 1
  BY <1>2, LenProperties
<1> HIDE DEF t
<1>4. Bytes(t) = Bytes(s) \cup last
  <2>1. ASSUME NEW p \in Bytes(t) PROVE p \in Bytes(s) \cup last
    <3>1. PICK i \in 1 .. Len(s) + 1 : p \in {i} \X (1 .. t[i])
      BY <1>3, <2>1 DEF Bytes
    <3>2. CASE i = Len(s) + 1
      BY <1>2, <3>1, <3>2
    <3>3. CASE i \in 1 .. Len(s)
      BY <1>1, <1>2, <3>1, <3>3 DEF Bytes
    <3> QED
      BY <1>1, <3>2, <3>3
  <2>2. ASSUME NEW p \in Bytes(s) PROVE p \in Bytes(t)
    <3>1. PICK i \in 1 .. Len(s) : p \in {i} \X (1 .. s[i])
      BY <1>1, <2>2 DEF Bytes
    <3>2. i \in DOMAIN t /\ t[i] = s[i]
      BY <1>1, <1>2, <1>3
    <3> QED
      BY <3>1, <3>2 DEF Bytes
  <2>3. ASSUME NEW p \in last PROVE p \in Bytes(t)
    <3>1. Len(s) + 1 \in DOMAIN t /\ t[Len(s) + 1] = n
      BY <1>1, <1>2, <1>3
    <3> QED
      BY <2>3, <3>1 DEF Bytes
  <2> QED
    BY <2>1, <2>2, <2>3
<1>5. Bytes(s) \cap last = {}
  BY <1>1 DEF Bytes
<1>6. IsFiniteSet(last) /\ Cardinality(last) = n
  <2>1. n \in Nat
    OBVIOUS
  <2> QED
    BY <2>1, ChunkBytes, Zenon
<1> HIDE DEF last
<1>7. Cardinality(Bytes(t)) = Cardinality(Bytes(s)) + n
  BY <1>4, <1>5, <1>6, Apart, BytesFinite
<1> QED
  BY <1>2, <1>7 DEF Total, t

(* A chunk less.                                                           *)
LEMMA TailTotal ==
  ASSUME NEW K \in Nat, NEW s \in Seq(0 .. K), s # << >>
  PROVE  Tail(s) \in Seq(0 .. K) /\ Total(s) = s[1] + Total(Tail(s))
<1> DEFINE t == Tail(s)
           first == {1} \X (1 .. s[1])
           rest == Bytes(s) \ first
           f == [p \in Bytes(t) |-> <<p[1] + 1, p[2]>>]
<1>1. /\ Len(s) \in Nat \ {0} /\ DOMAIN s = 1 .. Len(s)
      /\ \A i \in 1 .. Len(s) : s[i] \in 0 .. K
  BY LenProperties, EmptySeq
<1>2. t \in Seq(0 .. K) /\ Len(t) = Len(s) - 1 /\ \A i \in 1 .. Len(t) : t[i] = s[i + 1]
  BY HeadTailProperties
<1>3. DOMAIN t = 1 .. Len(s) - 1
  BY <1>2, LenProperties
<1> HIDE DEF t
<1>4. \A p \in Bytes(t) : \E i \in 1 .. Len(s) - 1, b \in Nat : b \in 1 .. s[i + 1] /\ p = <<i, b>>
  <2> SUFFICES ASSUME NEW p \in Bytes(t)
               PROVE  \E i \in 1 .. Len(s) - 1, b \in Nat : b \in 1 .. s[i + 1] /\ p = <<i, b>>
    OBVIOUS
  <2>1. PICK i \in 1 .. Len(s) - 1 : p \in {i} \X (1 .. t[i])
    BY <1>3 DEF Bytes
  <2>2. t[i] = s[i + 1]
    BY <1>1, <1>2
  <2> QED
    BY <2>1, <2>2
<1>5. \A p \in rest : \E i \in 2 .. Len(s), b \in Nat : b \in 1 .. s[i] /\ p = <<i, b>>
  <2> SUFFICES ASSUME NEW p \in rest
               PROVE  \E i \in 2 .. Len(s), b \in Nat : b \in 1 .. s[i] /\ p = <<i, b>>
    OBVIOUS
  <2>1. PICK i \in 1 .. Len(s) : p \in {i} \X (1 .. s[i])
    BY <1>1 DEF Bytes
  <2>2. i # 1
    BY <2>1
  <2> QED
    BY <1>1, <2>1, <2>2
<1>6. \A i \in 1 .. Len(s) - 1 : \A b \in 1 .. s[i + 1] :
        <<i, b>> \in Bytes(t) /\ <<i + 1, b>> \in rest
  <2> SUFFICES ASSUME NEW i \in 1 .. Len(s) - 1, NEW b \in 1 .. s[i + 1]
               PROVE  <<i, b>> \in Bytes(t) /\ <<i + 1, b>> \in rest
    OBVIOUS
  <2>1. i \in DOMAIN t /\ t[i] = s[i + 1] /\ i + 1 \in DOMAIN s /\ i + 1 # 1
    BY <1>1, <1>2, <1>3
  <2>2. <<i, b>> \in Bytes(t) /\ <<i + 1, b>> \in Bytes(s)
    BY <2>1 DEF Bytes
  <2>3. <<i + 1, b>> \notin first
    BY <2>1
  <2> QED
    BY <2>2, <2>3
<1> HIDE DEF rest
<1>7. f \in Injection(Bytes(t), rest)
  <2>1. f \in [Bytes(t) -> rest]
    <3> SUFFICES ASSUME NEW p \in Bytes(t) PROVE <<p[1] + 1, p[2]>> \in rest
      OBVIOUS
    <3>1. PICK i \in 1 .. Len(s) - 1, b \in Nat : b \in 1 .. s[i + 1] /\ p = <<i, b>>
      BY <1>4
    <3> QED
      BY <1>6, <3>1
  <2>2. ASSUME NEW p \in Bytes(t), NEW q \in Bytes(t), f[p] = f[q] PROVE p = q
    <3>1. PICK i \in 1 .. Len(s) - 1, b \in Nat : b \in 1 .. s[i + 1] /\ p = <<i, b>>
      BY <1>4
    <3>2. PICK j \in 1 .. Len(s) - 1, d \in Nat : d \in 1 .. s[j + 1] /\ q = <<j, d>>
      BY <1>4
    <3>3. <<i + 1, b>> = <<j + 1, d>>
      BY <2>2, <3>1, <3>2
    <3> QED
      BY <1>1, <3>1, <3>2, <3>3
  <2> QED
    BY <2>1, <2>2 DEF Injection, IsInjective
<1>8. f \in Surjection(Bytes(t), rest)
  <2>1. ASSUME NEW q \in rest PROVE \E p \in Bytes(t) : f[p] = q
    <3>1. PICK i \in 2 .. Len(s), b \in Nat : b \in 1 .. s[i] /\ q = <<i, b>>
      BY <1>5
    <3>2. PICK j \in 1 .. Len(s) - 1 : i = j + 1
      <4>1. i - 1 \in 1 .. Len(s) - 1 /\ i = (i - 1) + 1
        BY <1>1
      <4> QED
        BY <4>1
    <3>3. <<j, b>> \in Bytes(t) /\ f[<<j, b>>] = <<j + 1, b>>
      BY <1>6, <3>1, <3>2
    <3> QED
      BY <3>1, <3>2, <3>3
  <2> QED
    BY <1>7, <2>1 DEF Injection, Surjection
<1>9. IsFiniteSet(rest) /\ Cardinality(rest) = Total(t)
  <2>1. ExistsBijection(Bytes(t), rest)
    BY <1>7, <1>8 DEF ExistsBijection, Bijection
  <2> QED
    BY <1>2, <2>1, BytesFinite, FS_Bijection DEF Total
<1>10. s[1] \in Nat /\ first \subseteq Bytes(s)
  BY <1>1 DEF Bytes
<1>11. IsFiniteSet(first) /\ Cardinality(first) = s[1]
  BY <1>10, ChunkBytes
<1>12. Bytes(s) = first \cup rest /\ first \cap rest = {}
  BY <1>10 DEF rest
<1> HIDE DEF first
<1> QED
  BY <1>2, <1>9, <1>11, <1>12, Apart DEF Total, t

-----------------------------------------------------------------------------
(* The frames of this stream, and one of another.                          *)
FrameSet ==
  {f \in [kind : {"DATA", "WINDOW", "CLOSE", "other"}, n : Nat] :
     /\ f.kind = "DATA" => f.n \in 1 .. MAX_PAYLOAD
     /\ f.kind = "CLOSE" => f.n = 0}
Amount(f, kind) == IF f.kind = kind THEN f.n ELSE 0
Bounded(q, kind) == \A i \in 1 .. Len(q) : q[i].kind = kind => q[i].n <= WINDOW

LEMMA CarriedType ==
  ASSUME NEW q \in Seq(FrameSet), NEW kind, Bounded(q, kind)
  PROVE  /\ Carried(q, kind) \in Seq(0 .. WINDOW) /\ Len(Carried(q, kind)) = Len(q)
         /\ \A i \in 1 .. Len(q) : Carried(q, kind)[i] = Amount(q[i], kind)
<1>1. Len(q) \in Nat /\ DOMAIN q = 1 .. Len(q) /\ \A i \in 1 .. Len(q) : q[i] \in FrameSet
  BY LenProperties
<1>2. \A i \in 1 .. Len(q) : Amount(q[i], kind) \in 0 .. WINDOW
  BY <1>1, Sizes DEF Amount, FrameSet, Bounded
<1>3. Carried(q, kind) = [i \in 1 .. Len(q) |-> Amount(q[i], kind)]
  BY <1>1 DEF Carried, Amount
<1> HIDE DEF Carried, Amount
<1> QED
  BY <1>1, <1>2, <1>3

(* A frame more.                                                           *)
LEMMA QueuedAppend ==
  ASSUME NEW q \in Seq(FrameSet), NEW kind, Bounded(q, kind), NEW f \in FrameSet,
         f.kind = kind => f.n <= WINDOW
  PROVE  /\ Append(q, f) \in Seq(FrameSet) /\ Bounded(Append(q, f), kind)
         /\ Total(Carried(Append(q, f), kind)) = Total(Carried(q, kind)) + Amount(f, kind)
         /\ Total(Carried(q, kind)) \in Nat /\ Amount(f, kind) \in Nat
<1> DEFINE r == Append(q, f)
           c == Carried(q, kind)
           a == Amount(f, kind)
<1>1. /\ r \in Seq(FrameSet) /\ Len(r) = Len(q) + 1 /\ r[Len(q) + 1] = f
      /\ \A i \in 1 .. Len(q) : r[i] = q[i]
  BY AppendProperties
<1>2. Len(q) \in Nat /\ a \in 0 .. WINDOW
  BY LenProperties, Sizes DEF FrameSet, Amount
<1> HIDE DEF r
<1>3. Bounded(r, kind)
  <2> SUFFICES ASSUME NEW i \in 1 .. Len(q) + 1, r[i].kind = kind PROVE r[i].n <= WINDOW
    BY <1>1 DEF Bounded
  <2>1. CASE i = Len(q) + 1
    BY <1>1, <2>1
  <2>2. CASE i \in 1 .. Len(q)
    BY <1>1, <2>2 DEF Bounded
  <2> QED
    BY <1>2, <2>1, <2>2
<1>4. /\ c \in Seq(0 .. WINDOW) /\ Len(c) = Len(q)
      /\ \A i \in 1 .. Len(q) : c[i] = Amount(q[i], kind)
  BY CarriedType
<1>5. /\ Carried(r, kind) \in Seq(0 .. WINDOW) /\ Len(Carried(r, kind)) = Len(q) + 1
      /\ \A i \in 1 .. Len(q) + 1 : Carried(r, kind)[i] = Amount(r[i], kind)
  BY <1>1, <1>3, CarriedType
<1> HIDE DEF c, a
<1>6. /\ Append(c, a) \in Seq(0 .. WINDOW) /\ Len(Append(c, a)) = Len(q) + 1
      /\ Append(c, a)[Len(q) + 1] = a
      /\ \A i \in 1 .. Len(q) : Append(c, a)[i] = c[i]
  BY <1>2, <1>4, AppendProperties
<1>7. \A i \in 1 .. Len(q) + 1 : Carried(r, kind)[i] = Append(c, a)[i]
  <2> SUFFICES ASSUME NEW i \in 1 .. Len(q) + 1 PROVE Amount(r[i], kind) = Append(c, a)[i]
    BY <1>5
  <2>1. CASE i = Len(q) + 1
    BY <1>1, <1>6, <2>1 DEF a
  <2>2. CASE i \in 1 .. Len(q)
    BY <1>1, <1>4, <1>6, <2>2
  <2>3. i = Len(q) + 1 \/ i \in 1 .. Len(q)
    BY <1>2
  <2> QED
    BY <2>1, <2>2, <2>3
<1>8. Carried(r, kind) = Append(c, a)
  BY <1>5, <1>6, <1>7, SeqEqual
<1>9. Total(Append(c, a)) = Total(c) + a /\ Total(c) \in Nat
  BY <1>2, <1>4, AppendTotal, BytesFinite, Sizes
<1> QED
  BY <1>1, <1>2, <1>3, <1>8, <1>9 DEF r, c, a

(* A frame less.                                                           *)
LEMMA QueuedTail ==
  ASSUME NEW q \in Seq(FrameSet), NEW kind, Bounded(q, kind), q # << >>
  PROVE  /\ Tail(q) \in Seq(FrameSet) /\ Bounded(Tail(q), kind)
         /\ Total(Carried(q, kind)) = Amount(Head(q), kind) + Total(Carried(Tail(q), kind))
         /\ Total(Carried(Tail(q), kind)) \in Nat
<1> DEFINE r == Tail(q)
           c == Carried(q, kind)
<1>1. /\ r \in Seq(FrameSet) /\ Len(r) = Len(q) - 1 /\ Len(q) \in Nat \ {0}
      /\ \A i \in 1 .. Len(r) : r[i] = q[i + 1]
  BY HeadTailProperties, EmptySeq
<1>2. Head(q) = q[1]
  BY <1>1
<1> HIDE DEF r
<1>3. Bounded(r, kind)
  <2> SUFFICES ASSUME NEW i \in 1 .. Len(r), r[i].kind = kind PROVE r[i].n <= WINDOW
    BY DEF Bounded
  <2>1. i + 1 \in 1 .. Len(q) /\ r[i] = q[i + 1]
    BY <1>1
  <2> QED
    BY <2>1 DEF Bounded
<1>4. /\ c \in Seq(0 .. WINDOW) /\ Len(c) = Len(q)
      /\ \A i \in 1 .. Len(q) : c[i] = Amount(q[i], kind)
  BY CarriedType
<1>5. /\ Carried(r, kind) \in Seq(0 .. WINDOW) /\ Len(Carried(r, kind)) = Len(r)
      /\ \A i \in 1 .. Len(r) : Carried(r, kind)[i] = Amount(r[i], kind)
  BY <1>1, <1>3, CarriedType
<1> HIDE DEF c
<1>6. c # << >>
  BY <1>1, <1>4, EmptySeq
<1>7. /\ Tail(c) \in Seq(0 .. WINDOW) /\ Len(Tail(c)) = Len(r)
      /\ \A i \in 1 .. Len(r) : Tail(c)[i] = c[i + 1]
  BY <1>1, <1>4, <1>6, HeadTailProperties
<1>8. \A i \in 1 .. Len(r) : Carried(r, kind)[i] = Tail(c)[i]
  <2> SUFFICES ASSUME NEW i \in 1 .. Len(r) PROVE Carried(r, kind)[i] = Tail(c)[i]
    OBVIOUS
  <2>1. i + 1 \in 1 .. Len(q) /\ r[i] = q[i + 1]
    BY <1>1
  <2>2. Carried(r, kind)[i] = Amount(q[i + 1], kind)
    BY <1>5, <2>1
  <2>3. Tail(c)[i] = Amount(q[i + 1], kind)
    BY <1>4, <1>7, <2>1
  <2> QED
    BY <2>2, <2>3
<1>9. Carried(r, kind) = Tail(c)
  BY <1>5, <1>7, <1>8, SeqEqual
<1>10. Total(c) = c[1] + Total(Tail(c)) /\ Total(Tail(c)) \in Nat
  BY <1>4, <1>6, <1>7, TailTotal, BytesFinite, Sizes
<1>11. c[1] = Amount(q[1], kind)
  BY <1>1, <1>4
<1> QED
  BY <1>1, <1>2, <1>3, <1>9, <1>10, <1>11 DEF r, c

-----------------------------------------------------------------------------
Inboxes == Seq(0 .. WINDOW)
Sends == [left : Nat, held : 0 .. MAX_PAYLOAD, polled : BOOLEAN]

LEMMA InboxTypes ==
  /\ << >> \in Inboxes
  /\ \A s \in Inboxes : \A n \in 0 .. WINDOW : Append(s, n) \in Inboxes
  /\ \A s \in Inboxes :
       s # << >> => Tail(s) \in Inboxes /\ Head(s) = s[1] /\ s[1] \in 0 .. WINDOW
<1> DEFINE A == 0 .. WINDOW
<1> HIDE DEF A
<1>1. << >> \in Seq(A)
  BY EmptySeq
<1>2. \A s \in Seq(A) : \A n \in A : Append(s, n) \in Seq(A)
  BY AppendProperties
<1>3. \A s \in Seq(A) : s # << >> => Tail(s) \in Seq(A) /\ Head(s) = s[1] /\ s[1] \in A
  <2> SUFFICES ASSUME NEW s \in Seq(A), s # << >>
               PROVE  Tail(s) \in Seq(A) /\ Head(s) = s[1] /\ s[1] \in A
    OBVIOUS
  <2>1. Tail(s) \in Seq(A) /\ Len(s) \in Nat \ {0}
    BY HeadTailProperties, EmptySeq
  <2>2. 1 \in 1 .. Len(s)
    BY <2>1
  <2>3. s[1] \in A
    BY <2>2, ElementOfSeq
  <2>4. Head(s) = s[1]
    BY <2>1
  <2> QED
    BY <2>1, <2>3, <2>4
<1> QED
  BY <1>1, <1>2, <1>3, Zenon DEF A, Inboxes

LEMMA SendTypes ==
  /\ NoSend \in Sends
  /\ \A n \in Nat : Started(n) \in Sends
  /\ \A x \in Sends :
       /\ x.left \in Nat /\ x.held \in 0 .. MAX_PAYLOAD
       /\ [x EXCEPT !.polled = TRUE] \in Sends
       /\ [x EXCEPT !.held = 0] \in Sends
       /\ \A take \in 0 .. MAX_PAYLOAD :
            take <= x.left => [left |-> x.left - take, held |-> take, polled |-> TRUE] \in Sends
<1>1. 0 \in 0 .. MAX_PAYLOAD
  BY Sizes
<1>2. NoSend \in Sends /\ \A n \in Nat : Started(n) \in Sends
  BY <1>1 DEF NoSend, Started, Sends
<1>3. ASSUME NEW x \in Sends
      PROVE  /\ x.left \in Nat /\ x.held \in 0 .. MAX_PAYLOAD
             /\ [x EXCEPT !.polled = TRUE] \in Sends
             /\ [x EXCEPT !.held = 0] \in Sends
             /\ \A take \in 0 .. MAX_PAYLOAD :
                  take <= x.left => [left |-> x.left - take, held |-> take, polled |-> TRUE] \in Sends
  <2>1. x.left \in Nat /\ x.held \in 0 .. MAX_PAYLOAD /\ x.polled \in BOOLEAN
    BY DEF Sends
  <2>2. [x EXCEPT !.polled = TRUE] \in Sends /\ [x EXCEPT !.held = 0] \in Sends
    BY <1>1, <2>1 DEF Sends
  <2>3. ASSUME NEW take \in 0 .. MAX_PAYLOAD, take <= x.left
        PROVE  [left |-> x.left - take, held |-> take, polled |-> TRUE] \in Sends
    <3>1. x.left - take \in Nat
      BY <2>1, <2>3
    <3> QED
      BY <3>1 DEF Sends
  <2> QED
    BY <2>1, <2>2, <2>3
<1> QED
  BY <1>2, <1>3

Types ==
  /\ inbox \in Inboxes /\ tail \in Nat /\ creditDue \in Nat
  /\ out \in Nat /\ written \in Nat
  /\ send \in Sends
  /\ credit \in Nat /\ outbox \in Seq(FrameSet)
  /\ peerCredit \in Nat /\ got \in Nat /\ owed \in Nat

(* What is due is kept, or goes into a frame: never both, never neither    *)
(* (src/mux.rs:423-435).                                                   *)
KeptOrSent(due) ==
  \/ creditDue' = due /\ outbox' = outbox
  \/ due > 0 /\ Room /\ creditDue' = 0 /\ outbox' = Append(outbox, WindowOf(due))

LEMMA CreditGoes ==
  ASSUME NEW due \in Nat, FlushCredit(due) \/ ReturnCredit(due)
  PROVE  KeptOrSent(due)
BY DEF FlushCredit, ReturnCredit, KeptOrSent

LEMMA FrameTypes ==
  /\ \A n \in Nat : WindowOf(n) \in FrameSet
  /\ \A n \in 1 .. MAX_PAYLOAD : Data(n) \in FrameSet
  /\ Close \in FrameSet /\ Other \in FrameSet
BY Sizes DEF WindowOf, Data, Close, Other, FrameSet

LEMMA PushType ==
  ASSUME outbox \in Seq(FrameSet), NEW f \in FrameSet
  PROVE  Append(outbox, f) \in Seq(FrameSet)
BY AppendProperties

LEMMA KeptOrSentTypes ==
  ASSUME Types, NEW due \in Nat, KeptOrSent(due)
  PROVE  creditDue' \in Nat /\ outbox' \in Seq(FrameSet)
<1>1. WindowOf(due) \in FrameSet
  BY FrameTypes
<1>2. Append(outbox, WindowOf(due)) \in Seq(FrameSet)
  BY <1>1, PushType DEF Types
<1> QED
  BY <1>2 DEF Types, KeptOrSent

(* A read takes n bytes of the tail in hand or of the next chunk, and they *)
(* are due back.                                                           *)
LEMMA ReadTakes ==
  ASSUME Types, NEW b \in Buffers, PollRead(b)
  PROVE  /\ \E n \in Nat :
              /\ KeptOrSent(creditDue + n)
              /\ \/ inbox' = inbox /\ tail' \in Nat /\ tail = tail' + n
                 \/ inbox # << >> /\ inbox' = Tail(inbox) /\ tail' \in Nat /\ tail = 0
                    /\ inbox[1] = tail' + n
         /\ UNCHANGED <<writeVars, endVars, credit, link, peerVars>>
<1>1. b \in Nat
  BY Sizes
<1>2. UNCHANGED <<writeVars, endVars, credit, link, peerVars>>
  BY DEF PollRead
<1>3. CASE tail > 0 /\ tail' = tail - Least(tail, b) /\ ReturnCredit(creditDue + Least(tail, b))
           /\ UNCHANGED inbox
  <2>1. PICK n \in Nat : n = Least(tail, b) /\ n <= tail
    BY <1>1 DEF Types, Least
  <2>2. creditDue + n \in Nat /\ ReturnCredit(creditDue + n)
    BY <1>3, <2>1 DEF Types
  <2>3. PICK due \in Nat : due = creditDue + n
    BY <2>2
  <2>4. KeptOrSent(due)
    BY <2>2, <2>3, CreditGoes
  <2>5. tail' \in Nat /\ tail = tail' + n
    BY <1>3, <2>1 DEF Types
  <2> QED
    BY <1>2, <1>3, <2>3, <2>4, <2>5
<1>4. CASE /\ tail = 0 /\ inbox # << >> /\ inbox' = Tail(inbox)
           /\ tail' = Head(inbox) - Least(Head(inbox), b)
           /\ ReturnCredit(creditDue + Least(Head(inbox), b))
  <2>0. Head(inbox) = inbox[1] /\ inbox[1] \in Nat
    BY <1>4, InboxTypes DEF Types
  <2>1. PICK n \in Nat : n = Least(inbox[1], b) /\ n <= inbox[1]
    BY <1>1, <2>0 DEF Least
  <2>2. creditDue + n \in Nat /\ ReturnCredit(creditDue + n)
    BY <1>4, <2>0, <2>1 DEF Types
  <2>3. PICK due \in Nat : due = creditDue + n
    BY <2>2
  <2>4. KeptOrSent(due)
    BY <2>2, <2>3, CreditGoes
  <2>5. tail' \in Nat /\ inbox[1] = tail' + n
    BY <1>4, <2>0, <2>1
  <2> QED
    BY <1>2, <1>4, <2>3, <2>4, <2>5
<1> QED
  BY <1>3, <1>4 DEF PollRead

(* Every step keeps the types.                                             *)
LEMMA TypesStep ==
  ASSUME Types, [Next]_vars
  PROVE  Types'
<1>1. ASSUME NEW b \in Buffers, PollRead(b) PROVE Types'
  <2>1. PICK n \in Nat :
          /\ KeptOrSent(creditDue + n)
          /\ \/ inbox' = inbox /\ tail' \in Nat
             \/ inbox # << >> /\ inbox' = Tail(inbox) /\ tail' \in Nat
    BY <1>1, ReadTakes
  <2>2. PICK due \in Nat : due = creditDue + n
    BY DEF Types
  <2>3. creditDue' \in Nat /\ outbox' \in Seq(FrameSet)
    BY <2>1, <2>2, KeptOrSentTypes
  <2>4. inbox' \in Inboxes /\ tail' \in Nat
    BY <2>1, InboxTypes DEF Types
  <2>5. UNCHANGED <<writeVars, endVars, credit, link, peerVars>>
    BY <1>1, ReadTakes
  <2> QED
    BY <2>3, <2>4, <2>5 DEF Types, writeVars, peerVars
<1>2. CASE PollReadEnd \/ EndCredit
  <2>1. FlushCredit(creditDue) /\ UNCHANGED <<inbox, tail, writeVars, credit, peerVars>>
    BY <1>2 DEF PollReadEnd, EndCredit
  <2>2. PICK due \in Nat : due = creditDue
    BY DEF Types
  <2>3. creditDue' \in Nat /\ outbox' \in Seq(FrameSet)
    BY <2>1, <2>2, CreditGoes, KeptOrSentTypes
  <2> QED
    BY <2>1, <2>3 DEF Types, writeVars, peerVars
<1>3. ASSUME NEW n \in Writes, PollWrite(n) PROVE Types'
  <2>1. n \in Nat
    BY Sizes
  <2>2. out' \in Nat /\ written' \in Nat /\ send' \in Sends
    <3>1. out + n \in Nat /\ written + n \in Nat /\ 0 \in Nat
      BY <2>1 DEF Types
    <3>2. Started(out + n) \in Sends
      BY <3>1, SendTypes, Zenon
    <3> QED
      BY <1>3, <3>1, <3>2, Zenon DEF PollWrite, Types
  <2> QED
    BY <1>3, <2>2 DEF PollWrite, readVars, peerVars, Types
<1>4. CASE Call("flush") \/ Call("shutdown") \/ Drop
  BY <1>4 DEF Call, Drop, readVars, peerVars, Types
<1>5. CASE PollFlush
  <2>1. out' \in Nat /\ send' \in Sends
    <3>1. Started(out) \in Sends /\ [send EXCEPT !.polled = TRUE] \in Sends /\ 0 \in Nat
      BY SendTypes, Zenon DEF Types
    <3> QED
      BY <1>5, <3>1, Zenon DEF PollFlush, Types
  <2> QED
    BY <1>5, <2>1 DEF PollFlush, readVars, peerVars, Types
<1>6. CASE SendAcquire
  <2>1. PICK take \in 0 .. MAX_PAYLOAD : take = Least(send.left, MAX_PAYLOAD) /\ take <= send.left
    <3>1. send.left \in Nat /\ MAX_PAYLOAD \in Nat
      <4>1. send.left \in Nat
        BY SendTypes, Zenon DEF Types
      <4> QED
        BY <4>1, Sizes
    <3> QED
      BY <3>1 DEF Least
  <2>2. credit' \in Nat /\ send' \in Sends
    <3>1. NoSend \in Sends /\ [left |-> send.left - take, held |-> take, polled |-> TRUE] \in Sends
      BY <2>1, SendTypes, Zenon DEF Types
    <3>2. credit >= take => credit - take \in Nat
      BY Sizes DEF Types
    <3> QED
      BY <1>6, <2>1, <3>1, <3>2, Zenon DEF SendAcquire, Types
  <2> QED
    BY <1>6, <2>2 DEF SendAcquire, readVars, peerVars, Types
<1>7. CASE SendPush
  <2>1. send' \in Sends
    <3>1. NoSend \in Sends /\ [send EXCEPT !.held = 0] \in Sends
      BY SendTypes, Zenon DEF Types
    <3> QED
      BY <1>7, <3>1, Zenon DEF SendPush
  <2>2. send.held \in 1 .. MAX_PAYLOAD
    <3>1. send.held \in 0 .. MAX_PAYLOAD /\ send.held > 0
      BY <1>7, SendTypes, Zenon DEF SendPush, Types
    <3> QED
      BY <3>1, Sizes
  <2>3. outbox' \in Seq(FrameSet)
    <3>1. Append(outbox, Data(send.held)) \in Seq(FrameSet)
      BY <2>2, FrameTypes, PushType, Zenon DEF Types
    <3> QED
      BY <1>7, <3>1, Zenon DEF SendPush, Types
  <2> QED
    BY <1>7, <2>1, <2>3 DEF SendPush, readVars, peerVars, Types
<1>8. CASE SendDone
  BY <1>8, SendTypes DEF SendDone, readVars, peerVars, Types
<1>9. CASE CloseStream
  <2>1. outbox' \in Seq(FrameSet)
    BY <1>9, FrameTypes, PushType DEF CloseStream, Types
  <2>2. send' \in Sends /\ out' \in Nat /\ tail' \in Nat
    <3>1. CASE UNCHANGED <<inbox, tail, out, send>>
      BY <3>1 DEF Types
    <3>2. CASE inbox' = << >> /\ tail' = 0 /\ out' = 0 /\ send' = NoSend
      BY <3>2, SendTypes, Zenon
    <3> QED
      BY <1>9, <3>1, <3>2, Zenon DEF CloseStream
  <2>3. inbox' \in Inboxes
    BY <1>9, InboxTypes DEF CloseStream, Types
  <2> QED
    BY <1>9, <2>1, <2>2, <2>3 DEF CloseStream, peerVars, Types
<1>10. ASSUME NEW n \in Chunks, PeerSends(n) PROVE Types'
  <2>1. n \in 0 .. WINDOW /\ n \in Nat
    BY Sizes
  <2>2. inbox' \in Inboxes
    BY <1>10, <2>1, InboxTypes DEF PeerSends, Types
  <2>3. peerCredit' \in Nat
    BY <1>10, <2>1 DEF PeerSends, Types
  <2> QED
    BY <1>10, <2>2, <2>3 DEF PeerSends, writeVars, Types
<1>11. CASE PeerGrants
  BY <1>11 DEF PeerGrants, readVars, writeVars, Types
<1>12. CASE PeerCloses
  BY <1>12 DEF PeerCloses, readVars, writeVars, Types
<1>13. CASE PeerReceives
  <2>1. Head(outbox) \in FrameSet /\ outbox' \in Seq(FrameSet)
    BY <1>13, HeadTailProperties DEF PeerReceives, Types
  <2>2. got' \in Nat /\ owed' \in Nat /\ peerCredit' \in Nat
    BY <1>13, <2>1 DEF PeerReceives, Types, FrameSet
  <2> QED
    BY <1>13, <2>1, <2>2 DEF PeerReceives, readVars, writeVars, Types
<1>14. CASE OthersSend
  BY <1>14, FrameTypes, PushType DEF OthersSend, readVars, writeVars, peerVars, Types
<1>15. CASE LinkDies
  BY <1>15, EmptySeq DEF LinkDies, readVars, writeVars, peerVars, Types
<1>16. CASE UNCHANGED vars
  BY <1>16 DEF vars, readVars, writeVars, peerVars, Types
<1> QED
  BY <1>1, <1>2, <1>3, <1>4, <1>5, <1>6, <1>7, <1>8, <1>9, <1>10, <1>11, <1>12, <1>13, <1>14,
     <1>15, <1>16 DEF Next

-----------------------------------------------------------------------------
(* While the stream is open its link is alive, no WINDOW frame grants more *)
(* than a window, and both windows are conserved.                          *)
WindowsInv == Types /\ (open => link /\ Bounded(outbox, "WINDOW")) /\ WindowsConserved

LEMMA DataBounded ==
  ASSUME Types
  PROVE  Bounded(outbox, "DATA")
<1>1. \A i \in 1 .. Len(outbox) : outbox[i] \in FrameSet
  BY ElementOfSeq DEF Types
<1> QED
  BY <1>1, Sizes DEF Bounded, FrameSet

LEMMA QueuedNat ==
  ASSUME Types, NEW kind, Bounded(outbox, kind)
  PROVE  Queued(kind) \in Nat
<1>1. Carried(outbox, kind) \in Seq(0 .. WINDOW)
  BY CarriedType DEF Types
<1> QED
  BY <1>1, BytesFinite, Sizes DEF Queued

LEMMA InboxNat ==
  ASSUME Types
  PROVE  Total(inbox) \in Nat
BY BytesFinite, Sizes DEF Types, Inboxes

LEMMA Pushed ==
  ASSUME Types, NEW kind, Bounded(outbox, kind), NEW f \in FrameSet,
         f.kind = kind => f.n <= WINDOW, outbox' = Append(outbox, f)
  PROVE  /\ Bounded(outbox', kind) /\ Amount(f, kind) \in Nat
         /\ Queued(kind)' = Queued(kind) + Amount(f, kind)
<1>1. outbox \in Seq(FrameSet)
  BY DEF Types
<1>2. /\ Bounded(Append(outbox, f), kind) /\ Amount(f, kind) \in Nat
      /\ Total(Carried(Append(outbox, f), kind)) = Total(Carried(outbox, kind)) + Amount(f, kind)
  BY <1>1, QueuedAppend
<1> QED
  BY <1>2 DEF Queued

(* Credit that is kept or sent stays between the reader and the peer.      *)
LEMMA CreditMoves ==
  ASSUME Types, Bounded(outbox, "WINDOW"), NEW due \in Nat, due <= WINDOW, KeptOrSent(due)
  PROVE  /\ Bounded(outbox', "WINDOW")
         /\ creditDue' + Queued("WINDOW")' = due + Queued("WINDOW")
         /\ Queued("DATA")' = Queued("DATA")
<1>1. Queued("WINDOW") \in Nat /\ Queued("DATA") \in Nat
  BY DataBounded, QueuedNat
<1>2. CASE creditDue' = due /\ outbox' = outbox
  BY <1>1, <1>2 DEF Queued
<1>3. CASE creditDue' = 0 /\ outbox' = Append(outbox, WindowOf(due))
  <2>1. WindowOf(due) \in FrameSet
    BY FrameTypes
  <2>2. WindowOf(due).kind = "WINDOW" /\ WindowOf(due).n = due
    BY DEF WindowOf
  <2>3. Amount(WindowOf(due), "WINDOW") = due /\ Amount(WindowOf(due), "DATA") = 0
    BY <2>2 DEF Amount
  <2>4. /\ Bounded(outbox', "WINDOW")
        /\ Queued("WINDOW")' = Queued("WINDOW") + Amount(WindowOf(due), "WINDOW")
    BY <1>3, <2>1, <2>2, Pushed
  <2>5. Queued("DATA")' = Queued("DATA") + Amount(WindowOf(due), "DATA")
    BY <1>3, <2>1, <2>2, Pushed, DataBounded
  <2> QED
    BY <1>1, <1>3, <2>3, <2>4, <2>5
<1> QED
  BY <1>2, <1>3 DEF KeptOrSent

(* A step that pushes a frame which carries nothing of ours.               *)
LEMMA IdlePush ==
  ASSUME Types, Bounded(outbox, "WINDOW"), NEW f \in FrameSet, f.kind \notin {"DATA", "WINDOW"},
         outbox' = Append(outbox, f)
  PROVE  /\ Bounded(outbox', "WINDOW")
         /\ Queued("WINDOW")' = Queued("WINDOW") /\ Queued("DATA")' = Queued("DATA")
<1>1. Queued("WINDOW") \in Nat /\ Queued("DATA") \in Nat
  BY DataBounded, QueuedNat
<1>2. Amount(f, "WINDOW") = 0 /\ Amount(f, "DATA") = 0
  BY DEF Amount
<1>3. Bounded(outbox', "WINDOW") /\ Queued("WINDOW")' = Queued("WINDOW") + Amount(f, "WINDOW")
  BY Pushed
<1>4. Queued("DATA")' = Queued("DATA") + Amount(f, "DATA")
  BY Pushed, DataBounded
<1> QED
  BY <1>1, <1>2, <1>3, <1>4

LEMMA WindowsStep ==
  ASSUME WindowsInv, [Next]_vars
  PROVE  WindowsInv'
<1> DEFINE InBound == peerCredit + Total(inbox) + tail + creditDue + Queued("WINDOW")
           OutBound == credit + send.held + Queued("DATA") + owed
           Goal == Bounded(outbox', "WINDOW") /\ InBound' = WINDOW /\ OutBound' = WINDOW
<1>0. Types /\ Types'
  BY TypesStep DEF WindowsInv
<1> SUFFICES ASSUME open' PROVE link' /\ Goal
  BY <1>0 DEF WindowsInv, WindowsConserved
<1>a. open /\ link'
  BY DEF WindowsInv, Next, vars, PollRead, PollReadEnd, PollWrite, Call, PollFlush, SendAcquire, SendPush,
     SendDone, Drop, EndCredit, CloseStream, PeerSends, PeerGrants, PeerCloses, PeerReceives,
     OthersSend, LinkDies, endVars
<1> SUFFICES Goal
  BY <1>a
<1>b. link /\ Bounded(outbox, "WINDOW") /\ InBound = WINDOW /\ OutBound = WINDOW
  BY <1>a DEF WindowsInv, WindowsConserved
<1>c. /\ Queued("WINDOW") \in Nat /\ Queued("DATA") \in Nat /\ Total(inbox) \in Nat
      /\ peerCredit \in Nat /\ tail \in Nat /\ creditDue \in Nat /\ credit \in Nat
      /\ owed \in Nat /\ WINDOW \in Nat
  BY <1>0, <1>b, DataBounded, QueuedNat, InboxNat, Sizes DEF Types
<1>d. send.held \in Nat /\ send.left \in Nat /\ send.held <= MAX_PAYLOAD
  <2>1. send.held \in 0 .. MAX_PAYLOAD /\ send.left \in Nat
    BY <1>0, SendTypes, Zenon DEF Types
  <2> QED
    BY <2>1, Sizes
<1>1. ASSUME NEW b \in Buffers, PollRead(b) PROVE Goal
  <2>1. PICK n \in Nat :
          /\ KeptOrSent(creditDue + n)
          /\ \/ inbox' = inbox /\ tail' \in Nat /\ tail = tail' + n
             \/ inbox # << >> /\ inbox' = Tail(inbox) /\ tail' \in Nat /\ tail = 0
                /\ inbox[1] = tail' + n
    BY <1>0, <1>1, ReadTakes
  <2>2. UNCHANGED <<writeVars, endVars, credit, link, peerVars>>
    BY <1>0, <1>1, ReadTakes
  <2>3. PICK due \in Nat : due = creditDue + n
    BY <1>c
  <2>4. Total(inbox') \in Nat /\ Total(inbox') + tail' + n = Total(inbox) + tail /\ tail' \in Nat
    <3>1. CASE inbox' = inbox /\ tail' \in Nat /\ tail = tail' + n
      BY <1>c, <3>1
    <3>2. CASE /\ inbox # << >> /\ inbox' = Tail(inbox) /\ tail' \in Nat /\ tail = 0
               /\ inbox[1] = tail' + n
      <4>1. Total(inbox) = inbox[1] + Total(inbox')
        BY <1>0, <3>2, TailTotal, Sizes DEF Types, Inboxes
      <4>2. Total(inbox') \in Nat
        BY <1>0, BytesFinite, Sizes DEF Types, Inboxes
      <4> QED
        BY <1>c, <3>2, <4>1, <4>2
    <3> QED
      BY <2>1, <3>1, <3>2
  <2>5. due <= WINDOW
    BY <1>b, <1>c, <2>3, <2>4
  <2>6. /\ Bounded(outbox', "WINDOW")
        /\ creditDue' + Queued("WINDOW")' = due + Queued("WINDOW")
        /\ Queued("DATA")' = Queued("DATA")
    BY <1>0, <1>b, <2>1, <2>3, <2>5, CreditMoves
  <2>7. creditDue' \in Nat /\ Queued("WINDOW")' \in Nat
    <3>1. Total(Carried(outbox', "WINDOW")) \in Nat
      BY <1>0, <2>6, CarriedType, BytesFinite, Sizes DEF Types
    <3> QED
      BY <1>0, <3>1 DEF Types, Queued
  <2> QED
    BY <1>b, <1>c, <2>2, <2>3, <2>4, <2>6, <2>7 DEF writeVars, peerVars
<1>2. CASE PollReadEnd \/ EndCredit
  <2>1. FlushCredit(creditDue) /\ UNCHANGED <<inbox, tail, writeVars, credit, peerVars>>
    BY <1>2 DEF PollReadEnd, EndCredit
  <2>2. PICK due \in Nat : due = creditDue
    BY <1>c
  <2>3. due <= WINDOW
    BY <1>b, <1>c, <2>2
  <2>4. KeptOrSent(due)
    BY <2>1, <2>2, CreditGoes
  <2>5. /\ Bounded(outbox', "WINDOW")
        /\ creditDue' + Queued("WINDOW")' = due + Queued("WINDOW")
        /\ Queued("DATA")' = Queued("DATA")
    BY <1>0, <1>b, <2>3, <2>4, CreditMoves
  <2>6. creditDue' \in Nat /\ Queued("WINDOW")' \in Nat
    <3>1. Total(Carried(outbox', "WINDOW")) \in Nat
      BY <1>0, <2>5, CarriedType, BytesFinite, Sizes DEF Types
    <3> QED
      BY <1>0, <3>1 DEF Types, Queued
  <2> QED
    BY <1>b, <1>c, <2>1, <2>2, <2>5, <2>6 DEF writeVars, peerVars
<1>3. ASSUME NEW n \in Writes, PollWrite(n) PROVE Goal
  <2>1. UNCHANGED <<readVars, credit, outbox, peerVars>>
    BY <1>3 DEF PollWrite
  <2>2. send'.held = send.held
    BY <1>3 DEF PollWrite, InFlight, NoSend, Started
  <2> QED
    BY <1>b, <2>1, <2>2 DEF readVars, peerVars, Queued
<1>4. CASE Call("flush") \/ Call("shutdown") \/ Drop
  BY <1>4, <1>b DEF Call, Drop, readVars, peerVars, Queued
<1>5. CASE PollFlush
  <2>1. UNCHANGED <<readVars, credit, outbox, peerVars>>
    BY <1>5 DEF PollFlush
  <2>2. send'.held = send.held
    <3>1. CASE send' = [send EXCEPT !.polled = TRUE]
      BY <1>0, <3>1 DEF Types, Sends
    <3>2. CASE ~InFlight /\ send' = Started(out)
      BY <3>2 DEF InFlight, NoSend, Started
    <3>3. CASE UNCHANGED send
      BY <3>3
    <3> QED
      BY <1>5, <3>1, <3>2, <3>3, Zenon DEF PollFlush
  <2> QED
    BY <1>b, <2>1, <2>2 DEF readVars, peerVars, Queued
<1>6. CASE SendAcquire
  <2>1. UNCHANGED <<readVars, outbox, peerVars>> /\ send.held = 0
    BY <1>6 DEF SendAcquire
  <2>2. PICK take \in Nat : take = Least(send.left, MAX_PAYLOAD)
    BY <1>d, Sizes DEF Least
  <2>3. credit' = credit - take /\ send'.held = take
    BY <1>6, <1>a, <2>2 DEF SendAcquire
  <2> QED
    BY <1>b, <1>c, <1>d, <2>1, <2>3 DEF readVars, peerVars, Queued
<1>7. CASE SendPush
  <2>1. UNCHANGED <<readVars, credit, peerVars>> /\ send.held > 0
    BY <1>7 DEF SendPush
  <2>2. CASE Room /\ outbox' = Append(outbox, Data(send.held)) /\ send' = [send EXCEPT !.held = 0]
    <3>1. PICK h \in 1 .. MAX_PAYLOAD : h = send.held
      BY <1>d, <2>1, Sizes
    <3>2. Data(h) \in FrameSet /\ outbox' = Append(outbox, Data(h))
      BY <2>2, <3>1, FrameTypes
    <3>3. Data(h).kind = "DATA" /\ Data(h).n = h /\ h <= WINDOW
      BY Sizes DEF Data
    <3>4. Amount(Data(h), "WINDOW") = 0 /\ Amount(Data(h), "DATA") = h
      BY <3>3 DEF Amount
    <3>5. /\ Bounded(outbox', "WINDOW")
          /\ Queued("WINDOW")' = Queued("WINDOW") + Amount(Data(h), "WINDOW")
      BY <1>0, <1>b, <3>2, <3>3, Pushed
    <3>6. Queued("DATA")' = Queued("DATA") + Amount(Data(h), "DATA")
      BY <1>0, <3>2, <3>3, Pushed, DataBounded
    <3>7. send'.held = 0
      BY <1>0, <2>2 DEF Types, Sends
    <3> QED
      BY <1>b, <1>c, <1>d, <2>1, <3>1, <3>4, <3>5, <3>6, <3>7 DEF readVars, peerVars
  <2>3. CASE ~link
    BY <1>b, <2>3
  <2> QED
    BY <1>7, <2>2, <2>3 DEF SendPush
<1>8. CASE SendDone
  <2>1. UNCHANGED <<readVars, credit, outbox, peerVars>> /\ send.held = 0 /\ send' = NoSend
    BY <1>8 DEF SendDone
  <2>2. send'.held = send.held
    BY <2>1 DEF NoSend
  <2> QED
    BY <1>b, <2>1, <2>2 DEF readVars, peerVars, Queued
<1>9. CASE CloseStream
  BY <1>9 DEF CloseStream
<1>10. ASSUME NEW n \in Chunks, PeerSends(n) PROVE Goal
  <2>1. n \in 0 .. WINDOW
    BY Sizes
  <2>2. inbox' = Append(inbox, n) /\ peerCredit' = peerCredit - n
    BY <1>10, <1>a DEF PeerSends
  <2>3. Total(inbox') = Total(inbox) + n
    BY <1>0, <2>1, <2>2, AppendTotal, Sizes DEF Types, Inboxes
  <2>4. UNCHANGED <<tail, creditDue, writeVars, credit, outbox, owed>>
    BY <1>10 DEF PeerSends
  <2> QED
    BY <1>b, <1>c, <2>1, <2>2, <2>3, <2>4 DEF writeVars, Queued
<1>11. CASE PeerGrants
  BY <1>11, <1>a, <1>b, <1>c, <1>d DEF PeerGrants, readVars, writeVars, Queued
<1>12. CASE PeerCloses
  BY <1>12 DEF PeerCloses
<1>13. CASE PeerReceives
  <2>1. outbox # << >> /\ outbox' = Tail(outbox) /\ UNCHANGED <<readVars, writeVars, credit>>
    BY <1>13 DEF PeerReceives
  <2>2. outbox \in Seq(FrameSet) /\ Head(outbox) \in FrameSet
    BY <1>0, <2>1, HeadTailProperties DEF Types
  <2>3. PICK f \in FrameSet : f = Head(outbox)
    BY <2>2
  <2>4. /\ owed' = owed + Amount(f, "DATA") /\ peerCredit' = peerCredit + Amount(f, "WINDOW")
    BY <1>13, <1>c, <2>3 DEF PeerReceives, Amount
  <2>5. Amount(f, "DATA") \in Nat /\ Amount(f, "WINDOW") \in Nat
    BY DEF FrameSet, Amount
  <2>6. /\ Bounded(outbox', "WINDOW") /\ Queued("WINDOW")' \in Nat
        /\ Queued("WINDOW") = Amount(f, "WINDOW") + Queued("WINDOW")'
    BY <1>b, <2>1, <2>2, <2>3, QueuedTail DEF Queued
  <2>7. Queued("DATA") = Amount(f, "DATA") + Queued("DATA")' /\ Queued("DATA")' \in Nat
    BY <1>0, <2>1, <2>2, <2>3, DataBounded, QueuedTail DEF Queued
  <2> QED
    <3>1. UNCHANGED <<inbox, tail, creditDue, send>> /\ UNCHANGED credit
      BY <2>1 DEF readVars, writeVars
    <3>2. InBound' = InBound
      BY <1>c, <2>4, <2>5, <2>6, <3>1
    <3>3. OutBound' = OutBound
      BY <1>c, <1>d, <2>4, <2>5, <2>7, <3>1
    <3> QED
      BY <1>b, <2>6, <3>2, <3>3
<1>14. CASE OthersSend
  <2>1. Other \in FrameSet /\ Other.kind \notin {"DATA", "WINDOW"}
    BY FrameTypes DEF Other
  <2>2. /\ Bounded(outbox', "WINDOW")
        /\ Queued("WINDOW")' = Queued("WINDOW") /\ Queued("DATA")' = Queued("DATA")
    BY <1>0, <1>14, <1>b, <2>1, IdlePush DEF OthersSend
  <2> QED
    BY <1>14, <1>b, <2>2 DEF OthersSend, readVars, writeVars, peerVars
<1>15. CASE LinkDies
  BY <1>15 DEF LinkDies
<1>16. CASE UNCHANGED vars
  BY <1>16, <1>b DEF vars, readVars, writeVars, peerVars, Queued
<1> QED
  BY <1>1, <1>2, <1>3, <1>4, <1>5, <1>6, <1>7, <1>8, <1>9, <1>10, <1>11, <1>12, <1>13, <1>14,
     <1>15, <1>16 DEF Next

LEMMA WindowsInit == Init => WindowsInv
<1> SUFFICES ASSUME Init PROVE WindowsInv
  OBVIOUS
<1>1. << >> \in Seq(FrameSet) /\ Len(<< >>) = 0
  BY EmptySeq
<1>2. Types
  BY <1>1, InboxTypes, SendTypes, Sizes DEF Init, Types
<1>3. Bounded(outbox, "WINDOW") /\ Bounded(outbox, "DATA")
  BY <1>1 DEF Init, Bounded
<1>4. \A kind : Carried(<< >>, kind) = << >>
  BY DEF Carried
<1>5. Queued("WINDOW") = 0 /\ Queued("DATA") = 0 /\ Total(inbox) = 0
  BY <1>4, EmptyTotal DEF Queued, Init
<1>6. send.held = 0
  BY DEF Init, NoSend
<1> QED
  BY <1>2, <1>3, <1>5, <1>6, Sizes DEF WindowsInv, WindowsConserved, Init

(* While the stream has its entry both windows are conserved: whatever is  *)
(* read piecewise, whatever try_send refuses and wherever the send parks,  *)
(* no credit is lost and none is given twice (src/mux.rs:423, 476, 527).   *)
THEOREM WindowsTheorem == Spec => []WindowsConserved
<1>1. Init => WindowsInv
  BY WindowsInit
<1>2. WindowsInv /\ [Next]_vars => WindowsInv'
  BY WindowsStep
<1>3. WindowsInv => WindowsConserved
  BY DEF WindowsInv
<1> QED
  BY <1>1, <1>2, <1>3, PTL DEF Spec

-----------------------------------------------------------------------------
(* What the outbox holds: frames that matter to the end of the stream.     *)
HasClose(q) == \E i \in 1 .. Len(q) : q[i] = Close
NoData(q) == \A i \in 1 .. Len(q) : q[i].kind # "DATA"
NoDataBehindClose(q) ==
  \A i, j \in 1 .. Len(q) : i < j /\ q[i] = Close => q[j].kind # "DATA"

LEMMA CloseShape ==
  /\ Close.kind = "CLOSE"
  /\ \A f \in FrameSet : f.kind = "CLOSE" => f = Close
BY DEF Close, FrameSet

LEMMA CloseQueuedIs ==
  ASSUME Types
  PROVE  CloseQueued <=> HasClose(outbox)
<1>1. DOMAIN outbox = 1 .. Len(outbox)
  BY LenProperties DEF Types
<1> QED
  BY <1>1 DEF CloseQueued, HasClose

LEMMA EmptyKinds == ~HasClose(<< >>) /\ NoData(<< >>) /\ NoDataBehindClose(<< >>)
<1>1. Len(<< >>) = 0
  BY EmptySeq
<1> QED
  BY <1>1 DEF HasClose, NoData, NoDataBehindClose

LEMMA PushKinds ==
  ASSUME NEW q \in Seq(FrameSet), NEW f \in FrameSet
  PROVE  /\ HasClose(Append(q, f)) <=> HasClose(q) \/ f = Close
         /\ NoData(q) /\ f.kind # "DATA" => NoData(Append(q, f))
         /\ NoDataBehindClose(q) /\ (f.kind = "DATA" => ~HasClose(q))
              => NoDataBehindClose(Append(q, f))
<1> DEFINE r == Append(q, f)
<1>1. /\ Len(r) = Len(q) + 1 /\ r[Len(q) + 1] = f
      /\ \A i \in 1 .. Len(q) : r[i] = q[i]
  BY AppendProperties
<1>2. Len(q) \in Nat
  BY LenProperties
<1> HIDE DEF r
<1>3. \A i \in 1 .. Len(r) : i \in 1 .. Len(q) \/ i = Len(q) + 1
  BY <1>1, <1>2
<1>4. \A i \in 1 .. Len(q) : i \in 1 .. Len(r)
  BY <1>1, <1>2
<1>5. Len(q) + 1 \in 1 .. Len(r)
  BY <1>1, <1>2
<1>6. HasClose(r) <=> HasClose(q) \/ f = Close
  BY <1>1, <1>3, <1>4, <1>5, Zenon DEF HasClose
<1>7. NoData(q) /\ f.kind # "DATA" => NoData(r)
  BY <1>1, <1>3, Zenon DEF NoData
<1>8. ASSUME NoDataBehindClose(q), f.kind = "DATA" => ~HasClose(q)
      PROVE  NoDataBehindClose(r)
  <2> SUFFICES ASSUME NEW i \in 1 .. Len(r), NEW j \in 1 .. Len(r), i < j, r[i] = Close
               PROVE  r[j].kind # "DATA"
    BY DEF NoDataBehindClose
  <2>1. i \in 1 .. Len(q) /\ q[i] = Close
    BY <1>1, <1>2
  <2>2. CASE j = Len(q) + 1
    BY <1>1, <1>8, <2>1, <2>2, Zenon DEF HasClose
  <2>3. CASE j \in 1 .. Len(q)
    BY <1>1, <1>8, <2>1, <2>3, Zenon DEF NoDataBehindClose
  <2> QED
    BY <1>3, <2>2, <2>3
<1> QED
  BY <1>6, <1>7, <1>8 DEF r

LEMMA TailKinds ==
  ASSUME NEW q \in Seq(FrameSet), q # << >>
  PROVE  /\ HasClose(Tail(q)) => HasClose(q)
         /\ HasClose(q) => Head(q) = Close \/ HasClose(Tail(q))
         /\ Head(q) = Close => HasClose(q)
         /\ NoData(q) => NoData(Tail(q)) /\ Head(q).kind # "DATA"
         /\ NoDataBehindClose(q) => NoDataBehindClose(Tail(q))
         /\ NoDataBehindClose(q) /\ Head(q) = Close => NoData(Tail(q))
<1> DEFINE r == Tail(q)
<1>1. /\ Len(r) = Len(q) - 1 /\ Len(q) \in Nat \ {0}
      /\ \A i \in 1 .. Len(r) : r[i] = q[i + 1]
  BY HeadTailProperties, EmptySeq
<1>2. Head(q) = q[1] /\ 1 \in 1 .. Len(q)
  BY <1>1
<1> HIDE DEF r
<1>3. \A i \in 1 .. Len(r) : i + 1 \in 1 .. Len(q) /\ 1 < i + 1
  BY <1>1
<1>4. HasClose(r) => HasClose(q)
  BY <1>1, <1>3, Zenon DEF HasClose
<1>5. ASSUME HasClose(q) PROVE Head(q) = Close \/ HasClose(r)
  <2>1. PICK i \in 1 .. Len(q) : q[i] = Close
    BY <1>5 DEF HasClose
  <2>2. CASE i = 1
    BY <1>2, <2>1, <2>2
  <2>3. CASE i # 1
    <3>1. i - 1 \in 1 .. Len(r) /\ (i - 1) + 1 = i
      BY <1>1, <2>3
    <3>2. r[i - 1] = q[i]
      BY <1>1, <3>1
    <3> QED
      BY <2>1, <3>1, <3>2 DEF HasClose
  <2> QED
    BY <2>2, <2>3
<1>6. Head(q) = Close => HasClose(q)
  BY <1>2 DEF HasClose
<1>7. NoData(q) => NoData(r) /\ Head(q).kind # "DATA"
  BY <1>1, <1>2, <1>3, Zenon DEF NoData
<1>8. ASSUME NoDataBehindClose(q) PROVE NoDataBehindClose(r)
  <2> SUFFICES ASSUME NEW i \in 1 .. Len(r), NEW j \in 1 .. Len(r), i < j, r[i] = Close
               PROVE  r[j].kind # "DATA"
    BY DEF NoDataBehindClose
  <2>1. i + 1 < j + 1 /\ q[i + 1] = Close /\ q[j + 1] = r[j]
    BY <1>1
  <2> QED
    BY <1>3, <1>8, <2>1, Zenon DEF NoDataBehindClose
<1>9. NoDataBehindClose(q) /\ Head(q) = Close => NoData(r)
  BY <1>1, <1>2, <1>3, Zenon DEF NoDataBehindClose, NoData
<1> QED
  BY <1>4, <1>5, <1>6, <1>7, <1>8, <1>9 DEF r

LEMMA NoDataTotal ==
  ASSUME NEW q \in Seq(FrameSet), NoData(q)
  PROVE  Total(Carried(q, "DATA")) = 0
<1>1. DOMAIN q = 1 .. Len(q)
  BY LenProperties
<1>2. Bytes(Carried(q, "DATA")) = {}
  BY <1>1 DEF Bytes, Carried, NoData
<1> QED
  BY <1>2, FS_EmptySet DEF Total

(* Who puts what into the outbox: nobody while the link is dead, CLOSE     *)
(* only close_stream, DATA only the send that poll_flush drives.           *)
Moves ==
  \/ outbox' = outbox
  \/ Room /\ \E f \in FrameSet : f.kind \in {"WINDOW", "other"} /\ outbox' = Append(outbox, f)
  \/ Room /\ CloseStream /\ outbox' = Append(outbox, Close)
  \/ Room /\ SendPush /\ send.held \in 1 .. MAX_PAYLOAD /\ outbox' = Append(outbox, Data(send.held))
  \/ PeerReceives
  \/ LinkDies

LEMMA CreditPush ==
  ASSUME NEW due \in Nat, KeptOrSent(due)
  PROVE  \/ outbox' = outbox
         \/ Room /\ \E f \in FrameSet : f.kind \in {"WINDOW", "other"} /\ outbox' = Append(outbox, f)
<1>1. WindowOf(due) \in FrameSet /\ WindowOf(due).kind \in {"WINDOW", "other"}
  BY FrameTypes DEF WindowOf
<1> QED
  BY <1>1 DEF KeptOrSent

LEMMA OutboxMoves ==
  ASSUME Types, [Next]_vars
  PROVE  Moves
<1>1. ASSUME NEW b \in Buffers, PollRead(b) PROVE Moves
  <2>1. PICK n \in Nat : KeptOrSent(creditDue + n)
    BY <1>1, ReadTakes
  <2>2. PICK due \in Nat : due = creditDue + n
    BY DEF Types
  <2> QED
    BY <2>1, <2>2, CreditPush DEF Moves
<1>2. CASE PollReadEnd \/ EndCredit
  <2>1. FlushCredit(creditDue)
    BY <1>2 DEF PollReadEnd, EndCredit
  <2>2. PICK due \in Nat : due = creditDue
    BY DEF Types
  <2> QED
    BY <2>1, <2>2, CreditGoes, CreditPush DEF Moves
<1>3. CASE SendPush
  <2>1. send.held \in 0 .. MAX_PAYLOAD
    BY SendTypes, Zenon DEF Types
  <2>2. send.held > 0
    BY <1>3 DEF SendPush
  <2>3. send.held \in 1 .. MAX_PAYLOAD
    BY <2>1, <2>2, Sizes
  <2> QED
    BY <1>3, <2>3, Zenon DEF SendPush, Moves
<1>4. CASE OthersSend
  <2>1. Other \in FrameSet /\ Other.kind \in {"WINDOW", "other"}
    BY FrameTypes DEF Other
  <2> QED
    BY <1>4, <2>1, Zenon DEF OthersSend, Moves
<1>5. CASE CloseStream
  BY <1>5, Zenon DEF CloseStream, Moves
<1>6. CASE PeerReceives \/ LinkDies
  BY <1>6 DEF Moves
<1>7. CASE UNCHANGED outbox
  BY <1>7 DEF Moves
<1> QED
  BY <1>1, <1>2, <1>3, <1>4, <1>5, <1>6, <1>7 DEF Next, vars, PollWrite, Call, PollFlush,
     SendAcquire, SendDone, Drop, PeerSends, PeerGrants, PeerCloses

(* A dead link leaves nothing queued and no peer that waits.               *)
Dead == ~link => outbox = << >> /\ peer # "open"

LEMMA DeadStep ==
  ASSUME Types, Dead, [Next]_vars
  PROVE  Dead'
<1>1. CASE LinkDies
  BY <1>1 DEF LinkDies, Dead
<1>2. CASE ~LinkDies /\ ~link'
  <2>1. ~link
    BY <1>2 DEF Next, vars, PollRead, PollReadEnd, PollWrite, Call, PollFlush, SendAcquire,
       SendPush, SendDone, Drop, EndCredit, CloseStream, PeerSends, PeerGrants, PeerCloses,
       PeerReceives, OthersSend
  <2>2. outbox = << >> /\ peer # "open"
    BY <2>1 DEF Dead
  <2>3. outbox' = outbox
    <3>1. ~Room
      BY <2>1 DEF Room
    <3>2. ~PeerReceives
      BY <2>2 DEF PeerReceives
    <3> QED
      BY <1>2, <3>1, <3>2, OutboxMoves DEF Moves
  <2>4. peer' = peer
    BY <1>2, <2>1, <2>2 DEF Next, vars, PollRead, PollReadEnd, PollWrite, Call, PollFlush,
       SendAcquire, SendPush, SendDone, Drop, EndCredit, CloseStream, PeerSends, PeerGrants,
       PeerCloses, PeerReceives, OthersSend, peerVars
  <2> QED
    BY <2>2, <2>3, <2>4 DEF Dead
<1> QED
  BY <1>1, <1>2 DEF Dead

(* What a step may do to the end of the stream and to the peer.            *)
LEMMA EndFacts ==
  ASSUME Types, [Next]_vars
  PROVE  /\ op = "gone" => op' = "gone" /\ refused' = refused
         /\ op # "gone" /\ op' = "gone" => CloseStream
         /\ peer' # peer =>
              \/ peer' = "left"
              \/ outbox # << >> /\ Head(outbox) = Close /\ outbox' = Tail(outbox) /\ peer' = "told"
<1>1. op = "gone" => op' = "gone" /\ refused' = refused
  BY DEF Next, vars, PollRead, PollReadEnd, PollWrite, Call, PollFlush, SendAcquire,
     SendPush, SendDone, Drop, EndCredit, CloseStream, PeerSends, PeerGrants, PeerCloses,
     PeerReceives, OthersSend, LinkDies, endVars, Ending, Polled
<1>2. op # "gone" /\ op' = "gone" => CloseStream
  BY DEF Next, vars, PollRead, PollReadEnd, PollWrite, Call, PollFlush, SendAcquire,
     SendPush, SendDone, Drop, EndCredit, PeerSends, PeerGrants, PeerCloses,
     PeerReceives, OthersSend, LinkDies, endVars, Flushed
<1>3. peer' # peer => PeerCloses \/ PeerReceives \/ LinkDies
  BY DEF Next, vars, PollRead, PollReadEnd, PollWrite, Call, PollFlush, SendAcquire,
     SendPush, SendDone, Drop, EndCredit, CloseStream, PeerSends, PeerGrants, OthersSend, peerVars
<1>4. ASSUME PeerReceives, peer' # peer
      PROVE  outbox # << >> /\ Head(outbox) = Close /\ outbox' = Tail(outbox) /\ peer' = "told"
  <2>1. /\ outbox # << >> /\ Head(outbox).kind = "CLOSE" /\ outbox' = Tail(outbox)
        /\ peer' = "told"
    BY <1>4 DEF PeerReceives
  <2>2. Head(outbox) \in FrameSet
    BY <2>1, HeadTailProperties DEF Types
  <2> QED
    BY <2>1, <2>2, CloseShape
<1>5. peer' # peer /\ (PeerCloses \/ LinkDies) => peer' = "left"
  BY DEF PeerCloses, LinkDies
<1> QED
  BY <1>1, <1>2, <1>3, <1>4, <1>5

(* A queued CLOSE leaves the outbox only to the peer, or with the link.    *)
LEMMA CloseStays ==
  ASSUME Types, [Next]_vars, HasClose(outbox)
  PROVE  HasClose(outbox') \/ peer' # "open"
<1>0. outbox \in Seq(FrameSet)
  BY DEF Types
<1>1. ASSUME NEW f \in FrameSet, outbox' = Append(outbox, f) PROVE HasClose(outbox')
  BY <1>0, <1>1, PushKinds
<1>2. CASE PeerReceives
  <2>1. outbox # << >> /\ outbox' = Tail(outbox)
    BY <1>2 DEF PeerReceives
  <2>2. Head(outbox) = Close \/ HasClose(outbox')
    BY <1>0, <2>1, TailKinds
  <2>3. Head(outbox) = Close => peer' # "open"
    BY <1>2, CloseShape DEF PeerReceives
  <2> QED
    BY <2>2, <2>3
<1>3. CASE LinkDies
  BY <1>3 DEF LinkDies
<1>4. CASE SendPush /\ send.held \in 1 .. MAX_PAYLOAD /\ outbox' = Append(outbox, Data(send.held))
  <2>1. PICK h \in 1 .. MAX_PAYLOAD : h = send.held
    BY <1>4
  <2> QED
    BY <1>1, <1>4, <2>1, FrameTypes
<1> QED
  BY <1>1, <1>2, <1>3, <1>4, OutboxMoves, FrameTypes DEF Moves

DropInv == Types /\ Dead /\ DropTells

LEMMA DropStep ==
  ASSUME DropInv, [Next]_vars
  PROVE  DropInv'
<1>1. Types /\ Types' /\ Dead /\ Dead'
  BY TypesStep, DeadStep DEF DropInv
<1>2. CloseQueued <=> HasClose(outbox)
  BY <1>1, CloseQueuedIs
<1>3. CloseQueued' <=> HasClose(outbox')
  <2>1. DOMAIN outbox' = 1 .. Len(outbox')
    BY <1>1, LenProperties DEF Types
  <2> QED
    BY <2>1 DEF CloseQueued, HasClose
<1> SUFFICES ASSUME op' = "gone", peer' = "open" PROVE HasClose(outbox') \/ refused'
  BY <1>1, <1>3 DEF DropInv, DropTells
<1>4. peer = "open"
  BY <1>1, EndFacts
<1>5. CASE op = "gone"
  <2>1. HasClose(outbox) \/ refused
    BY <1>2, <1>4, <1>5 DEF DropInv, DropTells
  <2>2. refused' = refused
    BY <1>1, <1>5, EndFacts
  <2> QED
    BY <1>1, <2>1, <2>2, CloseStays
<1>6. CASE op # "gone"
  <2>1. CloseStream
    BY <1>1, <1>6, EndFacts
  <2>2. link
    BY <1>1, <1>4 DEF Dead
  <2>3. CASE Room
    <3>1. outbox' = Append(outbox, Close)
      BY <2>1, <2>3 DEF CloseStream
    <3> QED
      BY <1>1, <3>1, FrameTypes, PushKinds DEF Types
  <2>4. CASE ~Room
    BY <2>1, <2>2, <2>4 DEF CloseStream
  <2> QED
    BY <2>3, <2>4
<1> QED
  BY <1>5, <1>6

(* Once the stream is dropped the peer knows, or a CLOSE is on its way, or *)
(* the last one found the outbox full: close_stream at the end of Drop is  *)
(* never skipped, also when a shutdown or the peer ended the stream before *)
(* (src/mux.rs:350-355, 535-543).                                          *)
THEOREM DropTheorem == Spec => []DropTells
<1>1. Init => DropInv
  <2> SUFFICES ASSUME Init PROVE DropInv
    OBVIOUS
  <2>1. Types
    BY WindowsInit DEF WindowsInv
  <2> QED
    BY <2>1 DEF Init, DropInv, Dead, DropTells
<1>2. DropInv /\ [Next]_vars => DropInv'
  BY DropStep
<1>3. DropInv => DropTells
  BY DEF DropInv
<1> QED
  BY <1>1, <1>2, <1>3, PTL DEF Spec

-----------------------------------------------------------------------------
(* How far the end of the stream has come: a send in flight is alone, a    *)
(* shutdown is the last operation, CLOSE follows a shutdown or a drop, and *)
(* no DATA follows CLOSE.                                                  *)
SendAlone == (InFlight => out = 0) /\ (shut = "ok" => out = 0 /\ ~InFlight)
ShutLast ==
  /\ op \in {"flush", "shutdown"} => shut = "no"
  /\ op \in {"shut_credit", "shut_close"} => shut # "no"
CloseLast ==
  /\ (HasClose(outbox) \/ peer = "told") /\ shut = "no" => op = "gone"
  /\ NoDataBehindClose(outbox)
  /\ peer = "told" => NoData(outbox)
EndInv == Dead /\ SendAlone /\ ShutLast /\ CloseLast

LEMMA ShutLastStep ==
  ASSUME ShutLast, [Next]_vars
  PROVE  ShutLast' /\ (shut' = "no" => shut = "no")
<1>1. CASE PollFlush \/ SendAcquire \/ SendPush \/ SendDone
  <2>1. UNCHANGED <<op, shut>> \/ Flushed("ok") \/ Flushed("error")
    BY <1>1, Zenon DEF PollFlush, SendAcquire, SendPush, SendDone
  <2> QED
    BY <2>1 DEF Flushed, ShutLast
<1>2. CASE ~(PollFlush \/ SendAcquire \/ SendPush \/ SendDone)
  BY <1>2 DEF Next, vars, PollRead, PollReadEnd, PollWrite, Call, Drop, EndCredit, CloseStream,
     PeerSends, PeerGrants, PeerCloses, PeerReceives, OthersSend, LinkDies, endVars, ShutLast
<1> QED
  BY <1>1, <1>2

LEMMA SendAloneStep ==
  ASSUME Types, SendAlone, ShutLast, [Next]_vars
  PROVE  SendAlone'
<1>1. ASSUME NEW n \in Writes, PollWrite(n) PROVE SendAlone'
  <2>1. shut = "no" /\ shut' = shut
    BY <1>1 DEF PollWrite
  <2>2. CASE InFlight /\ UNCHANGED <<out, send>>
    BY <2>1, <2>2 DEF SendAlone, InFlight
  <2>3. CASE ~InFlight /\ out' = 0
    BY <2>1, <2>3 DEF SendAlone
  <2>4. CASE ~InFlight /\ UNCHANGED send
    BY <2>1, <2>4 DEF SendAlone, InFlight
  <2> QED
    BY <1>1, <2>2, <2>3, <2>4, Zenon DEF PollWrite
<1>2. CASE PollFlush
  <2>1. shut = "no"
    BY <1>2 DEF PollFlush, ShutLast
  <2>2. CASE InFlight /\ UNCHANGED <<out, shut>>
    BY <2>1, <2>2 DEF SendAlone
  <2>3. CASE out' = 0 /\ UNCHANGED shut
    BY <2>1, <2>3 DEF SendAlone
  <2>4. CASE ~InFlight /\ out = 0 /\ UNCHANGED <<out, send>>
    BY <2>4 DEF SendAlone, InFlight
  <2> QED
    BY <1>2, <2>2, <2>3, <2>4, Zenon DEF PollFlush
<1>3. CASE SendAcquire \/ SendPush \/ SendDone
  <2>1. shut = "no" /\ send.polled /\ UNCHANGED out
    BY <1>3, Zenon DEF SendAcquire, SendPush, SendDone, Polled, ShutLast
  <2>2. out = 0
    BY <2>1 DEF SendAlone, InFlight, NoSend
  <2>3. CASE UNCHANGED shut
    BY <2>1, <2>2, <2>3 DEF SendAlone
  <2>4. CASE send' = NoSend
    BY <2>1, <2>2, <2>4 DEF SendAlone, InFlight
  <2> QED
    BY <1>3, <2>3, <2>4, Zenon DEF SendAcquire, SendPush, SendDone
<1>4. CASE CloseStream
  <2>1. UNCHANGED shut
    BY <1>4 DEF CloseStream
  <2>2. UNCHANGED <<out, send>> \/ (out' = 0 /\ send' = NoSend)
    BY <1>4 DEF CloseStream
  <2> QED
    BY <2>1, <2>2 DEF SendAlone, InFlight
<1>5. CASE UNCHANGED <<out, send, shut>>
  BY <1>5 DEF SendAlone, InFlight
<1> QED
  BY <1>1, <1>2, <1>3, <1>4, <1>5 DEF Next, vars, PollRead, PollReadEnd, Call, Drop, EndCredit,
     PeerSends, PeerGrants, PeerCloses, PeerReceives, OthersSend, LinkDies, endVars, writeVars

LEMMA CloseLastStep ==
  ASSUME Types, ShutLast, CloseLast, [Next]_vars
  PROVE  CloseLast'
<1>0. outbox \in Seq(FrameSet)
  BY DEF Types
<1>1. shut' = "no" => shut = "no"
  BY ShutLastStep
<1>2. op = "gone" => op' = "gone"
  BY EndFacts
<1>3. CASE outbox' = outbox
  <2>1. peer' = "told" => peer = "told" \/ HasClose(outbox)
    BY <1>0, EndFacts, TailKinds
  <2>2. peer' = "told" => NoData(outbox')
    <3>1. peer' # peer /\ peer' = "told" => outbox # << >> /\ outbox' = Tail(outbox)
      BY EndFacts
    <3>2. outbox # << >> => Tail(outbox) # outbox
      <4>1. outbox # << >> => Len(Tail(outbox)) = Len(outbox) - 1 /\ Len(outbox) \in Nat
        BY <1>0, HeadTailProperties, LenProperties
      <4> QED
        BY <4>1
    <3> QED
      BY <1>3, <3>1, <3>2 DEF CloseLast
  <2> QED
    BY <1>1, <1>2, <1>3, <2>1, <2>2 DEF CloseLast
<1>4. ASSUME NEW f \in FrameSet, f.kind \in {"WINDOW", "other"}, outbox' = Append(outbox, f), Room
      PROVE  CloseLast'
  <2>1. f # Close
    BY <1>4, CloseShape
  <2>2. peer' = "told" => peer = "told"
    <3>1. outbox' # Tail(outbox) \/ outbox = << >>
      <4>1. Len(outbox') = Len(outbox) + 1 /\ Len(outbox) \in Nat
        BY <1>0, <1>4, AppendProperties, LenProperties
      <4>2. outbox # << >> => Len(Tail(outbox)) = Len(outbox) - 1
        BY <1>0, HeadTailProperties
      <4> QED
        BY <4>1, <4>2
    <3> QED
      BY <3>1, EndFacts
  <2>3. (HasClose(outbox') <=> HasClose(outbox)) /\ (NoData(outbox) => NoData(outbox'))
    BY <1>0, <1>4, <2>1, PushKinds
  <2>4. NoDataBehindClose(outbox')
    BY <1>0, <1>4, PushKinds DEF CloseLast
  <2> QED
    BY <1>1, <1>2, <2>2, <2>3, <2>4 DEF CloseLast
<1>5. CASE CloseStream /\ outbox' = Append(outbox, Close)
  <2>1. peer' = peer /\ shut' = shut
    BY <1>5 DEF CloseStream, peerVars
  <2>2. (op = "shut_close" /\ shut # "no") \/ op' = "gone"
    BY <1>5 DEF CloseStream, ShutLast
  <2>3. Close \in FrameSet /\ Close.kind # "DATA"
    BY FrameTypes, CloseShape
  <2>4. (NoData(outbox) => NoData(outbox')) /\ NoDataBehindClose(outbox')
    BY <1>0, <1>5, <2>3, PushKinds DEF CloseLast
  <2> QED
    BY <2>1, <2>2, <2>4 DEF CloseLast
<1>6. CASE SendPush /\ send.held \in 1 .. MAX_PAYLOAD /\ outbox' = Append(outbox, Data(send.held))
  <2>1. op \in {"flush", "shutdown"} /\ peer' = peer
    BY <1>6 DEF SendPush, Polled, peerVars
  <2>2. ~HasClose(outbox) /\ peer # "told"
    BY <2>1 DEF ShutLast, CloseLast
  <2>3. PICK h \in 1 .. MAX_PAYLOAD : h = send.held
    BY <1>6
  <2>4. Data(h) \in FrameSet /\ Data(h) # Close
    BY FrameTypes, CloseShape DEF Data
  <2>5. ~HasClose(outbox') /\ NoDataBehindClose(outbox')
    BY <1>0, <1>6, <2>2, <2>3, <2>4, PushKinds DEF CloseLast
  <2> QED
    BY <2>1, <2>2, <2>5 DEF CloseLast
<1>7. CASE PeerReceives
  <2>1. outbox # << >> /\ outbox' = Tail(outbox) /\ UNCHANGED endVars
    BY <1>7 DEF PeerReceives
  <2>2. op' = op /\ shut' = shut
    BY <2>1 DEF endVars
  <2>3. peer' = "told" => peer = "told" \/ Head(outbox) = Close
    BY EndFacts
  <2>4. (HasClose(outbox') \/ peer' = "told") => (HasClose(outbox) \/ peer = "told")
    BY <1>0, <2>1, <2>3, TailKinds
  <2>5. NoDataBehindClose(outbox') /\ (peer' = "told" => NoData(outbox'))
    BY <1>0, <2>1, <2>3, TailKinds DEF CloseLast
  <2> QED
    BY <2>2, <2>4, <2>5 DEF CloseLast
<1>8. CASE LinkDies
  <2>1. outbox' = << >> /\ op' = op /\ shut' = shut /\ (peer' = "told" => peer = "told")
    BY <1>8 DEF LinkDies
  <2> QED
    BY <2>1, EmptyKinds DEF CloseLast
<1> QED
  BY <1>3, <1>4, <1>5, <1>6, <1>7, <1>8, OutboxMoves DEF Moves

LEMMA EndStep ==
  ASSUME Types, EndInv, [Next]_vars
  PROVE  EndInv'
BY DeadStep, ShutLastStep, SendAloneStep, CloseLastStep DEF EndInv

(* What the caller wrote is with the peer, on its way or still here, until *)
(* an operation has failed or the link is gone; Drop throws away only what *)
(* no shutdown has sent.                                                   *)
Everywhere == got + Queued("DATA") + send.held + send.left + out
Accounted == ~failed /\ link /\ (op # "gone" \/ shut = "ok") => Everywhere = written

(* Nothing but DATA counts.                                                *)
LEMMA DataKept ==
  ASSUME Types, NEW f \in FrameSet, f.kind # "DATA", outbox' = Append(outbox, f)
  PROVE  Queued("DATA")' = Queued("DATA")
<1>1. Queued("DATA") \in Nat
  BY DataBounded, QueuedNat
<1>2. Queued("DATA")' = Queued("DATA") + Amount(f, "DATA")
  BY DataBounded, Pushed
<1> QED
  BY <1>1, <1>2 DEF Amount

(* No step takes an error back, revives a link, or ends a shutdown after   *)
(* the stream is gone.                                                     *)
LEMMA NoWayBack ==
  ASSUME Types, [Next]_vars
  PROVE  /\ ~failed' => ~failed
         /\ link' => link
         /\ op = "gone" => op' = "gone" /\ shut' = shut
<1>1. ~failed' => ~failed
  <2>1. CASE PollFlush \/ SendAcquire \/ SendPush \/ SendDone
    <3>1. UNCHANGED failed \/ Flushed("ok") \/ Flushed("error")
      BY <2>1, Zenon DEF PollFlush, SendAcquire, SendPush, SendDone
    <3> QED
      BY <3>1, Zenon DEF Flushed
  <2>2. CASE ~(PollFlush \/ SendAcquire \/ SendPush \/ SendDone)
    <3>1. failed' = failed
      BY <2>2 DEF Next, vars, PollRead, PollReadEnd, PollWrite, Call, Drop, EndCredit,
         CloseStream, PeerSends, PeerGrants, PeerCloses, PeerReceives, OthersSend, LinkDies,
         endVars
    <3> QED
      BY <3>1
  <2> QED
    BY <2>1, <2>2
<1>2. link' => link
  BY DEF Next, vars, PollRead, PollReadEnd, PollWrite, Call, PollFlush, SendAcquire,
     SendPush, SendDone, Drop, EndCredit, CloseStream, PeerSends, PeerGrants, PeerCloses,
     PeerReceives, OthersSend, LinkDies
<1>3. op = "gone" => shut' = shut
  BY DEF Next, vars, PollRead, PollReadEnd, PollWrite, Call, PollFlush, SendAcquire,
     SendPush, SendDone, Drop, EndCredit, CloseStream, PeerSends, PeerGrants, PeerCloses,
     PeerReceives, OthersSend, LinkDies, endVars, Polled
<1> QED
  BY <1>1, <1>2, <1>3, EndFacts

LEMMA AccountedStep ==
  ASSUME Types, EndInv, Accounted, [Next]_vars
  PROVE  Accounted'
<1> SUFFICES ASSUME ~failed', link', op' # "gone" \/ shut' = "ok"
             PROVE  Everywhere' = written'
  BY DEF Accounted
<1>0. Everywhere = written
  BY NoWayBack DEF Accounted
<1>a. /\ got \in Nat /\ Queued("DATA") \in Nat /\ out \in Nat /\ written \in Nat
      /\ send.held \in Nat /\ send.left \in Nat /\ send.held <= MAX_PAYLOAD
  <2>1. send.held \in 0 .. MAX_PAYLOAD /\ send.left \in Nat
    BY SendTypes, Zenon DEF Types
  <2>2. Queued("DATA") \in Nat
    BY DataBounded, QueuedNat
  <2> QED
    BY <2>1, <2>2, Sizes DEF Types
<1>b. ~Flushed("error")
  BY Zenon DEF Flushed
<1>1. CASE UNCHANGED <<got, send, out, written>> /\ ~PeerReceives /\ ~SendPush
  <2>1. Queued("DATA")' = Queued("DATA")
    <3>1. CASE outbox' = outbox
      BY <3>1 DEF Queued
    <3>2. ASSUME NEW f \in FrameSet, f.kind \in {"WINDOW", "other"}, outbox' = Append(outbox, f)
          PROVE  Queued("DATA")' = Queued("DATA")
      BY <3>2, DataKept
    <3>3. CASE outbox' = Append(outbox, Close)
      BY <3>3, DataKept, FrameTypes, CloseShape
    <3>4. ~LinkDies
      BY DEF LinkDies
    <3> QED
      BY <1>1, <3>1, <3>2, <3>3, <3>4, OutboxMoves DEF Moves
  <2> QED
    BY <1>0, <1>1, <2>1 DEF Everywhere
<1>2. ASSUME NEW n \in Writes, PollWrite(n) PROVE Everywhere' = written'
  <2>1. n \in Nat /\ UNCHANGED <<outbox, got>>
    BY <1>2, Sizes DEF PollWrite, peerVars
  <2>2. Queued("DATA")' = Queued("DATA")
    BY <2>1 DEF Queued
  <2>3. CASE ~InFlight /\ send' = Started(out + n) /\ out' = 0 /\ written' = written + n
    <3>1. send.held = 0 /\ send.left = 0 /\ send'.held = 0 /\ send'.left = out + n
      BY <2>3 DEF InFlight, NoSend, Started
    <3> QED
      BY <1>0, <1>a, <2>1, <2>2, <2>3, <3>1 DEF Everywhere
  <2>4. CASE out' = out + n /\ written' = written + n /\ UNCHANGED send
    BY <1>0, <1>a, <2>1, <2>2, <2>4 DEF Everywhere
  <2>5. CASE UNCHANGED <<out, send, written>>
    BY <1>0, <2>1, <2>2, <2>5 DEF Everywhere
  <2> QED
    BY <1>2, <2>3, <2>4, <2>5, Zenon DEF PollWrite
<1>3. CASE PollFlush
  <2>1. UNCHANGED <<outbox, got, written>>
    BY <1>3 DEF PollFlush, peerVars
  <2>2. Queued("DATA")' = Queued("DATA")
    BY <2>1 DEF Queued
  <2>3. CASE send' = [send EXCEPT !.polled = TRUE] /\ UNCHANGED out
    <3>1. send'.held = send.held /\ send'.left = send.left
      BY <2>3 DEF Types, Sends
    <3> QED
      BY <1>0, <2>1, <2>2, <2>3, <3>1 DEF Everywhere
  <2>4. CASE ~InFlight /\ send' = Started(out) /\ out' = 0
    <3>1. send.held = 0 /\ send.left = 0 /\ send'.held = 0 /\ send'.left = out
      BY <2>4 DEF InFlight, NoSend, Started
    <3> QED
      BY <1>0, <1>a, <2>1, <2>2, <2>4, <3>1 DEF Everywhere
  <2>5. CASE UNCHANGED <<out, send>>
    BY <1>0, <2>1, <2>2, <2>5 DEF Everywhere
  <2> QED
    BY <1>3, <2>3, <2>4, <2>5, Zenon DEF PollFlush
<1>4. CASE SendAcquire
  <2>1. UNCHANGED <<outbox, got, written, out>> /\ send.held = 0
    BY <1>4 DEF SendAcquire, peerVars
  <2>2. Queued("DATA")' = Queued("DATA")
    BY <2>1 DEF Queued
  <2>3. PICK take \in Nat : take = Least(send.left, MAX_PAYLOAD)
    BY <1>a, Sizes DEF Least
  <2>4. send' = [left |-> send.left - take, held |-> take, polled |-> TRUE]
    BY <1>4, <1>b, <2>3, Zenon DEF SendAcquire
  <2>5. send'.held = take /\ send'.left = send.left - take
    BY <2>4
  <2> QED
    BY <1>0, <1>a, <2>1, <2>2, <2>5 DEF Everywhere
<1>5. CASE SendPush
  <2>1. UNCHANGED <<got, written, out>> /\ send.held > 0
    BY <1>5 DEF SendPush, peerVars
  <2>2. outbox' = Append(outbox, Data(send.held)) /\ send' = [send EXCEPT !.held = 0]
    BY <1>5, <1>b, Zenon DEF SendPush
  <2>3. send'.held = 0 /\ send'.left = send.left
    BY <2>2 DEF Types, Sends
  <2>4. PICK h \in 1 .. MAX_PAYLOAD : h = send.held
    BY <1>a, <2>1, Sizes
  <2>5. Data(h) \in FrameSet /\ Data(h).kind = "DATA" /\ Data(h).n = h /\ h <= WINDOW
    BY FrameTypes, Sizes DEF Data
  <2>6. Queued("DATA")' = Queued("DATA") + Amount(Data(h), "DATA")
    BY <2>2, <2>4, <2>5, Pushed, DataBounded
  <2>7. Amount(Data(h), "DATA") = h
    BY <2>5 DEF Amount
  <2> QED
    BY <1>0, <1>a, <2>1, <2>3, <2>4, <2>6, <2>7 DEF Everywhere
<1>6. CASE SendDone
  <2>1. UNCHANGED <<outbox, got, written, out>> /\ send.held = 0 /\ send.left = 0 /\ send' = NoSend
    BY <1>6 DEF SendDone, peerVars
  <2>2. Queued("DATA")' = Queued("DATA")
    BY <2>1 DEF Queued
  <2>3. send'.held = 0 /\ send'.left = 0
    BY <2>1 DEF NoSend
  <2> QED
    BY <1>0, <2>1, <2>2, <2>3 DEF Everywhere
<1>7. CASE CloseStream
  <2>1. UNCHANGED <<got, written, shut>> /\ ~PeerReceives /\ ~SendPush
    <3>1. op \in {"shut_close", "drop_close"} /\ op' # op
      BY <1>7 DEF CloseStream
    <3> QED
      BY <1>7, <3>1 DEF CloseStream, PeerReceives, SendPush, Polled, peerVars, endVars
  <2>2. CASE UNCHANGED <<out, send>>
    BY <1>1, <2>1, <2>2
  <2>3. CASE op' = "gone" /\ out' = 0 /\ send' = NoSend
    <3>1. shut = "ok"
      BY <2>1, <2>3
    <3>2. out = 0 /\ send = NoSend
      BY <3>1 DEF EndInv, SendAlone, InFlight
    <3> QED
      BY <1>1, <2>1, <2>3, <3>2
  <2> QED
    BY <1>7, <2>2, <2>3, Zenon DEF CloseStream
<1>8. CASE PeerReceives
  <2>1. outbox # << >> /\ outbox' = Tail(outbox) /\ UNCHANGED <<out, send, written>>
    BY <1>8 DEF PeerReceives, writeVars
  <2>2. outbox \in Seq(FrameSet) /\ Head(outbox) \in FrameSet
    BY <2>1, HeadTailProperties DEF Types
  <2>3. PICK f \in FrameSet : f = Head(outbox)
    BY <2>2
  <2>4. got' = got + Amount(f, "DATA") /\ Amount(f, "DATA") \in Nat
    BY <1>8, <1>a, <2>3 DEF PeerReceives, Amount, FrameSet
  <2>5. Queued("DATA") = Amount(f, "DATA") + Queued("DATA")' /\ Queued("DATA")' \in Nat
    BY <2>1, <2>2, <2>3, DataBounded, QueuedTail DEF Queued
  <2> QED
    BY <1>0, <1>a, <2>1, <2>4, <2>5 DEF Everywhere
<1>9. CASE ~(PollFlush \/ SendAcquire \/ SendPush \/ SendDone \/ CloseStream \/ PeerReceives)
           /\ ~(\E n \in Writes : PollWrite(n))
  <2>1. UNCHANGED <<got, send, out, written>>
    BY <1>9 DEF Next, vars, PollRead, PollReadEnd, Call, Drop, EndCredit, PeerSends, PeerGrants,
       PeerCloses, OthersSend, LinkDies, writeVars, peerVars
  <2> QED
    BY <1>1, <1>9, <2>1
<1> QED
  BY <1>2, <1>3, <1>4, <1>5, <1>6, <1>7, <1>8, <1>9

DeliverInv == Types /\ EndInv /\ Accounted /\ ShutdownDelivers

(* The peer reads the CLOSE behind all that was written; afterwards no     *)
(* step writes or delivers.                                                *)
LEMMA DeliverStep ==
  ASSUME DeliverInv, [Next]_vars
  PROVE  DeliverInv'
<1>1. Types /\ Types' /\ EndInv /\ EndInv' /\ Accounted /\ Accounted'
  BY TypesStep, EndStep, AccountedStep DEF DeliverInv
<1> SUFFICES ASSUME shut' = "ok", ~failed', peer' = "told" PROVE got' = written'
  BY <1>1 DEF DeliverInv, ShutdownDelivers
<1>2. ~failed
  BY <1>1, NoWayBack
<1>3. CASE peer = "told"
  <2>1. shut # "no" /\ op \notin {"flush", "shutdown"}
    <3>1. shut = "no" => op = "gone" /\ shut' = shut
      BY <1>1, <1>3, NoWayBack DEF EndInv, CloseLast
    <3>2. shut # "no"
      BY <3>1
    <3> QED
      BY <1>1, <3>2 DEF EndInv, ShutLast
  <2>2. shut' = shut /\ written' = written
    BY <2>1 DEF Next, vars, PollRead, PollReadEnd, PollWrite, Call, PollFlush, SendAcquire,
       SendPush, SendDone, Drop, EndCredit, CloseStream, PeerSends, PeerGrants, PeerCloses,
       PeerReceives, OthersSend, LinkDies, endVars, writeVars, Polled
  <2>3. got = written
    BY <1>1, <1>2, <1>3, <2>2 DEF DeliverInv, ShutdownDelivers
  <2>4. got' = got
    <3>1. CASE PeerReceives
      <4>1. outbox # << >> /\ NoData(outbox)
        BY <1>1, <1>3, <3>1 DEF PeerReceives, EndInv, CloseLast
      <4>2. Head(outbox).kind # "DATA"
        BY <1>1, <4>1, TailKinds DEF Types
      <4> QED
        BY <3>1, <4>2 DEF PeerReceives
    <3>2. CASE ~PeerReceives
      BY <3>2 DEF Next, vars, PollRead, PollReadEnd, PollWrite, Call, PollFlush, SendAcquire,
         SendPush, SendDone, Drop, EndCredit, CloseStream, PeerSends, PeerGrants, PeerCloses,
         OthersSend, LinkDies, peerVars
    <3> QED
      BY <3>1, <3>2
  <2> QED
    BY <2>2, <2>3, <2>4
<1>4. CASE peer # "told"
  <2>1. outbox # << >> /\ outbox' = Tail(outbox)
    BY <1>1, <1>4, EndFacts
  <2>2. link'
    <3>1. link
      BY <1>1, <2>1 DEF EndInv, Dead
    <3>2. ~LinkDies
      BY <1>4 DEF LinkDies
    <3> QED
      BY <3>1, <3>2 DEF Next, vars, PollRead, PollReadEnd, PollWrite, Call, PollFlush,
         SendAcquire, SendPush, SendDone, Drop, EndCredit, CloseStream, PeerSends, PeerGrants,
         PeerCloses, PeerReceives, OthersSend
  <2>3. Everywhere' = written'
    BY <1>1, <2>2 DEF Accounted
  <2>4. out' = 0 /\ send' = NoSend /\ NoData(outbox')
    BY <1>1 DEF EndInv, SendAlone, CloseLast, InFlight
  <2>5. Queued("DATA")' = 0
    BY <1>1, <2>4, NoDataTotal DEF Types, Queued
  <2>6. send'.held = 0 /\ send'.left = 0 /\ got' \in Nat
    BY <1>1, <2>4 DEF NoSend, Types
  <2> QED
    BY <2>3, <2>4, <2>5, <2>6 DEF Everywhere
<1> QED
  BY <1>3, <1>4

(* A shutdown that returned Ok has delivered: when the peer reads CLOSE it *)
(* has read every byte written, for any writes and any coalescing bound    *)
(* (poll_write, poll_flush and poll_shutdown, src/mux.rs:486-533).         *)
THEOREM DeliverTheorem == Spec => []ShutdownDelivers
<1>1. Init => DeliverInv
  <2> SUFFICES ASSUME Init PROVE DeliverInv
    OBVIOUS
  <2>1. Types /\ Queued("DATA") = 0
    <3>1. \A kind : Carried(<< >>, kind) = << >>
      BY DEF Carried
    <3>2. Queued("DATA") = 0
      BY <3>1, EmptyTotal DEF Queued, Init
    <3> QED
      BY <3>2, WindowsInit DEF WindowsInv
  <2>2. EndInv
    BY EmptyKinds DEF Init, EndInv, Dead, SendAlone, ShutLast, CloseLast, InFlight
  <2>3. Accounted
    BY <2>1 DEF Init, Accounted, Everywhere, NoSend
  <2> QED
    BY <2>1, <2>2, <2>3 DEF Init, DeliverInv, ShutdownDelivers
<1>2. DeliverInv /\ [Next]_vars => DeliverInv'
  BY DeliverStep
<1>3. DeliverInv => ShutdownDelivers
  BY DEF DeliverInv
<1> QED
  BY <1>1, <1>2, <1>3, PTL DEF Spec
=============================================================================

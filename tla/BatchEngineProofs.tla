------------------------- MODULE BatchEngineProofs -------------------------
(***************************************************************************)
(* Proofs about BatchEngine for any dumps, batch size, number of places,   *)
(* hold, stall limit and retries, and any number of faults.                *)
(***************************************************************************)
EXTENDS BatchEngineInv, OrderLemmas, SequenceTheorems

-----------------------------------------------------------------------------
(* Numbers and deliveries.                                                 *)

\* Ages are numbers from 0 to MaxAge, and None is below them.
LEMMA AgeNumbers ==
    /\ MaxAge \in Nat /\ MaxAge = MaxHold /\ StallS \in Nat /\ StallS > 0 /\ StallS < MaxAge
    /\ None = -1 /\ 0 \in Ages
    /\ \A a \in Ages : a \in Nat /\ a <= MaxAge
    /\ \A a \in Nat : a <= MaxAge => a \in Ages
  BY StallAssumption DEF MaxAge, None, Ages

\* A delivery's fields.
LEMMA DeliveryFields ==
    /\ \A d \in Deliveries : d.rec \in Records /\ d.live \in BOOLEAN /\ d.age \in Ages
    /\ \A r \in Records : Delivery(r) \in Deliveries /\ Delivery(r).rec = r /\ Delivery(r).live /\ Delivery(r).age = 0
  BY AgeNumbers DEF Deliveries, Delivery

\* Growing older keeps the order of ages, and keeps them within their bounds.
LEMMA OlderKeepsOrder ==
    /\ \A a \in Ages : Older(a) \in Ages /\ Older(a) >= a
    /\ Older(None) = None /\ Older(MaxAge) = MaxAge
    /\ \A a, b \in Ages \cup {None} : a <= b => Older(a) <= Older(b)
    /\ \A a \in Ages \cup {None} : /\ Older(a) \in Ages \cup {None}
                                   /\ (Older(a) = None <=> a = None)
<1>1. \A a \in Ages \cup {None} : a \in Int /\ a >= -1 /\ a <= MaxAge /\ (a # None => a \in Nat)
  BY AgeNumbers
<1> QED
  BY <1>1, AgeNumbers DEF Older

-----------------------------------------------------------------------------
(* The line and the observer's entries: what each kind of step does.       *)

\* G is H without the delivery at i.
Without(H, G, i) ==
    /\ Len(G) = Len(H) - 1
    /\ \A k \in 1..(Len(H) - 1) : G[k] = IF k < i THEN H[k] ELSE H[k + 1]

\* A new delivery joins the line, and the observer's entries.
LEMMA JoinKeepsLine ==
    ASSUME NEW H \in Seq(Deliveries), NEW A \in Seq(Ages), NEW m \in Nat, NEW n \in Nat, n >= m,
           InLine(H), Entries(H, A, m), NEW d \in Deliveries, d.age = 0, d.live,
           \A i \in DOMAIN H : H[i].live => H[i].rec # d.rec
    PROVE  InLine(Append(H, d)) /\ Entries(Append(H, d), Append(A, 0), n) /\ Append(A, 0) \in Seq(Ages)
<1> DEFINE G == Append(H, d)
           B == Append(A, 0)
<1>1. /\ Len(A) = Len(H) /\ DOMAIN H = 1..Len(H) /\ DOMAIN A = 1..Len(H) /\ Len(H) \in Nat
      /\ \A i \in 1..Len(H) : H[i] \in Deliveries /\ A[i] \in Ages
  BY DEF Entries
<1>2. /\ DOMAIN G = 1..(Len(H) + 1) /\ Len(G) = Len(H) + 1 /\ G[Len(H) + 1] = d
      /\ \A i \in 1..Len(H) : G[i] = H[i]
  OBVIOUS
<1>3. /\ DOMAIN B = 1..(Len(H) + 1) /\ Len(B) = Len(H) + 1 /\ B[Len(H) + 1] = 0
      /\ \A i \in 1..Len(H) : B[i] = A[i]
  BY <1>1
<1>4. \A i \in 1..(Len(H) + 1) : i \in 1..Len(H) \/ i = Len(H) + 1
  BY <1>1
<1>5. \A i \in 1..Len(H) : H[i].age \in Nat /\ A[i] \in Nat
  BY <1>1, DeliveryFields, AgeNumbers
<1>6. B \in Seq(Ages)
  BY AgeNumbers
<1> HIDE DEF G, B
<1>7. InLine(G)
  <2> SUFFICES ASSUME NEW k \in 1..(Len(H) + 1), NEW l \in 1..(Len(H) + 1)
               PROVE  /\ k < l => G[k].age >= G[l].age
                      /\ k < l /\ G[k].live => G[l].live
                      /\ k # l /\ G[k].live /\ G[l].live => G[k].rec # G[l].rec
    BY <1>2 DEF InLine
  <2>1. CASE k \in 1..Len(H) /\ l \in 1..Len(H)
    BY <1>1, <1>2, <2>1 DEF InLine
  <2>2. CASE k \in 1..Len(H) /\ l = Len(H) + 1
    <3>1. G[k] = H[k] /\ G[l] = d /\ H[k].age \in Nat
      BY <1>2, <1>5, <2>2
    <3>2. H[k].age >= d.age
      BY <3>1
    <3> QED
      BY <1>1, <2>2, <3>1, <3>2
  <2>3. CASE k = Len(H) + 1 /\ l \in 1..Len(H)
    <3>1. G[l] = H[l] /\ G[k] = d /\ ~(k < l)
      BY <1>1, <1>2, <2>3
    <3> QED
      BY <1>1, <2>3, <3>1
  <2>4. CASE k = Len(H) + 1 /\ l = Len(H) + 1
    BY <1>1, <2>4
  <2> QED
    BY <1>4, <2>1, <2>2, <2>3, <2>4
<1>8. Entries(G, B, n)
  BY <1>1, <1>2, <1>3, <1>4, <1>5 DEF Entries
<1> QED
  BY <1>6, <1>7, <1>8 DEF G, B

\* A delivery at i leaves the line, and the oldest entry the observer.  What is before i in the
\* line is of a lost channel, or as old as i.
LEMMA LeaveKeepsLine ==
    ASSUME NEW H \in Seq(Deliveries), NEW A \in Seq(Ages), NEW m \in Nat, NEW G \in Seq(Deliveries),
           InLine(H), Entries(H, A, m), NEW i \in DOMAIN H, i <= m + 1, Without(H, G, i),
           \A j \in DOMAIN H : j < i /\ H[j].live => H[i].live /\ H[i].age = MaxAge
    PROVE  /\ A # <<>> /\ A[1] = Head(A) /\ A[1] \in Ages
           /\ Tail(A) \in Seq(Ages) /\ InLine(G) /\ Entries(G, Tail(A), IF i <= m THEN m - 1 ELSE m)
           /\ H[i].live => A[1] >= H[i].age
<1> DEFINE B == Tail(A)
           N == Len(H)
           n == IF i <= m THEN m - 1 ELSE m
<1>1. /\ Len(A) = N /\ DOMAIN H = 1..N /\ DOMAIN A = 1..N /\ N \in Nat /\ N >= 1
      /\ \A k \in 1..N : H[k] \in Deliveries /\ A[k] \in Ages
      /\ i \in 1..N
  BY DEF Entries
<1>2. /\ DOMAIN G = 1..(N - 1) /\ Len(G) = N - 1
      /\ \A k \in 1..(N - 1) : G[k] = IF k < i THEN H[k] ELSE H[k + 1]
  BY <1>1 DEF Without
<1>3. /\ DOMAIN B = 1..(N - 1) /\ Len(B) = N - 1 /\ B \in Seq(Ages)
      /\ \A k \in 1..(N - 1) : B[k] = A[k + 1]
      /\ A # <<>> /\ A[1] = Head(A)
  BY <1>1
<1>4. \A k \in 1..N : H[k].age \in Nat /\ A[k] \in Nat /\ H[k].age <= MaxAge /\ A[k] <= MaxAge
  BY <1>1, DeliveryFields, AgeNumbers
<1>5. \A k \in 1..(N - 1) : k \in 1..N /\ k + 1 \in 1..N
  BY <1>1
<1>6. \A j, k \in 1..N : j <= k => A[j] >= A[k]
  <2> TAKE j, k \in 1..N
  <2>1. j < k => A[j] >= A[k]
    BY <1>1 DEF Entries
  <2>2. j <= k => j < k \/ j = k
    BY <1>1
  <2> QED
    BY <1>4, <2>1, <2>2
<1> HIDE DEF B, N, n
<1>7. InLine(G)
  <2> SUFFICES ASSUME NEW k \in 1..(N - 1), NEW l \in 1..(N - 1)
               PROVE  /\ k < l => G[k].age >= G[l].age
                      /\ k < l /\ G[k].live => G[l].live
                      /\ k # l /\ G[k].live /\ G[l].live => G[k].rec # G[l].rec
    BY <1>2 DEF InLine
  <2>1. PICK x \in 1..N, y \in 1..N : /\ G[k] = H[x] /\ G[l] = H[y] /\ (k < l => x < y) /\ (k # l => x # y)
    BY <1>1, <1>2, <1>5
  <2> QED
    BY <1>1, <2>1 DEF InLine
<1>8. \A k \in 1..(N - 1) : B[k] <= G[k].age
  <2> TAKE k \in 1..(N - 1)
  <2>1. A[k] <= H[k].age /\ A[k + 1] <= H[k + 1].age /\ A[k + 1] <= A[k]
    BY <1>1, <1>5, <1>6 DEF Entries
  <2>2. G[k] \in {H[k], H[k + 1]} /\ B[k] = A[k + 1]
    BY <1>2, <1>3
  <2>3. A[k] \in Nat /\ A[k + 1] \in Nat /\ H[k].age \in Nat
    BY <1>4, <1>5
  <2>4. A[k + 1] <= H[k].age
    BY <2>1, <2>3
  <2> QED
    BY <2>1, <2>2, <2>4
<1>9. \A k \in 1..(N - 1) : G[k].live \/ k > n => B[k] = G[k].age
  <2> SUFFICES ASSUME NEW k \in 1..(N - 1), G[k].live \/ k > n PROVE B[k] = G[k].age
    OBVIOUS
  <2>1. CASE k < i
    <3>0. k <= n /\ ~(k > n)
      BY <1>1, <2>1 DEF n
    <3>1. G[k] = H[k] /\ B[k] = A[k + 1]
      BY <1>2, <1>3, <2>1
    <3>5. H[k].live
      BY <3>0, <3>1
    <3>2. H[k].live /\ H[i].live /\ H[i].age = MaxAge
      BY <1>1, <1>5, <2>1, <3>5
    <3>3. A[i] = MaxAge /\ H[k].age >= H[i].age
      BY <1>1, <1>5, <2>1, <3>2 DEF Entries, InLine
    <3>4. A[k + 1] >= A[i]
      BY <1>1, <1>5, <1>6, <2>1
    <3> QED
      BY <1>4, <1>5, <1>1, <3>1, <3>2, <3>3, <3>4, AgeNumbers
  <2>2. CASE k >= i
    <3>1. G[k] = H[k + 1] /\ B[k] = A[k + 1]
      BY <1>1, <1>2, <1>3, <2>2
    <3>2. H[k + 1].live \/ k + 1 > m
      BY <1>1, <3>1, <2>2 DEF n
    <3> QED
      BY <1>1, <1>5, <3>1, <3>2 DEF Entries
  <2> QED
    BY <1>1, <2>1, <2>2
<1>10. Entries(G, B, n)
  BY <1>1, <1>2, <1>3, <1>5, <1>6, <1>8, <1>9 DEF Entries
<1>11. H[i].live => A[1] >= H[i].age
  BY <1>1, <1>4, <1>6 DEF Entries
<1> QED
  BY <1>1, <1>3, <1>7, <1>10, <1>11 DEF B, n

\* Time passes for the line and the entries.
LEMMA AgeingKeepsLine ==
    ASSUME NEW H \in Seq(Deliveries), NEW A \in Seq(Ages), NEW m \in Nat, InLine(H), Entries(H, A, m)
    PROVE  LET B == [i \in DOMAIN A |-> Older(A[i])]
           IN  /\ Aged(H) \in Seq(Deliveries) /\ Len(Aged(H)) = Len(H) /\ B \in Seq(Ages)
               /\ InLine(Aged(H)) /\ Entries(Aged(H), B, m)
               /\ \A i \in DOMAIN H : Aged(H)[i].age = Older(H[i].age) /\ Aged(H)[i].live = H[i].live
                                      /\ Aged(H)[i].rec = H[i].rec
<1> DEFINE B == [i \in DOMAIN A |-> Older(A[i])]
           G == Aged(H)
<1>1. /\ Len(A) = Len(H) /\ DOMAIN H = 1..Len(H) /\ DOMAIN A = 1..Len(H) /\ Len(H) \in Nat
      /\ \A k \in 1..Len(H) : H[k] \in Deliveries /\ A[k] \in Ages /\ H[k].age \in Ages
  BY DeliveryFields DEF Entries
<1>2. /\ DOMAIN G = 1..Len(H)
      /\ \A k \in 1..Len(H) : G[k] \in Deliveries /\ G[k].age = Older(H[k].age)
                              /\ G[k].live = H[k].live /\ G[k].rec = H[k].rec
  BY <1>1, OlderKeepsOrder DEF Aged, Deliveries
<1>3. /\ DOMAIN B = 1..Len(H) /\ \A k \in 1..Len(H) : B[k] \in Ages /\ B[k] = Older(A[k])
  BY <1>1, OlderKeepsOrder
<1>4. G \in Seq(Deliveries) /\ Len(G) = Len(H)
  <2>1. G = [k \in 1..Len(H) |-> G[k]]
    BY <1>1 DEF Aged
  <2> HIDE DEF G
  <2> QED
    BY <1>1, <1>2, <2>1, IsASeq
<1>5. B \in Seq(Ages) /\ Len(B) = Len(H)
  <2>1. B = [k \in 1..Len(H) |-> B[k]]
    BY <1>1
  <2> HIDE DEF B
  <2> QED
    BY <1>1, <1>3, <2>1, IsASeq
<1>6. \A k \in 1..Len(H) : Older(H[k].age) \in Nat /\ Older(A[k]) \in Nat
  BY <1>1, OlderKeepsOrder, AgeNumbers
<1>7. \A a, b \in Ages : a >= b => Older(a) >= Older(b)
  BY OlderKeepsOrder, AgeNumbers
<1> HIDE DEF G, B
<1>8. InLine(G)
  BY <1>1, <1>2, <1>7 DEF InLine
<1>9. Entries(G, B, m)
  BY <1>1, <1>2, <1>3, <1>4, <1>5, <1>7, OlderKeepsOrder DEF Entries
<1> QED
  BY <1>1, <1>2, <1>4, <1>5, <1>8, <1>9 DEF G, B

\* The channel is lost for all that is in line.
LEMMA LossKeepsLine ==
    ASSUME NEW H \in Seq(Deliveries), NEW A, NEW m \in Nat, InLine(H), Entries(H, A, m)
    PROVE  /\ Lost(H) \in Seq(Deliveries) /\ Len(Lost(H)) = Len(H)
           /\ \A i \in DOMAIN H : Lost(H)[i].age = H[i].age /\ ~Lost(H)[i].live /\ Lost(H)[i].rec = H[i].rec
           /\ InLine(Lost(H)) /\ Entries(Lost(H), A, m)
<1> DEFINE G == Lost(H)
<1>1. DOMAIN H = 1..Len(H) /\ Len(H) \in Nat /\ \A k \in 1..Len(H) : H[k] \in Deliveries
  OBVIOUS
<1>2. /\ DOMAIN G = 1..Len(H)
      /\ \A k \in 1..Len(H) : G[k] \in Deliveries /\ G[k].age = H[k].age /\ G[k].live = FALSE /\ G[k].rec = H[k].rec
  BY <1>1 DEF Lost, Deliveries
<1>3. G \in Seq(Deliveries) /\ Len(G) = Len(H)
  <2>1. G = [k \in 1..Len(H) |-> G[k]]
    BY <1>1 DEF Lost
  <2> HIDE DEF G
  <2> QED
    BY <1>1, <1>2, <2>1, IsASeq
<1> HIDE DEF G
<1>4. InLine(G)
  BY <1>1, <1>2 DEF InLine
<1>5. Entries(G, A, m)
  BY <1>1, <1>2, <1>3 DEF Entries
<1> QED
  BY <1>1, <1>2, <1>3, <1>4, <1>5 DEF G

\* Whoever waits in submit leaves the line with its entry.
LEMMA PlacesKeepLine ==
    ASSUME NEW H \in Seq(Deliveries), NEW A \in Seq(Ages), NEW m \in Nat, m <= Len(H), InLine(H), Entries(H, A, m)
    PROVE  /\ SubSeq(H, 1, m) \in Seq(Deliveries) /\ SubSeq(A, 1, m) \in Seq(Ages)
           /\ InLine(SubSeq(H, 1, m)) /\ Entries(SubSeq(H, 1, m), SubSeq(A, 1, m), m)
<1> DEFINE G == SubSeq(H, 1, m)
           B == SubSeq(A, 1, m)
<1>1. Len(A) = Len(H) /\ DOMAIN H = 1..Len(H) /\ DOMAIN A = 1..Len(H) /\ Len(H) \in Nat
  BY DEF Entries
<1>2. G \in Seq(Deliveries) /\ Len(G) = m /\ DOMAIN G = 1..m /\ \A k \in 1..m : G[k] = H[k] /\ k \in 1..Len(H)
  OBVIOUS
<1>3. B \in Seq(Ages) /\ Len(B) = m /\ DOMAIN B = 1..m /\ \A k \in 1..m : B[k] = A[k]
  BY <1>1
<1> HIDE DEF G, B
<1>4. InLine(G)
  BY <1>1, <1>2 DEF InLine
<1>5. Entries(G, B, m)
  BY <1>1, <1>2, <1>3 DEF Entries
<1> QED
  BY <1>2, <1>3, <1>4, <1>5 DEF G, B

-----------------------------------------------------------------------------
(* Batch, queue and submit as one line.                                    *)

\* The line by positions.
LEMMA LineParts ==
    ASSUME NEW S, NEW b \in Seq(S), NEW p \in Seq(S), NEW w \in Seq(S)
    PROVE  /\ b \o p \o w \in Seq(S) /\ Len(b \o p \o w) = Len(b) + Len(p) + Len(w)
           /\ \A i \in 1..Len(b) : (b \o p \o w)[i] = b[i]
           /\ \A i \in 1..Len(p) : (b \o p \o w)[Len(b) + i] = p[i]
           /\ \A i \in 1..Len(w) : (b \o p \o w)[Len(b) + Len(p) + i] = w[i]
<1> DEFINE q == b \o p
<1>1. /\ q \in Seq(S) /\ Len(q) = Len(b) + Len(p) /\ Len(b) \in Nat /\ Len(p) \in Nat /\ Len(w) \in Nat
      /\ \A i \in 1..Len(b) : q[i] = b[i]
      /\ \A i \in 1..Len(p) : q[Len(b) + i] = p[i]
  OBVIOUS
<1>2. \A i \in 1..Len(b) : i \in 1..(Len(b) + Len(p))
  BY <1>1
<1>3. \A i \in 1..Len(p) : Len(b) + i \in 1..(Len(b) + Len(p))
  BY <1>1
<1> HIDE DEF q
<1>4. /\ q \o w \in Seq(S) /\ Len(q \o w) = Len(q) + Len(w)
      /\ \A i \in 1..Len(q) : (q \o w)[i] = q[i]
      /\ \A i \in 1..Len(w) : (q \o w)[Len(q) + i] = w[i]
  <2>1. q \in Seq(S)
    BY <1>1
  <2> QED
    BY ONLY <2>1, w \in Seq(S)
<1>5. /\ q \o w \in Seq(S) /\ Len(q \o w) = Len(b) + Len(p) + Len(w)
      /\ \A i \in 1..Len(b) : (q \o w)[i] = b[i]
      /\ \A i \in 1..Len(p) : (q \o w)[Len(b) + i] = p[i]
      /\ \A i \in 1..Len(w) : (q \o w)[Len(b) + Len(p) + i] = w[i]
  BY <1>1, <1>2, <1>3, <1>4
<1> QED
  BY <1>5 DEF q

\* Every position of the line is one of the batch, of the queue or of submit.
LEMMA LinePositions ==
    ASSUME NEW S, NEW b \in Seq(S), NEW p \in Seq(S), NEW w \in Seq(S), NEW i \in DOMAIN (b \o p \o w)
    PROVE  \/ i \in 1..Len(b)
           \/ i - Len(b) \in 1..Len(p) /\ i = Len(b) + (i - Len(b))
           \/ i - Len(b) - Len(p) \in 1..Len(w) /\ i = Len(b) + Len(p) + (i - Len(b) - Len(p))
<1>1. DOMAIN (b \o p \o w) = 1..(Len(b) + Len(p) + Len(w))
  BY LineParts
<1> QED
  BY <1>1

\* Two sequences are the same when they have the same length and elements.
LEMMA SameSeq ==
    ASSUME NEW S, NEW s \in Seq(S), NEW t \in Seq(S), Len(s) = Len(t), \A i \in 1..Len(s) : s[i] = t[i]
    PROVE  s = t
  BY SeqEqual

\* Who is in line is in hand.
LEMMA LineInHand ==
    ASSUME NEW S, NEW b \in Seq(S), NEW p \in Seq(S), NEW w \in Seq(S)
    PROVE  \A i \in DOMAIN (b \o p \o w) : (b \o p \o w)[i] \in Range(w) \cup Range(p) \cup Range(b)
<1> DEFINE H == b \o p \o w
<1>0. DOMAIN b = 1..Len(b) /\ DOMAIN p = 1..Len(p) /\ DOMAIN w = 1..Len(w)
  OBVIOUS
<1>1. /\ \A k \in 1..Len(b) : H[k] = b[k]
      /\ \A k \in 1..Len(p) : H[Len(b) + k] = p[k]
      /\ \A k \in 1..Len(w) : H[Len(b) + Len(p) + k] = w[k]
  BY LineParts
<1> TAKE i \in DOMAIN H
<1>2. CASE i \in 1..Len(b)
  BY <1>0, <1>1, <1>2 DEF Range
<1>3. CASE i - Len(b) \in 1..Len(p) /\ i = Len(b) + (i - Len(b))
  BY <1>0, <1>1, <1>3 DEF Range
<1>4. CASE i - Len(b) - Len(p) \in 1..Len(w) /\ i = Len(b) + Len(p) + (i - Len(b) - Len(p))
  BY <1>0, <1>1, <1>4 DEF Range
<1> QED
  BY <1>2, <1>3, <1>4, LinePositions

\* Some delivery of r in line is live.
LiveIn(H, r) == \E i \in DOMAIN H : H[i].live /\ H[i].rec = r

\* What is unsettled is what is live in line.
LEMMA LiveInLine ==
    ASSUME NEW S, NEW b \in Seq(S), NEW p \in Seq(S), NEW w \in Seq(S), NEW r
    PROVE  r \in {d.rec : d \in {e \in Range(w) \cup Range(p) \cup Range(b) : e.live}} <=> LiveIn(b \o p \o w, r)
<1> DEFINE H == b \o p \o w
           M == Range(w) \cup Range(p) \cup Range(b)
<1>1. /\ H \in Seq(S) /\ DOMAIN H = 1..(Len(b) + Len(p) + Len(w)) /\ Len(b) \in Nat /\ Len(p) \in Nat /\ Len(w) \in Nat
      /\ \A i \in 1..Len(b) : H[i] = b[i]
      /\ \A i \in 1..Len(p) : H[Len(b) + i] = p[i]
      /\ \A i \in 1..Len(w) : H[Len(b) + Len(p) + i] = w[i]
  BY LineParts
<1>2. /\ \A i \in 1..Len(b) : i \in DOMAIN H
      /\ \A i \in 1..Len(p) : Len(b) + i \in DOMAIN H
      /\ \A i \in 1..Len(w) : Len(b) + Len(p) + i \in DOMAIN H
  BY <1>1
<1>3. \A i \in DOMAIN H : H[i] \in M
  BY LineInHand
<1>4. ASSUME NEW d \in M PROVE \E i \in DOMAIN H : H[i] = d
  <2>0. DOMAIN b = 1..Len(b) /\ DOMAIN p = 1..Len(p) /\ DOMAIN w = 1..Len(w)
    OBVIOUS
  <2>1. CASE d \in Range(b)
    BY <1>1, <1>2, <2>0, <2>1 DEF Range
  <2>2. CASE d \in Range(p)
    BY <1>1, <1>2, <2>0, <2>2 DEF Range
  <2>3. CASE d \in Range(w)
    BY <1>1, <1>2, <2>0, <2>3 DEF Range
  <2> QED
    BY <1>4, <2>1, <2>2, <2>3
<1> HIDE DEF H, M
<1>5. r \in {d.rec : d \in {e \in M : e.live}} <=> \E d \in M : d.live /\ d.rec = r
  OBVIOUS
<1>6. (\E d \in M : d.live /\ d.rec = r) <=> LiveIn(H, r)
  BY <1>3, <1>4 DEF LiveIn
<1> QED
  BY <1>5, <1>6 DEF H, M

\* The parts of the typed state that the steps below use.
Parts ==
    /\ flush.batch \in Seq(Deliveries) /\ pending \in Seq(Deliveries) /\ waiting \in Seq(Deliveries)
    /\ flush.pc \in {"idle", "write", "settle"} /\ flush.rejected \in SUBSET Nat
    /\ flush.parts \in Seq([lo : Nat, hi : Nat])
    /\ obs.accepted \in Seq(Ages) /\ obs.held \in Ages \cup {None} /\ obs.settled \in Ages /\ obs.veto \in BOOLEAN
    /\ Held \in Seq(Deliveries) /\ Len(Held) = Places + Len(waiting)
    /\ Places \in Nat /\ Places = Len(flush.batch) + Len(pending) /\ Len(waiting) \in Nat
    /\ \A r : r \in Unsettled <=> LiveIn(Held, r)
    /\ Unsettled \subseteq Records

\* They hold in every typed state ...
LEMMA PartsHold == Typed => Parts
<1> HAVE Typed
<1>1. flush.batch \in Seq(Deliveries) /\ pending \in Seq(Deliveries) /\ waiting \in Seq(Deliveries)
  BY DEF Typed, Flushes
<1>2. /\ flush.pc \in {"idle", "write", "settle"} /\ flush.rejected \in SUBSET Nat
      /\ flush.parts \in Seq([lo : Nat, hi : Nat])
      /\ obs.accepted \in Seq(Ages) /\ obs.held \in Ages \cup {None} /\ obs.settled \in Ages /\ obs.veto \in BOOLEAN
  BY DEF Typed, Flushes, Observers
<1>3. Held \in Seq(Deliveries) /\ Len(Held) = Len(flush.batch) + Len(pending) + Len(waiting)
  BY <1>1, LineParts DEF Held
<1>4. Places \in Nat /\ Places = Len(flush.batch) + Len(pending) /\ Len(waiting) \in Nat /\ Len(Held) = Places + Len(waiting)
  BY <1>1, <1>3 DEF Places
<1>5. \A r : r \in Unsettled <=> LiveIn(Held, r)
  BY <1>1, LiveInLine DEF Unsettled, InHand, Held
<1>6. \A r : LiveIn(Held, r) => r \in Records
  BY <1>3, DeliveryFields DEF LiveIn
<1> QED
  BY <1>1, <1>2, <1>3, <1>4, <1>5, <1>6 DEF Parts

\* The types of the components that a step changes, from Typed.
LEMMA TypedParts == ASSUME Typed PROVE Parts
  BY PartsHold

\* ... so also in the next one.
LEMMA NextParts == ASSUME Typed' PROVE Parts'
<1>1. Typed' => Parts'
  BY PartsHold, PTL
<1> QED
  BY <1>1

-----------------------------------------------------------------------------
(* The observer.                                                           *)

\* RemoveAt by positions.
LEMMA RemoveAtParts ==
    ASSUME NEW S, NEW s \in Seq(S), NEW i \in 1..Len(s)
    PROVE  RemoveAt(s, i) \in Seq(S) /\ Without(s, RemoveAt(s, i), i)
<1> DEFINE a == SubSeq(s, 1, i - 1)
           c == SubSeq(s, i + 1, Len(s))
<1>1. a \in Seq(S) /\ Len(a) = i - 1 /\ \A k \in 1..(i - 1) : a[k] = s[k]
  OBVIOUS
<1>2. c \in Seq(S) /\ Len(c) = Len(s) - i /\ \A k \in 1..(Len(s) - i) : c[k] = s[k + i]
  OBVIOUS
<1>3. RemoveAt(s, i) = a \o c
  BY DEF RemoveAt
<1>4. i \in Nat /\ Len(s) \in Nat /\ 1 <= i /\ i <= Len(s)
  OBVIOUS
<1> HIDE DEF a, c
<1>5. /\ a \o c \in Seq(S) /\ Len(a \o c) = Len(a) + Len(c)
      /\ \A k \in 1..(Len(a) + Len(c)) : (a \o c)[k] = IF k <= Len(a) THEN a[k] ELSE c[k - Len(a)]
  BY <1>1, <1>2, ConcatProperties
<1>6. ASSUME NEW k \in 1..(Len(s) - 1) PROVE (a \o c)[k] = IF k < i THEN s[k] ELSE s[k + 1]
  <2>1. (a \o c)[k] = IF k <= i - 1 THEN a[k] ELSE c[k - (i - 1)]
    BY <1>1, <1>2, <1>4, <1>5
  <2>2. CASE k < i
    BY <1>1, <1>4, <2>1, <2>2
  <2>3. CASE k >= i
    <3>1. k - (i - 1) \in 1..(Len(s) - i) /\ (k - (i - 1)) + i = k + 1 /\ ~(k <= i - 1) /\ ~(k < i)
      BY <1>4, <2>3
    <3> QED
      BY <1>2, <2>1, <3>1
  <2>4. k < i \/ k >= i
    BY <1>4
  <2> QED
    BY <2>2, <2>3, <2>4
<1>7. Len(a \o c) = Len(s) - 1
  BY <1>1, <1>2, <1>4, <1>5
<1> QED
  BY <1>3, <1>5, <1>6, <1>7 DEF Without

\* Among entries in order, taking back the first one with a given age leaves the same as taking back
\* any other of that age.
LEMMA WithdrawOne ==
    ASSUME NEW o \in Observers, \A i, j \in DOMAIN o.accepted : i < j => o.accepted[i] >= o.accepted[j],
           NEW k \in DOMAIN o.accepted
    PROVE  \E t \in Seq(Ages) : /\ Withdrawn(o, o.accepted[k]) = [o EXCEPT !.accepted = t]
                                /\ Without(o.accepted, t, k)
<1> DEFINE B == o.accepted
           at == {i \in DOMAIN B : B[i] = B[k]}
<1>1. /\ B \in Seq(Ages) /\ DOMAIN B = 1..Len(B) /\ Len(B) \in Nat /\ k \in 1..Len(B)
      /\ \A i \in 1..Len(B) : B[i] \in Nat
  BY AgeNumbers DEF Observers
<1>2. at \in SUBSET Nat /\ k \in at
  BY <1>1
<1>3. \E i \in at : \A j \in at : i <= j
  <2>1. at # {}
    BY <1>2
  <2> HIDE DEF at
  <2> QED
    BY <1>2, <2>1, LeastNatural
<1> DEFINE f == CHOOSE i \in at : \A j \in at : i <= j
<1>4. f \in at /\ \A j \in at : f <= j
  BY <1>3
<1>5. Withdrawn(o, B[k]) = [o EXCEPT !.accepted = RemoveAt(B, f)]
  BY <1>2 DEF Withdrawn
<1>6. f \in 1..Len(B) /\ f <= k /\ B[f] = B[k]
  BY <1>1, <1>2, <1>4
<1> HIDE DEF f, at
<1> DEFINE t == RemoveAt(B, f)
<1>7. t \in Seq(Ages) /\ Without(B, t, f)
  BY <1>1, <1>6, RemoveAtParts
<1>8. \A j \in 1..Len(B) : f <= j /\ j <= k => B[j] = B[k]
  <2> SUFFICES ASSUME NEW j \in 1..Len(B), f <= j, j <= k PROVE B[j] = B[k]
    OBVIOUS
  <2>1. (f = j \/ f < j) /\ (j = k \/ j < k)
    BY <1>1, <1>6
  <2>2. (f < j => B[f] >= B[j]) /\ (j < k => B[j] >= B[k])
    BY <1>1, <1>6
  <2> QED
    BY <1>1, <1>6, <2>1, <2>2
<1> HIDE DEF t
<1>9. ASSUME NEW x \in 1..(Len(B) - 1) PROVE t[x] = IF x < k THEN B[x] ELSE B[x + 1]
  <2>0. x \in 1..Len(B) /\ x + 1 \in 1..Len(B) /\ t[x] = IF x < f THEN B[x] ELSE B[x + 1]
    BY <1>1, <1>7 DEF Without
  <2>1. CASE x < f \/ x >= k
    BY <1>1, <1>6, <2>0, <2>1
  <2>2. CASE f <= x /\ x < k
    <3>1. x + 1 <= k /\ f <= x + 1 /\ x <= k /\ ~(x < f)
      BY <1>1, <1>6, <2>2
    <3>2. B[x] = B[k] /\ B[x + 1] = B[k]
      BY <1>8, <2>0, <2>2, <3>1
    <3> QED
      BY <2>0, <2>2, <3>1, <3>2
  <2> QED
    BY <1>1, <1>6, <2>1, <2>2
<1> HIDE DEF B
<1>10. Without(B, t, k)
  BY <1>7, <1>9 DEF Without
<1> QED
  BY <1>5, <1>7, <1>10 DEF t, B

\* When the handlers in submit have taken their entries back, one after the other, the entries of
\* those with a place are left.
LEMMA WithdrawAllParts ==
    ASSUME Typed, LineInv
    PROVE  WithdrawAll(obs) = [obs EXCEPT !.accepted = SubSeq(@, 1, Places)]
<1> DEFINE A == obs.accepted
           m == Places
           W == Len(waiting)
           Rest(n) == [k \in 1..(m + W - n) |-> IF k <= m THEN A[k] ELSE A[k + n]]
           f == [n \in 0..W |-> [obs EXCEPT !.accepted = Rest(n)]]
           after[n \in 0..Len(waiting)] == IF n = 0 THEN obs ELSE Withdrawn(after[n - 1], waiting[n].age)
<1>0. WithdrawAll(obs) = after[W]
  BY DEF WithdrawAll
<1>1. /\ A \in Seq(Ages) /\ m \in Nat /\ W \in Nat /\ Len(A) = m + W /\ DOMAIN A = 1..(m + W) /\ obs \in Observers
      /\ \A i \in 1..(m + W) : A[i] \in Ages /\ A[i] \in Nat
      /\ \A i, j \in 1..(m + W) : i < j => A[i] >= A[j]
  <2>1. A \in Seq(Ages) /\ m \in Nat /\ W \in Nat /\ Len(Held) = m + W
    BY TypedParts DEF Parts
  <2>2. Len(A) = m + W /\ \A i, j \in DOMAIN A : i < j => A[i] >= A[j]
    BY <2>1 DEF LineInv, Entries
  <2>3. obs \in Observers
    BY DEF Typed, Observers
  <2> HIDE DEF A, m, W
  <2>4. DOMAIN A = 1..(m + W) /\ \A i \in 1..(m + W) : A[i] \in Ages
    BY <2>1, <2>2
  <2> QED
    BY <2>1, <2>2, <2>3, <2>4, AgeNumbers
<1>2. \A n \in 1..W : A[m + n] = waiting[n].age
  <2> TAKE n \in 1..W
  <2>1. m + n \in DOMAIN Held /\ m + n > m
    BY <1>1, TypedParts DEF Parts
  <2>2. Held[m + n] = waiting[n]
    <3>1. /\ flush.batch \in Seq(Deliveries) /\ pending \in Seq(Deliveries) /\ waiting \in Seq(Deliveries)
          /\ m = Len(flush.batch) + Len(pending)
      BY TypedParts DEF Parts
    <3>2. Held[Len(flush.batch) + Len(pending) + n] = waiting[n]
      BY <3>1, LineParts DEF Held
    <3> QED
      BY <3>1, <3>2
  <2> QED
    BY <2>1, <2>2 DEF LineInv, Entries
<1>3. ASSUME NEW n \in 0..W
      PROVE  /\ Rest(n) \in Seq(Ages) /\ Len(Rest(n)) = m + W - n /\ DOMAIN Rest(n) = 1..(m + W - n)
             /\ \A i, j \in 1..(m + W - n) : i < j => Rest(n)[i] >= Rest(n)[j]
  <2>1. m + W - n \in Nat /\ \A k \in 1..(m + W - n) : k \in 1..(m + W) /\ (~(k <= m) => k + n \in 1..(m + W))
    BY <1>1
  <2>2. \A k \in 1..(m + W - n) : Rest(n)[k] \in Ages
    BY <1>1, <2>1
  <2>3. Rest(n) \in [1..(m + W - n) -> Ages]
    BY <2>2
  <2>4. \A i, j \in 1..(m + W - n) : i < j => Rest(n)[i] >= Rest(n)[j]
    <3> SUFFICES ASSUME NEW i \in 1..(m + W - n), NEW j \in 1..(m + W - n), i < j PROVE Rest(n)[i] >= Rest(n)[j]
      OBVIOUS
    <3> DEFINE at(k) == IF k <= m THEN k ELSE k + n
    <3>2. at(i) \in 1..(m + W) /\ at(j) \in 1..(m + W) /\ at(i) < at(j)
      BY <1>1, <2>1
    <3>3. Rest(n)[i] = A[at(i)] /\ Rest(n)[j] = A[at(j)]
      BY <1>1, <2>1
    <3>1. PICK x \in 1..(m + W), y \in 1..(m + W) : Rest(n)[i] = A[x] /\ Rest(n)[j] = A[y] /\ x < y
      BY <3>2, <3>3
    <3> QED
      BY <1>1, <3>1
  <2> HIDE DEF Rest
  <2>5. Rest(n) \in Seq(Ages) /\ Len(Rest(n)) = m + W - n
    BY <2>1, <2>3
  <2> QED
    BY <2>3, <2>4, <2>5
<1>4. [obs EXCEPT !.accepted = Rest(0)] = obs
  <2>1. Rest(0) = A
    <3>1. \A k \in 1..(m + W) : (IF k <= m THEN A[k] ELSE A[k + 0]) = A[k]
      BY <1>1
    <3>2. A = [k \in 1..(m + W) |-> A[k]]
      BY <1>1
    <3>3. m + W - 0 = m + W
      BY <1>1
    <3> QED
      BY <3>1, <3>2, <3>3
  <2> HIDE DEF Rest
  <2> QED
    BY <1>1, <2>1 DEF Observers
<1>5. ASSUME NEW n \in 1..W
      PROVE  Withdrawn([obs EXCEPT !.accepted = Rest(n - 1)], waiting[n].age) = [obs EXCEPT !.accepted = Rest(n)]
  <2> DEFINE B == Rest(n - 1)
             o == [obs EXCEPT !.accepted = B]
  <2>0. n - 1 \in 0..W /\ n \in 0..W
    BY <1>1
  <2>1. /\ B \in Seq(Ages) /\ Len(B) = m + W - (n - 1) /\ DOMAIN B = 1..(m + W - (n - 1))
        /\ \A i, j \in 1..(m + W - (n - 1)) : i < j => B[i] >= B[j]
    BY <1>3, <2>0
  <2>2. o \in Observers /\ o.accepted = B
    BY <1>1, <2>1 DEF Observers
  <2>3. m + 1 \in 1..(m + W - (n - 1)) /\ B[m + 1] = waiting[n].age
    <3>1. m + 1 \in 1..(m + W - (n - 1)) /\ ~(m + 1 <= m) /\ (m + 1) + (n - 1) = m + n
      BY <1>1
    <3> QED
      BY <1>2, <3>1
  <2> HIDE DEF B, o
  <2>4. PICK t \in Seq(Ages) : Withdrawn(o, waiting[n].age) = [o EXCEPT !.accepted = t] /\ Without(B, t, m + 1)
    BY <2>1, <2>2, <2>3, WithdrawOne
  <2>5. /\ Rest(n) \in Seq(Ages) /\ Len(Rest(n)) = m + W - n
    BY <1>3, <2>0
  <2>6. ASSUME NEW k \in 1..(m + W - n) PROVE t[k] = Rest(n)[k]
    <3>1. k \in 1..(Len(B) - 1) /\ k \in 1..(m + W - (n - 1)) /\ k + 1 \in 1..(m + W - (n - 1))
      BY <1>1, <2>1
    <3>2. t[k] = IF k < m + 1 THEN B[k] ELSE B[k + 1]
      BY <2>4, <3>1 DEF Without
    <3>3. CASE k <= m
      <4>1. k < m + 1 /\ B[k] = A[k] /\ Rest(n)[k] = A[k]
        BY <1>1, <3>1, <3>3 DEF B
      <4> QED
        BY <3>2, <4>1
    <3>4. CASE ~(k <= m)
      <4>1. ~(k < m + 1) /\ ~(k + 1 <= m) /\ (k + 1) + (n - 1) = k + n
        BY <1>1, <3>4
      <4>2. B[k + 1] = A[k + n] /\ Rest(n)[k] = A[k + n]
        BY <3>1, <3>4, <4>1 DEF B
      <4> QED
        BY <3>2, <4>1, <4>2
    <3> QED
      BY <3>3, <3>4
  <2>7. Len(t) = m + W - n
    BY <1>1, <2>1, <2>4 DEF Without
  <2> HIDE DEF Rest
  <2>8. t = Rest(n)
    BY <2>4, <2>5, <2>6, <2>7, SameSeq
  <2> QED
    BY <1>1, <2>4, <2>8 DEF o, Observers, B
<1> HIDE DEF Rest
<1>6. f = [n \in 0..W |-> IF n = 0 THEN obs ELSE Withdrawn(f[n - 1], waiting[n].age)]
  <2> SUFFICES ASSUME NEW n \in 0..W
               PROVE  [obs EXCEPT !.accepted = Rest(n)] = IF n = 0 THEN obs ELSE Withdrawn(f[n - 1], waiting[n].age)
    OBVIOUS
  <2>1. CASE n = 0
    BY <1>4, <2>1
  <2>2. CASE n # 0
    <3>1. n \in 1..W /\ n - 1 \in 0..W
      BY <1>1, <2>2
    <3> QED
      BY <1>5, <2>2, <3>1
  <2> QED
    BY <2>1, <2>2
<1>7. after = [n \in 0..W |-> IF n = 0 THEN obs ELSE Withdrawn(after[n - 1], waiting[n].age)]
  <2> DEFINE Step(g) == [n \in 0..W |-> IF n = 0 THEN obs ELSE Withdrawn(g[n - 1], waiting[n].age)]
  <2>1. after = CHOOSE g : g = Step(g)
    OBVIOUS
  <2>2. f = Step(f)
    BY <1>6
  <2> HIDE DEF after, f, Step
  <2>3. after = Step(after)
    BY <2>1, <2>2
  <2> QED
    BY <2>3 DEF Step
<1> HIDE DEF after, f
<1>8. \A n \in 0..W : after[n] = f[n]
  <2> DEFINE Bad == {n \in 0..W : after[n] # f[n]}
  <2>1. Bad \in SUBSET Nat
    BY <1>1
  <2>2. ASSUME Bad # {} PROVE FALSE
    <3>1. PICK n \in Bad : \A k \in Bad : n <= k
      BY <2>1, <2>2, LeastNatural
    <3>2. n \in 0..W /\ n # 0
      BY <1>1, <1>6, <1>7, <3>1
    <3>3. n - 1 \in 0..W /\ ~(n <= n - 1)
      BY <1>1, <3>2
    <3>4. after[n - 1] = f[n - 1]
      BY <3>1, <3>3
    <3> QED
      BY <1>6, <1>7, <3>1, <3>2, <3>4
  <2> QED
    BY <2>2
<1>9. Rest(W) = SubSeq(A, 1, m)
  <2>1. Rest(W) \in Seq(Ages) /\ Len(Rest(W)) = m
    BY <1>1, <1>3
  <2>2. SubSeq(A, 1, m) \in Seq(Ages) /\ Len(SubSeq(A, 1, m)) = m /\ \A k \in 1..m : SubSeq(A, 1, m)[k] = A[k]
    BY <1>1
  <2>3. \A k \in 1..m : Rest(W)[k] = A[k]
    BY <1>1 DEF Rest
  <2> QED
    BY <2>1, <2>2, <2>3, SameSeq
<1>10. W \in 0..W
  BY <1>1
<1>11. f[W] = [obs EXCEPT !.accepted = Rest(W)]
  BY <1>10 DEF f
<1> QED
  BY <1>0, <1>8, <1>9, <1>10, <1>11

\* A settlement takes the oldest entry; an ack or a reject ends the wait that is kept, a return
\* after a hold starts it, and a lost delivery leaves it alone.
LEMMA SettledParts ==
    ASSUME NEW o \in Observers, o.accepted # <<>>, NEW result \in {"ack", "reject", "held_timeout", "delivery_lost"}
    PROVE  /\ Settled(o, result) \in Observers /\ Settled(o, result).accepted = Tail(o.accepted)
           /\ result \in {"ack", "reject"} => Settled(o, result).settled = 0 /\ Settled(o, result).held = None
           /\ result \notin {"ack", "reject"} => Settled(o, result).settled = o.settled
           /\ result = "held_timeout" =>
                Settled(o, result).held = IF o.held = None THEN Head(o.accepted) ELSE o.held
           /\ result = "delivery_lost" => Settled(o, result).held = o.held
<1>1. Tail(o.accepted) \in Seq(Ages) /\ Head(o.accepted) \in Ages
  BY DEF Observers
<1>2. CASE result \in {"ack", "reject"}
  BY <1>1, <1>2, AgeNumbers DEF Settled, Observers
<1>3. CASE result = "held_timeout"
  BY <1>1, <1>3 DEF Settled, Observers, StartsAWait
<1>4. CASE result = "delivery_lost"
  BY <1>1, <1>4 DEF Settled, Observers, StartsAWait
<1> QED
  BY <1>2, <1>3, <1>4

-----------------------------------------------------------------------------
(* The line, the places of the records and their waits under each kind of  *)
(* step.                                                                   *)

\* A step that leaves the line, the observer and the broker alone.
LEMMA QuietLine ==
    ASSUME EngineInv, Typed', Held' = Held, Places' >= Places, Places' <= MaxPending,
           UNCHANGED <<kinds, queue, acked, dead, waited, kept, obs>>
    PROVE  LineInv' /\ OnePlace' /\ WaitInv' /\ Unsettled' = Unsettled
<1>1. Parts /\ Parts'
  BY TypedParts, NextParts DEF EngineInv
<1>2. Unsettled' = Unsettled
  BY <1>1 DEF Parts
<1>3. Entries(Held, obs.accepted, Places')
  BY <1>1 DEF EngineInv, LineInv, Entries, Parts
<1>4. LineInv'
  BY <1>3 DEF EngineInv, LineInv
<1>5. OnePlace'
  BY <1>2 DEF EngineInv, OnePlace, Records
<1>6. WaitInv'
  BY DEF EngineInv, WaitInv, HeldIsOld, WaitsCoverAges, KeptIsSeen, Records
<1> QED
  BY <1>2, <1>4, <1>5, <1>6

\* A record comes from the broker and joins the line.
LEMMA JoinLine ==
    ASSUME EngineInv, Typed', NEW r \in queue, kinds[r] # "malformed", Held' = Append(Held, Delivery(r)),
           Places' >= Places, Places' <= MaxPending, obs' = Accepted(obs), queue' = queue \ {r},
           waited' = [waited EXCEPT ![r] = IF @ = None THEN 0 ELSE @],
           kept' = [kept EXCEPT ![r] = IF @ = None THEN 0 ELSE @],
           UNCHANGED <<kinds, acked, dead>>
    PROVE  LineInv' /\ OnePlace' /\ WaitInv'
<1>1. Parts /\ Parts' /\ r \in Records /\ Records' = Records
  BY TypedParts, NextParts DEF EngineInv, Typed, Records
<1>2. /\ Held \in Seq(Deliveries) /\ Delivery(r) \in Deliveries /\ Delivery(r).rec = r /\ Delivery(r).live
      /\ Delivery(r).age = 0 /\ obs.accepted \in Seq(Ages) /\ Places \in Nat /\ Places' \in Nat
  BY <1>1, DeliveryFields DEF Parts
<1>3. \A x : x \in Unsettled <=> LiveIn(Held, x)
  BY <1>1 DEF Parts
<1>4. \A i \in DOMAIN Held : Held[i].live => Held[i].rec # r
  BY <1>3 DEF LiveIn, EngineInv, OnePlace
<1>5. obs'.accepted = Append(obs.accepted, 0) /\ obs'.held = obs.held /\ obs'.settled = obs.settled
  BY DEF Accepted, EngineInv, Typed, Observers
<1>6. LineInv'
  BY <1>2, <1>4, <1>5, JoinKeepsLine DEF EngineInv, LineInv
<1>7. /\ DOMAIN Held = 1..Len(Held) /\ Len(Held) \in Nat /\ DOMAIN Held' = 1..(Len(Held) + 1)
      /\ Held'[Len(Held) + 1] = Delivery(r) /\ \A i \in 1..Len(Held) : Held'[i] = Held[i]
      /\ \A i \in 1..(Len(Held) + 1) : i \in 1..Len(Held) \/ i = Len(Held) + 1
      /\ \A i \in 1..Len(Held) : i \in 1..(Len(Held) + 1)
  BY <1>2
<1>8. \A x : LiveIn(Held', x) <=> LiveIn(Held, x) \/ x = r
  <2>1. Len(Held) + 1 \in 1..(Len(Held) + 1)
    BY <1>7
  <2> QED
    BY <1>2, <1>7, <2>1 DEF LiveIn
<1>9. \A x : x \in Unsettled' <=> x \in Unsettled \/ x = r
  BY <1>1, <1>3, <1>8 DEF Parts
<1>10. OnePlace'
  <2>1. r \notin acked /\ r \notin dead /\ r \notin Unsettled
    BY DEF EngineInv, OnePlace
  <2>2. Unsettled' = Unsettled \cup {r}
    BY <1>9
  <2> QED
    BY <1>1, <2>1, <2>2 DEF EngineInv, OnePlace
<1>11. /\ waited \in [Records -> Ages \cup {None}] /\ kept \in [Records -> Ages \cup {None}]
       /\ \A x \in Records : x # r => waited'[x] = waited[x] /\ kept'[x] = kept[x]
       /\ waited'[r] = (IF waited[r] = None THEN 0 ELSE waited[r]) /\ kept'[r] = IF kept[r] = None THEN 0 ELSE kept[r]
  BY <1>1 DEF EngineInv, Typed
<1>12. waited[r] = None \/ waited[r] \in Nat
  BY <1>1, <1>11, AgeNumbers
<1>13. HeldIsOld'
  <2>1. \A x \in Records : waited[x] = MaxAge => waited'[x] = MaxAge
    BY <1>11, AgeNumbers
  <2> QED
    BY <1>1, <1>5, <2>1 DEF EngineInv, WaitInv, HeldIsOld, MaxAge
<1>14. WaitsCoverAges'
  <2> SUFFICES ASSUME NEW i \in DOMAIN Held', Held'[i].live PROVE waited'[Held'[i].rec] >= Held'[i].age
    BY DEF WaitsCoverAges
  <2>1. CASE i \in 1..Len(Held)
    <3>1. Held'[i] = Held[i] /\ Held[i].rec # r /\ Held[i].rec \in Records
      BY <1>2, <1>4, <1>7, <2>1, DeliveryFields
    <3> QED
      BY <1>7, <1>11, <2>1, <3>1 DEF EngineInv, WaitInv, WaitsCoverAges
  <2>2. CASE i = Len(Held) + 1
    BY <1>2, <1>7, <1>11, <1>12, <2>2
  <2> QED
    BY <1>7, <2>1, <2>2
<1>15. KeptIsSeen'
  <2>1. ASSUME NEW i \in DOMAIN Held', Held'[i].live
        PROVE  \/ kept'[Held'[i].rec] <= obs'.held \/ kept'[Held'[i].rec] <= Held'[i].age
               \/ obs'.settled <= Held'[i].age
    <3>1. CASE i \in 1..Len(Held)
      <4>1. Held'[i] = Held[i] /\ Held[i].rec # r /\ Held[i].rec \in Records /\ Held[i].live
        BY <1>2, <1>4, <1>7, <2>1, <3>1, DeliveryFields
      <4> QED
        BY <1>5, <1>7, <1>11, <3>1, <4>1 DEF EngineInv, WaitInv, KeptIsSeen
    <3>2. CASE i = Len(Held) + 1 /\ kept[r] = None
      <4>1. Held'[i] = Delivery(r) /\ kept'[r] = 0
        BY <1>7, <1>11, <3>2
      <4> QED
        BY <1>2, <4>1
    <3>3. CASE i = Len(Held) + 1 /\ kept[r] # None
      <4>1. obs.held # None
        BY <3>3 DEF EngineInv, WaitInv, KeptIsSeen
      <4>2. obs.held = MaxAge /\ kept[r] \in Ages
        BY <1>1, <1>11, <3>3, <4>1 DEF EngineInv, WaitInv, HeldIsOld
      <4>3. kept[r] <= obs.held
        BY <4>2, AgeNumbers
      <4> QED
        BY <1>2, <1>5, <1>7, <1>11, <3>3, <4>3
    <3> QED
      BY <1>7, <2>1, <3>1, <3>2, <3>3
  <2>2. \A x \in queue' : kept'[x] # None => obs'.held # None
    BY <1>1, <1>5, <1>11 DEF EngineInv, WaitInv, KeptIsSeen, Typed
  <2>3. \A x \in Records' : x \in acked' \cup dead' \/ kinds'[x] = "malformed" => kept'[x] = None
    <3>1. r \notin acked /\ r \notin dead
      BY DEF EngineInv, OnePlace
    <3> QED
      BY <1>1, <1>11, <3>1 DEF EngineInv, WaitInv, KeptIsSeen
  <2>4. None' = None
    BY DEF None
  <2> QED
    BY <2>1, <2>2, <2>3, <2>4 DEF KeptIsSeen
<1> QED
  BY <1>6, <1>10, <1>13, <1>14, <1>15 DEF WaitInv

\* A delivery leaves the line: it is settled, it goes back to the broker, or it was lost with its
\* channel.
Leaves(i) ==
    /\ i \in DOMAIN Held /\ i <= Places + 1 /\ Without(Held, Held', i)
    /\ Places' = IF i <= Places THEN Places - 1 ELSE Places
    /\ \A j \in DOMAIN Held : j < i /\ Held[j].live => Held[i].live /\ Held[i].age = MaxAge

\* What the line is without the delivery at i.
LEMMA LeaveParts ==
    ASSUME EngineInv, Typed', kinds' = kinds, NEW i, Leaves(i), obs'.accepted = Tail(obs.accepted)
    PROVE  /\ LineInv' /\ obs.accepted # <<>> /\ Head(obs.accepted) \in Ages
           /\ Held[i] \in Deliveries
           /\ Held[i].live => Head(obs.accepted) >= Held[i].age
           /\ \A k \in DOMAIN Held' : \E x \in DOMAIN Held : x # i /\ Held'[k] = Held[x]
           /\ ~Held[i].live => Unsettled' = Unsettled
           /\ Held[i].live => /\ Unsettled' = Unsettled \ {Held[i].rec} /\ Held[i].rec \in Unsettled
                              /\ \A k \in DOMAIN Held' : Held'[k].live => Held'[k].rec # Held[i].rec
<1>1. Parts /\ Parts' /\ Deliveries' = Deliveries /\ Ages' = Ages
  BY TypedParts, NextParts DEF EngineInv, Deliveries, Records, Ages, MaxAge
<1>2. /\ Held \in Seq(Deliveries) /\ Held' \in Seq(Deliveries) /\ obs.accepted \in Seq(Ages) /\ Places \in Nat
      /\ i \in DOMAIN Held /\ i <= Places + 1 /\ Without(Held, Held', i)
  BY <1>1 DEF Parts, Leaves
<1>3. /\ obs.accepted # <<>> /\ obs.accepted[1] = Head(obs.accepted) /\ obs.accepted[1] \in Ages
      /\ InLine(Held') /\ Entries(Held', Tail(obs.accepted), IF i <= Places THEN Places - 1 ELSE Places)
      /\ Held[i].live => obs.accepted[1] >= Held[i].age
  BY <1>2, LeaveKeepsLine DEF EngineInv, LineInv, Leaves
<1>4. Places' <= MaxPending
  BY <1>2, BoundsAssumption DEF EngineInv, LineInv, Leaves
<1>5. LineInv'
  BY <1>3, <1>4 DEF LineInv, Leaves
<1>6. /\ DOMAIN Held = 1..Len(Held) /\ DOMAIN Held' = 1..(Len(Held) - 1) /\ Len(Held) \in Nat /\ i \in 1..Len(Held)
      /\ \A k \in 1..(Len(Held) - 1) : Held'[k] = IF k < i THEN Held[k] ELSE Held[k + 1]
  BY <1>2 DEF Without
<1>7. ASSUME NEW k \in DOMAIN Held' PROVE \E x \in DOMAIN Held : x # i /\ Held'[k] = Held[x]
  <2>1. k \in 1..Len(Held) /\ k + 1 \in 1..Len(Held)
    BY <1>6
  <2>2. CASE k < i
    BY <1>6, <2>1, <2>2
  <2>3. CASE ~(k < i)
    <3>1. k + 1 # i
      BY <1>6, <2>1, <2>3
    <3> QED
      BY <1>6, <2>1, <2>3, <3>1
  <2> QED
    BY <2>2, <2>3
<1>8. ASSUME NEW x \in DOMAIN Held, x # i PROVE \E k \in DOMAIN Held' : Held'[k] = Held[x]
  <2>1. CASE x < i
    <3>1. x \in 1..(Len(Held) - 1)
      BY <1>6, <2>1
    <3> QED
      BY <1>6, <2>1, <3>1
  <2>2. CASE x > i
    <3>1. x - 1 \in 1..(Len(Held) - 1) /\ ~(x - 1 < i) /\ (x - 1) + 1 = x
      BY <1>6, <2>2
    <3> QED
      BY <1>6, <3>1
  <2> QED
    BY <1>6, <1>8, <2>1, <2>2
<1>9. \A r : LiveIn(Held', r) <=> \E x \in DOMAIN Held : x # i /\ Held[x].live /\ Held[x].rec = r
  BY <1>7, <1>8 DEF LiveIn
<1>10. (\A r : r \in Unsettled <=> LiveIn(Held, r)) /\ (\A r : r \in Unsettled' <=> LiveIn(Held', r))
  BY <1>1 DEF Parts
<1>11. ASSUME ~Held[i].live PROVE Unsettled' = Unsettled
  <2>1. \A r : LiveIn(Held', r) <=> LiveIn(Held, r)
    BY <1>9, <1>11 DEF LiveIn
  <2> QED
    BY <1>10, <2>1
<1>12. ASSUME Held[i].live
       PROVE  /\ Unsettled' = Unsettled \ {Held[i].rec} /\ Held[i].rec \in Unsettled
              /\ \A k \in DOMAIN Held' : Held'[k].live => Held'[k].rec # Held[i].rec
  <2>1. \A x \in DOMAIN Held : x # i /\ Held[x].live => Held[x].rec # Held[i].rec
    BY <1>2, <1>12 DEF EngineInv, LineInv, InLine
  <2>2. \A r : LiveIn(Held', r) <=> LiveIn(Held, r) /\ r # Held[i].rec
    BY <1>9, <2>1 DEF LiveIn
  <2>3. LiveIn(Held, Held[i].rec)
    BY <1>2, <1>12 DEF LiveIn
  <2>4. \A k \in DOMAIN Held' : Held'[k].live => Held'[k].rec # Held[i].rec
    BY <1>7, <2>1
  <2>5. \A r : r \in Unsettled' <=> r \in Unsettled /\ r # Held[i].rec
    BY <1>10, <2>2
  <2> QED
    BY <1>10, <2>3, <2>4, <2>5
<1>13. Held[i] \in Deliveries
  BY <1>2
<1> QED
  BY <1>3, <1>5, <1>7, <1>11, <1>12, <1>13

\* An ack or a reject.
LEMMA SettleLine ==
    ASSUME EngineInv, Typed', NEW i, Leaves(i), Held[i].live, NEW result \in {"ack", "reject"},
           obs' = Settled(obs, result), Finish(Held[i].rec),
           acked' = IF result = "ack" THEN acked \cup {Held[i].rec} ELSE acked,
           dead' = IF result = "reject" THEN dead \cup {Held[i].rec} ELSE dead,
           UNCHANGED <<kinds, queue>>
    PROVE  LineInv' /\ OnePlace' /\ WaitInv'
<1> DEFINE r == Held[i].rec
<1>0. Parts /\ Records' = Records /\ obs \in Observers
  BY TypedParts DEF EngineInv, Typed, Observers, Records
<1>1. obs.accepted # <<>>
  BY <1>0 DEF Leaves, Parts, EngineInv, LineInv, Entries
<1>2. obs'.accepted = Tail(obs.accepted) /\ obs'.settled = 0 /\ obs'.held = None
  BY <1>0, <1>1, SettledParts
<1>3. /\ LineInv' /\ Unsettled' = Unsettled \ {r} /\ r \in Unsettled /\ r \in Records
      /\ \A k \in DOMAIN Held' : Held'[k].live => Held'[k].rec # r
      /\ \A k \in DOMAIN Held' : \E x \in DOMAIN Held : Held'[k] = Held[x]
  <2>1. Held[i] \in Deliveries
    BY <1>2, LeaveParts
  <2> QED
    BY <1>2, <2>1, LeaveParts, DeliveryFields
<1>4. /\ \A x \in Records : x # r => waited'[x] = waited[x]
      /\ \A x \in Records : kept'[x] = IF x \in queue \cup {r} THEN None ELSE kept[x]
  BY <1>0 DEF Finish, EngineInv, Typed
<1> HIDE DEF r
<1>5. OnePlace'
  <2>1. \A x : x \in Unsettled' <=> x \in Unsettled /\ x # r
    BY <1>3
  <2>2. r \notin queue /\ r \notin acked /\ r \notin dead
    BY <1>3 DEF EngineInv, OnePlace
  <2>3. (acked' = acked \cup {r} /\ dead' = dead) \/ (acked' = acked /\ dead' = dead \cup {r})
    BY DEF r
  <2> QED
    BY <1>0, <1>3, <2>1, <2>2, <2>3 DEF EngineInv, OnePlace
<1>6. HeldIsOld'
  BY <1>2 DEF HeldIsOld, None
<1>7. \A k \in DOMAIN Held' : Held'[k].rec \in Records /\ Held'[k].age \in Nat
  <2>1. \A x \in DOMAIN Held : Held[x].rec \in Records /\ Held[x].age \in Nat
    BY <1>0, DeliveryFields, AgeNumbers DEF Parts
  <2> QED
    BY <1>3, <2>1
<1>8. WaitsCoverAges'
  BY <1>3, <1>4, <1>7 DEF EngineInv, WaitInv, WaitsCoverAges
<1>9. KeptIsSeen'
  <2>1. \A k \in DOMAIN Held' : obs'.settled <= Held'[k].age
    BY <1>2, <1>7
  <2>2. \A x \in queue' : kept'[x] = None
    BY <1>4 DEF EngineInv, Typed
  <2>3. \A x \in Records : x \in acked' \cup dead' \/ kinds'[x] = "malformed" => kept'[x] = None
    <3>1. \A x \in acked' \cup dead' : x \in acked \cup dead \cup {r}
      BY DEF r
    <3> QED
      BY <1>4, <3>1 DEF EngineInv, WaitInv, KeptIsSeen
  <2> QED
    BY <1>0, <2>1, <2>2, <2>3 DEF KeptIsSeen, None
<1> QED
  BY <1>3, <1>5, <1>6, <1>8, <1>9 DEF WaitInv

\* A return to the broker after max_hold_s.
LEMMA ReturnLine ==
    ASSUME EngineInv, Typed', NEW i, Leaves(i), Held[i].live, Held[i].age >= MaxHold,
           obs' = Settled(obs, "held_timeout"), queue' = queue \cup {Held[i].rec},
           UNCHANGED <<kinds, acked, dead, waited, kept>>
    PROVE  LineInv' /\ OnePlace' /\ WaitInv'
<1> DEFINE r == Held[i].rec
<1>0. Parts /\ Records' = Records /\ obs \in Observers /\ i \in DOMAIN Held
  BY TypedParts DEF EngineInv, Typed, Observers, Records, Leaves
<1>1. obs.accepted # <<>>
  BY <1>0 DEF Leaves, Parts, EngineInv, LineInv, Entries
<1>2. /\ obs'.accepted = Tail(obs.accepted) /\ obs'.settled = obs.settled
      /\ obs'.held = IF obs.held = None THEN Head(obs.accepted) ELSE obs.held
  BY <1>0, <1>1, SettledParts
<1>3. /\ LineInv' /\ Unsettled' = Unsettled \ {r} /\ r \in Unsettled /\ r \in Records
      /\ \A k \in DOMAIN Held' : \E x \in DOMAIN Held : Held'[k] = Held[x]
      /\ Head(obs.accepted) \in Ages /\ Head(obs.accepted) >= Held[i].age /\ Held[i].age \in Ages
  <2>1. Held[i] \in Deliveries
    BY <1>2, LeaveParts
  <2> QED
    BY <1>2, <2>1, LeaveParts, DeliveryFields
<1>4. Held[i].age = MaxAge /\ Head(obs.accepted) = MaxAge
  BY <1>3, AgeNumbers
<1>5. waited[r] = MaxAge
  <2>1. waited[r] \in Ages \cup {None} /\ waited[r] >= Held[i].age
    BY <1>0, <1>3 DEF EngineInv, Typed, WaitInv, WaitsCoverAges
  <2> QED
    BY <1>4, <2>1, AgeNumbers
<1>6. obs'.held = MaxAge /\ obs'.held # None /\ obs'.held >= obs.held
  <2>1. obs.held # None => obs.held = MaxAge
    BY DEF EngineInv, WaitInv, HeldIsOld
  <2> QED
    BY <1>2, <1>4, <2>1, AgeNumbers
<1> HIDE DEF r
<1>7. OnePlace'
  <2>1. \A x : x \in Unsettled' <=> x \in Unsettled /\ x # r
    BY <1>3
  <2>2. queue' = queue \cup {r} /\ r \notin acked /\ r \notin dead
    BY <1>3 DEF EngineInv, OnePlace, r
  <2> QED
    BY <1>0, <1>3, <2>1, <2>2 DEF EngineInv, OnePlace
<1>8. HeldIsOld'
  BY <1>0, <1>3, <1>5, <1>6 DEF HeldIsOld, MaxAge
<1>9. WaitsCoverAges'
  BY <1>3 DEF EngineInv, WaitInv, WaitsCoverAges
<1>10. KeptIsSeen'
  <2>1. ASSUME NEW k \in DOMAIN Held', Held'[k].live PROVE kept'[Held'[k].rec] <= obs'.held
    <3>1. Held'[k].rec \in Records
      BY <1>0, <1>3, DeliveryFields DEF Parts
    <3>2. kept[Held'[k].rec] \in Ages \cup {None}
      BY <3>1 DEF EngineInv, Typed
    <3> QED
      BY <1>6, <3>2, AgeNumbers
  <2> QED
    BY <1>0, <1>6, <2>1 DEF EngineInv, WaitInv, KeptIsSeen, None
<1> QED
  BY <1>3, <1>7, <1>8, <1>9, <1>10 DEF WaitInv

\* A delivery that was lost with its channel is reported.
LEMMA ReportLostLine ==
    ASSUME EngineInv, Typed', NEW i, Leaves(i), ~Held[i].live, obs' = Settled(obs, "delivery_lost"),
           UNCHANGED <<kinds, queue, acked, dead, waited, kept>>
    PROVE  LineInv' /\ OnePlace' /\ WaitInv'
<1>0. Parts /\ Records' = Records /\ obs \in Observers
  BY TypedParts DEF EngineInv, Typed, Observers, Records
<1>1. obs.accepted # <<>>
  BY <1>0 DEF Leaves, Parts, EngineInv, LineInv, Entries
<1>2. obs'.accepted = Tail(obs.accepted) /\ obs'.settled = obs.settled /\ obs'.held = obs.held
  BY <1>0, <1>1, SettledParts
<1>3. /\ LineInv' /\ Unsettled' = Unsettled
      /\ \A k \in DOMAIN Held' : \E x \in DOMAIN Held : Held'[k] = Held[x]
  BY <1>2, LeaveParts
<1>4. OnePlace'
  BY <1>0, <1>3 DEF EngineInv, OnePlace
<1>5. HeldIsOld'
  BY <1>0, <1>2 DEF EngineInv, WaitInv, HeldIsOld, MaxAge, None
<1>6. WaitsCoverAges' /\ KeptIsSeen'
  BY <1>0, <1>2, <1>3 DEF EngineInv, WaitInv, WaitsCoverAges, KeptIsSeen, None
<1> QED
  BY <1>3, <1>4, <1>5, <1>6 DEF WaitInv

\* H is the line of the batch b, the queue p and the deliveries w in submit.
IsLine(H, b, p, w) ==
    /\ H \in Seq(Deliveries) /\ Len(H) = Len(b) + Len(p) + Len(w)
    /\ \A i \in 1..Len(b) : H[i] = b[i]
    /\ \A i \in 1..Len(p) : H[Len(b) + i] = p[i]
    /\ \A i \in 1..Len(w) : H[Len(b) + Len(p) + i] = w[i]

\* The concatenation is the line, and the only one.
LEMMA IsLineParts ==
    ASSUME NEW b \in Seq(Deliveries), NEW p \in Seq(Deliveries), NEW w \in Seq(Deliveries)
    PROVE  IsLine(b \o p \o w, b, p, w)
  BY LineParts, SMTT(30) DEF IsLine

\* Where the deliveries of the three queues are in the line.
LEMMA IsLinePositions ==
    ASSUME NEW b \in Seq(Deliveries), NEW p \in Seq(Deliveries), NEW w \in Seq(Deliveries),
           NEW H, IsLine(H, b, p, w), NEW i \in 1..Len(H)
    PROVE  \/ i \in 1..Len(b)
           \/ \E j \in 1..Len(p) : i = Len(b) + j
           \/ \E j \in 1..Len(w) : i = Len(b) + Len(p) + j
<1>1. Len(b) \in Nat /\ Len(p) \in Nat /\ Len(w) \in Nat /\ i \in 1..(Len(b) + Len(p) + Len(w))
  BY DEF IsLine
<1>2. \/ i \in 1..Len(b)
      \/ i - Len(b) \in 1..Len(p) /\ i = Len(b) + (i - Len(b))
      \/ i - Len(b) - Len(p) \in 1..Len(w) /\ i = Len(b) + Len(p) + (i - Len(b) - Len(p))
  BY <1>1
<1> QED
  BY <1>2

\* Aged and lost deliveries are deliveries.
LEMMA AgedAndLost ==
    ASSUME NEW t \in Seq(Deliveries)
    PROVE  /\ Aged(t) \in Seq(Deliveries) /\ Len(Aged(t)) = Len(t)
           /\ \A i \in 1..Len(t) : Aged(t)[i] = [t[i] EXCEPT !.age = Older(@)]
           /\ Lost(t) \in Seq(Deliveries) /\ Len(Lost(t)) = Len(t)
           /\ \A i \in 1..Len(t) : Lost(t)[i] = [t[i] EXCEPT !.live = FALSE]
<1>1. DOMAIN t = 1..Len(t) /\ Len(t) \in Nat /\ \A i \in 1..Len(t) : t[i] \in Deliveries /\ Older(t[i].age) \in Ages
  BY DeliveryFields, OlderKeepsOrder
<1>2. /\ Aged(t) = [i \in 1..Len(t) |-> [t[i] EXCEPT !.age = Older(@)]]
      /\ Lost(t) = [i \in 1..Len(t) |-> [t[i] EXCEPT !.live = FALSE]]
  BY <1>1 DEF Aged, Lost
<1>3. \A i \in 1..Len(t) : [t[i] EXCEPT !.age = Older(@)] \in Deliveries /\ [t[i] EXCEPT !.live = FALSE] \in Deliveries
  BY <1>1 DEF Deliveries
<1>4. Aged(t) \in Seq(Deliveries) /\ Len(Aged(t)) = Len(t)
  BY <1>1, <1>2, <1>3, IsASeq
<1>5. Lost(t) \in Seq(Deliveries) /\ Len(Lost(t)) = Len(t)
  BY <1>1, <1>2, <1>3, IsASeq
<1> QED
  BY <1>2, <1>4, <1>5

\* Time passes for the line as it does for its parts.
LEMMA AgedLine ==
    ASSUME NEW b \in Seq(Deliveries), NEW p \in Seq(Deliveries), NEW w \in Seq(Deliveries),
           NEW H, IsLine(H, b, p, w), NEW G, IsLine(G, Aged(b), Aged(p), Aged(w))
    PROVE  G = Aged(H)
<1>1. /\ Aged(b) \in Seq(Deliveries) /\ Len(Aged(b)) = Len(b) /\ \A i \in 1..Len(b) : Aged(b)[i] = [b[i] EXCEPT !.age = Older(@)]
      /\ Aged(p) \in Seq(Deliveries) /\ Len(Aged(p)) = Len(p) /\ \A i \in 1..Len(p) : Aged(p)[i] = [p[i] EXCEPT !.age = Older(@)]
      /\ Aged(w) \in Seq(Deliveries) /\ Len(Aged(w)) = Len(w) /\ \A i \in 1..Len(w) : Aged(w)[i] = [w[i] EXCEPT !.age = Older(@)]
      /\ Aged(H) \in Seq(Deliveries) /\ Len(Aged(H)) = Len(H) /\ \A i \in 1..Len(H) : Aged(H)[i] = [H[i] EXCEPT !.age = Older(@)]
  BY AgedAndLost DEF IsLine
<1>2. ASSUME NEW i \in 1..Len(H) PROVE G[i] = Aged(H)[i]
  <2>1. \/ i \in 1..Len(b)
        \/ \E j \in 1..Len(p) : i = Len(b) + j
        \/ \E j \in 1..Len(w) : i = Len(b) + Len(p) + j
    BY IsLinePositions
  <2>2. CASE i \in 1..Len(b)
    <3>1. G[i] = Aged(b)[i] /\ H[i] = b[i]
      BY <1>1, <2>2 DEF IsLine
    <3> QED
      BY <1>1, <2>2, <3>1
  <2>3. ASSUME NEW j \in 1..Len(p), i = Len(b) + j PROVE G[i] = Aged(H)[i]
    <3>1. G[i] = Aged(p)[j] /\ H[i] = p[j]
      BY <1>1, <2>3 DEF IsLine
    <3>2. Aged(p)[j] = [p[j] EXCEPT !.age = Older(@)]
      BY <1>1
    <3>3. Aged(H)[i] = [H[i] EXCEPT !.age = Older(@)]
      BY <1>1
    <3> QED
      BY <3>1, <3>2, <3>3
  <2>4. ASSUME NEW j \in 1..Len(w), i = Len(b) + Len(p) + j PROVE G[i] = Aged(H)[i]
    <3>1. G[i] = Aged(w)[j] /\ H[i] = w[j]
      BY <1>1, <2>4 DEF IsLine
    <3>2. Aged(w)[j] = [w[j] EXCEPT !.age = Older(@)]
      BY <1>1
    <3>3. Aged(H)[i] = [H[i] EXCEPT !.age = Older(@)]
      BY <1>1
    <3> QED
      BY <3>1, <3>2, <3>3
  <2> QED
    BY <2>1, <2>2, <2>3, <2>4
<1>3. G \in Seq(Deliveries) /\ Len(G) = Len(H) /\ Len(Aged(H)) = Len(G)
  BY <1>1 DEF IsLine
<1> QED
  BY <1>1, <1>2, <1>3, SameSeq

\* The line is lost with its parts.
LEMMA LostLine ==
    ASSUME NEW b \in Seq(Deliveries), NEW p \in Seq(Deliveries), NEW w \in Seq(Deliveries),
           NEW H, IsLine(H, b, p, w), NEW G, IsLine(G, Lost(b), Lost(p), Lost(w))
    PROVE  G = Lost(H)
<1>1. /\ Lost(b) \in Seq(Deliveries) /\ Len(Lost(b)) = Len(b) /\ \A i \in 1..Len(b) : Lost(b)[i] = [b[i] EXCEPT !.live = FALSE]
      /\ Lost(p) \in Seq(Deliveries) /\ Len(Lost(p)) = Len(p) /\ \A i \in 1..Len(p) : Lost(p)[i] = [p[i] EXCEPT !.live = FALSE]
      /\ Lost(w) \in Seq(Deliveries) /\ Len(Lost(w)) = Len(w) /\ \A i \in 1..Len(w) : Lost(w)[i] = [w[i] EXCEPT !.live = FALSE]
      /\ Lost(H) \in Seq(Deliveries) /\ Len(Lost(H)) = Len(H) /\ \A i \in 1..Len(H) : Lost(H)[i] = [H[i] EXCEPT !.live = FALSE]
  BY AgedAndLost DEF IsLine
<1>2. ASSUME NEW i \in 1..Len(H) PROVE G[i] = Lost(H)[i]
  <2>1. \/ i \in 1..Len(b)
        \/ \E j \in 1..Len(p) : i = Len(b) + j
        \/ \E j \in 1..Len(w) : i = Len(b) + Len(p) + j
    BY IsLinePositions
  <2>2. CASE i \in 1..Len(b)
    <3>1. G[i] = Lost(b)[i] /\ H[i] = b[i]
      BY <1>1, <2>2 DEF IsLine
    <3> QED
      BY <1>1, <2>2, <3>1
  <2>3. ASSUME NEW j \in 1..Len(p), i = Len(b) + j PROVE G[i] = Lost(H)[i]
    <3>1. G[i] = Lost(p)[j] /\ H[i] = p[j]
      BY <1>1, <2>3 DEF IsLine
    <3>2. Lost(p)[j] = [p[j] EXCEPT !.live = FALSE]
      BY <1>1
    <3>3. Lost(H)[i] = [H[i] EXCEPT !.live = FALSE]
      BY <1>1
    <3> QED
      BY <3>1, <3>2, <3>3
  <2>4. ASSUME NEW j \in 1..Len(w), i = Len(b) + Len(p) + j PROVE G[i] = Lost(H)[i]
    <3>1. G[i] = Lost(w)[j] /\ H[i] = w[j]
      BY <1>1, <2>4 DEF IsLine
    <3>2. Lost(w)[j] = [w[j] EXCEPT !.live = FALSE]
      BY <1>1
    <3>3. Lost(H)[i] = [H[i] EXCEPT !.live = FALSE]
      BY <1>1
    <3> QED
      BY <3>1, <3>2, <3>3
  <2> QED
    BY <2>1, <2>2, <2>3, <2>4
<1>3. G \in Seq(Deliveries) /\ Len(G) = Len(H) /\ Len(Lost(H)) = Len(G)
  BY <1>1 DEF IsLine
<1> QED
  BY <1>1, <1>2, <1>3, SameSeq

\* Time passes.
LEMMA AgeLine ==
    ASSUME EngineInv, Typed', Tick
    PROVE  LineInv' /\ OnePlace' /\ WaitInv'
<1>0. Parts /\ Parts' /\ Records' = Records /\ UNCHANGED <<kinds, queue, acked, dead>>
  BY TypedParts, NextParts DEF EngineInv, Tick, broker, Records
<1>1. /\ flush'.batch = Aged(flush.batch) /\ pending' = Aged(pending) /\ waiting' = Aged(waiting)
      /\ obs'.accepted = [i \in DOMAIN obs.accepted |-> Older(obs.accepted[i])]
      /\ obs'.held = Older(obs.held) /\ obs'.settled = Older(obs.settled)
      /\ \A r \in Records : waited'[r] = Older(waited[r]) /\ kept'[r] = Older(kept[r])
  BY DEF Tick, EngineInv, Typed, Flushes, Observers
<1>2. flush.batch \in Seq(Deliveries) /\ pending \in Seq(Deliveries) /\ waiting \in Seq(Deliveries)
  BY <1>0 DEF Parts
<1>3. Held' = Aged(Held) /\ Places' = Places
  <2>1. IsLine(Held, flush.batch, pending, waiting)
    BY <1>2, IsLineParts DEF Held
  <2>3. flush'.batch \in Seq(Deliveries) /\ pending' \in Seq(Deliveries) /\ waiting' \in Seq(Deliveries)
    BY <1>1, <1>2, AgedAndLost
  <2>4. IsLine(Held', flush'.batch, pending', waiting')
    BY <2>3, IsLineParts DEF Held
  <2>5. Held' = Aged(Held)
    BY <1>1, <1>2, <2>1, <2>4, AgedLine
  <2>2. Len(Aged(flush.batch)) = Len(flush.batch) /\ Len(Aged(pending)) = Len(pending)
    BY <1>2, AgedAndLost
  <2> QED
    BY <1>1, <2>2, <2>5 DEF Places
<1>4. /\ DOMAIN Held' = DOMAIN Held /\ InLine(Held') /\ Entries(Held', obs'.accepted, Places)
      /\ \A i \in DOMAIN Held : Held'[i].age = Older(Held[i].age) /\ Held'[i].live = Held[i].live
                                /\ Held'[i].rec = Held[i].rec
  <2>1. Held \in Seq(Deliveries) /\ obs.accepted \in Seq(Ages) /\ Places \in Nat
    BY <1>0 DEF Parts
  <2>2. DOMAIN Aged(Held) = DOMAIN Held
    BY DEF Aged
  <2> QED
    BY <1>1, <1>3, <2>1, <2>2, AgeingKeepsLine DEF EngineInv, LineInv
<1>5. LineInv'
  BY <1>3, <1>4 DEF EngineInv, LineInv
<1>6. Unsettled' = Unsettled
  <2>1. \A r : LiveIn(Held', r) <=> LiveIn(Held, r)
    BY <1>4 DEF LiveIn
  <2> QED
    BY <1>0, <2>1 DEF Parts
<1>7. OnePlace'
  BY <1>0, <1>6 DEF EngineInv, OnePlace
<1>8. /\ \A i \in DOMAIN Held : Held[i].rec \in Records /\ Held[i].age \in Ages
      /\ \A r \in Records : waited[r] \in Ages \cup {None} /\ kept[r] \in Ages \cup {None}
      /\ obs.held \in Ages \cup {None} /\ obs.settled \in Ages
  <2>1. Held \in Seq(Deliveries) /\ obs.held \in Ages \cup {None} /\ obs.settled \in Ages
    BY <1>0 DEF Parts
  <2>2. waited \in [Records -> Ages \cup {None}] /\ kept \in [Records -> Ages \cup {None}]
    BY DEF EngineInv, Typed
  <2> QED
    BY <2>1, <2>2, DeliveryFields
<1>9. HeldIsOld'
  <2>1. obs'.held # None => obs.held # None
    BY <1>1, OlderKeepsOrder
  <2> QED
    BY <1>0, <1>1, <2>1, OlderKeepsOrder DEF EngineInv, WaitInv, HeldIsOld, MaxAge, None
<1>10. WaitsCoverAges'
  <2> SUFFICES ASSUME NEW i \in DOMAIN Held', Held'[i].live PROVE waited'[Held'[i].rec] >= Held'[i].age
    BY DEF WaitsCoverAges
  <2>1. Held[i].age <= waited[Held[i].rec]
    BY <1>4, <1>8, AgeNumbers DEF EngineInv, WaitInv, WaitsCoverAges
  <2>2. Older(Held[i].age) <= Older(waited[Held[i].rec])
    BY <1>4, <1>8, <2>1, OlderKeepsOrder
  <2>3. Older(Held[i].age) \in Int /\ Older(waited[Held[i].rec]) \in Int
    BY <1>4, <1>8, OlderKeepsOrder, AgeNumbers
  <2> QED
    BY <1>1, <1>4, <1>8, <2>2, <2>3
<1>11. KeptIsSeen'
  <2>1. ASSUME NEW i \in DOMAIN Held', Held'[i].live
        PROVE  \/ kept'[Held'[i].rec] <= obs'.held \/ kept'[Held'[i].rec] <= Held'[i].age
               \/ obs'.settled <= Held'[i].age
    <3>1. \/ kept[Held[i].rec] <= obs.held \/ kept[Held[i].rec] <= Held[i].age \/ obs.settled <= Held[i].age
      BY <1>4, <2>1 DEF EngineInv, WaitInv, KeptIsSeen
    <3>2. /\ kept'[Held'[i].rec] = Older(kept[Held[i].rec]) /\ Held'[i].age = Older(Held[i].age)
          /\ kept[Held[i].rec] \in Ages \cup {None} /\ Held[i].age \in Ages \cup {None}
      BY <1>1, <1>4, <1>8
    <3> QED
      BY <1>1, <1>8, <3>1, <3>2, OlderKeepsOrder
  <2>2. \A r \in Records : kept'[r] = None <=> kept[r] = None
    BY <1>1, <1>8, OlderKeepsOrder
  <2>3. obs.held # None => obs'.held # None
    BY <1>1, <1>8, OlderKeepsOrder
  <2>4. queue \subseteq Records
    BY DEF EngineInv, Typed
  <2> QED
    BY <1>0, <2>1, <2>2, <2>3, <2>4 DEF EngineInv, WaitInv, KeptIsSeen, None
<1> QED
  BY <1>5, <1>7, <1>9, <1>10, <1>11 DEF WaitInv

\* The channel is lost: all that is left in line is dead, and its records are back at the broker.
LEMMA LossLine ==
    ASSUME EngineInv, Typed', LoseChannel, \A i \in DOMAIN Held' : ~Held'[i].live,
           InLine(Held'), Entries(Held', obs'.accepted, Places'), Places' <= MaxPending,
           obs'.held = obs.held, obs'.settled = obs.settled, UNCHANGED <<kinds, acked, dead>>
    PROVE  LineInv' /\ OnePlace' /\ WaitInv' /\ Unsettled' = {}
<1>0. Parts /\ Parts' /\ Records' = Records /\ Unsettled \subseteq Records
  BY TypedParts, NextParts DEF EngineInv, Parts, Records
<1>1. LineInv'
  BY DEF LineInv
<1>2. Unsettled' = {}
  BY <1>0 DEF Parts, LiveIn
<1>3. queue' = queue \cup Unsettled
  BY DEF LoseChannel, Return
<1>4. OnePlace'
  BY <1>0, <1>2, <1>3 DEF EngineInv, OnePlace
<1>5. waited' = waited /\ \A r \in Records : kept'[r] = IF r \in Unsettled THEN None ELSE kept[r]
  BY DEF LoseChannel
<1>6. HeldIsOld'
  BY <1>0, <1>5 DEF EngineInv, WaitInv, HeldIsOld, MaxAge, None
<1>7. WaitsCoverAges'
  BY DEF WaitsCoverAges
<1>8. KeptIsSeen'
  <2>1. \A r \in queue' : kept'[r] # None => obs'.held # None
    <3>1. queue \subseteq Records
      BY DEF EngineInv, Typed
    <3> QED
      BY <1>0, <1>3, <1>5, <3>1 DEF EngineInv, WaitInv, KeptIsSeen
  <2>2. \A r \in Records : r \in acked' \cup dead' \/ kinds'[r] = "malformed" => kept'[r] = None
    BY <1>5 DEF EngineInv, WaitInv, KeptIsSeen
  <2> QED
    BY <1>0, <2>1, <2>2 DEF KeptIsSeen, None
<1> QED
  BY <1>1, <1>2, <1>4, <1>6, <1>7, <1>8 DEF WaitInv

-----------------------------------------------------------------------------
(* What the actions leave alone.                                           *)

\* The types of the next state, variable by variable.
LEMMA TypedNext ==
    ASSUME Typed, kinds' = kinds, queue' \subseteq Records, acked' \subseteq Records, dead' \subseteq Records,
           stored' \subseteq Records, lingering' \subseteq SUBSET Records, returns' \in [Records -> 0..MaxRequeues],
           waited' \in [Records -> Ages \cup {None}], kept' \in [Records -> Ages \cup {None}],
           waiting' \in Seq(Deliveries), pending' \in Seq(Deliveries), flush' \in Flushes, obs' \in Observers,
           attempts' \in 0..(MaxPoisonRetries - 1), tries' \in 0..MaxFlushRetries, stage' \in Stages
    PROVE  Typed'
  BY DEF Typed, Records, Deliveries, Ages, MaxAge, None, Stages, Flushes, Observers

\* A batch with one field changed.
LEMMA FlushFields ==
    ASSUME NEW f \in Flushes, NEW b \in Seq(Deliveries)
    PROVE  /\ [f EXCEPT !.batch = b] \in Flushes /\ [f EXCEPT !.batch = b].batch = b
           /\ [f EXCEPT !.batch = b].pc = f.pc /\ [f EXCEPT !.batch = b].parts = f.parts
           /\ [f EXCEPT !.batch = b].rejected = f.rejected
  BY DEF Flushes

\* Appending to the end of a line.
LEMMA AppendToLine ==
    ASSUME NEW S, NEW s \in Seq(S), NEW t \in Seq(S), NEW e \in S
    PROVE  s \o Append(t, e) = Append(s \o t, e)
<1>1. Append(t, e) = t \o <<e>> /\ s \o t \in Seq(S) /\ <<e>> \in Seq(S)
  BY AppendIsConcat
<1>2. Append(s \o t, e) = (s \o t) \o <<e>>
  BY <1>1, AppendIsConcat
<1>3. (s \o t) \o <<e>> = s \o (t \o <<e>>)
  BY <1>1, ConcatAssociative
<1> QED
  BY <1>1, <1>2, <1>3

\* A batch that is not touched stays accounted for while more records are committed.
LEMMA FlushKept ==
    ASSUME EngineInv, UNCHANGED <<flush, kinds>>, stored \subseteq stored'
    PROVE  FlushInv'
  BY DEF EngineInv, FlushInv

\* Nor do settlements become undeserved.
LEMMA EarnedKept ==
    ASSUME EngineInv, UNCHANGED <<acked, dead, kinds>>, stored \subseteq stored',
           \A r \in dead : returns[r] = MaxRequeues => returns'[r] = MaxRequeues
    PROVE  SettlementsAreEarned'
  BY DEF EngineInv, SettlementsAreEarned, AckedIsStored, DeadLettersAreEarned

\* Counting a return stops at MaxRequeues.
LEMMA ReturnParts ==
    ASSUME Typed, NEW R \in SUBSET Records, Return(R)
    PROVE  /\ queue' = queue \cup R /\ queue' \subseteq Records /\ returns' \in [Records -> 0..MaxRequeues]
           /\ \A r \in Records : returns[r] = MaxRequeues => returns'[r] = MaxRequeues
<1>1. returns \in [Records -> 0..MaxRequeues] /\ queue \subseteq Records /\ MaxRequeues \in Nat
  BY BoundsAssumption DEF Typed
<1>2. \A r \in Records : returns'[r] = IF r \in R /\ returns[r] < MaxRequeues THEN returns[r] + 1 ELSE returns[r]
  BY DEF Return
<1>3. \A r \in Records : returns'[r] \in 0..MaxRequeues /\ (returns[r] = MaxRequeues => returns'[r] = MaxRequeues)
  BY <1>1, <1>2
<1> QED
  BY <1>1, <1>3 DEF Return

\* A batch that is put back keeps its place at the head of the line.
LEMMA RestoreLine ==
    ASSUME Typed, Restore, UNCHANGED <<waiting, kinds>>
    PROVE  /\ Held' = Held /\ Places' = Places /\ FlushInv'
           /\ pending' \in Seq(Deliveries) /\ flush'.pc = "idle"
           /\ flush' \in Flushes
<1>1. flush.batch \in Seq(Deliveries) /\ pending \in Seq(Deliveries) /\ waiting \in Seq(Deliveries)
  BY TypedParts DEF Parts
<1>2. /\ flush' = NoFlush /\ flush'.batch = <<>> /\ flush'.parts = <<>> /\ flush'.rejected = {} /\ flush'.pc = "idle"
      /\ pending' = flush.batch \o pending
  BY DEF Restore, NoFlush
<1>3. /\ pending' \in Seq(Deliveries) /\ Len(pending') = Len(flush.batch) + Len(pending)
      /\ <<>> \o pending' = pending' /\ Len(<<>>) = 0
  BY <1>1, <1>2
<1>4. Held' = Held
  BY <1>2, <1>3 DEF Held
<1>5. Places' = Places
  BY <1>1, <1>2, <1>3 DEF Places
<1>6. FlushInv'
  BY <1>2 DEF FlushInv
<1>7. flush' \in Flushes
  BY DEF Restore, NoFlush, Flushes
<1> QED
  BY <1>2, <1>3, <1>4, <1>5, <1>6, <1>7

\* The engine's attempts during the teardown do not run out below zero.
LEMMA TryParts ==
    ASSUME EngineInv, SpendTry
    PROVE  tries' \in 0..MaxFlushRetries
<1>1. tries \in 0..MaxFlushRetries /\ MaxFlushRetries \in Nat
  BY BoundsAssumption DEF EngineInv, Typed
<1> QED
  BY <1>1 DEF SpendTry

-----------------------------------------------------------------------------
(* The initial states, and each action.                                    *)

\* Nothing has arrived.
LEMMA InitEngine == Init => EngineInv
<1> SUFFICES ASSUME Init PROVE EngineInv
  OBVIOUS
<1>1. PICK c \in Cases : kinds = c.kinds /\ budget = c.budget
  BY DEF Init
<1>2. /\ flush.batch = <<>> /\ flush.parts = <<>> /\ flush.rejected = {} /\ flush.pc = "idle" /\ flush = NoFlush
      /\ pending = <<>> /\ waiting = <<>> /\ obs = Observer /\ obs.accepted = <<>> /\ obs.held = None
  BY DEF Init, NoFlush, Observer
<1>3. Typed
  <2>1. obs \in Observers
    BY <1>2, AgeNumbers DEF Observer, Observers
  <2>2. flush \in Flushes
    BY <1>2 DEF NoFlush, Flushes
  <2>3. returns \in [Records -> 0..MaxRequeues] /\ 0 \in 0..(MaxPoisonRetries - 1) /\ tries \in 0..MaxFlushRetries
    BY BoundsAssumption DEF Init
  <2>4. waited \in [Records -> Ages \cup {None}] /\ kept \in [Records -> Ages \cup {None}]
    BY DEF Init
  <2>5. kinds \in {x.kinds : x \in Cases}
    BY <1>1
  <2> QED
    BY <1>2, <2>1, <2>2, <2>3, <2>4, <2>5 DEF Typed, Init, Stages
<1>4. Parts
  BY <1>3, TypedParts
<1>5. Held = <<>> /\ Places = 0 /\ Len(<<>>) = 0 /\ DOMAIN <<>> = {}
  BY <1>2 DEF Held, Places
<1>6. LineInv
  BY <1>2, <1>5, BoundsAssumption DEF LineInv, InLine, Entries
<1>7. Unsettled = {}
  BY <1>4, <1>5 DEF Parts, LiveIn
<1>8. OnePlace
  BY <1>7 DEF OnePlace, Init
<1>9. FlushInv /\ StageInv
  BY <1>2 DEF FlushInv, StageInv, Init
<1>10. SettlementsAreEarned
  BY DEF SettlementsAreEarned, AckedIsStored, DeadLettersAreEarned, Init
<1>11. WaitInv
  BY <1>2, <1>5 DEF WaitInv, HeldIsOld, WaitsCoverAges, KeptIsSeen, Init
<1> QED
  BY <1>3, <1>6, <1>8, <1>9, <1>10, <1>11 DEF EngineInv

\* _process_data_message: a record leaves the queue for the end of the line, with an entry of age 0.
LEMMA DeliverEngine == ASSUME EngineInv, NEW r \in Records, Deliver(r) PROVE EngineInv'
<1>0. /\ Typed /\ Parts /\ r \in queue /\ kinds[r] # "malformed" /\ queue' = queue \ {r} /\ stage = "running"
      /\ obs' = [obs EXCEPT !.accepted = Append(@, 0)]
      /\ UNCHANGED <<kinds, returns, acked, dead, stored, flush, attempts, lingering, stage, tries>>
  BY TypedParts DEF EngineInv, Deliver, Accept, Accepted
<1>1. /\ flush.batch \in Seq(Deliveries) /\ pending \in Seq(Deliveries) /\ waiting \in Seq(Deliveries)
      /\ Delivery(r) \in Deliveries /\ obs.accepted \in Seq(Ages)
  BY <1>0, DeliveryFields DEF Parts
<1>2. /\ pending' \in Seq(Deliveries) /\ waiting' \in Seq(Deliveries) /\ Held' = Append(Held, Delivery(r))
      /\ Places' >= Places /\ Places' <= MaxPending
  <2> DEFINE b == flush.batch
             d == Delivery(r)
  <2>0. /\ Places = Len(pending) + Len(b) /\ Places <= MaxPending /\ MaxPending \in Nat
        /\ Len(pending) \in Nat /\ Len(b) \in Nat /\ b \in Seq(Deliveries) /\ d \in Deliveries
        /\ Held = b \o pending \o waiting /\ Held' = b \o pending' \o waiting' /\ Places' = Len(pending') + Len(b)
    BY <1>0, <1>1, BoundsAssumption DEF Places, Held, EngineInv, LineInv
  <2>1. CASE Places < MaxPending /\ waiting = <<>>
    <3>1. pending' = Append(pending, d) /\ waiting' = waiting
      BY <2>1 DEF Deliver, Submit
    <3> HIDE DEF b, d
    <3>2. pending' \in Seq(Deliveries) /\ Len(pending') = Len(pending) + 1
      BY <1>1, <2>0, <3>1
    <3>3. Places' = Places + 1
      BY <2>0, <3>2
    <3>4. b \o pending' = Append(b \o pending, d)
      BY <1>1, <2>0, <3>1, AppendToLine
    <3>5. (b \o pending') \o <<>> = b \o pending' /\ (b \o pending) \o <<>> = b \o pending
      BY <1>1, <2>0, <3>2, ConcatEmptySeq, ConcatProperties
    <3>6. Held' = Append(Held, d)
      BY <2>0, <2>1, <3>1, <3>4, <3>5
    <3>7. Places' >= Places /\ Places' <= MaxPending
      BY <2>0, <2>1, <3>3
    <3> QED
      BY <1>1, <3>1, <3>2, <3>6, <3>7 DEF d
  <2>2. CASE ~(Places < MaxPending /\ waiting = <<>>)
    <3>1. waiting' = Append(waiting, d) /\ pending' = pending
      BY <2>2 DEF Deliver, Submit
    <3> HIDE DEF b, d
    <3>2. waiting' \in Seq(Deliveries) /\ b \o pending \in Seq(Deliveries)
      BY <1>1, <2>0, <3>1
    <3>3. (b \o pending) \o Append(waiting, d) = Append((b \o pending) \o waiting, d)
      <4> DEFINE c == b \o pending
      <4>1. c \in Seq(Deliveries) /\ waiting \in Seq(Deliveries) /\ d \in Deliveries
        BY <1>1, <2>0, <3>2
      <4> HIDE DEF c
      <4>2. c \o Append(waiting, d) = Append(c \o waiting, d)
        BY <4>1, AppendToLine
      <4> QED
        BY <4>2 DEF c
    <3> QED
      BY <1>1, <2>0, <3>1, <3>2, <3>3 DEF d
  <2> QED
    BY <2>1, <2>2
<1>3. Typed'
  <2>0. Append(obs.accepted, 0) \in Seq(Ages)
    BY <1>1, AgeNumbers
  <2>1. obs' \in Observers
    BY <1>0, <2>0 DEF Typed, Observers
  <2>2. waited' \in [Records -> Ages \cup {None}] /\ kept' \in [Records -> Ages \cup {None}]
    BY <1>0, AgeNumbers DEF Typed, Deliver
  <2>3. queue' \subseteq Records
    BY <1>0 DEF Typed
  <2> QED
    BY <1>0, <1>2, <2>1, <2>2, <2>3, TypedNext DEF Typed
<1>4. LineInv' /\ OnePlace' /\ WaitInv'
  BY <1>0, <1>2, <1>3, JoinLine DEF Deliver, Accept
<1>5. FlushInv' /\ SettlementsAreEarned'
  BY <1>0, FlushKept, EarnedKept
<1>6. StageInv'
  BY <1>0 DEF EngineInv, StageInv
<1> QED
  BY <1>3, <1>4, <1>5, <1>6 DEF EngineInv

\* add_message: a record that does not normalize is dead-lettered without an entry.
LEMMA RejectMalformedEngine == ASSUME EngineInv, NEW r \in Records, RejectMalformed(r) PROVE EngineInv'
<1>0. /\ Typed /\ Parts /\ r \in queue /\ kinds[r] = "malformed" /\ queue' = queue \ {r} /\ dead' = dead \cup {r}
      /\ obs' = [obs EXCEPT !.veto = TRUE] /\ stage = "running"
      /\ UNCHANGED <<kinds, returns, acked, stored, waiting, pending, flush, attempts, lingering, stage, tries, waited, kept>>
  BY TypedParts DEF EngineInv, RejectMalformed, engine, history
<1>1. Typed'
  <2>1. obs' \in Observers
    BY <1>0 DEF Typed, Observers
  <2>2. queue' \subseteq Records /\ dead' \subseteq Records
    BY <1>0 DEF Typed
  <2> QED
    BY <1>0, <2>1, <2>2, TypedNext DEF Typed
<1>2. /\ obs'.accepted = obs.accepted /\ obs'.held = obs.held /\ obs'.settled = obs.settled
      /\ Held' = Held /\ Places' = Places /\ Unsettled' = Unsettled /\ Records' = Records
  BY <1>0 DEF Typed, Observers, Held, Places, Unsettled, InHand, Records
<1>3. LineInv'
  BY <1>2 DEF EngineInv, LineInv
<1>4. OnePlace'
  BY <1>0, <1>2 DEF EngineInv, OnePlace
<1>5. HeldIsOld' /\ WaitsCoverAges'
  BY <1>0, <1>2 DEF EngineInv, WaitInv, HeldIsOld, WaitsCoverAges, MaxAge, None
<1>6. KeptIsSeen'
  BY <1>0, <1>2 DEF EngineInv, WaitInv, KeptIsSeen, None
<1>7. FlushInv'
  BY <1>0, FlushKept
<1>8. SettlementsAreEarned'
  BY <1>0 DEF EngineInv, SettlementsAreEarned, AckedIsStored, DeadLettersAreEarned
<1>9. StageInv'
  BY <1>0, <1>2 DEF EngineInv, StageInv
<1> QED
  BY <1>1, <1>3, <1>4, <1>5, <1>6, <1>7, <1>8, <1>9 DEF EngineInv, WaitInv

\* Time: deliveries, entries and waits grow older together and stop at the same age.
LEMMA TickEngine == ASSUME EngineInv, Tick PROVE EngineInv'
<1>0. /\ Typed /\ Parts
      /\ flush' = [flush EXCEPT !.batch = Aged(@)] /\ waiting' = Aged(waiting) /\ pending' = Aged(pending)
      /\ UNCHANGED <<kinds, queue, returns, acked, dead, stored, attempts, lingering, stage, tries>>
  BY TypedParts DEF EngineInv, Tick, broker
<1>1. flush.batch \in Seq(Deliveries) /\ pending \in Seq(Deliveries) /\ waiting \in Seq(Deliveries)
  BY <1>0 DEF Parts
<1>2. /\ Aged(flush.batch) \in Seq(Deliveries) /\ Aged(pending) \in Seq(Deliveries) /\ Aged(waiting) \in Seq(Deliveries)
      /\ Len(Aged(flush.batch)) = Len(flush.batch)
      /\ \A i \in 1..Len(flush.batch) : Aged(flush.batch)[i] = [flush.batch[i] EXCEPT !.age = Older(@)]
  BY <1>1, AgedAndLost
<1>3. Typed'
  <2>1. obs.accepted \in Seq(Ages) /\ obs.held \in Ages \cup {None} /\ obs.settled \in Ages
    BY <1>0 DEF Parts
  <2>2. [i \in DOMAIN obs.accepted |-> Older(obs.accepted[i])] \in Seq(Ages)
    BY <1>0, AgeingKeepsLine DEF Parts, EngineInv, LineInv
  <2>3. obs' \in Observers
    BY <1>0, <2>1, <2>2, OlderKeepsOrder DEF Typed, Observers, Tick
  <2>4. waited' \in [Records -> Ages \cup {None}] /\ kept' \in [Records -> Ages \cup {None}]
    <3>1. waited \in [Records -> Ages \cup {None}] /\ kept \in [Records -> Ages \cup {None}]
      BY <1>0 DEF Typed
    <3>2. waited' = [r \in Records |-> Older(waited[r])] /\ kept' = [r \in Records |-> Older(kept[r])]
      BY DEF Tick
    <3> QED
      BY <3>1, <3>2, OlderKeepsOrder
  <2>5. flush' \in Flushes
    BY <1>0, <1>2, FlushFields DEF Typed
  <2> QED
    BY <1>0, <1>2, <2>3, <2>4, <2>5, TypedNext DEF Typed
<1>4. LineInv' /\ OnePlace' /\ WaitInv'
  BY <1>3, AgeLine
<1>5. /\ flush'.batch = Aged(flush.batch) /\ flush'.pc = flush.pc /\ flush'.parts = flush.parts
      /\ flush'.rejected = flush.rejected
  BY <1>0, <1>2, FlushFields DEF Typed
<1>6. FlushInv'
  <2>1. DOMAIN flush'.batch = DOMAIN flush.batch /\ Len(flush'.batch) = Len(flush.batch)
    BY <1>1, <1>2, <1>5
  <2>2. \A i \in DOMAIN flush.batch : flush'.batch[i].rec = flush.batch[i].rec
    <3> TAKE i \in DOMAIN flush.batch
    <3>0. i \in 1..Len(flush.batch)
      BY <1>1
    <3>1. flush.batch[i] \in Deliveries
      BY <1>1
    <3>2. flush'.batch[i] = [flush.batch[i] EXCEPT !.age = Older(@)]
      BY <1>2, <1>5, <3>0
    <3> QED
      BY <3>1, <3>2 DEF Deliveries
  <2>3. flush'.batch = <<>> <=> flush.batch = <<>>
    BY <1>1, <1>2, <1>5
  <2> QED
    BY <1>0, <1>5, <2>1, <2>2, <2>3 DEF EngineInv, FlushInv
<1>7. SettlementsAreEarned'
  BY <1>0, EarnedKept
<1>8. StageInv'
  <2>1. Unsettled = {} => Unsettled' = {}
    <3>1. OnePlace /\ OnePlace' /\ Records' = Records /\ Unsettled \subseteq Records
      BY <1>0, <1>4 DEF EngineInv, Records, Parts
    <3>2. Unsettled' \subseteq Records'
      BY <1>3, NextParts DEF Parts
    <3> QED
      BY <1>0, <3>1, <3>2 DEF OnePlace
  <2> QED
    BY <1>0, <1>5, <2>1 DEF EngineInv, StageInv
<1> QED
  BY <1>3, <1>4, <1>6, <1>7, <1>8 DEF EngineInv

\* The first that waits in submit gets the place behind the queue, where it was already.
LEMMA AdmitEngine == ASSUME EngineInv, Admit PROVE EngineInv'
<1> DEFINE b == flush.batch
<1>0. /\ Typed /\ Parts /\ waiting # <<>> /\ Places < MaxPending
      /\ pending' = Append(pending, Head(waiting)) /\ waiting' = Tail(waiting)
      /\ UNCHANGED <<kinds, queue, returns, acked, dead, stored, flush, attempts, lingering, obs, stage, tries, waited, kept>>
  BY TypedParts DEF EngineInv, Admit, broker, history
<1>1. /\ b \in Seq(Deliveries) /\ pending \in Seq(Deliveries) /\ waiting \in Seq(Deliveries) /\ MaxPending \in Nat
      /\ Held = b \o pending \o waiting /\ Held' = b \o pending' \o waiting'
      /\ Places = Len(b) + Len(pending) /\ Places' = Len(pending') + Len(b)
  BY <1>0, BoundsAssumption DEF Parts, Held, Places
<1> HIDE DEF b
<1>2. Head(waiting) \in Deliveries /\ Tail(waiting) \in Seq(Deliveries) /\ waiting = <<Head(waiting)>> \o Tail(waiting)
  BY <1>0, <1>1
<1>3. pending' \in Seq(Deliveries) /\ Len(pending') = Len(pending) + 1 /\ waiting' \in Seq(Deliveries)
  BY <1>0, <1>1, <1>2
<1>4. Places' >= Places /\ Places' <= MaxPending
  <2>1. Len(pending) \in Nat /\ Len(b) \in Nat
    BY <1>1
  <2> QED
    BY <1>0, <1>1, <1>3, <2>1
<1>5. Held' = Held
  <2> DEFINE h == Head(waiting)
             t == Tail(waiting)
             c == b \o pending
  <2>1. c \in Seq(Deliveries) /\ <<h>> \in Seq(Deliveries) /\ t \in Seq(Deliveries) /\ waiting = <<h>> \o t /\ h \in Deliveries
    BY <1>1, <1>2
  <2>2. b \o Append(pending, h) = Append(c, h)
    BY <1>1, <2>1, AppendToLine
  <2>3. Held = c \o waiting /\ Held' = (b \o Append(pending, h)) \o t
    BY <1>0, <1>1
  <2> HIDE DEF h, t, c
  <2>4. Append(c, h) = c \o <<h>>
    BY <2>1, AppendIsConcat
  <2>5. (c \o <<h>>) \o t = c \o (<<h>> \o t)
    BY <2>1, ConcatAssociative
  <2> QED
    BY <2>1, <2>2, <2>3, <2>4, <2>5
<1>6. Typed'
  BY <1>0, <1>3, TypedNext DEF Typed
<1>7. LineInv' /\ OnePlace' /\ WaitInv' /\ Unsettled' = Unsettled
  BY <1>0, <1>4, <1>5, <1>6, QuietLine
<1>8. FlushInv' /\ SettlementsAreEarned'
  BY <1>0, FlushKept, EarnedKept
<1>9. StageInv'
  BY <1>0, <1>7 DEF EngineInv, StageInv
<1> QED
  BY <1>6, <1>7, <1>8, <1>9 DEF EngineInv

\* The smaller of two numbers.
LEMMA MinOfTwo == ASSUME NEW a \in Nat, NEW b \in Nat PROVE Min({a, b}) \in Nat /\ Min({a, b}) <= b
  BY DEF Min

\* The batch is the head of what is queued, in one part; a delivery in submit may have joined
\* the queue first.
LEMMA FlushBegins ==
    ASSUME EngineInv, flush.pc = "idle", stage # "pool_closed",
           NEW Q \in Seq(Deliveries), NEW W \in Seq(Deliveries), Q \o W = pending \o waiting, Q # <<>>,
           Len(Q) >= Len(pending), Len(Q) <= MaxPending, NEW n \in 1..Min({BatchSize, Len(Q)}),
           flush' = [pc |-> "write", batch |-> SubSeq(Q, 1, n), parts |-> <<[lo |-> 1, hi |-> n]>>, rejected |-> {}],
           pending' = SubSeq(Q, n + 1, Len(Q)), waiting' = W,
           UNCHANGED <<kinds, queue, returns, acked, dead, stored, attempts, lingering, obs, stage, tries, waited, kept>>
    PROVE  EngineInv'
<1>0. /\ Typed /\ Parts /\ flush.pc = "idle" /\ Q # <<>> /\ Q \in Seq(Deliveries) /\ W \in Seq(Deliveries)
      /\ Q \o W = pending \o waiting /\ Len(Q) >= Len(pending) /\ Len(Q) <= MaxPending /\ waiting' = W
      /\ stage # "pool_closed"
      /\ UNCHANGED <<kinds, queue, returns, acked, dead, stored, attempts, lingering, obs, stage, tries, waited, kept>>
  BY TypedParts DEF EngineInv
<1>1. /\ flush' = [pc |-> "write", batch |-> SubSeq(Q, 1, n), parts |-> <<[lo |-> 1, hi |-> n]>>, rejected |-> {}]
      /\ pending' = SubSeq(Q, n + 1, Len(Q))
  OBVIOUS
<1> DEFINE b == SubSeq(Q, 1, n)
           q == SubSeq(Q, n + 1, Len(Q))
<1>2. /\ pending \in Seq(Deliveries) /\ waiting \in Seq(Deliveries) /\ flush.batch = <<>> /\ Len(Q) \in Nat
      /\ Len(pending) \in Nat /\ MaxPending \in Nat
  BY <1>0, BoundsAssumption DEF Parts, EngineInv, FlushInv
<1>3. n \in 1..Len(Q)
  <2>1. Len(Q) # 0
    BY <1>0, <1>2
  <2>2. BatchSize \in Nat
    BY BoundsAssumption
  <2>3. Min({BatchSize, Len(Q)}) <= Len(Q) /\ Min({BatchSize, Len(Q)}) \in Nat
    BY <1>2, <2>2, MinOfTwo
  <2> QED
    BY <1>2, <2>3
<1>4. /\ b \in Seq(Deliveries) /\ Len(b) = n /\ q \in Seq(Deliveries) /\ Len(q) = Len(Q) - n /\ b \o q = Q
  <2>1. b \o q = SubSeq(Q, 1, Len(Q))
    <3>1. 1 \in 1..(Len(Q) + 1) /\ n \in (1 - 1)..Len(Q) /\ Len(Q) \in n..Len(Q)
      BY <1>2, <1>3
    <3> QED
      BY <1>2, <3>1, ConcatAdjacentSubSeq
  <2>2. SubSeq(Q, 1, Len(Q)) = Q
    BY <1>2, SubSeqFull
  <2>3. b \in Seq(Deliveries) /\ Len(b) = n
    BY <1>2, <1>3
  <2>4. q \in Seq(Deliveries) /\ Len(q) = Len(Q) - n
    <3>1. \A i \in (n + 1)..Len(Q) : Q[i] \in Deliveries
      BY <1>2, <1>3
    <3>2. n + 1 \in Int /\ Len(Q) \in Int /\ n \in Int /\ n <= Len(Q)
      BY <1>2, <1>3
    <3>3. q \in Seq(Deliveries) /\ Len(q) = IF n + 1 <= Len(Q) THEN Len(Q) - (n + 1) + 1 ELSE 0
      BY <3>1, <3>2, SubSeqProperties
    <3> QED
      BY <3>2, <3>3
  <2> QED
    BY <2>1, <2>2, <2>3, <2>4
<1> HIDE DEF b, q
<1>5. /\ flush'.batch = b /\ flush'.pc = "write" /\ flush'.parts = <<[lo |-> 1, hi |-> n]>> /\ flush'.rejected = {}
      /\ pending' = q
  BY <1>1 DEF b, q
<1>6. Held' = Held /\ Places' >= Places /\ Places' <= MaxPending
  <2>1. Held = <<>> \o pending \o waiting /\ Held' = b \o q \o W
    BY <1>0, <1>2, <1>5 DEF Held
  <2>2. <<>> \o pending = pending
    BY <1>2, ConcatEmptySeq
  <2>3. Places = Len(pending) + 0 /\ Places' = Len(q) + Len(b)
    BY <1>2, <1>5 DEF Places
  <2>4. Places' = Len(Q)
    BY <1>2, <1>3, <1>4, <2>3
  <2> QED
    BY <1>0, <1>2, <1>4, <2>1, <2>2, <2>3, <2>4
<1>7. Typed'
  <2>1. <<[lo |-> 1, hi |-> n]>> \in Seq([lo : Nat, hi : Nat])
    BY <1>3
  <2>2. flush' \in Flushes
    BY <1>1, <1>4, <2>1 DEF Flushes, b
  <2> QED
    BY <1>0, <1>4, <1>5, <2>2, TypedNext DEF Typed
<1>8. LineInv' /\ OnePlace' /\ WaitInv' /\ Unsettled' = Unsettled
  BY <1>0, <1>6, <1>7, QuietLine
<1>9. FlushInv'
  <2>1. b # <<>> /\ DOMAIN b = 1..n
    BY <1>3, <1>4
  <2>2. /\ <<[lo |-> 1, hi |-> n]>> # <<>> /\ DOMAIN <<[lo |-> 1, hi |-> n]>> = {1}
        /\ <<[lo |-> 1, hi |-> n]>>[1].lo = 1 /\ <<[lo |-> 1, hi |-> n]>>[1].hi = n
    OBVIOUS
  <2>3. 1 <= n /\ n <= Len(b) /\ n \in Nat
    BY <1>3, <1>4
  <2>4. \A k \in DOMAIN flush'.parts : /\ 1 <= flush'.parts[k].lo /\ flush'.parts[k].lo <= flush'.parts[k].hi
                                      /\ flush'.parts[k].hi <= Len(flush'.batch)
    BY <1>5, <2>2, <2>3
  <2>5. \A i \in DOMAIN flush'.batch : \E k \in DOMAIN flush'.parts : i \in flush'.parts[k].lo .. flush'.parts[k].hi
    BY <1>5, <2>1, <2>2
  <2>6. flush'.pc = "write" /\ flush'.batch # <<>> /\ flush'.parts # <<>> /\ flush'.rejected = {}
    BY <1>5, <2>1, <2>2
  <2> QED
    BY <2>4, <2>5, <2>6 DEF FlushInv
<1>10. SettlementsAreEarned'
  BY <1>0, EarnedKept
<1>11. StageInv'
  BY <1>0, <1>8 DEF EngineInv, StageInv
<1> QED
  BY <1>7, <1>8, <1>9, <1>10, <1>11 DEF EngineInv

\* A flush takes the head of the queue.
LEMMA BeginFlushEngine == ASSUME EngineInv, BeginFlush PROVE EngineInv'
<1>0. /\ Typed /\ Parts /\ flush.pc = "idle" /\ pending # <<>> /\ stage # "pool_closed"
      /\ UNCHANGED <<kinds, queue, returns, acked, dead, stored, waiting, attempts, lingering, obs, stage, tries, waited, kept>>
  BY TypedParts DEF EngineInv, BeginFlush, MayFlush, broker, history
<1>1. PICK n \in 1..Min({BatchSize, Len(pending)}) :
        /\ flush' = [pc |-> "write", batch |-> SubSeq(pending, 1, n), parts |-> <<[lo |-> 1, hi |-> n]>>, rejected |-> {}]
        /\ pending' = SubSeq(pending, n + 1, Len(pending))
  BY DEF BeginFlush
<1>2. /\ pending \in Seq(Deliveries) /\ waiting \in Seq(Deliveries) /\ Len(pending) \in Nat /\ MaxPending \in Nat
      /\ flush.batch = <<>> /\ Places <= MaxPending
  BY <1>0, BoundsAssumption DEF Parts, EngineInv, FlushInv, LineInv
<1>3. Len(pending) <= MaxPending /\ Len(pending) >= Len(pending)
  BY <1>2 DEF Places
<1> QED
  BY <1>0, <1>1, <1>2, <1>3, FlushBegins

\* A handler that got its place flushes at the threshold.
LEMMA HandlerFlushesEngine == ASSUME EngineInv, HandlerFlushes PROVE EngineInv'
<1> DEFINE Q == Append(pending, Head(waiting))
           W == Tail(waiting)
<1>0. /\ Typed /\ Parts /\ flush.pc = "idle" /\ stage # "pool_closed" /\ waiting # <<>> /\ Places < MaxPending
      /\ waiting' = W
      /\ UNCHANGED <<kinds, queue, returns, acked, dead, stored, attempts, lingering, obs, stage, tries, waited, kept>>
  BY TypedParts DEF EngineInv, HandlerFlushes, broker, history
<1>1. PICK n \in 1..Min({BatchSize, Len(Q)}) :
        /\ flush' = [pc |-> "write", batch |-> SubSeq(Q, 1, n), parts |-> <<[lo |-> 1, hi |-> n]>>, rejected |-> {}]
        /\ pending' = SubSeq(Q, n + 1, Len(Q))
  BY DEF HandlerFlushes
<1>2. /\ pending \in Seq(Deliveries) /\ waiting \in Seq(Deliveries) /\ Len(pending) \in Nat /\ MaxPending \in Nat
      /\ flush.batch = <<>>
  BY <1>0, BoundsAssumption DEF Parts, EngineInv, FlushInv
<1>3. Head(waiting) \in Deliveries /\ W \in Seq(Deliveries) /\ waiting = <<Head(waiting)>> \o W
  BY <1>0, <1>2
<1>4. Q \in Seq(Deliveries) /\ Len(Q) = Len(pending) + 1 /\ Q # <<>>
  BY <1>2, <1>3, AppendProperties
<1>5. Len(Q) >= Len(pending) /\ Len(Q) <= MaxPending
  <2>1. Places = Len(pending) + 0
    BY <1>2 DEF Places
  <2> HIDE DEF Q
  <2> QED
    BY <1>0, <1>2, <1>4, <2>1
<1>6. Q \o W = pending \o waiting
  <2>1. Q = pending \o <<Head(waiting)>> /\ <<Head(waiting)>> \in Seq(Deliveries)
    BY <1>2, <1>3, AppendIsConcat
  <2>2. (pending \o <<Head(waiting)>>) \o W = pending \o (<<Head(waiting)>> \o W)
    BY <1>2, <1>3, <2>1, ConcatAssociative
  <2> HIDE DEF Q, W
  <2> QED
    BY <1>3, <2>1, <2>2
<1> HIDE DEF Q, W
<1> QED
  BY <1>0, <1>1, <1>3, <1>4, <1>5, <1>6, FlushBegins

\* The parts that are left once the first one is dealt with.
LEMMA TailOfParts ==
    ASSUME NEW S, NEW p \in Seq(S), p # <<>>
    PROVE  /\ Head(p) = p[1] /\ 1 \in DOMAIN p /\ Tail(p) \in Seq(S) /\ p[1] \in S
           /\ \A k \in DOMAIN Tail(p) : k + 1 \in DOMAIN p /\ Tail(p)[k] = p[k + 1]
           /\ \A k \in DOMAIN p : k = 1 \/ (k - 1 \in DOMAIN Tail(p) /\ Tail(p)[k - 1] = p[k])
<1>1. Len(p) \in Nat /\ Len(p) >= 1 /\ DOMAIN p = 1..Len(p)
  OBVIOUS
<1>2. /\ Tail(p) \in Seq(S) /\ Len(Tail(p)) = Len(p) - 1 /\ Head(p) = p[1]
      /\ \A k \in 1..(Len(p) - 1) : Tail(p)[k] = p[k + 1]
  OBVIOUS
<1> DEFINE t == Tail(p)
<1> HIDE DEF t
<1>3. t \in Seq(S) /\ DOMAIN t = 1..(Len(p) - 1) /\ \A k \in 1..(Len(p) - 1) : t[k] = p[k + 1]
  <2>1. t \in Seq(S) /\ Len(t) = Len(p) - 1
    BY <1>2 DEF t
  <2> QED
    BY <1>2, <2>1 DEF t
<1>4. \A k \in 1..Len(p) : k = 1 \/ (k - 1 \in 1..(Len(p) - 1) /\ (k - 1) + 1 = k)
  BY <1>1
<1>5. \A k \in 1..Len(p) : k = 1 \/ (k - 1 \in DOMAIN t /\ t[k - 1] = p[k])
  BY <1>3, <1>4
<1>6. \A k \in DOMAIN t : k + 1 \in DOMAIN p /\ t[k] = p[k + 1]
  BY <1>1, <1>3
<1> QED
  BY <1>1, <1>2, <1>3, <1>5, <1>6 DEF t

\* A part is dealt with: what it leaves behind keeps the batch accounted for.
LEMMA NextPartEngine ==
    ASSUME EngineInv, flush.pc = "write", NEW rest \in Seq([lo : Nat, hi : Nat]), NEW rejected \in SUBSET (DOMAIN flush.batch),
           NextPart(rest, rejected), \A i \in rejected : kinds[flush.batch[i].rec] = "poison",
           \A k \in DOMAIN rest : 1 <= rest[k].lo /\ rest[k].lo <= rest[k].hi /\ rest[k].hi <= Len(flush.batch),
           \A i \in DOMAIN flush.batch : \/ i \in rejected \/ flush.batch[i].rec \in stored'
                                         \/ \E k \in DOMAIN rest : i \in rest[k].lo .. rest[k].hi,
           stored \subseteq stored', stored' \subseteq Records, attempts' \in 0..(MaxPoisonRetries - 1),
           UNCHANGED <<kinds, queue, returns, acked, dead, waiting, pending, lingering, obs, stage, tries, waited, kept>>
    PROVE  EngineInv'
<1>0. Typed /\ Parts /\ flush \in Flushes
  BY TypedParts DEF EngineInv, Typed
<1>1. /\ flush'.batch = flush.batch /\ flush'.parts = rest /\ flush'.rejected = rejected
      /\ flush'.pc = IF rest = <<>> THEN "settle" ELSE "write"
  BY <1>0 DEF NextPart, Flushes
<1>2. flush' \in Flushes
  <2>1. rejected \in SUBSET Nat
    <3>1. flush.batch \in Seq(Deliveries)
      BY <1>0 DEF Parts
    <3>2. DOMAIN flush.batch \subseteq Nat
      BY <3>1
    <3> QED
      BY <3>2
  <2> QED
    BY <1>0, <2>1 DEF NextPart, Flushes
<1>3. Typed'
  BY <1>0, <1>2, TypedNext DEF Typed
<1>4. Held' = Held /\ Places' = Places
  BY <1>1 DEF Held, Places
<1>5. LineInv' /\ OnePlace' /\ WaitInv' /\ Unsettled' = Unsettled
  <2>1. Places' >= Places /\ Places' <= MaxPending
    BY <1>0, <1>4 DEF Parts, EngineInv, LineInv
  <2> QED
    BY <1>3, <1>4, <2>1, QuietLine
<1>6. FlushInv'
  <2>1. flush.batch # <<>>
    BY DEF EngineInv, FlushInv
  <2>2. /\ flush'.pc # "idle" /\ (flush'.pc = "write" <=> flush'.parts # <<>>)
    BY <1>1
  <2> QED
    BY <1>1, <2>1, <2>2 DEF FlushInv
<1>7. SettlementsAreEarned'
  BY EarnedKept
<1>8. StageInv'
  BY <1>5 DEF EngineInv, StageInv
<1> QED
  BY <1>3, <1>5, <1>6, <1>7, <1>8 DEF EngineInv

\* What is known of the part at the head.
LEMMA PartParts ==
    ASSUME EngineInv, flush.pc = "write"
    PROVE  /\ Part \in [lo : Nat, hi : Nat] /\ 1 <= Part.lo /\ Part.lo <= Part.hi /\ Part.hi <= Len(flush.batch)
           /\ flush.batch \in Seq(Deliveries) /\ Part = flush.parts[1]
           /\ Tail(flush.parts) \in Seq([lo : Nat, hi : Nat])
           /\ \A k \in DOMAIN Tail(flush.parts) :
                /\ 1 <= Tail(flush.parts)[k].lo /\ Tail(flush.parts)[k].lo <= Tail(flush.parts)[k].hi
                /\ Tail(flush.parts)[k].hi <= Len(flush.batch)
           /\ \A i \in DOMAIN flush.batch :
                \/ i \in flush.rejected \/ flush.batch[i].rec \in stored \/ i \in Part.lo .. Part.hi
                \/ \E k \in DOMAIN Tail(flush.parts) : i \in Tail(flush.parts)[k].lo .. Tail(flush.parts)[k].hi
           /\ RecordsOf(Part) \subseteq Records
           /\ \A i \in Part.lo .. Part.hi : i \in DOMAIN flush.batch /\ flush.batch[i].rec \in RecordsOf(Part)
<1> DEFINE p == flush.parts
           b == flush.batch
<1>0. Parts /\ FlushInv
  BY TypedParts DEF EngineInv
<1>1. p \in Seq([lo : Nat, hi : Nat]) /\ p # <<>> /\ Part = Head(p) /\ b \in Seq(Deliveries)
  BY <1>0 DEF Parts, FlushInv, Part
<1>2. /\ \A k \in DOMAIN p : 1 <= p[k].lo /\ p[k].lo <= p[k].hi /\ p[k].hi <= Len(b)
      /\ \A i \in DOMAIN b : \/ i \in flush.rejected \/ b[i].rec \in stored
                             \/ \E k \in DOMAIN p : i \in p[k].lo .. p[k].hi
  BY <1>0 DEF FlushInv
<1>3. RecordsOf(Part) = {b[i].rec : i \in Part.lo .. Part.hi}
  BY DEF RecordsOf
<1> HIDE DEF p, b
<1>4. /\ Head(p) = p[1] /\ 1 \in DOMAIN p /\ Tail(p) \in Seq([lo : Nat, hi : Nat]) /\ p[1] \in [lo : Nat, hi : Nat]
      /\ \A k \in DOMAIN Tail(p) : k + 1 \in DOMAIN p /\ Tail(p)[k] = p[k + 1]
      /\ \A k \in DOMAIN p : k = 1 \/ (k - 1 \in DOMAIN Tail(p) /\ Tail(p)[k - 1] = p[k])
  BY <1>1, TailOfParts
<1>5. /\ Part \in [lo : Nat, hi : Nat] /\ 1 <= Part.lo /\ Part.lo <= Part.hi /\ Part.hi <= Len(b) /\ Part = p[1]
  BY <1>1, <1>2, <1>4
<1>6. \A k \in DOMAIN Tail(p) : 1 <= Tail(p)[k].lo /\ Tail(p)[k].lo <= Tail(p)[k].hi /\ Tail(p)[k].hi <= Len(b)
  BY <1>2, <1>4
<1>7. ASSUME NEW i \in DOMAIN b
      PROVE  \/ i \in flush.rejected \/ b[i].rec \in stored \/ i \in Part.lo .. Part.hi
             \/ \E k \in DOMAIN Tail(p) : i \in Tail(p)[k].lo .. Tail(p)[k].hi
  <2> SUFFICES ASSUME NEW k \in DOMAIN p, i \in p[k].lo .. p[k].hi
               PROVE  \/ i \in Part.lo .. Part.hi
                      \/ \E j \in DOMAIN Tail(p) : i \in Tail(p)[j].lo .. Tail(p)[j].hi
    BY <1>2
  <2>1. CASE k = 1
    BY <1>5, <2>1
  <2>2. CASE k - 1 \in DOMAIN Tail(p) /\ Tail(p)[k - 1] = p[k]
    BY <2>2
  <2> QED
    BY <1>4, <2>1, <2>2
<1>8. \A i \in Part.lo .. Part.hi : i \in DOMAIN b /\ b[i] \in Deliveries
  <2>1. Part.lo \in Nat /\ Part.hi \in Nat /\ Len(b) \in Nat /\ DOMAIN b = 1..Len(b)
    BY <1>1, <1>5
  <2>2. \A i \in Part.lo .. Part.hi : i \in 1..Len(b)
    BY <1>5, <2>1
  <2> QED
    BY <1>1, <2>1, <2>2
<1>9. RecordsOf(Part) \subseteq Records /\ \A i \in Part.lo .. Part.hi : b[i].rec \in RecordsOf(Part)
  BY <1>3, <1>8, DeliveryFields
<1> QED
  BY <1>1, <1>4, <1>5, <1>6, <1>7, <1>8, <1>9 DEF p, b

\* _isolate: a part commits, so its deliveries no longer need it.
LEMMA WritePartEngine == ASSUME EngineInv, WritePart PROVE EngineInv'
<1>0. /\ flush.pc = "write" /\ stored' = stored \cup RecordsOf(Part) /\ NextPart(Tail(flush.parts), flush.rejected)
      /\ attempts' \in {0, attempts}
      /\ UNCHANGED <<kinds, queue, returns, acked, dead, waiting, pending, lingering, obs, stage, tries, waited, kept>>
  BY DEF WritePart, broker, history
<1>1. /\ flush.rejected \in SUBSET (DOMAIN flush.batch) /\ \A i \in flush.rejected : kinds[flush.batch[i].rec] = "poison"
      /\ stored \subseteq Records /\ attempts' \in 0..(MaxPoisonRetries - 1)
  BY <1>0, BoundsAssumption DEF EngineInv, FlushInv, Typed
<1>2. /\ Tail(flush.parts) \in Seq([lo : Nat, hi : Nat]) /\ stored' \subseteq Records
      /\ \A k \in DOMAIN Tail(flush.parts) :
                /\ 1 <= Tail(flush.parts)[k].lo /\ Tail(flush.parts)[k].lo <= Tail(flush.parts)[k].hi
                /\ Tail(flush.parts)[k].hi <= Len(flush.batch)
  BY <1>0, <1>1, PartParts
<1>3. \A i \in DOMAIN flush.batch :
        \/ i \in flush.rejected \/ flush.batch[i].rec \in stored'
        \/ \E k \in DOMAIN Tail(flush.parts) : i \in Tail(flush.parts)[k].lo .. Tail(flush.parts)[k].hi
  BY <1>0, PartParts
<1> QED
  BY <1>0, <1>1, <1>2, <1>3, NextPartEngine

\* _isolate: a single record that fails is rejected, and is poison.
LEMMA RejectPartEngine == ASSUME EngineInv, RejectPart PROVE EngineInv'
<1>0. /\ flush.pc = "write" /\ Poisoned(Part) /\ Part.lo = Part.hi
      /\ NextPart(Tail(flush.parts), flush.rejected \cup {Part.lo}) /\ attempts' \in {0, attempts} /\ stored' = stored
      /\ UNCHANGED <<kinds, queue, returns, acked, dead, waiting, pending, lingering, obs, stage, tries, waited, kept>>
  BY DEF RejectPart, broker, history
<1>1. /\ flush.rejected \in SUBSET (DOMAIN flush.batch) /\ \A i \in flush.rejected : kinds[flush.batch[i].rec] = "poison"
      /\ stored \subseteq Records /\ attempts' \in 0..(MaxPoisonRetries - 1)
  BY <1>0, BoundsAssumption DEF EngineInv, FlushInv, Typed
<1>2. Part.lo .. Part.hi = {Part.lo}
  BY <1>0, PartParts
<1>3. Part.lo \in DOMAIN flush.batch /\ kinds[flush.batch[Part.lo].rec] = "poison"
  BY <1>0, <1>2, PartParts DEF Poisoned, RecordsOf
<1>4. /\ Tail(flush.parts) \in Seq([lo : Nat, hi : Nat])
      /\ \A k \in DOMAIN Tail(flush.parts) :
                /\ 1 <= Tail(flush.parts)[k].lo /\ Tail(flush.parts)[k].lo <= Tail(flush.parts)[k].hi
                /\ Tail(flush.parts)[k].hi <= Len(flush.batch)
  BY <1>0, <1>1, PartParts
<1>5. \A i \in DOMAIN flush.batch :
        \/ i \in flush.rejected \cup {Part.lo} \/ flush.batch[i].rec \in stored'
        \/ \E k \in DOMAIN Tail(flush.parts) : i \in Tail(flush.parts)[k].lo .. Tail(flush.parts)[k].hi
  BY <1>0, <1>2, PartParts
<1>6. flush.rejected \cup {Part.lo} \in SUBSET (DOMAIN flush.batch)
  BY <1>1, <1>3
<1> QED
  BY <1>0, <1>1, <1>3, <1>4, <1>5, <1>6, NextPartEngine

\* The halves of a part of two records or more are parts, and cover it.
LEMMA HalvesParts ==
    ASSUME NEW p \in [lo : Nat, hi : Nat], 1 <= p.lo, p.lo < p.hi
    PROVE  \E m \in Nat : /\ p.lo <= m /\ m < p.hi
                          /\ Halves(p) = <<[lo |-> p.lo, hi |-> m], [lo |-> m + 1, hi |-> p.hi]>>
<1> DEFINE lo == p.lo
           hi == p.hi
           h == (hi - lo + 1) \div 2
<1>1. lo \in Nat /\ hi \in Nat /\ lo < hi /\ 1 <= lo
  OBVIOUS
<1>2. Halves(p) = <<[lo |-> lo, hi |-> lo + h - 1], [lo |-> lo + h, hi |-> hi]>>
  BY DEF Halves
<1> HIDE DEF lo, hi
<1>3. h \in Nat /\ 1 <= h /\ lo + h - 1 < hi
  BY <1>1
<1> HIDE DEF h
<1>4. lo + h - 1 \in Nat /\ lo <= lo + h - 1 /\ (lo + h - 1) + 1 = lo + h
  BY <1>1, <1>3
<1> QED
  BY <1>2, <1>3, <1>4 DEF lo, hi

\* _isolate: a part that fails is covered by its halves.
LEMMA SplitPartEngine == ASSUME EngineInv, SplitPart PROVE EngineInv'
<1> DEFINE t == Tail(flush.parts)
           b == flush.batch
           PartSet == [lo : Nat, hi : Nat]
<1>0. /\ flush.pc = "write" /\ Part.lo < Part.hi
      /\ NextPart(Halves(Part) \o t, flush.rejected) /\ attempts' = attempts /\ stored' = stored
      /\ UNCHANGED <<kinds, queue, returns, acked, dead, waiting, pending, lingering, obs, stage, tries, waited, kept>>
  BY DEF SplitPart, broker, history
<1>1. /\ flush.rejected \in SUBSET (DOMAIN b) /\ \A i \in flush.rejected : kinds[b[i].rec] = "poison"
      /\ stored \subseteq Records /\ attempts' \in 0..(MaxPoisonRetries - 1)
  BY <1>0 DEF EngineInv, FlushInv, Typed
<1>2. /\ Part \in PartSet /\ 1 <= Part.lo /\ Part.hi <= Len(b) /\ t \in Seq(PartSet)
      /\ \A k \in DOMAIN t : 1 <= t[k].lo /\ t[k].lo <= t[k].hi /\ t[k].hi <= Len(b)
      /\ \A i \in DOMAIN b : \/ i \in flush.rejected \/ b[i].rec \in stored \/ i \in Part.lo .. Part.hi
                             \/ \E k \in DOMAIN t : i \in t[k].lo .. t[k].hi
      /\ b \in Seq(Deliveries)
  BY <1>0, PartParts
<1>3. PICK m \in Nat : /\ Part.lo <= m /\ m < Part.hi
                       /\ Halves(Part) = <<[lo |-> Part.lo, hi |-> m], [lo |-> m + 1, hi |-> Part.hi]>>
  BY <1>0, <1>2, HalvesParts
<1> DEFINE x == [lo |-> Part.lo, hi |-> m]
           y == [lo |-> m + 1, hi |-> Part.hi]
           rest == <<x, y>> \o t
<1>4. /\ x \in PartSet /\ y \in PartSet /\ x.lo = Part.lo /\ x.hi = m /\ y.lo = m + 1 /\ y.hi = Part.hi
      /\ Part.lo \in Nat /\ Part.hi \in Nat /\ Len(b) \in Nat /\ DOMAIN b = 1..Len(b)
  BY <1>2, <1>3
<1>5. /\ 1 <= x.lo /\ x.lo <= x.hi /\ x.hi <= Len(b) /\ 1 <= y.lo /\ y.lo <= y.hi /\ y.hi <= Len(b)
      /\ \A i \in Part.lo .. Part.hi : i \in x.lo .. x.hi \/ i \in y.lo .. y.hi
  BY <1>0, <1>2, <1>3, <1>4
<1> HIDE DEF t, b, x, y
<1>6. /\ rest \in Seq(PartSet) /\ DOMAIN rest = 1..(Len(t) + 2) /\ rest[1] = x /\ rest[2] = y
      /\ \A k \in 1..Len(t) : rest[k + 2] = t[k]
      /\ Len(t) \in Nat /\ DOMAIN t = 1..Len(t)
  <2> DEFINE z == <<x, y>>
  <2>1. z \in Seq(PartSet) /\ Len(z) = 2 /\ z[1] = x /\ z[2] = y
    BY <1>4
  <2>2. t \in Seq(PartSet)
    BY <1>2
  <2> HIDE DEF z, PartSet
  <2>3. /\ z \o t \in Seq(PartSet) /\ Len(z \o t) = Len(z) + Len(t)
        /\ \A k \in 1..(Len(z) + Len(t)) : (z \o t)[k] = IF k <= Len(z) THEN z[k] ELSE t[k - Len(z)]
    BY <2>1, <2>2, ConcatProperties
  <2>4. Len(t) \in Nat /\ DOMAIN t = 1..Len(t)
    BY <2>2
  <2>5. DOMAIN (z \o t) = 1..(Len(t) + 2)
    BY <2>1, <2>3, <2>4
  <2>6. (z \o t)[1] = x /\ (z \o t)[2] = y
    BY <2>1, <2>3, <2>4
  <2>7. ASSUME NEW k \in 1..Len(t) PROVE (z \o t)[k + 2] = t[k]
    <3>1. k + 2 \in 1..(2 + Len(t)) /\ ~(k + 2 <= 2) /\ (k + 2) - 2 = k
      BY <2>4
    <3> QED
      BY <2>1, <2>3, <3>1
  <2> QED
    BY <2>3, <2>4, <2>5, <2>6, <2>7 DEF z
<1> HIDE DEF rest
<1>7. \A k \in DOMAIN rest : k = 1 \/ k = 2 \/ (k - 2 \in DOMAIN t /\ rest[k] = t[k - 2])
  <2> TAKE k \in DOMAIN rest
  <2>1. k = 1 \/ k = 2 \/ (k - 2 \in 1..Len(t) /\ (k - 2) + 2 = k)
    BY <1>6, SMTT(30)
  <2> QED
    BY <1>6, <2>1
<1>8. \A k \in DOMAIN rest : 1 <= rest[k].lo /\ rest[k].lo <= rest[k].hi /\ rest[k].hi <= Len(b)
  BY <1>2, <1>5, <1>6, <1>7
<1>9. ASSUME NEW i \in DOMAIN b
      PROVE  i \in flush.rejected \/ b[i].rec \in stored' \/ \E k \in DOMAIN rest : i \in rest[k].lo .. rest[k].hi
  <2>1. 1 \in DOMAIN rest /\ 2 \in DOMAIN rest /\ \A k \in DOMAIN t : k + 2 \in DOMAIN rest
    BY <1>6, SMTT(30)
  <2>2. CASE i \in Part.lo .. Part.hi
    BY <1>5, <1>6, <2>1, <2>2
  <2>3. ASSUME NEW k \in DOMAIN t, i \in t[k].lo .. t[k].hi PROVE \E j \in DOMAIN rest : i \in rest[j].lo .. rest[j].hi
    BY <1>6, <2>1, <2>3
  <2> QED
    BY <1>0, <1>2, <2>2, <2>3
<1>10. NextPart(rest, flush.rejected)
  BY <1>0, <1>3 DEF rest, x, y
<1> QED
  BY <1>0, <1>1, <1>6, <1>8, <1>9, <1>10, NextPartEngine DEF b

\* A write that failed, was given up or was cancelled: the batch is back in its place.
LEMMA RestoreEngine ==
    ASSUME EngineInv, flush.pc = "write", Restore, attempts' \in 0..(MaxPoisonRetries - 1), tries' \in 0..MaxFlushRetries,
           lingering' \subseteq SUBSET Records, stage' = stage \/ stage' = "flushing",
           UNCHANGED <<kinds, queue, returns, acked, dead, stored, waiting, obs, waited, kept>>
    PROVE  EngineInv'
<1>0. Typed /\ Parts
  BY TypedParts DEF EngineInv
<1>1. /\ Held' = Held /\ Places' = Places /\ FlushInv' /\ pending' \in Seq(Deliveries) /\ flush'.pc = "idle"
      /\ flush' \in Flushes
  BY <1>0, RestoreLine
<1>2. Typed'
  BY <1>0, <1>1, TypedNext DEF Typed, Stages
<1>3. LineInv' /\ OnePlace' /\ WaitInv' /\ Unsettled' = Unsettled
  <2>1. Places' >= Places /\ Places' <= MaxPending
    BY <1>0, <1>1 DEF Parts, EngineInv, LineInv
  <2> QED
    BY <1>1, <1>2, <2>1, QuietLine
<1>4. SettlementsAreEarned'
  BY EarnedKept
<1>5. StageInv'
  BY <1>1, <1>3 DEF EngineInv, StageInv
<1> QED
  BY <1>1, <1>2, <1>3, <1>4, <1>5 DEF EngineInv

\* _isolate: a transient error puts the batch back at the head of the line.
LEMMA WriteFailsEngine == ASSUME EngineInv, WriteFails PROVE EngineInv'
<1>0. /\ flush.pc = "write" /\ Restore /\ SpendTry
      /\ UNCHANGED <<kinds, queue, returns, acked, dead, stored, waiting, attempts, lingering, obs, stage, waited, kept>>
  BY DEF WriteFails, broker, history
<1>1. tries' \in 0..MaxFlushRetries
  BY <1>0, TryParts
<1>2. attempts' \in 0..(MaxPoisonRetries - 1) /\ lingering' \subseteq SUBSET Records
  BY <1>0 DEF EngineInv, Typed
<1> QED
  BY <1>0, <1>1, <1>2, RestoreEngine

\* write: a write given up after max_write_s restores its batch and may linger.
LEMMA WriteTimesOutEngine == ASSUME EngineInv, WriteTimesOut PROVE EngineInv'
<1>0. /\ flush.pc = "write" /\ Restore /\ SpendTry /\ lingering' = lingering \cup {RecordsOf(Part)}
      /\ UNCHANGED <<kinds, queue, returns, acked, dead, stored, waiting, attempts, obs, stage, waited, kept>>
  BY DEF WriteTimesOut, broker, history
<1>1. tries' \in 0..MaxFlushRetries
  BY <1>0, TryParts
<1>2. attempts' \in 0..(MaxPoisonRetries - 1) /\ lingering' \subseteq SUBSET Records
  BY <1>0, PartParts DEF EngineInv, Typed
<1> QED
  BY <1>0, <1>1, <1>2, RestoreEngine

\* write: a poison record alone in its batch is tried again until its retries are spent.
LEMMA RetryPoisonEngine == ASSUME EngineInv, RetryPoison PROVE EngineInv'
<1>0. /\ flush.pc = "write" /\ Poisoned(Part) /\ Part.lo = Part.hi /\ Whole(Part)
      /\ UNCHANGED <<kinds, queue, returns, acked, dead, stored, waiting, lingering, obs, stage, waited, kept>>
  BY DEF RetryPoison, broker, history
<1>1. /\ MaxPoisonRetries \in Nat \ {0} /\ attempts \in 0..(MaxPoisonRetries - 1) /\ lingering \subseteq SUBSET Records
      /\ stored \subseteq Records
  BY BoundsAssumption DEF EngineInv, Typed
<1>2. CASE attempts + 1 < MaxPoisonRetries
  <2>1. Restore /\ attempts' = attempts + 1 /\ SpendTry
    BY <1>2 DEF RetryPoison
  <2>2. tries' \in 0..MaxFlushRetries
    BY <1>0, <2>1, TryParts
  <2>3. attempts' \in 0..(MaxPoisonRetries - 1)
    BY <1>1, <1>2, <2>1
  <2> QED
    BY <1>0, <1>1, <2>1, <2>2, <2>3, RestoreEngine
<1>3. CASE ~(attempts + 1 < MaxPoisonRetries)
  <2>1. NextPart(<<>>, {1}) /\ attempts' = 0 /\ UNCHANGED <<pending, tries>>
    BY <1>3 DEF RetryPoison
  <2>2. Part.lo = 1 /\ Part.hi = 1 /\ Len(flush.batch) = 1 /\ flush.batch \in Seq(Deliveries)
    BY <1>0, PartParts DEF Whole
  <2>3. DOMAIN flush.batch = {1}
    <3> DEFINE b == flush.batch
    <3>1. b \in Seq(Deliveries) /\ Len(b) = 1
      BY <2>2
    <3> HIDE DEF b
    <3>2. DOMAIN b = 1..1
      BY <3>1
    <3> QED
      BY <3>2 DEF b
  <2>4. kinds[flush.batch[1].rec] = "poison"
    <3>1. Part.lo .. Part.hi = {1}
      BY <2>2
    <3> QED
      BY <1>0, <3>1 DEF Poisoned, RecordsOf
  <2>5. <<>> \in Seq([lo : Nat, hi : Nat]) /\ DOMAIN <<>> = {} /\ {1} \in SUBSET (DOMAIN flush.batch)
    BY <2>3
  <2>6. attempts' \in 0..(MaxPoisonRetries - 1)
    BY <1>1, <2>1
  <2>7. \A i \in DOMAIN flush.batch : i \in {1}
    BY <2>3
  <2>8. \A i \in {1} : kinds[flush.batch[i].rec] = "poison"
    BY <2>4
  <2> QED
    BY <1>0, <1>1, <2>1, <2>5, <2>6, <2>7, <2>8, NextPartEngine
<1> QED
  BY <1>2, <1>3

\* A given-up write ends; it may have committed its records.
LEMMA LingeringEndsEngine == ASSUME EngineInv, LingeringEnds PROVE EngineInv'
<1> PICK W \in lingering : stored' \in {stored, stored \cup W} /\ lingering' = lingering \ {W}
  BY DEF LingeringEnds
<1>0. /\ Typed /\ Parts /\ stored' \in {stored, stored \cup W} /\ lingering' = lingering \ {W}
      /\ UNCHANGED <<kinds, queue, returns, acked, dead, waiting, pending, flush, attempts, obs, stage, tries, waited, kept>>
  BY TypedParts DEF EngineInv, LingeringEnds, broker, engine, history
<1>1. Typed' /\ stored \subseteq stored'
  <2>1. stored' \subseteq Records /\ stored \subseteq stored'
    BY <1>0 DEF Typed
  <2> QED
    BY <1>0, <2>1, TypedNext DEF Typed
<1>2. Held' = Held /\ Places' = Places
  BY <1>0 DEF Held, Places
<1>3. LineInv' /\ OnePlace' /\ WaitInv' /\ Unsettled' = Unsettled
  <2>1. Places' >= Places /\ Places' <= MaxPending
    BY <1>0, <1>2 DEF Parts, EngineInv, LineInv
  <2> QED
    BY <1>0, <1>1, <1>2, <2>1, QuietLine
<1>4. FlushInv' /\ SettlementsAreEarned'
  BY <1>0, <1>1, FlushKept, EarnedKept
<1>5. StageInv'
  BY <1>0, <1>3 DEF EngineInv, StageInv
<1> QED
  BY <1>1, <1>3, <1>4, <1>5 DEF EngineInv

\* A stage of the teardown that touches nothing but the stage.
LEMMA StageEngine ==
    ASSUME EngineInv, stage' \in Stages, tries' \in 0..MaxFlushRetries,
           UNCHANGED <<kinds, queue, returns, acked, dead, stored, waiting, pending, flush, attempts, lingering, obs, waited, kept>>,
           stage' \in {"draining", "pool_closed"} => Unsettled = {},
           stage' = "pool_closed" => lingering = {} /\ flush.pc = "idle"
    PROVE  EngineInv'
<1>0. Typed /\ Parts
  BY TypedParts DEF EngineInv
<1>1. Typed'
  BY <1>0, TypedNext DEF Typed
<1>2. Held' = Held /\ Places' = Places
  BY DEF Held, Places
<1>3. LineInv' /\ OnePlace' /\ WaitInv' /\ Unsettled' = Unsettled
  <2>1. Places' >= Places /\ Places' <= MaxPending
    BY <1>0, <1>2 DEF Parts, EngineInv, LineInv
  <2> QED
    BY <1>1, <1>2, <2>1, QuietLine
<1>4. FlushInv' /\ SettlementsAreEarned'
  BY FlushKept, EarnedKept
<1>5. StageInv'
  BY <1>3 DEF StageInv
<1> QED
  BY <1>1, <1>3, <1>4, <1>5 DEF EngineInv

\* main: the teardown stops the periodic flush, whose batch goes back.
LEMMA StopPeriodicEngine == ASSUME EngineInv, StopPeriodic PROVE EngineInv'
<1>0. /\ stage = "stopping" /\ stage' = "flushing" /\ tries' = MaxFlushRetries
      /\ UNCHANGED <<kinds, queue, returns, acked, dead, stored, waiting, attempts, lingering, obs, waited, kept>>
  BY DEF StopPeriodic, broker, history
<1>1. tries' \in 0..MaxFlushRetries
  BY <1>0, BoundsAssumption
<1>2. attempts' \in 0..(MaxPoisonRetries - 1) /\ lingering' \subseteq SUBSET Records
  BY <1>0 DEF EngineInv, Typed
<1>3. CASE UNCHANGED <<pending, flush>>
  BY <1>0, <1>1, <1>3, StageEngine DEF Stages
<1>4. CASE flush.pc = "write" /\ Restore
  BY <1>0, <1>1, <1>2, <1>4, RestoreEngine
<1> QED
  BY <1>3, <1>4 DEF StopPeriodic

\* main: flush_all returns.
LEMMA EndFlushAllEngine == ASSUME EngineInv, EndFlushAll PROVE EngineInv'
<1>1. tries' \in 0..MaxFlushRetries
  BY DEF EndFlushAll, EngineInv, Typed
<1> QED
  BY <1>1, StageEngine DEF EndFlushAll, Stages, broker, engine, history

\* close_database_after_broker_drain: the pool closes once nothing uses it.
LEMMA CloseDatabaseEngine == ASSUME EngineInv, CloseDatabase PROVE EngineInv'
<1>1. tries' \in 0..MaxFlushRetries
  BY DEF CloseDatabase, EngineInv, Typed
<1>2. Unsettled = {}
  BY DEF CloseDatabase, EngineInv, StageInv
<1> QED
  BY <1>1, <1>2, StageEngine DEF CloseDatabase, Drained, Stages, broker, engine, history

\* close_database_after_broker_drain: the pool is kept when the broker was not drained.
LEMMA KeepPoolEngine == ASSUME EngineInv, KeepPool PROVE EngineInv'
<1>1. tries' \in 0..MaxFlushRetries
  BY DEF KeepPool, EngineInv, Typed
<1> QED
  BY <1>1, StageEngine DEF KeepPool, Stages, broker, engine, history

-----------------------------------------------------------------------------
(* The actions that take a delivery out of the line.                       *)

\* A delivery that leaves a part of the line leaves the line.
LEMMA WithoutInFirst ==
    ASSUME NEW S, NEW x \in Seq(S), NEW z \in Seq(S), NEW y \in Seq(S), NEW i \in 1..Len(x), Without(x, z, i)
    PROVE  Without(x \o y, z \o y, i)
<1>1. /\ Len(x) \in Nat /\ Len(y) \in Nat /\ Len(z) = Len(x) - 1
      /\ \A k \in 1..(Len(x) - 1) : z[k] = IF k < i THEN x[k] ELSE x[k + 1]
  <2>1. Len(x) \in Nat /\ Len(y) \in Nat
    BY LenProperties
  <2>2. /\ Len(z) = Len(x) - 1
        /\ \A k \in 1..(Len(x) - 1) : z[k] = IF k < i THEN x[k] ELSE x[k + 1]
    BY Zenon DEF Without
  <2> QED
    BY <2>1, <2>2, Zenon
<1>2. /\ Len(x \o y) = Len(x) + Len(y) /\ Len(z \o y) = Len(z) + Len(y)
      /\ \A k \in 1..(Len(x) + Len(y)) : (x \o y)[k] = IF k <= Len(x) THEN x[k] ELSE y[k - Len(x)]
      /\ \A k \in 1..(Len(z) + Len(y)) : (z \o y)[k] = IF k <= Len(z) THEN z[k] ELSE y[k - Len(z)]
  BY ConcatProperties
<1>3. ASSUME NEW k \in 1..(Len(x) + Len(y) - 1)
      PROVE  (z \o y)[k] = IF k < i THEN (x \o y)[k] ELSE (x \o y)[k + 1]
  <2>1. k \in 1..(Len(x) + Len(y)) /\ k + 1 \in 1..(Len(x) + Len(y)) /\ k \in 1..(Len(z) + Len(y))
    BY <1>1
  <2>2. CASE k <= Len(x) - 1
    <3>1. k \in 1..(Len(x) - 1) /\ k <= Len(z) /\ k <= Len(x) /\ k + 1 <= Len(x)
      BY <1>1, <2>2
    <3> QED
      BY <1>1, <1>2, <2>1, <3>1
  <2>3. CASE ~(k <= Len(x) - 1)
    <3>1. ~(k <= Len(z)) /\ ~(k < i) /\ ~(k + 1 <= Len(x)) /\ (k + 1) - Len(x) = k - Len(z)
      BY <1>1, <2>3
    <3> QED
      BY <1>2, <2>1, <3>1
  <2> QED
    BY <2>2, <2>3
<1>4. Len(z \o y) = Len(x \o y) - 1 /\ Len(x \o y) - 1 = Len(x) + Len(y) - 1
  BY <1>1, <1>2
<1>5. \A k \in 1..(Len(x) + Len(y) - 1) : (z \o y)[k] = IF k < i THEN (x \o y)[k] ELSE (x \o y)[k + 1]
  BY <1>3
<1>6. \A k \in 1..(Len(x \o y) - 1) : (z \o y)[k] = IF k < i THEN (x \o y)[k] ELSE (x \o y)[k + 1]
  BY <1>4, <1>5
<1> QED
  BY <1>4, <1>6, Zenon DEF Without

\* Taking a delivery out of the second of two queues takes it out of the line.
LEMMA WithoutInSecond ==
    ASSUME NEW S, NEW x \in Seq(S), NEW y \in Seq(S), NEW z \in Seq(S), NEW i \in 1..Len(y), Without(y, z, i)
    PROVE  Without(x \o y, x \o z, Len(x) + i)
<1>1. /\ Len(x) \in Nat /\ Len(y) \in Nat /\ Len(z) = Len(y) - 1
      /\ \A k \in 1..(Len(y) - 1) : z[k] = IF k < i THEN y[k] ELSE y[k + 1]
  <2>1. Len(x) \in Nat /\ Len(y) \in Nat
    BY LenProperties
  <2>2. /\ Len(z) = Len(y) - 1
        /\ \A k \in 1..(Len(y) - 1) : z[k] = IF k < i THEN y[k] ELSE y[k + 1]
    BY Zenon DEF Without
  <2> QED
    BY <2>1, <2>2, Zenon
<1>2. /\ Len(x \o y) = Len(x) + Len(y) /\ Len(x \o z) = Len(x) + Len(z)
      /\ \A k \in 1..(Len(x) + Len(y)) : (x \o y)[k] = IF k <= Len(x) THEN x[k] ELSE y[k - Len(x)]
      /\ \A k \in 1..(Len(x) + Len(z)) : (x \o z)[k] = IF k <= Len(x) THEN x[k] ELSE z[k - Len(x)]
  BY ConcatProperties
<1>3. ASSUME NEW k \in 1..(Len(x) + Len(y) - 1)
      PROVE  (x \o z)[k] = IF k < Len(x) + i THEN (x \o y)[k] ELSE (x \o y)[k + 1]
  <2>1. k \in 1..(Len(x) + Len(y)) /\ k + 1 \in 1..(Len(x) + Len(y)) /\ k \in 1..(Len(x) + Len(z))
    BY <1>1
  <2>2. CASE k <= Len(x)
    <3>1. k < Len(x) + i
      BY <1>1, <2>2
    <3> QED
      BY <1>2, <2>1, <2>2, <3>1
  <2>3. CASE ~(k <= Len(x))
    <3>1. /\ k - Len(x) \in 1..(Len(y) - 1) /\ ~(k + 1 <= Len(x)) /\ (k + 1) - Len(x) = (k - Len(x)) + 1
          /\ (k < Len(x) + i <=> k - Len(x) < i)
      BY <1>1, <2>3
    <3> QED
      BY <1>1, <1>2, <2>1, <2>3, <3>1
  <2> QED
    BY <2>2, <2>3
<1>4. Len(x \o z) = Len(x \o y) - 1 /\ Len(x \o y) - 1 = Len(x) + Len(y) - 1
  BY <1>1, <1>2
<1>5. \A k \in 1..(Len(x) + Len(y) - 1) :
          (x \o z)[k] = IF k < Len(x) + i THEN (x \o y)[k] ELSE (x \o y)[k + 1]
  BY <1>3
<1>6. \A k \in 1..(Len(x \o y) - 1) :
          (x \o z)[k] = IF k < Len(x) + i THEN (x \o y)[k] ELSE (x \o y)[k + 1]
  BY <1>4, <1>5
<1> QED
  BY <1>4, <1>6, Zenon DEF Without

\* The head leaves.
LEMMA WithoutHead ==
    ASSUME NEW S, NEW x \in Seq(S), x # <<>>
    PROVE  Without(x, Tail(x), 1) /\ 1 \in 1..Len(x) /\ x[1] = Head(x) /\ Tail(x) \in Seq(S) /\ Len(x) >= 1
<1>1. Len(x) \in Nat /\ Len(x) >= 1
  OBVIOUS
<1>2. /\ Tail(x) \in Seq(S) /\ Len(Tail(x)) = Len(x) - 1 /\ Head(x) = x[1]
      /\ \A k \in 1..(Len(x) - 1) : Tail(x)[k] = x[k + 1]
  OBVIOUS
<1>3. \A k \in 1..(Len(x) - 1) : ~(k < 1)
  BY <1>1
<1> QED
  BY <1>1, <1>2, <1>3 DEF Without

\* The history of a record that is settled.
LEMMA FinishTyped ==
    ASSUME Typed, NEW r \in Records, Finish(r)
    PROVE  waited' \in [Records -> Ages \cup {None}] /\ kept' \in [Records -> Ages \cup {None}]
<1>1. waited \in [Records -> Ages \cup {None}] /\ kept \in [Records -> Ages \cup {None}]
  BY DEF Typed
<1>2. \A x \in Records : (IF x \in queue \cup {r} THEN None ELSE kept[x]) \in Ages \cup {None}
  BY <1>1
<1> QED
  BY <1>1, <1>2 DEF Finish

\* The observer of a settlement.
LEMMA SettledTyped ==
    ASSUME EngineInv, NEW i \in DOMAIN Held, NEW result \in {"ack", "reject", "held_timeout", "delivery_lost"}
    PROVE  Settled(obs, result) \in Observers /\ Settled(obs, result).accepted = Tail(obs.accepted)
<1>1. obs \in Observers /\ Parts
  BY TypedParts DEF EngineInv, Typed
<1>2. obs.accepted # <<>>
  BY <1>1 DEF Parts, EngineInv, LineInv, Entries
<1> QED
  BY <1>1, <1>2, SettledParts

\* A delivery that has waited too long leaves the queue or submit.
LEMMA ReleaseEngine ==
    ASSUME EngineInv, NEW i, Leaves(i), Release(Held[i]), Held[i].age >= MaxHold,
           pending' \in Seq(Deliveries), waiting' \in Seq(Deliveries),
           UNCHANGED <<kinds, stored, flush, attempts, lingering, stage, tries>>
    PROVE  EngineInv'
<1> DEFINE d == Held[i]
<1>0. Typed /\ Parts /\ i \in DOMAIN Held /\ d \in Deliveries /\ d.rec \in Records
  <2>1. Typed /\ Parts /\ i \in DOMAIN Held
    BY TypedParts DEF EngineInv, Leaves
  <2>2. Held \in Seq(Deliveries)
    BY <2>1 DEF Parts
  <2>3. Held[i] \in Deliveries
    BY <2>1, <2>2
  <2> QED
    BY <2>1, <2>3, DeliveryFields
<1>1. FlushInv'
  BY FlushKept
<1>2. ASSUME Typed', obs'.accepted = Tail(obs.accepted) PROVE StageInv'
  <2>1. Unsettled' \subseteq Unsettled
    BY <1>2, LeaveParts
  <2>2. Unsettled = {} => Unsettled' = {}
    BY <2>1
  <2> QED
    BY <2>2 DEF EngineInv, StageInv
<1>3. CASE /\ d.live /\ returns[d.rec] < MaxRequeues
           /\ Return({d.rec}) /\ obs' = Settled(obs, "held_timeout") /\ UNCHANGED <<acked, dead, history>>
  <2>1. /\ queue' = queue \cup {d.rec} /\ queue' \subseteq Records /\ returns' \in [Records -> 0..MaxRequeues]
        /\ \A r \in Records : returns[r] = MaxRequeues => returns'[r] = MaxRequeues
    <3>1. {d.rec} \in SUBSET Records
      BY <1>0
    <3> QED
      BY <1>0, <1>3, <3>1, ReturnParts
  <2>2. obs' \in Observers /\ obs'.accepted = Tail(obs.accepted)
    BY <1>0, <1>3, SettledTyped
  <2>3. Typed'
    BY <1>0, <1>3, <2>1, <2>2, TypedNext DEF Typed, history
  <2>4. LineInv' /\ OnePlace' /\ WaitInv'
    BY <1>3, <2>1, <2>3, ReturnLine DEF history
  <2>5. SettlementsAreEarned'
    BY <1>0, <1>3, <2>1, EarnedKept DEF Typed
  <2> QED
    BY <1>1, <1>2, <2>2, <2>3, <2>4, <2>5 DEF EngineInv
<1>4. CASE /\ d.live /\ returns[d.rec] >= MaxRequeues
           /\ dead' = dead \cup {d.rec} /\ obs' = Settled(obs, "reject") /\ Finish(d.rec)
           /\ UNCHANGED <<queue, returns, acked>>
  <2>1. waited' \in [Records -> Ages \cup {None}] /\ kept' \in [Records -> Ages \cup {None}]
    BY <1>0, <1>4, FinishTyped
  <2>2. obs' \in Observers /\ obs'.accepted = Tail(obs.accepted)
    BY <1>0, <1>4, SettledTyped
  <2>3. Typed'
    <3>1. dead' \subseteq Records
      BY <1>0, <1>4 DEF Typed
    <3> QED
      BY <1>0, <1>4, <2>1, <2>2, <3>1, TypedNext DEF Typed
  <2>4. LineInv' /\ OnePlace' /\ WaitInv'
    BY <1>4, <2>3, SettleLine
  <2>5. SettlementsAreEarned'
    <3>1. returns[d.rec] = MaxRequeues
      <4>1. returns \in [Records -> 0..MaxRequeues] /\ MaxRequeues \in Nat
        BY <1>0, BoundsAssumption DEF Typed
      <4> QED
        BY <1>0, <1>4, <4>1
    <3> QED
      BY <1>4, <3>1 DEF EngineInv, SettlementsAreEarned, AckedIsStored, DeadLettersAreEarned
  <2> QED
    BY <1>1, <1>2, <2>2, <2>3, <2>4, <2>5 DEF EngineInv
<1>5. CASE ~d.live /\ obs' = Settled(obs, "delivery_lost") /\ UNCHANGED <<broker, history>>
  <2>2. obs' \in Observers /\ obs'.accepted = Tail(obs.accepted)
    BY <1>0, <1>5, SettledTyped
  <2>3. Typed'
    BY <1>0, <1>5, <2>2, TypedNext DEF Typed, broker, history
  <2>4. LineInv' /\ OnePlace' /\ WaitInv'
    BY <1>5, <2>3, ReportLostLine DEF broker, history
  <2>5. SettlementsAreEarned'
    BY <1>5, EarnedKept DEF broker
  <2> QED
    BY <1>1, <1>2, <2>2, <2>3, <2>4, <2>5 DEF EngineInv
<1> QED
  BY <1>3, <1>4, <1>5 DEF Release

\* max_hold_s: the first delivery that is queued or waits for a place goes back to the broker or is dead-lettered.
LEMMA ReleaseHeldEngine == ASSUME EngineInv, ReleaseHeld PROVE EngineInv'
<1> DEFINE b == flush.batch
           c == b \o pending
<1>0. Typed /\ Parts /\ UNCHANGED <<kinds, stored, flush, attempts, lingering, stage, tries>>
  BY TypedParts DEF EngineInv, ReleaseHeld
<1>1. /\ b \in Seq(Deliveries) /\ pending \in Seq(Deliveries) /\ waiting \in Seq(Deliveries)
      /\ Held \in Seq(Deliveries) /\ Len(Held) = Places + Len(waiting)
      /\ Places \in Nat /\ Places = Len(b) + Len(pending)
      /\ Held = b \o pending \o waiting /\ Held' = b \o pending' \o waiting' /\ Places' = Len(pending') + Len(b)
  BY <1>0 DEF Parts, Held, Places
<1> HIDE DEF b
<1>2. c \in Seq(Deliveries) /\ Len(c) = Places /\ Len(b) \in Nat /\ Len(pending) \in Nat /\ Len(waiting) \in Nat
  BY <1>1
<1>3. ASSUME NEW i \in DOMAIN Held, Held[i].age >= MaxHold, NEW j \in DOMAIN Held, j < i, Held[j].live
      PROVE  Held[i].live /\ Held[i].age = MaxAge
  <2>1. Held[i].live
    BY <1>3 DEF EngineInv, LineInv, InLine
  <2>2. Held[i] \in Deliveries
    BY <1>1
  <2>3. Held[i].age \in Ages
    BY <2>2, DeliveryFields
  <2> QED
    BY <1>3, <2>1, <2>3, AgeNumbers
<1>4. CASE /\ pending # <<>> /\ Head(pending).age >= MaxHold
           /\ Release(Head(pending)) /\ pending' = Tail(pending) /\ UNCHANGED waiting
  <2> DEFINE i == Len(b) + 1
             z == Tail(pending)
  <2>1. Without(pending, z, 1) /\ 1 \in 1..Len(pending) /\ pending[1] = Head(pending) /\ z \in Seq(Deliveries)
        /\ Len(pending) >= 1
    BY <1>1, <1>4, WithoutHead
  <2>2. i \in 1..Places /\ i \in 1..Len(Held) /\ i <= Places /\ DOMAIN Held = 1..Len(Held)
    BY <1>1, <1>2, <2>1
  <2>3. Held[i] = Head(pending)
    BY <1>1, <2>1, LineParts
  <2> HIDE DEF z
  <2>4. Without(c, b \o z, i) /\ b \o z \in Seq(Deliveries)
    BY <1>1, <2>1, WithoutInSecond
  <2>5. Without(Held, Held', i)
    <3>1. Held = c \o waiting /\ Held' = (b \o z) \o waiting
      BY <1>1, <1>4 DEF z
    <3>2. i \in 1..Len(c)
      BY <1>2, <2>2
    <3> HIDE DEF c, i
    <3> DEFINE e == b \o z
    <3>3. e \in Seq(Deliveries) /\ Without(c, e, i) /\ c \in Seq(Deliveries)
      BY <1>2, <2>4
    <3>4. Held' = e \o waiting
      BY <3>1
    <3> HIDE DEF e
    <3> QED
      BY <1>1, <3>1, <3>2, <3>3, <3>4, WithoutInFirst
  <2>6. Places' = Places - 1
    <3>1. Len(pending') = Len(pending) - 1
      BY <1>4, <2>1 DEF Without, z
    <3> QED
      BY <1>1, <1>2, <3>1
  <2> HIDE DEF i
  <2>8. i \in DOMAIN Held /\ Held[i].age >= MaxHold
    BY <1>4, <2>2, <2>3
  <2>9. \A j \in DOMAIN Held : j < i /\ Held[j].live => Held[i].live /\ Held[i].age = MaxAge
    BY <1>3, <2>8
  <2>10. i <= Places + 1 /\ Places' = IF i <= Places THEN Places - 1 ELSE Places
    <3>1. Places \in Nat /\ i \in Nat
      BY <1>1, <2>2
    <3> QED
      BY <2>2, <2>6, <3>1
  <2>7. Leaves(i)
    BY <2>5, <2>8, <2>9, <2>10 DEF Leaves
  <2> QED
    BY <1>0, <1>1, <1>4, <2>1, <2>3, <2>7, ReleaseEngine DEF z
<1>5. CASE /\ waiting # <<>> /\ Head(waiting).age >= MaxHold
           /\ Release(Head(waiting)) /\ waiting' = Tail(waiting) /\ UNCHANGED pending
  <2> DEFINE i == Places + 1
             z == Tail(waiting)
  <2>1. Without(waiting, z, 1) /\ 1 \in 1..Len(waiting) /\ waiting[1] = Head(waiting) /\ z \in Seq(Deliveries)
        /\ Len(waiting) >= 1
    BY <1>1, <1>5, WithoutHead
  <2>2. i \in 1..Len(Held) /\ i <= Places + 1 /\ ~(i <= Places) /\ DOMAIN Held = 1..Len(Held)
    BY <1>1, <1>2, <2>1
  <2>3. Held[i] = Head(waiting)
    <3>1. Held[Len(b) + Len(pending) + 1] = waiting[1]
      BY <1>1, <2>1, LineParts
    <3> QED
      BY <1>1, <2>1, <3>1
  <2>5. Without(Held, Held', i)
    <3>1. Held = c \o waiting /\ Held' = c \o z /\ i = Len(c) + 1
      BY <1>1, <1>2, <1>5
    <3> HIDE DEF c, i, z
    <3>2. Without(c \o waiting, c \o z, Len(c) + 1)
      BY <1>1, <1>2, <2>1, WithoutInSecond
    <3> QED
      BY <3>1, <3>2
  <2>6. Places' = Places
    BY <1>0, <1>5 DEF Places
  <2> HIDE DEF i
  <2>8. i \in DOMAIN Held /\ Held[i].age >= MaxHold
    BY <1>5, <2>2, <2>3
  <2>9. \A j \in DOMAIN Held : j < i /\ Held[j].live => Held[i].live /\ Held[i].age = MaxAge
    BY <1>3, <2>8
  <2>10. i <= Places + 1 /\ Places' = IF i <= Places THEN Places - 1 ELSE Places
    <3>1. Places \in Nat /\ i \in Nat
      BY <1>1, <2>2
    <3> QED
      BY <2>2, <2>6, <3>1
  <2>7. Leaves(i)
    BY <2>5, <2>8, <2>9, <2>10 DEF Leaves
  <2> QED
    BY <1>0, <1>1, <1>5, <2>1, <2>3, <2>7, ReleaseEngine
<1> QED
  BY <1>4, <1>5 DEF ReleaseHeld

\* The delivery that is settled next is the first live one, or the first one when none is live.
LEMMA NextToSettleParts ==
    ASSUME Parts, flush.batch # <<>>
    PROVE  /\ NextToSettle \in 1..Len(flush.batch)
           /\ \A j \in 1..Len(flush.batch) : j < NextToSettle => ~flush.batch[j].live
<1> DEFINE b == flush.batch
           alive == {i \in DOMAIN b : b[i].live}
<1>1. b \in Seq(Deliveries) /\ b # <<>>
  BY DEF Parts
<1>2. NextToSettle = IF alive = {} THEN 1 ELSE Min(alive)
  BY DEF NextToSettle
<1> HIDE DEF b
<1>3. DOMAIN b = 1..Len(b) /\ Len(b) \in Nat /\ Len(b) >= 1
  BY <1>1
<1>4. CASE alive = {}
  <2>1. NextToSettle = 1 /\ 1 \in 1..Len(b) /\ \A j \in 1..Len(b) : ~(j < 1)
    BY <1>2, <1>3, <1>4
  <2> QED
    BY <2>1 DEF b
<1>5. CASE alive # {}
  <2>1. alive \in SUBSET Nat /\ alive \subseteq 1..Len(b)
    BY <1>3
  <2>2. \E m \in alive : \A k \in alive : m <= k
    <3> HIDE DEF alive
    <3> QED
      BY <1>5, <2>1, LeastNatural
  <2>3. Min(alive) \in alive /\ \A k \in alive : Min(alive) <= k
    BY <2>2 DEF Min
  <2>4. NextToSettle \in alive /\ \A k \in alive : NextToSettle <= k
    BY <1>2, <1>5, <2>3
  <2>5. NextToSettle \in 1..Len(b)
    BY <2>1, <2>4
  <2>6. ASSUME NEW j \in 1..Len(b), j < NextToSettle PROVE ~b[j].live
    <3>1. ~(NextToSettle <= j)
      BY <2>5, <2>6
    <3>2. j \notin alive
      BY <2>4, <3>1
    <3> QED
      BY <1>3, <3>2
  <2> QED
    BY <2>5, <2>6 DEF b
<1> QED
  BY <1>4, <1>5

\* The batch without the delivery at i, and its rejected ones at their new positions.
LEMMA FlushWithout ==
    ASSUME EngineInv, flush.pc = "settle", NEW i \in 1..Len(flush.batch), Len(flush.batch) # 1, UNCHANGED <<kinds, stored>>,
           flush' = [flush EXCEPT !.batch = RemoveAt(@, i),
                                  !.rejected = {IF j > i THEN j - 1 ELSE j : j \in @ \ {i}}]
    PROVE  /\ flush' \in Flushes /\ FlushInv' /\ flush'.pc = "settle" /\ flush'.batch \in Seq(Deliveries)
           /\ Without(flush.batch, flush'.batch, i)
<1> DEFINE b == flush.batch
           c == RemoveAt(b, i)
           R == flush.rejected
           Q == {IF j > i THEN j - 1 ELSE j : j \in R \ {i}}
<1>0. Parts /\ flush \in Flushes
  BY TypedParts DEF EngineInv, Typed
<1>1. /\ b \in Seq(Deliveries) /\ R \subseteq DOMAIN b /\ flush.parts = <<>> /\ i \in 1..Len(b) /\ Len(b) # 1
      /\ \A k \in R : kinds[b[k].rec] = "poison"
      /\ \A k \in DOMAIN b : k \in R \/ b[k].rec \in stored
  BY <1>0 DEF Parts, EngineInv, FlushInv
<1>2. /\ flush'.batch = c /\ flush'.rejected = Q /\ flush'.pc = "settle" /\ flush'.parts = <<>>
      /\ flush' = [flush EXCEPT !.batch = c, !.rejected = Q]
  BY <1>0, <1>1 DEF Flushes
<1> HIDE DEF b, R
<1>3. c \in Seq(Deliveries) /\ Without(b, c, i)
  BY <1>1, RemoveAtParts
<1> HIDE DEF c
<1>4. /\ DOMAIN b = 1..Len(b) /\ Len(b) \in Nat /\ Len(b) >= 2 /\ i \in Nat
      /\ DOMAIN c = 1..(Len(b) - 1) /\ Len(c) = Len(b) - 1
      /\ \A k \in 1..(Len(b) - 1) : c[k] = IF k < i THEN b[k] ELSE b[k + 1]
  BY <1>1, <1>3 DEF Without
<1>5. ASSUME NEW j \in R \ {i}
      PROVE  /\ (IF j > i THEN j - 1 ELSE j) \in 1..(Len(b) - 1)
             /\ c[IF j > i THEN j - 1 ELSE j] = b[j]
  <2>0. j \in 1..Len(b) /\ j # i
    BY <1>1, <1>4
  <2>1. CASE j > i
    <3>1. j - 1 \in 1..(Len(b) - 1) /\ ~(j - 1 < i) /\ (j - 1) + 1 = j
      BY <1>1, <1>4, <2>0, <2>1
    <3> QED
      BY <1>4, <2>1, <3>1
  <2>2. CASE ~(j > i)
    <3>1. j \in 1..(Len(b) - 1) /\ j < i
      BY <1>1, <1>4, <2>0, <2>2
    <3> QED
      BY <1>4, <2>2, <3>1
  <2> QED
    BY <2>1, <2>2
<1>6. Q \subseteq DOMAIN c /\ Q \in SUBSET Nat /\ \A k \in Q : kinds[c[k].rec] = "poison"
  <2> SUFFICES ASSUME NEW k \in Q PROVE k \in 1..(Len(b) - 1) /\ k \in Nat /\ kinds[c[k].rec] = "poison"
    BY <1>4
  <2>1. PICK j \in R \ {i} : k = IF j > i THEN j - 1 ELSE j
    OBVIOUS
  <2>2. k \in 1..(Len(b) - 1) /\ c[k] = b[j]
    BY <1>5, <2>1
  <2>3. kinds[b[j].rec] = "poison"
    BY <1>1
  <2> QED
    BY <2>2, <2>3
<1>7. ASSUME NEW k \in DOMAIN c PROVE k \in Q \/ c[k].rec \in stored
  <2>0. k \in 1..(Len(b) - 1) /\ k \in 1..Len(b) /\ k + 1 \in 1..Len(b)
    BY <1>4
  <2>1. CASE k < i
    <3>1. c[k] = b[k] /\ k # i /\ ~(k > i)
      BY <1>1, <1>4, <2>0, <2>1
    <3>2. k \in R => k \in Q
      BY <3>1
    <3> QED
      BY <1>1, <1>4, <2>0, <3>1, <3>2
  <2>2. CASE ~(k < i)
    <3>1. c[k] = b[k + 1] /\ k + 1 # i /\ k + 1 > i /\ (k + 1) - 1 = k
      BY <1>1, <1>4, <2>0, <2>2
    <3>2. k + 1 \in R => k \in Q
      BY <3>1
    <3> QED
      BY <1>1, <1>4, <2>0, <3>1, <3>2
  <2> QED
    BY <2>1, <2>2
<1> HIDE DEF Q
<1>8. flush' \in Flushes
  BY <1>0, <1>2, <1>3, <1>6 DEF Flushes
<1>9. FlushInv'
  <2>1. c # <<>> /\ DOMAIN <<>> = {}
    BY <1>3, <1>4
  <2> QED
    BY <1>2, <1>6, <1>7, <2>1 DEF FlushInv
<1> QED
  BY <1>2, <1>3, <1>8, <1>9 DEF b

\* settled: one delivery leaves the batch and the oldest entry leaves the observer.
LEMMA SettleOneEngine == ASSUME EngineInv, SettleOne PROVE EngineInv'
<1> DEFINE b == flush.batch
           i == NextToSettle
           d == b[i]
           rejected == i \in flush.rejected
<1>0. /\ Typed /\ Parts /\ FlushInv /\ flush.pc = "settle"
      /\ UNCHANGED <<kinds, queue, returns, stored, waiting, pending, attempts, lingering, stage, tries>>
  BY TypedParts DEF EngineInv, SettleOne
<1>1. /\ flush' = IF Len(b) = 1 THEN NoFlush
                  ELSE [flush EXCEPT !.batch = RemoveAt(@, i),
                                     !.rejected = {IF j > i THEN j - 1 ELSE j : j \in @ \ {i}}]
      /\ IF d.live
         THEN /\ acked' = IF rejected THEN acked ELSE acked \cup {d.rec}
              /\ dead' = IF rejected THEN dead \cup {d.rec} ELSE dead
              /\ obs' = Settled(obs, IF rejected THEN "reject" ELSE "ack")
              /\ Finish(d.rec)
         ELSE obs' = Settled(obs, "delivery_lost") /\ UNCHANGED <<acked, dead, history>>
  BY DEF SettleOne
<1>2. b \in Seq(Deliveries) /\ b # <<>> /\ pending \in Seq(Deliveries) /\ waiting \in Seq(Deliveries)
  BY <1>0 DEF Parts, FlushInv
<1>3. i \in 1..Len(b) /\ \A j \in 1..Len(b) : j < i => ~b[j].live
  BY <1>0, <1>2, NextToSettleParts
<1>4. /\ flush' \in Flushes /\ FlushInv' /\ flush'.pc # "write" /\ flush'.batch \in Seq(Deliveries)
      /\ Without(b, flush'.batch, i)
  <2>1. CASE Len(b) = 1
    <3>1. /\ flush' = NoFlush /\ flush'.batch = <<>> /\ flush'.pc = "idle" /\ flush'.parts = <<>> /\ flush'.rejected = {}
      BY <1>1, <2>1 DEF NoFlush
    <3>2. flush' \in Flushes
      BY <3>1 DEF NoFlush, Flushes
    <3>3. FlushInv'
      BY <3>1 DEF FlushInv
    <3>4. Without(b, <<>>, i)
      <4> HIDE DEF b
      <4>1. Len(<<>>) = 0 /\ Len(b) - 1 = 0 /\ 1..(Len(b) - 1) = {}
        BY <2>1
      <4> QED
        BY <4>1 DEF Without
    <3> QED
      BY <3>1, <3>2, <3>3, <3>4
  <2>2. CASE Len(b) # 1
    BY <1>0, <1>1, <1>3, <2>2, FlushWithout
  <2> QED
    BY <2>1, <2>2
<1> DEFINE c == flush'.batch
<1>5. /\ Held = b \o pending \o waiting /\ Held' = c \o pending \o waiting
      /\ Places = Len(b) + Len(pending) /\ Places' = Len(pending) + Len(c) /\ Held \in Seq(Deliveries)
      /\ Len(Held) = Places + Len(waiting)
  BY <1>0 DEF Held, Places, Parts
<1> HIDE DEF b, c, i
<1>6. Held[i] = b[i] /\ i \in 1..Len(Held) /\ i <= Places /\ DOMAIN Held = 1..Len(Held) /\ Places \in Nat
  <2>1. Len(b) \in Nat /\ Len(pending) \in Nat /\ Len(waiting) \in Nat
    BY <1>2
  <2>2. i \in 1..Len(Held) /\ i <= Places /\ DOMAIN Held = 1..Len(Held) /\ Places \in Nat
    BY <1>3, <1>5, <2>1
  <2>3. Held[i] = b[i]
    BY <1>2, <1>3, <1>5, LineParts
  <2> QED
    BY <2>2, <2>3
<1>7. Without(Held, Held', i)
  <2> DEFINE x == b \o pending
             y == c \o pending
  <2>1. c \in Seq(Deliveries) /\ Without(b, c, i)
    BY <1>4 DEF c, b
  <2>2. x \in Seq(Deliveries) /\ y \in Seq(Deliveries) /\ i \in 1..Len(x)
    <3>1. x \in Seq(Deliveries) /\ y \in Seq(Deliveries) /\ Len(x) = Len(b) + Len(pending) /\ Len(b) \in Nat /\ Len(pending) \in Nat
      BY <1>2, <2>1
    <3> QED
      BY <1>3, <3>1
  <2>3. Without(x, y, i)
    BY <1>2, <1>3, <2>1, WithoutInFirst
  <2>4. Held = x \o waiting /\ Held' = y \o waiting
    BY <1>5
  <2> HIDE DEF x, y
  <2> QED
    BY <1>2, <2>2, <2>3, <2>4, WithoutInFirst
<1>8. Places' = Places - 1
  <2>1. Len(c) = Len(b) - 1 /\ Len(b) \in Nat /\ Len(pending) \in Nat
    BY <1>2, <1>4 DEF Without, c, b
  <2> QED
    BY <1>5, <2>1
<1>9. \A j \in DOMAIN Held : j < i => ~Held[j].live
  <2> SUFFICES ASSUME NEW j \in DOMAIN Held, j < i PROVE ~Held[j].live
    OBVIOUS
  <2>1. j \in 1..Len(b)
    BY <1>2, <1>3, <1>6
  <2>2. Held[j] = b[j]
    BY <1>2, <1>5, <2>1, LineParts
  <2> QED
    BY <1>3, <2>1, <2>2
<1>10. Leaves(i)
  <2>1. i <= Places + 1 /\ Places' = IF i <= Places THEN Places - 1 ELSE Places
    BY <1>6, <1>8
  <2>2. \A j \in DOMAIN Held : j < i /\ Held[j].live => Held[i].live /\ Held[i].age = MaxAge
    BY <1>9
  <2>3. i \in DOMAIN Held
    BY <1>6
  <2> QED
    BY <1>7, <2>1, <2>2, <2>3 DEF Leaves
<1>11. d = Held[i] /\ d \in Deliveries /\ d.rec \in Records /\ i \in DOMAIN Held
  <2>1. d \in Deliveries
    BY <1>2, <1>3
  <2> QED
    BY <1>6, <2>1, DeliveryFields
<1> HIDE DEF d, rejected
<1>12. /\ rejected => kinds[d.rec] = "poison"
       /\ ~rejected => d.rec \in stored
  <2>1. flush.parts = <<>> /\ DOMAIN <<>> = {} /\ i \in DOMAIN b
    BY <1>0, <1>2, <1>3 DEF FlushInv
  <2> QED
    BY <1>0, <2>1 DEF FlushInv, d, rejected, b
<1>13. ASSUME Typed', LineInv', OnePlace', WaitInv', SettlementsAreEarned' PROVE EngineInv'
  <2>1. stage # "pool_closed" /\ (stage = "draining" => Unsettled = {})
    BY <1>0 DEF EngineInv, StageInv
  <2>2. Unsettled = {} => Unsettled' = {}
    <3>1. queue' = queue /\ acked \subseteq acked' /\ dead \subseteq dead' /\ Records' = Records
      BY <1>0 DEF SettleOne, Records
    <3>2. Unsettled' \subseteq Records
      BY <1>13, <3>1, NextParts DEF Parts
    <3> QED
      BY <1>13, <3>1, <3>2 DEF EngineInv, OnePlace
  <2>3. StageInv'
    BY <1>0, <1>4, <2>1, <2>2 DEF StageInv
  <2> QED
    BY <1>4, <1>13, <2>3 DEF EngineInv
<1>14. CASE d.live
  <2> DEFINE result == IF rejected THEN "reject" ELSE "ack"
  <2>1. /\ acked' = (IF result = "ack" THEN acked \cup {d.rec} ELSE acked)
        /\ dead' = (IF result = "reject" THEN dead \cup {d.rec} ELSE dead)
        /\ obs' = Settled(obs, result) /\ Finish(d.rec) /\ result \in {"ack", "reject"}
        /\ (result = "reject" <=> rejected)
    BY <1>1, <1>14
  <2> HIDE DEF result
  <2>2. waited' \in [Records -> Ages \cup {None}] /\ kept' \in [Records -> Ages \cup {None}]
    BY <1>0, <1>11, <2>1, FinishTyped
  <2>3. obs' \in Observers
    BY <1>11, <2>1, SettledTyped
  <2>4. Typed'
    <3>1. acked' \subseteq Records /\ dead' \subseteq Records
      BY <1>0, <1>11, <2>1 DEF Typed
    <3> QED
      BY <1>0, <1>4, <2>2, <2>3, <3>1, TypedNext DEF Typed
  <2>5. LineInv' /\ OnePlace' /\ WaitInv'
    BY <1>0, <1>10, <1>11, <1>14, <2>1, <2>4, SettleLine
  <2>6. SettlementsAreEarned'
    <3>1. acked' \subseteq stored'
      BY <1>0, <1>12, <2>1 DEF EngineInv, SettlementsAreEarned, AckedIsStored
    <3>2. \A r \in dead' : kinds'[r] # "good" \/ returns'[r] = MaxRequeues
      <4>1. \A r \in dead : kinds[r] # "good" \/ returns[r] = MaxRequeues
        BY DEF EngineInv, SettlementsAreEarned, DeadLettersAreEarned
      <4>2. dead' = dead \/ (dead' = dead \cup {d.rec} /\ kinds[d.rec] # "good")
        BY <1>12, <2>1
      <4> QED
        BY <1>0, <4>1, <4>2
    <3> QED
      BY <3>1, <3>2 DEF SettlementsAreEarned, AckedIsStored, DeadLettersAreEarned
  <2> QED
    BY <1>13, <2>4, <2>5, <2>6
<1>15. CASE ~d.live
  <2>1. obs' = Settled(obs, "delivery_lost") /\ UNCHANGED <<acked, dead, waited, kept>>
    BY <1>1, <1>15 DEF history
  <2>3. obs' \in Observers
    BY <1>11, <2>1, SettledTyped
  <2>4. Typed'
    BY <1>0, <1>4, <2>1, <2>3, TypedNext DEF Typed
  <2>5. LineInv' /\ OnePlace' /\ WaitInv'
    BY <1>0, <1>10, <1>11, <1>15, <2>1, <2>4, ReportLostLine
  <2>6. SettlementsAreEarned'
    BY <1>0, <2>1, EarnedKept
  <2> QED
    BY <1>13, <2>4, <2>5, <2>6
<1> QED
  BY <1>14, <1>15

-----------------------------------------------------------------------------
(* The actions that lose the channel or the process.                       *)

\* What a lost channel leaves of the batch is accounted for as before.
LEMMA LostFlush ==
    ASSUME EngineInv, flush' = [flush EXCEPT !.batch = Lost(@)], UNCHANGED <<kinds, stored>>
    PROVE  /\ flush' \in Flushes /\ FlushInv' /\ flush'.pc = flush.pc /\ flush'.batch = Lost(flush.batch)
<1>0. Parts /\ flush \in Flushes /\ flush.batch \in Seq(Deliveries)
  BY TypedParts DEF EngineInv, Typed, Parts
<1>1. /\ Lost(flush.batch) \in Seq(Deliveries) /\ Len(Lost(flush.batch)) = Len(flush.batch)
      /\ \A i \in 1..Len(flush.batch) : Lost(flush.batch)[i] = [flush.batch[i] EXCEPT !.live = FALSE]
  BY <1>0, AgedAndLost
<1>2. /\ flush'.batch = Lost(flush.batch) /\ flush'.pc = flush.pc /\ flush'.parts = flush.parts
      /\ flush'.rejected = flush.rejected /\ flush' \in Flushes
  BY <1>0, <1>1, FlushFields
<1>3. DOMAIN flush'.batch = DOMAIN flush.batch /\ Len(flush'.batch) = Len(flush.batch)
  BY <1>0, <1>1, <1>2
<1>4. \A i \in DOMAIN flush.batch : flush'.batch[i].rec = flush.batch[i].rec
  <2> TAKE i \in DOMAIN flush.batch
  <2>0. i \in 1..Len(flush.batch)
    BY <1>0
  <2>1. flush.batch[i] \in Deliveries
    BY <1>0
  <2>2. flush'.batch[i] = [flush.batch[i] EXCEPT !.live = FALSE]
    BY <1>1, <1>2, <2>0
  <2> QED
    BY <2>1, <2>2 DEF Deliveries
<1>5. flush'.batch = <<>> <=> flush.batch = <<>>
  BY <1>0, <1>1, <1>2
<1>6. FlushInv'
  BY <1>2, <1>3, <1>4, <1>5 DEF EngineInv, FlushInv
<1> QED
  BY <1>2, <1>6

\* What the broker and the history make of a lost channel.
LEMMA LoseChannelTyped ==
    ASSUME EngineInv, LoseChannel
    PROVE  /\ queue' \subseteq Records /\ returns' \in [Records -> 0..MaxRequeues]
           /\ \A r \in Records : returns[r] = MaxRequeues => returns'[r] = MaxRequeues
           /\ waited' \in [Records -> Ages \cup {None}] /\ kept' \in [Records -> Ages \cup {None}]
<1>0. Typed /\ Unsettled \in SUBSET Records
  BY TypedParts DEF EngineInv, Parts
<1>1. waited \in [Records -> Ages \cup {None}] /\ kept \in [Records -> Ages \cup {None}]
  BY <1>0 DEF Typed
<1>2. \A r \in Records : (IF r \in Unsettled THEN None ELSE kept[r]) \in Ages \cup {None}
  BY <1>1
<1>3. waited' \in [Records -> Ages \cup {None}] /\ kept' \in [Records -> Ages \cup {None}]
  BY <1>1, <1>2 DEF LoseChannel
<1> QED
  BY <1>0, <1>3, ReturnParts DEF LoseChannel

\* A lost channel returns every live delivery; the line stays as it is.
LEMMA ChannelLostEngine == ASSUME EngineInv, ChannelLost PROVE EngineInv'
<1>0. /\ Typed /\ Parts /\ LoseChannel /\ waiting' = Lost(waiting) /\ pending' = Lost(pending)
      /\ flush' = [flush EXCEPT !.batch = Lost(@)]
      /\ UNCHANGED <<kinds, acked, dead, stored, attempts, lingering, obs, stage, tries>>
  BY TypedParts DEF EngineInv, ChannelLost
<1>1. /\ flush.batch \in Seq(Deliveries) /\ pending \in Seq(Deliveries) /\ waiting \in Seq(Deliveries)
      /\ Held \in Seq(Deliveries) /\ obs.accepted \in Seq(Ages) /\ Places \in Nat
  BY <1>0 DEF Parts
<1>2. flush' \in Flushes /\ FlushInv' /\ flush'.pc = flush.pc /\ flush'.batch = Lost(flush.batch)
  BY <1>0, LostFlush
<1>3. /\ flush'.batch \in Seq(Deliveries) /\ pending' \in Seq(Deliveries) /\ waiting' \in Seq(Deliveries)
      /\ Len(Lost(flush.batch)) = Len(flush.batch) /\ Len(Lost(pending)) = Len(pending)
  BY <1>0, <1>1, <1>2, AgedAndLost
<1>4. Typed'
  BY <1>0, <1>2, <1>3, LoseChannelTyped, TypedNext DEF Typed
<1>5. Held' = Lost(Held) /\ Places' = Places
  <2>1. IsLine(Held, flush.batch, pending, waiting)
    BY <1>1, IsLineParts DEF Held
  <2>2. IsLine(Held', flush'.batch, pending', waiting')
    BY <1>3, IsLineParts DEF Held
  <2>3. Held' = Lost(Held)
    BY <1>0, <1>1, <1>2, <2>1, <2>2, LostLine
  <2> QED
    BY <1>0, <1>2, <1>3, <2>3 DEF Places
<1>6. /\ \A i \in DOMAIN Held' : ~Held'[i].live
      /\ InLine(Held') /\ Entries(Held', obs'.accepted, Places') /\ Places' <= MaxPending
  <2>1. /\ \A i \in DOMAIN Held : ~Lost(Held)[i].live
        /\ InLine(Lost(Held)) /\ Entries(Lost(Held), obs.accepted, Places)
    BY <1>1, LossKeepsLine DEF EngineInv, LineInv
  <2>2. DOMAIN Lost(Held) = DOMAIN Held /\ Places <= MaxPending
    BY DEF Lost, EngineInv, LineInv
  <2> QED
    BY <1>0, <1>5, <2>1, <2>2
<1>7. LineInv' /\ OnePlace' /\ WaitInv' /\ Unsettled' = {}
  BY <1>0, <1>4, <1>6, LossLine
<1>8. SettlementsAreEarned'
  BY <1>0, LoseChannelTyped, EarnedKept DEF Typed
<1>9. StageInv'
  BY <1>0, <1>2, <1>7 DEF EngineInv, StageInv
<1> QED
  BY <1>2, <1>4, <1>7, <1>8, <1>9 DEF EngineInv

\* The loader closes its transport: those with a place stay, lost, and submit is empty.
LEMMA CloseTransportEngine ==
    ASSUME EngineInv, CloseTransport, UNCHANGED <<kinds, stored, attempts, lingering, tries>>,
           stage' \in {"running", "stopping", "draining"}
    PROVE  EngineInv'
<1> DEFINE b == flush.batch
           c == b \o pending
           A == obs.accepted
           m == Places
<1>0. Typed /\ Parts /\ LineInv /\ LoseChannel /\ waiting' = <<>> /\ UNCHANGED <<acked, dead>>
  BY TypedParts DEF EngineInv, CloseTransport
<1>1. /\ b \in Seq(Deliveries) /\ pending \in Seq(Deliveries) /\ waiting \in Seq(Deliveries)
      /\ Held \in Seq(Deliveries) /\ A \in Seq(Ages) /\ m \in Nat /\ Held = b \o pending \o waiting
      /\ m = Len(b) + Len(pending) /\ Len(Held) = m + Len(waiting) /\ Len(waiting) \in Nat
      /\ InLine(Held) /\ Entries(Held, A, m) /\ m <= MaxPending
  BY <1>0 DEF Parts, Held, LineInv
<1>2. obs' = [obs EXCEPT !.accepted = SubSeq(@, 1, m)]
  BY <1>0, WithdrawAllParts DEF CloseTransport
<1>3. SubSeq(Held, 1, m) = c
  <2> HIDE DEF b, m
  <2>1. c \in Seq(Deliveries) /\ Len(c) = m
    BY <1>1
  <2>2. SubSeq(Held, 1, m) \in Seq(Deliveries) /\ Len(SubSeq(Held, 1, m)) = m
        /\ \A k \in 1..m : SubSeq(Held, 1, m)[k] = Held[k]
    BY <1>1
  <2>3. \A k \in 1..m : Held[k] = c[k]
    <3>1. Held = c \o waiting
      BY <1>1
    <3> HIDE DEF c
    <3> QED
      BY <1>1, <2>1, <3>1
  <2> QED
    BY <2>1, <2>2, <2>3, SameSeq
<1>4. /\ c \in Seq(Deliveries) /\ SubSeq(A, 1, m) \in Seq(Ages) /\ InLine(c) /\ Entries(c, SubSeq(A, 1, m), m)
  <2>1. m <= Len(Held)
    BY <1>1
  <2> QED
    BY <1>1, <1>3, <2>1, PlacesKeepLine
<1>5. /\ Lost(c) \in Seq(Deliveries) /\ Len(Lost(c)) = Len(c) /\ \A i \in DOMAIN c : ~Lost(c)[i].live
      /\ InLine(Lost(c)) /\ Entries(Lost(c), SubSeq(A, 1, m), m)
  BY <1>1, <1>4, LossKeepsLine
<1>6. /\ obs' \in Observers /\ obs'.accepted = SubSeq(A, 1, m) /\ obs'.held = obs.held /\ obs'.settled = obs.settled
  BY <1>0, <1>2, <1>4 DEF Typed, Observers
<1>7. /\ flush' \in Flushes /\ FlushInv' /\ pending' \in Seq(Deliveries) /\ Held' = Lost(c) /\ Places' = m
      /\ (flush.pc = "idle" => flush'.pc = "idle")
  <2>1. CASE pending' = Lost(pending) /\ flush' = [flush EXCEPT !.batch = Lost(@)]
    <3>1. flush' \in Flushes /\ FlushInv' /\ flush'.pc = flush.pc /\ flush'.batch = Lost(b)
      BY <2>1, LostFlush
    <3>2. Lost(b) \in Seq(Deliveries) /\ Len(Lost(b)) = Len(b) /\ Lost(pending) \in Seq(Deliveries) /\ Len(Lost(pending)) = Len(pending)
      BY <1>1, AgedAndLost
    <3>3. <<>> \in Seq(Deliveries) /\ Lost(<<>>) = <<>>
      <4>1. <<>> \in Seq(Deliveries)
        OBVIOUS
      <4>2. Lost(<<>>) \in Seq(Deliveries) /\ Len(Lost(<<>>)) = 0
        BY <4>1, AgedAndLost
      <4> QED
        BY <4>1, <4>2
    <3>4. Held' = Lost(b) \o Lost(pending) \o <<>> /\ Places' = Len(Lost(pending)) + Len(Lost(b))
      BY <1>0, <2>1, <3>1 DEF Held, Places
    <3>5. IsLine(Held', Lost(b), Lost(pending), <<>>) /\ IsLine(b \o pending \o <<>>, b, pending, <<>>)
      BY <1>1, <3>2, <3>3, <3>4, IsLineParts
    <3>6. (b \o pending) \o <<>> = c
      BY <1>4, ConcatEmptySeq
    <3>7. IsLine(c, b, pending, <<>>)
      BY <3>5, <3>6
    <3>8. Held' = Lost(c)
      <4> HIDE DEF b, c
      <4>1. IsLine(Held', Lost(b), Lost(pending), Lost(<<>>))
        BY <3>3, <3>5
      <4> QED
        BY <1>1, <3>3, <3>7, <4>1, LostLine
    <3>9. Places' = m
      <4> HIDE DEF b, m
      <4>1. Len(b) \in Nat /\ Len(pending) \in Nat
        BY <1>1
      <4> QED
        BY <1>1, <3>2, <3>4, <4>1
    <3> QED
      BY <2>1, <3>1, <3>2, <3>8, <3>9
  <2>2. CASE pending' = Lost(c) /\ flush' = NoFlush /\ flush.pc = "write"
    <3>1. flush'.batch = <<>> /\ flush'.parts = <<>> /\ flush'.rejected = {} /\ flush'.pc = "idle"
      BY <2>2 DEF NoFlush
    <3>2. flush' \in Flushes
      BY <2>2 DEF NoFlush, Flushes
    <3>3. FlushInv'
      BY <3>1 DEF FlushInv
    <3>4. Held' = <<>> \o Lost(c) \o <<>> /\ Places' = Len(Lost(c)) + Len(<<>>)
      BY <1>0, <2>2, <3>1 DEF Held, Places
    <3>5. <<>> \o Lost(c) = Lost(c) /\ Lost(c) \o <<>> = Lost(c)
      BY <1>5, ConcatEmptySeq
    <3>6. Len(c) = m
      BY <1>1
    <3>7. Places' = m
      <4>1. Places' = m + 0
        BY <1>5, <3>4, <3>6
      <4> HIDE DEF m
      <4> QED
        BY <1>1, <4>1
    <3> QED
      BY <1>5, <2>2, <3>1, <3>2, <3>3, <3>4, <3>5, <3>7
  <2> QED
    BY <2>1, <2>2 DEF CloseTransport
<1>8. Typed'
  <2>1. <<>> \in Seq(Deliveries) /\ stage' \in Stages
    BY DEF Stages
  <2> QED
    BY <1>0, <1>6, <1>7, <2>1, LoseChannelTyped, TypedNext DEF Typed
<1>9. LineInv' /\ OnePlace' /\ WaitInv' /\ Unsettled' = {}
  <2>1. DOMAIN Lost(c) = DOMAIN c
    BY DEF Lost
  <2>2. /\ \A i \in DOMAIN Held' : ~Held'[i].live
        /\ InLine(Held') /\ Entries(Held', obs'.accepted, Places') /\ Places' <= MaxPending
    BY <1>1, <1>5, <1>6, <1>7, <2>1
  <2> QED
    BY <1>0, <1>6, <1>8, <2>2, LossLine
<1>10. SettlementsAreEarned'
  BY <1>0, LoseChannelTyped, EarnedKept DEF Typed
<1>11. StageInv'
  BY <1>7, <1>9 DEF StageInv
<1> QED
  BY <1>7, <1>8, <1>9, <1>10, <1>11 DEF EngineInv

\* _reset_durable_broker: the transport closes and deliveries in submit are withdrawn.
LEMMA ResetBrokerEngine == ASSUME EngineInv, ResetBroker PROVE EngineInv'
  BY CloseTransportEngine DEF ResetBroker

\* cancel_all_consumers: the teardown begins.
LEMMA StopConsumersEngine == ASSUME EngineInv, StopConsumers PROVE EngineInv'
<1>1. stage' = "stopping" /\ UNCHANGED <<kinds, stored, attempts, lingering, tries>>
  BY DEF StopConsumers
<1>2. CASE UNCHANGED <<broker, waiting, pending, flush, obs, history>>
  <2>1. tries' \in 0..MaxFlushRetries
    BY <1>1 DEF EngineInv, Typed
  <2> QED
    BY <1>1, <1>2, <2>1, StageEngine DEF Stages, broker, history
<1>3. CASE CloseTransport
  BY <1>1, <1>3, CloseTransportEngine
<1> QED
  BY <1>2, <1>3 DEF StopConsumers

\* close_rabbitmq_connection: what the engine still holds goes back to the broker.
LEMMA CloseBrokerEngine == ASSUME EngineInv, CloseBroker PROVE EngineInv'
  BY CloseTransportEngine DEF CloseBroker

\* Another process starts with nothing in hand.
LEMMA NewProcessEngine == ASSUME EngineInv, NewProcess PROVE EngineInv'
<1>0. /\ Typed /\ Parts /\ Unsettled \in SUBSET Records /\ Records' = Records /\ None' = None
      /\ Return(Unsettled) /\ UNCHANGED <<kinds, acked, dead>>
  BY TypedParts DEF EngineInv, Parts, NewProcess, Records, None
<1>1. /\ flush' = NoFlush /\ flush'.batch = <<>> /\ flush'.parts = <<>> /\ flush'.rejected = {} /\ flush'.pc = "idle"
      /\ pending' = <<>> /\ waiting' = <<>> /\ obs' = Observer /\ obs'.accepted = <<>> /\ obs'.held = None
      /\ stage' = "running" /\ tries' = MaxFlushRetries /\ attempts' = 0 /\ lingering' = {}
  BY DEF NewProcess, NoFlush, Observer
<1>2. /\ queue' = queue \cup Unsettled /\ queue' \subseteq Records /\ returns' \in [Records -> 0..MaxRequeues]
      /\ \A r \in Records : returns[r] = MaxRequeues => returns'[r] = MaxRequeues
  BY <1>0, ReturnParts
<1>3. stored \subseteq stored' /\ stored' \subseteq Records
  BY <1>0 DEF NewProcess, Typed
<1>4. waited' = [r \in Records |-> None] /\ kept' = [r \in Records |-> None]
  BY DEF NewProcess
<1>5. Typed'
  <2>1. obs' \in Observers
    BY <1>1, AgeNumbers DEF Observer, Observers
  <2>2. flush' \in Flushes
    BY <1>1 DEF NoFlush, Flushes
  <2>3. 0 \in 0..(MaxPoisonRetries - 1) /\ MaxFlushRetries \in 0..MaxFlushRetries
    BY BoundsAssumption
  <2>4. waited' \in [Records -> Ages \cup {None}] /\ kept' \in [Records -> Ages \cup {None}]
    BY <1>4
  <2>5. <<>> \in Seq(Deliveries) /\ stage' \in Stages
    BY <1>1 DEF Stages
  <2> QED
    BY <1>0, <1>1, <1>2, <1>3, <2>1, <2>2, <2>3, <2>4, <2>5, TypedNext DEF Typed
<1>6. Parts'
  BY <1>5, NextParts
<1>7. Held' = <<>> /\ Places' = 0 /\ Len(<<>>) = 0 /\ DOMAIN <<>> = {}
  BY <1>1 DEF Held, Places
<1>8. LineInv'
  BY <1>1, <1>7, BoundsAssumption DEF LineInv, InLine, Entries
<1>9. Unsettled' = {}
  BY <1>6, <1>7 DEF Parts, LiveIn
<1>10. OnePlace'
  BY <1>0, <1>2, <1>9 DEF EngineInv, OnePlace
<1>11. FlushInv' /\ StageInv'
  BY <1>1 DEF FlushInv, StageInv
<1>12. SettlementsAreEarned'
  BY <1>0, <1>2, <1>3, EarnedKept DEF Typed
<1>13. WaitInv'
  BY <1>0, <1>1, <1>2, <1>4, <1>7 DEF WaitInv, HeldIsOld, WaitsCoverAges, KeptIsSeen
<1> QED
  BY <1>5, <1>8, <1>10, <1>11, <1>12, <1>13 DEF EngineInv

-----------------------------------------------------------------------------
(* The invariant.                                                          *)

\* Every step keeps the invariant.
LEMMA NextEngine == ASSUME EngineInv, [Next]_vars PROVE EngineInv'
<1>1. CASE UNCHANGED vars
  <2>1. UNCHANGED <<kinds, queue, returns, acked, dead, stored, waiting, pending, flush, attempts, lingering, obs, stage,
                    tries, waited, kept>>
    BY <1>1 DEF vars, broker, engine, history
  <2>2. stage' \in Stages /\ tries' \in 0..MaxFlushRetries
    BY <2>1 DEF EngineInv, Typed
  <2>3. /\ stage' \in {"draining", "pool_closed"} => Unsettled = {}
        /\ stage' = "pool_closed" => lingering = {} /\ flush.pc = "idle"
    BY <2>1 DEF EngineInv, StageInv
  <2> QED
    BY <2>1, <2>2, <2>3, StageEngine
<1>2. ASSUME NEW r \in Records, Deliver(r) PROVE EngineInv'
  BY <1>2, DeliverEngine
<1>3. ASSUME NEW r \in Records, RejectMalformed(r) PROVE EngineInv'
  BY <1>3, RejectMalformedEngine
<1>4. CASE Admit
  BY <1>4, AdmitEngine
<1>5. CASE BeginFlush \/ HandlerFlushes
  BY <1>5, BeginFlushEngine, HandlerFlushesEngine
<1>6. CASE WritePart
  BY <1>6, WritePartEngine
<1>7. CASE SplitPart
  BY <1>7, SplitPartEngine
<1>8. CASE RejectPart
  BY <1>8, RejectPartEngine
<1>9. CASE RetryPoison
  BY <1>9, RetryPoisonEngine
<1>10. CASE SettleOne
  BY <1>10, SettleOneEngine
<1>11. CASE StopPeriodic
  BY <1>11, StopPeriodicEngine
<1>12. CASE EndFlushAll
  BY <1>12, EndFlushAllEngine
<1>13. CASE CloseBroker
  BY <1>13, CloseBrokerEngine
<1>14. CASE CloseDatabase
  BY <1>14, CloseDatabaseEngine
<1>15. CASE KeepPool
  BY <1>15, KeepPoolEngine
<1>16. CASE Restart \/ Crash
  BY <1>16, NewProcessEngine DEF Restart, Crash
<1>17. CASE ReleaseHeld
  BY <1>17, ReleaseHeldEngine
<1>18. CASE WriteFails
  BY <1>18, WriteFailsEngine
<1>19. CASE WriteTimesOut
  BY <1>19, WriteTimesOutEngine
<1>20. CASE LingeringEnds
  BY <1>20, LingeringEndsEngine
<1>21. CASE ChannelLost
  BY <1>21, ChannelLostEngine
<1>22. CASE ResetBroker
  BY <1>22, ResetBrokerEngine
<1>23. CASE StopConsumers
  BY <1>23, StopConsumersEngine
<1>24. CASE Tick
  BY <1>24, TickEngine
<1> QED
  BY <1>1, <1>2, <1>3, <1>4, <1>5, <1>6, <1>7, <1>8, <1>9, <1>10, <1>11, <1>12, <1>13, <1>14, <1>15, <1>16, <1>17, <1>18,
     <1>19, <1>20, <1>21, <1>22, <1>23, <1>24, Zenon DEF Next, Progress

\* The invariant of the batch engine and its observer: through outages, bisected batches, write
\* timeouts, lost channels, releases after a hold, the teardown and restarts, each delivery keeps its
\* place in line and its entry with the observer, and each record is in one place.
THEOREM EngineInvariant == Spec => []EngineInv
<1>1. EngineInv /\ [Next]_vars => EngineInv'
  BY NextEngine
<1> QED
  BY <1>1, InitEngine, PTL DEF Spec

-----------------------------------------------------------------------------
(* What follows from it.                                                   *)

\* The state is well-typed, deliveries stay in order of arrival through every restore, and no record
\* has two live deliveries or one beside its place at the broker.
THEOREM EngineTypeCorrect == Spec => []TypeOK
<1>1. EngineInv => TypeOK
  <2> HAVE EngineInv
  <2>1. Typed /\ Parts /\ LineInv /\ OnePlace /\ FlushInv
    BY TypedParts DEF EngineInv
  <2>2. \A S \in {queue, acked, dead, stored} \cup lingering : S \subseteq Records
    BY <2>1 DEF Typed
  <2>3. returns \in [Records -> 0..MaxRequeues] /\ {waited, kept} \subseteq [Records -> Ages \cup {None}]
    BY <2>1 DEF Typed
  <2>4. LET all == flush.batch \o pending \o waiting
        IN  /\ Range(all) \subseteq Deliveries
            /\ \A i, j \in DOMAIN all : i < j => all[i].age >= all[j].age
            /\ \A i, j \in DOMAIN all : i # j /\ all[i].live /\ all[j].live => all[i].rec # all[j].rec
    <3>1. Held \in Seq(Deliveries)
      BY <2>1 DEF Parts
    <3>2. Range(Held) \subseteq Deliveries
      BY <3>1 DEF Range
    <3> QED
      BY <2>1, <3>2 DEF LineInv, InLine, Held
  <2>5. Records \subseteq queue \cup acked \cup dead \cup Unsettled
    BY <2>1 DEF OnePlace
  <2>6. \A S, T \in {queue, acked, dead, Unsettled} : S # T => S \cap T = {}
    <3>1. /\ queue \cap acked = {} /\ queue \cap dead = {} /\ queue \cap Unsettled = {}
          /\ acked \cap dead = {} /\ acked \cap Unsettled = {} /\ dead \cap Unsettled = {}
      BY <2>1 DEF OnePlace
    <3>2. /\ acked \cap queue = {} /\ dead \cap queue = {} /\ Unsettled \cap queue = {}
          /\ dead \cap acked = {} /\ Unsettled \cap acked = {} /\ Unsettled \cap dead = {}
      BY <3>1
    <3> QED
      BY <3>1, <3>2
  <2>7. Places <= MaxPending /\ flush.rejected \subseteq DOMAIN flush.batch
    BY <2>1 DEF LineInv, FlushInv
  <2>8. /\ flush.pc \in {"idle", "write", "settle"} /\ obs.held \in Ages \cup {None} /\ obs.settled \in Ages
        /\ obs.veto \in BOOLEAN /\ Range(obs.accepted) \subseteq Ages
    BY <2>1 DEF Parts, Range
  <2> QED
    BY <2>1, <2>2, <2>3, <2>4, <2>5, <2>6, <2>7, <2>8 DEF TypeOK, Typed, Stages
<1> QED
  BY <1>1, EngineInvariant, PTL

\* The batch sink acks a delivery only for a committed record, and dead-letters one only for a record
\* that fails alone or has spent its returns, whatever halves of the batch were written before.
THEOREM SettlementsEarned == Spec => []SettlementsAreEarned
<1>1. EngineInv => SettlementsAreEarned
  BY DEF EngineInv
<1> QED
  BY <1>1, EngineInvariant, PTL

\* The greatest of three numbers.
LEMMA MaxOfThree ==
    ASSUME NEW x \in Int, NEW y \in Int, NEW z \in Int
    PROVE  /\ Max({x, y, z}) \in {x, y, z}
           /\ Max({x, y, z}) >= x /\ Max({x, y, z}) >= y /\ Max({x, y, z}) >= z
<1>1. \E u \in {x, y, z} : \A v \in {x, y, z} : u >= v
  OBVIOUS
<1> QED
  BY <1>1 DEF Max

\* queued_age is 0 or the age of some delivery of the queue.
LEMMA QueuedAgeParts ==
    ASSUME EngineInv
    PROVE  QueuedAge \in Nat /\ (QueuedAge = 0 \/ \E i \in DOMAIN pending : QueuedAge = pending[i].age)
<1> DEFINE ages == {pending[i].age : i \in DOMAIN pending}
           b == flush.batch
<1>0. Parts /\ InLine(Held) /\ Held = b \o pending \o waiting
  BY TypedParts DEF EngineInv, LineInv, Held
<1>1. b \in Seq(Deliveries) /\ pending \in Seq(Deliveries) /\ waiting \in Seq(Deliveries)
  BY <1>0 DEF Parts
<1>2. QueuedAge = IF ages = {} THEN 0 ELSE Max(ages)
  BY DEF QueuedAge
<1>3. \A i \in DOMAIN pending : pending[i].age \in Nat
  BY <1>1, DeliveryFields, AgeNumbers
<1>4. CASE ages = {}
  BY <1>2, <1>4
<1>5. CASE ages # {}
  <2> HIDE DEF b
  <2>1. 1 \in DOMAIN pending /\ DOMAIN pending = 1..Len(pending) /\ Len(b) \in Nat /\ Len(pending) \in Nat
    BY <1>1, <1>5
  <2>2. ASSUME NEW i \in DOMAIN pending PROVE pending[1].age >= pending[i].age
    <3>1. /\ Held[Len(b) + 1] = pending[1] /\ Held[Len(b) + i] = pending[i]
          /\ Len(Held) = Len(b) + Len(pending) + Len(waiting) /\ Held \in Seq(Deliveries)
      BY <1>0, <1>1, <2>1, LineParts, SMTT(30)
    <3>2. Len(waiting) \in Nat /\ DOMAIN Held = 1..(Len(b) + Len(pending) + Len(waiting))
      BY <1>1, <3>1
    <3>3. Len(b) + 1 \in DOMAIN Held /\ Len(b) + i \in DOMAIN Held
      BY <2>1, <3>2
    <3>4. CASE i = 1
      BY <1>3, <2>1, <3>4
    <3>5. CASE i # 1
      <4>1. Len(b) + 1 < Len(b) + i
        BY <2>1, <3>5
      <4> QED
        BY <1>0, <3>1, <3>3, <4>1 DEF InLine
    <3> QED
      BY <3>4, <3>5
  <2>3. \E u \in ages : \A v \in ages : u >= v
    BY <2>1, <2>2
  <2>4. Max(ages) \in ages
    BY <2>3 DEF Max
  <2> QED
    BY <1>2, <1>3, <1>5, <2>4
<1> QED
  BY <1>4, <1>5

\* outstanding_accepted and stalled(): the observer has one entry per delivery that the loader holds,
\* although settlements take entries by age and deliveries leave out of order; a stall it reports is
\* a wait some record really has, and a wait that nothing has ended is reported.
THEOREM ObserverAccurate == Spec => []ObserverIsAccurate
<1>1. EngineInv => ObserverIsAccurate
  <2> HAVE EngineInv
  <2> DEFINE A == obs.accepted
  <2>0. Typed /\ Parts /\ LineInv /\ OnePlace /\ WaitInv
    BY TypedParts DEF EngineInv
  <2>1. /\ Held \in Seq(Deliveries) /\ A \in Seq(Ages) /\ Len(A) = Len(Held) /\ obs.held \in Ages \cup {None}
        /\ obs.settled \in Ages
        /\ \A i, j \in DOMAIN A : i < j => A[i] >= A[j]
        /\ \A i \in DOMAIN Held : A[i] <= Held[i].age
        /\ \A i \in DOMAIN Held : Held[i].live => A[i] = Held[i].age
    BY <2>0 DEF Parts, LineInv, Entries
  <2>2. EntriesMatchDeliveries
    <3> DEFINE b == flush.batch
    <3>1. /\ Len(Held) = Places + Len(waiting) /\ Places = Len(b) + Len(pending) /\ Len(waiting) \in Nat
          /\ b \in Seq(Deliveries) /\ pending \in Seq(Deliveries)
      BY <2>0 DEF Parts
    <3> HIDE DEF b
    <3>2. Len(A) = Len(waiting) + Len(pending) + Len(b)
      <4>1. Len(b) \in Nat /\ Len(pending) \in Nat
        BY <3>1
      <4>2. Len(A) = Places + Len(waiting) /\ Places = Len(b) + Len(pending) /\ Len(waiting) \in Nat
        BY <2>1, <3>1
      <4> HIDE DEF A
      <4> QED
        BY <4>1, <4>2
    <3> QED
      BY <3>2 DEF EntriesMatchDeliveries, b
  <2>3. /\ DOMAIN Held = 1..Len(Held) /\ DOMAIN A = 1..Len(Held) /\ Len(Held) \in Nat
        /\ \A i \in DOMAIN Held : A[i] \in Nat /\ Held[i].age \in Nat /\ Held[i].rec \in Records
    <3>1. DOMAIN Held = 1..Len(Held) /\ DOMAIN A = 1..Len(Held) /\ Len(Held) \in Nat
      BY <2>1
    <3>2. \A i \in DOMAIN Held : A[i] \in Ages /\ Held[i] \in Deliveries
      BY <2>1, <3>1
    <3> QED
      BY <3>1, <3>2, DeliveryFields, AgeNumbers
  <2>4. /\ OldestUnsettledAge \in Nat
        /\ OldestUnsettledAge # 0 => 1 \in DOMAIN Held /\ OldestUnsettledAge <= Held[1].age
        /\ \A i \in DOMAIN Held : OldestUnsettledAge >= A[i]
    <3>1. CASE A = <<>>
      <4>1. OldestUnsettledAge = 0 /\ Len(Held) = 0
        BY <2>1, <3>1 DEF OldestUnsettledAge
      <4> QED
        BY <2>3, <4>1
    <3>2. CASE A # <<>>
      <4>1. OldestUnsettledAge = A[1] /\ 1 \in DOMAIN Held
        BY <2>1, <2>3, <3>2 DEF OldestUnsettledAge
      <4>2. \A i \in DOMAIN Held : i = 1 \/ 1 < i
        BY <2>3
      <4> QED
        BY <2>1, <2>3, <4>1, <4>2
    <3> QED
      BY <3>1, <3>2
  <2>5. QueuedAge \in Nat /\ (QueuedAge = 0 \/ \E i \in DOMAIN pending : QueuedAge = pending[i].age)
    BY QueuedAgeParts
  <2>6. /\ StallS \in Nat /\ StallS > 0 /\ StallS < MaxAge /\ MaxAge \in Nat /\ None = -1
        /\ obs.held \in Int /\ obs.settled \in Nat
    BY <2>1, AgeNumbers
  <2> DEFINE M == Max({QueuedAge, OldestUnsettledAge, obs.held})
  <2>7. /\ M \in {QueuedAge, OldestUnsettledAge, obs.held}
        /\ M >= QueuedAge /\ M >= OldestUnsettledAge /\ M >= obs.held
    BY <2>4, <2>5, <2>6, MaxOfThree
  <2>8. Stalled <=> M > StallS /\ obs.settled > StallS
    BY DEF Stalled
  <2> HIDE DEF A, M
  <2>9. StallIsReal
    <3> SUFFICES ASSUME M > StallS
                 PROVE  (\E d \in InHand : d.age > StallS) \/ (\E r \in Records : waited[r] > StallS)
      BY <2>8 DEF StallIsReal
    <3>1. CASE M = QueuedAge
      <4>1. PICK i \in DOMAIN pending : QueuedAge = pending[i].age
        BY <2>5, <2>6, <3>1
      <4>2. pending[i] \in InHand
        BY DEF InHand, Range
      <4> QED
        BY <3>1, <4>1, <4>2
    <3>2. CASE M = OldestUnsettledAge
      <4>1. 1 \in DOMAIN Held /\ OldestUnsettledAge <= Held[1].age /\ Held[1].age \in Nat
        BY <2>3, <2>4, <2>6, <3>2
      <4>2. Held[1].age > StallS
        BY <2>4, <2>6, <3>2, <4>1
      <4>3. Held[1] \in InHand
        <5>1. flush.batch \in Seq(Deliveries) /\ pending \in Seq(Deliveries) /\ waiting \in Seq(Deliveries)
          BY <2>0 DEF Parts
        <5> QED
          BY <4>1, <5>1, LineInHand DEF Held, InHand
      <4> QED
        BY <4>2, <4>3
    <3>3. CASE M = obs.held
      <4>1. obs.held # None
        BY <2>6, <3>3
      <4>2. PICK r \in Records : waited[r] = MaxAge
        BY <2>0, <4>1 DEF WaitInv, HeldIsOld
      <4>3. waited[r] > StallS
        BY <2>6, <4>2
      <4> QED
        BY <4>3
    <3> QED
      BY <2>7, <3>1, <3>2, <3>3
  <2>10. StallIsReported
    <3> SUFFICES ASSUME obs.settled > StallS, NEW r \in Records, kept[r] > StallS PROVE M > StallS
      BY <2>8 DEF StallIsReported
    <3>0. kept[r] \in Int /\ kept[r] # None
      <4>1. kept[r] \in Ages \cup {None}
        BY <2>0 DEF Typed
      <4> QED
        BY <2>6, <4>1, AgeNumbers
    <3>00. M \in Int
      BY <2>4, <2>5, <2>6, <2>7
    <3>1. r \in queue \/ r \in Unsettled
      BY <2>0, <3>0 DEF OnePlace, WaitInv, KeptIsSeen
    <3>2. CASE r \in queue
      <4>1. obs.held = MaxAge
        BY <2>0, <3>0, <3>2 DEF WaitInv, KeptIsSeen, HeldIsOld
      <4> QED
        BY <2>6, <2>7, <3>00, <4>1
    <3>3. CASE r \in Unsettled
      <4>1. PICK i \in DOMAIN Held : Held[i].live /\ Held[i].rec = r
        BY <2>0, <3>3 DEF Parts, LiveIn
      <4>2. kept[r] <= obs.held \/ kept[r] <= Held[i].age \/ obs.settled <= Held[i].age
        BY <2>0, <4>1 DEF WaitInv, KeptIsSeen
      <4>3. A[i] = Held[i].age /\ OldestUnsettledAge >= A[i] /\ Held[i].age \in Nat
        BY <2>1, <2>3, <2>4, <4>1
      <4>4. obs.held > StallS \/ Held[i].age > StallS
        BY <2>6, <3>0, <4>2, <4>3
      <4> QED
        BY <2>4, <2>6, <2>7, <3>00, <4>3, <4>4
    <3> QED
      BY <3>1, <3>2, <3>3
  <2> QED
    BY <2>2, <2>9, <2>10 DEF ObserverIsAccurate
<1> QED
  BY <1>1, EngineInvariant, PTL

\* close_database_after_broker_drain: a pool that is closed has no connection in use, by a flush or
\* by a write that was given up, and what the engine had not settled is back at the broker.
THEOREM PoolClosed == Spec => []PoolClosesUnused
<1>1. EngineInv => PoolClosesUnused
  BY DEF EngineInv, StageInv, PoolClosesUnused
<1> QED
  BY <1>1, EngineInvariant, PTL
=============================================================================

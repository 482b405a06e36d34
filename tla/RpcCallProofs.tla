--------------------------- MODULE RpcCallProofs ---------------------------
(***************************************************************************)
(* Proofs about RpcCall, for every number of contexts and buffers, every   *)
(* size of the rings and any number of calls and programs of the host.     *)
(*                                                                         *)
(* All units on their way to the device, in rx_packet, rx_ring and         *)
(* to_device, are one queue in which every tail follows its own head       *)
(* (Paired).  A program that stops can leave a head without its tail, and  *)
(* a packet is damaged only by such a stray head: the damaged packets and  *)
(* the stray heads on their way are together no more than the programs     *)
(* that stopped.  In the other direction the front of the queue is lost,   *)
(* which leaves at most one tail without its head (Orphan).                *)
(*                                                                         *)
(* For the streams (StreamInv): of n responses that the device sent for a  *)
(* stream the client was given 1 .. g, and g + 1 .. n are on their way, in *)
(* this order.  If the reader is the stream's it stands at n.  A stream    *)
(* whose request is still on its way has no response yet, and there is at  *)
(* most one request for it.  The packets of a program come before those of *)
(* the next one and the device has no context of a program later than the  *)
(* packets that it still has to read, which is why a context that has the  *)
(* method and the number of a request never is one of a later program.     *)
(***************************************************************************)
EXTENDS RpcCall, SequenceTheorems, FiniteSetTheorems, TLAPS

\* A set of naturals has a least element.
LEMMA LeastNatural == ASSUME NEW A, A \subseteq Nat, A # {} PROVE \E x \in A : \A y \in A : x <= y
<1> DEFINE less == {p \in Nat \X Nat : p[1] < p[2]}
<1>1. less = OpToRel(<, Nat)
  BY DEF OpToRel
<1>2. IsWellFoundedOn(less, Nat)
  BY <1>1, NatLessThanWellFounded
<1>3. \A x, y \in Nat : y < x => <<y, x>> \in less
  OBVIOUS
<1> HIDE DEF less
<1>4. PICK x \in A : \A y \in A : ~(<<y, x>> \in less)
  BY <1>2, WFMin
<1>5. ASSUME NEW y \in A PROVE x <= y
  <2>1. x \in Nat /\ y \in Nat
    OBVIOUS
  <2>2. ~(y < x)
    BY <1>3, <1>4, <2>1
  <2> QED
    BY <2>1, <2>2
<1> QED
  BY <1>5

\* Lowest chooses the least element.
LEMMA LowestFacts ==
  ASSUME NEW A, A \subseteq Nat, A # {}
  PROVE  Lowest(A) \in A /\ \A y \in A : Lowest(A) <= y
<1>1. \E x \in A : \A y \in A : x <= y
  BY LeastNatural
<1> QED
  BY <1>1, Zenon DEF Lowest

-----------------------------------------------------------------------------
(* A queue of units. *)

\* r is what is left of q without the first k.
Dropped(r, q, k) ==
  /\ Len(r) = Len(q) - k
  /\ \A i \in 1 .. Len(q) - k : r[i] = q[k + i]

\* p is the first k of q.
Begins(p, q, k) ==
  /\ Len(p) = k
  /\ \A i \in 1 .. k : p[i] = q[i]

\* What SubSeq makes of a queue cut behind place k.
LEMMA Split ==
  ASSUME NEW S, NEW q \in Seq(S), NEW k \in 0 .. Len(q)
  PROVE  /\ SubSeq(q, 1, k) \in Seq(S) /\ Begins(SubSeq(q, 1, k), q, k)
         /\ SubSeq(q, k + 1, Len(q)) \in Seq(S) /\ Dropped(SubSeq(q, k + 1, Len(q)), q, k)
<1>0. Len(q) \in Nat /\ k \in Nat /\ k <= Len(q)
  OBVIOUS
<1>1. /\ SubSeq(q, 1, k) \in Seq(S) /\ Len(SubSeq(q, 1, k)) = k
      /\ SubSeq(q, k + 1, Len(q)) \in Seq(S) /\ Len(SubSeq(q, k + 1, Len(q))) = Len(q) - k
      /\ \A i \in 1 .. k : SubSeq(q, 1, k)[i] = q[i]
      /\ \A i \in 1 .. Len(q) - k : SubSeq(q, k + 1, Len(q))[i] = q[k + i]
  OBVIOUS
<1> QED
  BY <1>1 DEF Begins, Dropped

\* What was split is the whole.
LEMMA Joined ==
  ASSUME NEW S, NEW p \in Seq(S), NEW r \in Seq(S), NEW q \in Seq(S), NEW k \in 0 .. Len(q),
         Begins(p, q, k), Dropped(r, q, k)
  PROVE  p \o r = q
<1>1. /\ p \o r \in Seq(S) /\ Len(p \o r) = Len(p) + Len(r)
      /\ \A i \in 1 .. Len(p) + Len(r) : (p \o r)[i] = IF i <= Len(p) THEN p[i] ELSE r[i - Len(p)]
  BY ConcatProperties
<1>2. Len(p) = k /\ Len(r) = Len(q) - k /\ Len(q) \in Nat /\ k \in Nat /\ k <= Len(q)
  BY DEF Begins, Dropped
<1>3. ASSUME NEW i \in 1 .. Len(q) PROVE (p \o r)[i] = q[i]
  <2>1. CASE i <= k
    <3>1. i \in 1 .. k /\ i \in 1 .. Len(p) + Len(r) /\ i <= Len(p)
      BY <1>2, <2>1
    <3>2. p[i] = q[i]
      BY <3>1 DEF Begins
    <3> QED
      BY <1>1, <3>1, <3>2
  <2>2. CASE i > k
    <3>1. i - k \in 1 .. Len(q) - k /\ k + (i - k) = i /\ i \in 1 .. Len(p) + Len(r) /\ ~(i <= Len(p)) /\ i - Len(p) = i - k
      BY <1>2, <2>2
    <3>2. r[i - k] = q[k + (i - k)]
      BY <3>1 DEF Dropped
    <3>3. (p \o r)[i] = r[i - k]
      BY <1>1, <3>1
    <3> QED
      BY <3>1, <3>2, <3>3
  <2> QED
    BY <1>2, <2>1, <2>2
<1>4. Len(p \o r) = Len(q)
  BY <1>1, <1>2
<1> QED
  BY <1>1, <1>3, <1>4, SeqEqual

\* The part up to the next delimiter.
LEMMA NextPartFacts ==
  ASSUME NEW S, NEW q \in Seq(S), q # << >>
  PROVE  \E k \in 1 .. Len(q) :
            /\ NextPart(q) \in Seq(S) /\ Begins(NextPart(q), q, k)
            /\ AfterPart(q) \in Seq(S) /\ Dropped(AfterPart(q), q, k)
            /\ \A i \in 1 .. k - 1 : q[i].at # "tail"
            /\ k = Len(q) \/ q[k].at = "tail"
<1>0. Len(q) \in Nat \ {0} /\ DOMAIN q = 1 .. Len(q)
  BY EmptySeq
<1> DEFINE tails == {i \in DOMAIN q : q[i].at = "tail"}
           k == IF tails = {} THEN Len(q) ELSE Lowest(tails)
<1>1. k \in 1 .. Len(q) /\ k \in 0 .. Len(q) /\ k - 1 \in Nat
  <2>1. CASE tails = {}
    BY <1>0, <2>1
  <2>2. CASE tails # {}
    <3>1. tails \subseteq Nat
      BY <1>0
    <3>2. Lowest(tails) \in tails
      BY <2>2, <3>1, LowestFacts
    <3>3. tails \subseteq 1 .. Len(q)
      BY <1>0
    <3>4. Lowest(tails) \in 1 .. Len(q)
      BY <3>2, <3>3
    <3> HIDE DEF tails
    <3> QED
      BY <2>2, <3>4
  <2> QED
    BY <2>1, <2>2
<1>2. \A i \in 1 .. k - 1 : q[i].at # "tail"
  <2> SUFFICES ASSUME NEW i \in 1 .. k - 1, q[i].at = "tail" PROVE FALSE
    OBVIOUS
  <2>1. i \in 1 .. Len(q) /\ i < k
    <3> HIDE DEF k
    <3> QED
      BY <1>0, <1>1
  <2>2. i \in tails
    BY <1>0, <2>1
  <2>3. tails \subseteq Nat
    BY <1>0
  <2>4. Lowest(tails) <= i
    BY <2>2, <2>3, LowestFacts
  <2>5. k = Lowest(tails)
    BY <2>2
  <2> HIDE DEF k, tails
  <2> QED
    BY <1>1, <2>1, <2>4, <2>5
<1>3. k = Len(q) \/ q[k].at = "tail"
  <2>1. CASE tails # {}
    <3>1. tails \subseteq Nat
      BY <1>0
    <3>2. Lowest(tails) \in tails
      BY <2>1, <3>1, LowestFacts
    <3> QED
      BY <2>1, <3>2
  <2> QED
    BY <2>1
<1>4. NextPart(q) = SubSeq(q, 1, k)
  <2>1. CASE tails = {}
    BY <1>0, <2>1, SubSeqFull DEF NextPart
  <2>2. CASE tails # {}
    BY <2>2 DEF NextPart
  <2> QED
    BY <2>1, <2>2
<1> HIDE DEF k, tails
<1>5. NextPart(q) \in Seq(S) /\ Begins(NextPart(q), q, k)
  BY <1>1, <1>4, Split
<1>6. Len(NextPart(q)) = k
  BY <1>5 DEF Begins
<1>7. AfterPart(q) = SubSeq(q, k + 1, Len(q))
  BY <1>6 DEF AfterPart
<1>8. AfterPart(q) \in Seq(S) /\ Dropped(AfterPart(q), q, k)
  BY <1>1, <1>7, Split
<1> QED
  BY <1>1, <1>2, <1>3, <1>5, <1>8

\* Two queues one behind the other.
TwoOf(p, r, q, S) ==
  /\ q \in Seq(S) /\ Len(p) \in 0 .. Len(q) /\ Begins(p, q, Len(p)) /\ Dropped(r, q, Len(p))
  /\ Len(q) = Len(p) + Len(r)

\* So are the parts of a joined queue.
LEMMA TwoParts ==
  \A S : \A p, r \in Seq(S) : TwoOf(p, r, p \o r, S)
<1> SUFFICES ASSUME NEW S, NEW p \in Seq(S), NEW r \in Seq(S), NEW q, q = p \o r
             PROVE  TwoOf(p, r, q, S)
  OBVIOUS
<1>1. /\ q \in Seq(S) /\ Len(q) = Len(p) + Len(r) /\ Len(p) \in Nat /\ Len(r) \in Nat
      /\ \A i \in 1 .. Len(p) + Len(r) : q[i] = IF i <= Len(p) THEN p[i] ELSE r[i - Len(p)]
  BY ConcatProperties, LenProperties
<1> DEFINE m == Len(p)
           n == Len(r)
<1>2. m \in Nat /\ n \in Nat /\ Len(q) = m + n
  BY <1>1
<1>3. \A i \in 1 .. m + n : q[i] = IF i <= m THEN p[i] ELSE r[i - m]
  BY <1>1
<1>4. Len(p) = m /\ Len(r) = n
  OBVIOUS
<1> HIDE DEF m, n
<1>5. \A i \in 1 .. m : p[i] = q[i]
  BY <1>2, <1>3
<1>6. ASSUME NEW i \in 1 .. n PROVE r[i] = q[m + i]
  <2>1. m + i \in 1 .. m + n /\ ~(m + i <= m) /\ (m + i) - m = i
    BY <1>2
  <2> QED
    BY <1>3, <2>1
<1>7. m \in 0 .. Len(q) /\ Len(q) - m = n
  BY <1>2
<1> QED
  BY <1>1, <1>2, <1>4, <1>5, <1>6, <1>7 DEF TwoOf, Begins, Dropped

\* Concatenation is associative.
LEMMA Assoc == \A S : \A a, b, c \in Seq(S) : (a \o b) \o c = a \o (b \o c)
  BY ConcatAssociative

-----------------------------------------------------------------------------
(* Framing: what the device and the host have to read. *)

UnitsOf(P) == [at : {"head", "tail"}, packet : P]

\* A unit of a queue is a head or a tail of a packet.
LEMMA UnitFacts ==
  ASSUME NEW P, NEW q \in Seq(UnitsOf(P)), NEW i \in 1 .. Len(q)
  PROVE  q[i].at \in {"head", "tail"} /\ q[i].packet \in P /\ q[i] = [at |-> q[i].at, packet |-> q[i].packet]
<1>1. q[i] \in UnitsOf(P)
  BY ElementOfSeq
<1> QED
  BY <1>1 DEF UnitsOf

\* A frame is a head and its tail.
LEMMA FrameFacts ==
  ASSUME NEW P, NEW p \in P
  PROVE  /\ Frame(p) \in Seq(UnitsOf(P)) /\ Len(Frame(p)) = 2
         /\ Frame(p)[1] = [at |-> "head", packet |-> p] /\ Frame(p)[2] = [at |-> "tail", packet |-> p]
  BY DEF Frame, UnitsOf

\* Every delimiter has its own head before it.
Paired(q) ==
  \A i \in 1 .. Len(q) :
    q[i].at = "tail" => i > 1 /\ q[i - 1].at = "head" /\ q[i - 1].packet = q[i].packet

\* The heads whose tail was cut off.
Stray(q) == {i \in 1 .. Len(q) : q[i].at = "head" /\ (i < Len(q) => q[i + 1].at = "head")}

\* A set of positions, moved.
LEMMA MovedCardinality ==
  ASSUME NEW A, A \subseteq Nat, NEW B, IsFiniteSet(B), NEW k \in Nat, \A i \in A : i + k \in B
  PROVE  IsFiniteSet(A) /\ Cardinality(A) <= Cardinality(B)
<1> DEFINE f == [i \in A |-> i + k]
<1>1. f \in [A -> B]
  OBVIOUS
<1>2. \A x, y \in A : f[x] = f[y] => x = y
  OBVIOUS
<1> HIDE DEF f
<1>3. f \in Injection(A, B)
  BY <1>1, <1>2 DEF Injection, IsInjective
<1> QED
  BY <1>3, FS_Injection

\* So the stray heads can be counted.
LEMMA StrayIsFinite ==
  ASSUME NEW q, Len(q) \in Nat
  PROVE  IsFiniteSet(Stray(q)) /\ Cardinality(Stray(q)) \in Nat
<1>1. IsFiniteSet(1 .. Len(q))
  BY FS_Interval
<1>2. Stray(q) \in SUBSET (1 .. Len(q))
  BY DEF Stray
<1>3. IsFiniteSet(Stray(q))
  BY <1>1, <1>2, FS_Subset
<1> QED
  BY <1>3, FS_CardinalityType

\* Up to the next delimiter: when the part is not a packet it has a stray head.
LEMMA PartConsumed ==
  ASSUME NEW P, NEW q \in Seq(UnitsOf(P)), NEW u \in Seq(UnitsOf(P)), NEW r \in Seq(UnitsOf(P)),
         NEW k \in 1 .. Len(q), Begins(u, q, k), Dropped(r, q, k), Paired(q),
         q[k].at = "tail", \A i \in 1 .. k - 1 : q[i].at # "tail"
  PROVE  /\ Paired(r)
         /\ Cardinality(Stray(r)) <= Cardinality(Stray(q))
         /\ ~IsIntact(u) => Cardinality(Stray(r)) + 1 <= Cardinality(Stray(q))
<1>0. Len(q) \in Nat /\ Len(r) = Len(q) - k /\ Len(u) = k /\ k \in Nat
  BY DEF Begins, Dropped
<1>1. \A i \in 1 .. Len(r) : r[i] = q[k + i] /\ k + i \in 1 .. Len(q)
  BY <1>0 DEF Dropped
<1>2. Paired(r)
  <2> SUFFICES ASSUME NEW i \in 1 .. Len(r), r[i].at = "tail"
               PROVE  i > 1 /\ r[i - 1].at = "head" /\ r[i - 1].packet = r[i].packet
    BY DEF Paired
  <2>1. k + i \in 1 .. Len(q) /\ r[i] = q[k + i]
    BY <1>1
  <2>2. q[(k + i) - 1].at = "head" /\ q[(k + i) - 1].packet = q[k + i].packet
    BY <2>1 DEF Paired
  <2>3. i # 1
    <3>1. SUFFICES ASSUME i = 1 PROVE FALSE
      OBVIOUS
    <3>2. (k + i) - 1 = k
      BY <1>0, <3>1
    <3> QED
      BY <2>2, <3>2
  <2>4. i > 1 /\ i - 1 \in 1 .. Len(r) /\ k + (i - 1) = (k + i) - 1
    BY <1>0, <2>3
  <2>5. r[i - 1] = q[k + (i - 1)]
    BY <1>1, <2>4
  <2> QED
    BY <2>1, <2>2, <2>4, <2>5
<1>3. \A i \in Stray(r) : i + k \in Stray(q)
  <2> SUFFICES ASSUME NEW i \in 1 .. Len(r), r[i].at = "head", i < Len(r) => r[i + 1].at = "head"
               PROVE  i + k \in Stray(q)
    BY DEF Stray
  <2>1. i + k \in 1 .. Len(q) /\ r[i] = q[i + k]
    BY <1>0, <1>1
  <2>2. i + k < Len(q) => i < Len(r) /\ i + 1 \in 1 .. Len(r) /\ k + (i + 1) = (i + k) + 1
    BY <1>0
  <2>3. i + k < Len(q) => q[(i + k) + 1].at = "head"
    BY <1>1, <2>2
  <2> QED
    BY <2>1, <2>3 DEF Stray
<1>4. IsFiniteSet(Stray(q)) /\ Stray(r) \subseteq Nat
  BY <1>0, StrayIsFinite DEF Stray
<1>5. Cardinality(Stray(r)) <= Cardinality(Stray(q))
  BY <1>0, <1>3, <1>4, MovedCardinality
<1>6. ASSUME ~IsIntact(u) PROVE Cardinality(Stray(r)) + 1 <= Cardinality(Stray(q))
  <2>1. k > 1 /\ q[k - 1].at = "head" /\ q[k - 1].packet = q[k].packet
    BY DEF Paired
  <2>2. k # 2
    <3>1. SUFFICES ASSUME k = 2 PROVE FALSE
      OBVIOUS
    <3> DEFINE p == q[2].packet
    <3>2. /\ u[1] = q[1] /\ u[2] = q[2] /\ q[1].at = "head" /\ q[2].at = "tail" /\ q[1].packet = p
          /\ 1 \in 1 .. Len(q) /\ 2 \in 1 .. Len(q) /\ Len(u) = 2
      BY <1>0, <2>1, <3>1 DEF Begins
    <3>3. q[1] = [at |-> "head", packet |-> p] /\ q[2] = [at |-> "tail", packet |-> p] /\ p \in P
      BY <3>2, UnitFacts
    <3> HIDE DEF p
    <3>4. /\ Frame(p) \in Seq(UnitsOf(P)) /\ Len(Frame(p)) = 2
          /\ Frame(p)[1] = [at |-> "head", packet |-> p] /\ Frame(p)[2] = [at |-> "tail", packet |-> p]
      BY <3>3, FrameFacts
    <3>5. ASSUME NEW i \in 1 .. Len(u) PROVE u[i] = Frame(p)[i]
      <4>1. i = 1 \/ i = 2
        BY <3>2
      <4> QED
        BY <3>2, <3>3, <3>4, <4>1
    <3>6. u = Frame(p)
      BY <3>2, <3>4, <3>5, SeqEqual
    <3>7. Last(u).packet = p
      BY <3>2, <3>3 DEF Last
    <3> QED
      BY <1>6, <3>6, <3>7 DEF IsIntact
  <2> DEFINE j == k - 2
  <2>3. j \in 1 .. Len(q) /\ j + 1 = k - 1 /\ j \in 1 .. k - 1 /\ j < k /\ j \in Nat
    BY <1>0, <2>1, <2>2
  <2>4. q[j].at = "head"
    BY <2>3, UnitFacts
  <2>5. j \in Stray(q)
    BY <2>1, <2>3, <2>4 DEF Stray
  <2>6. ASSUME NEW i \in Stray(r) PROVE i + k \in Stray(q) \ {j}
    <3>1. i \in Nat /\ i + k # j
      BY <1>0, <1>4, <2>3
    <3> QED
      BY <1>3, <3>1
  <2> HIDE DEF j
  <2>7. IsFiniteSet(Stray(q) \ {j}) /\ Cardinality(Stray(q) \ {j}) = Cardinality(Stray(q)) - 1
    BY <1>4, <2>5, FS_RemoveElement
  <2>8. Cardinality(Stray(r)) <= Cardinality(Stray(q) \ {j})
    BY <1>0, <1>4, <2>6, <2>7, MovedCardinality
  <2>9. Cardinality(Stray(r)) \in Nat /\ Cardinality(Stray(q)) \in Nat
    <3>1. Len(r) \in Nat
      BY <1>0
    <3> QED
      BY <1>0, <3>1, StrayIsFinite
  <2> QED
    BY <2>7, <2>8, <2>9
<1> QED
  BY <1>2, <1>5, <1>6

\* A packet in its frame is sent: what was cut off before stays cut off.
SentBehind(q, r) == Paired(r) /\ Stray(r) = Stray(q)

\* A packet is put behind the others with its head and its tail.
LEMMA PacketSent ==
  ASSUME NEW P, NEW q \in Seq(UnitsOf(P)), NEW p \in P, NEW r, r = q \o Frame(p), Paired(q)
  PROVE  SentBehind(q, r)
<1> DEFINE f == Frame(p)
           n == Len(q)
<1>1. /\ f \in Seq(UnitsOf(P)) /\ Len(f) = 2
      /\ f[1] = [at |-> "head", packet |-> p] /\ f[2] = [at |-> "tail", packet |-> p]
  BY FrameFacts
<1>2. r = q \o f /\ n = Len(q) /\ n \in Nat
  OBVIOUS
<1> HIDE DEF f, n
<1>0. /\ r \in Seq(UnitsOf(P)) /\ Begins(q, r, Len(q)) /\ Dropped(f, r, Len(q))
      /\ Len(r) = Len(q) + Len(f)
  <2> DEFINE S == UnitsOf(P)
  <2>1. q \in Seq(S) /\ f \in Seq(S) /\ r = q \o f
    BY <1>1, <1>2
  <2> HIDE DEF S
  <2>2. TwoOf(q, f, r, S)
    BY ONLY <2>1, TwoParts
  <2> QED
    BY <2>2 DEF S, TwoOf
<1>3. r \in Seq(UnitsOf(P)) /\ Len(r) = n + 2 /\ Begins(q, r, n) /\ Dropped(f, r, n)
  BY <1>0, <1>1, <1>2
<1>4. /\ \A i \in 1 .. n : r[i] = q[i] /\ i \in 1 .. Len(r)
      /\ r[n + 1] = [at |-> "head", packet |-> p] /\ r[n + 2] = [at |-> "tail", packet |-> p]
  <2>1. \A i \in 1 .. n : r[i] = q[i] /\ i \in 1 .. Len(r)
    BY <1>2, <1>3 DEF Begins
  <2>2. 1 \in 1 .. Len(r) - n /\ 2 \in 1 .. Len(r) - n
    BY <1>2, <1>3
  <2>3. f[1] = r[n + 1] /\ f[2] = r[n + 2]
    BY <2>2, <1>3 DEF Dropped
  <2> QED
    BY <1>1, <2>1, <2>3
<1>5. ASSUME NEW i \in 1 .. Len(r) PROVE i \in 1 .. n \/ i = n + 1 \/ i = n + 2
  BY <1>2, <1>3
<1>6. Paired(r)
  <2> SUFFICES ASSUME NEW i \in 1 .. Len(r), r[i].at = "tail"
               PROVE  i > 1 /\ r[i - 1].at = "head" /\ r[i - 1].packet = r[i].packet
    BY DEF Paired
  <2>1. CASE i \in 1 .. n
    <3>1. q[i].at = "tail" /\ i \in 1 .. Len(q)
      BY <1>2, <1>4, <2>1
    <3>2. i > 1 /\ q[i - 1].at = "head" /\ q[i - 1].packet = q[i].packet
      BY <3>1 DEF Paired
    <3>3. i - 1 \in 1 .. n
      BY <1>2, <2>1, <3>2
    <3> QED
      BY <1>4, <2>1, <3>2, <3>3
  <2>2. CASE i = n + 2
    <3>1. i > 1 /\ i - 1 = n + 1
      BY <1>2, <2>2
    <3> QED
      BY <1>4, <2>2, <3>1
  <2>3. i # n + 1
    BY <1>4
  <2> QED
    BY <1>5, <2>1, <2>2, <2>3
<1>7. ASSUME NEW i PROVE i \in Stray(r) <=> i \in Stray(q)
  <2>1. CASE i \in 1 .. n
    <3>1. i \in 1 .. Len(r) /\ i \in 1 .. Len(q) /\ i < Len(r) /\ r[i] = q[i]
      BY <1>2, <1>3, <1>4, <2>1
    <3>2. CASE i < n
      <4>1. i + 1 \in 1 .. n /\ i < Len(q)
        BY <1>2, <2>1, <3>2
      <4>2. r[i + 1] = q[i + 1]
        BY <1>4, <4>1
      <4> QED
        BY <3>1, <4>1, <4>2 DEF Stray
    <3>3. CASE i = n
      <4>1. r[i + 1].at = "head"
        <5>1. r[i + 1] = [at |-> "head", packet |-> p]
          BY <1>4, <3>3
        <5> QED
          BY <5>1
      <4>2. ~(i < Len(q))
        BY <1>2, <3>3
      <4> QED
        BY <3>1, <4>1, <4>2 DEF Stray
    <3> QED
      BY <1>2, <2>1, <3>2, <3>3
  <2>2. CASE i = n + 1
    <3>1. i < Len(r) /\ r[i + 1].at = "tail" /\ i \notin 1 .. Len(q) /\ i + 1 = n + 2
      BY <1>2, <1>3, <1>4, <2>2
    <3> QED
      BY <3>1 DEF Stray
  <2>3. CASE i = n + 2
    <3>1. r[i].at = "tail"
      <4>1. r[i] = [at |-> "tail", packet |-> p]
        BY <1>4, <2>3
      <4> QED
        BY <4>1
    <3>2. i \notin 1 .. Len(q)
      BY <1>2, <2>3
    <3> QED
      BY <3>1, <3>2 DEF Stray
  <2>4. CASE i \notin 1 .. Len(r)
    <3>1. i \notin 1 .. Len(q)
      BY <1>2, <1>4, <2>4
    <3> QED
      BY <2>4, <3>1 DEF Stray
  <2> QED
    BY <1>5, <2>1, <2>2, <2>3, <2>4
<1> QED
  BY <1>6, <1>7 DEF SentBehind

\* The end of the queue is lost: one more head is cut off, at most.
LEMMA EndLost ==
  ASSUME NEW P, NEW q \in Seq(UnitsOf(P)), NEW r \in Seq(UnitsOf(P)), NEW n \in 0 .. Len(q),
         Begins(r, q, n), Paired(q)
  PROVE  Paired(r) /\ Cardinality(Stray(r)) <= Cardinality(Stray(q)) + 1
<1>1. Len(q) \in Nat /\ n \in Nat /\ Len(r) = n /\ n <= Len(q)
  BY DEF Begins
<1>2. \A i \in 1 .. n : r[i] = q[i] /\ i \in 1 .. Len(q)
  BY <1>1 DEF Begins
<1>3. Paired(r)
  <2> SUFFICES ASSUME NEW i \in 1 .. Len(r), r[i].at = "tail"
               PROVE  i > 1 /\ r[i - 1].at = "head" /\ r[i - 1].packet = r[i].packet
    BY DEF Paired
  <2>1. q[i].at = "tail" /\ i \in 1 .. Len(q) /\ r[i] = q[i]
    BY <1>1, <1>2
  <2>2. i > 1 /\ q[i - 1].at = "head" /\ q[i - 1].packet = q[i].packet
    BY <2>1 DEF Paired
  <2>3. i - 1 \in 1 .. n
    BY <1>1, <2>2
  <2> QED
    BY <1>2, <2>1, <2>2, <2>3
<1>4. Stray(r) \subseteq Stray(q) \cup {n}
  <2> SUFFICES ASSUME NEW i \in 1 .. Len(r), r[i].at = "head", i < Len(r) => r[i + 1].at = "head", i # n
               PROVE  i \in Stray(q)
    BY <1>1 DEF Stray
  <2>1. i \in 1 .. n /\ i + 1 \in 1 .. n /\ i < Len(r)
    BY <1>1
  <2>2. q[i].at = "head" /\ q[i + 1].at = "head" /\ i \in 1 .. Len(q)
    BY <1>2, <2>1
  <2> QED
    BY <2>2 DEF Stray
<1>5. IsFiniteSet(Stray(q)) /\ Cardinality(Stray(q)) \in Nat
  BY <1>1, StrayIsFinite
<1>6. IsFiniteSet(Stray(q) \cup {n}) /\ Cardinality(Stray(q) \cup {n}) <= Cardinality(Stray(q)) + 1
  <2>1. /\ IsFiniteSet(Stray(q) \cup {n})
        /\ Cardinality(Stray(q) \cup {n}) = IF n \in Stray(q) THEN Cardinality(Stray(q)) ELSE Cardinality(Stray(q)) + 1
    BY <1>5, FS_AddElement, Zenon
  <2> DEFINE c == Cardinality(Stray(q))
  <2>2. c \in Nat /\ Cardinality(Stray(q) \cup {n}) = IF n \in Stray(q) THEN c ELSE c + 1
    BY <1>5, <2>1
  <2> HIDE DEF c
  <2>3. Cardinality(Stray(q) \cup {n}) <= c + 1
    BY <2>2
  <2> QED
    BY <2>1, <2>3 DEF c
<1>7. Cardinality(Stray(r)) <= Cardinality(Stray(q) \cup {n})
  BY <1>4, <1>6, FS_Subset
<1>8. Cardinality(Stray(q) \cup {n}) \in Nat /\ Cardinality(Stray(r)) \in Nat
  BY <1>1, <1>6, StrayIsFinite, FS_CardinalityType
<1> QED
  BY <1>3, <1>5, <1>6, <1>7, <1>8

-----------------------------------------------------------------------------
(* What the host has to read begins with a tail without its head, at worst. *)

Whole(q) ==
  \A i \in 1 .. Len(q) :
    /\ q[i].at = "head" => i < Len(q) /\ q[i + 1].at = "tail" /\ q[i + 1].packet = q[i].packet
    /\ q[i].at = "tail" => i = 1 \/ (q[i - 1].at = "head" /\ q[i - 1].packet = q[i].packet)
Orphan(q) == IF Len(q) > 0 /\ q[1].at = "tail" THEN 1 ELSE 0

\* The front of the queue is lost.
LEMMA FrontLost ==
  ASSUME NEW P, NEW q \in Seq(UnitsOf(P)), NEW r \in Seq(UnitsOf(P)), NEW k \in 0 .. Len(q),
         Dropped(r, q, k), Whole(q)
  PROVE  Whole(r)
<1>1. Len(q) \in Nat /\ k \in Nat /\ Len(r) = Len(q) - k /\ k <= Len(q)
  BY DEF Dropped
<1>2. \A i \in 1 .. Len(r) : r[i] = q[k + i] /\ k + i \in 1 .. Len(q)
  BY <1>1 DEF Dropped
<1> SUFFICES ASSUME NEW i \in 1 .. Len(r)
             PROVE  /\ r[i].at = "head" => i < Len(r) /\ r[i + 1].at = "tail" /\ r[i + 1].packet = r[i].packet
                    /\ r[i].at = "tail" => i = 1 \/ (r[i - 1].at = "head" /\ r[i - 1].packet = r[i].packet)
  BY DEF Whole
<1>3. r[i] = q[k + i] /\ k + i \in 1 .. Len(q)
  BY <1>2
<1>4. ASSUME r[i].at = "head" PROVE i < Len(r) /\ r[i + 1].at = "tail" /\ r[i + 1].packet = r[i].packet
  <2>1. k + i < Len(q) /\ q[(k + i) + 1].at = "tail" /\ q[(k + i) + 1].packet = q[k + i].packet
    BY <1>3, <1>4 DEF Whole
  <2>2. i < Len(r) /\ i + 1 \in 1 .. Len(r) /\ k + (i + 1) = (k + i) + 1
    BY <1>1, <2>1
  <2> QED
    BY <1>2, <1>3, <2>1, <2>2
<1>5. ASSUME r[i].at = "tail", i # 1 PROVE r[i - 1].at = "head" /\ r[i - 1].packet = r[i].packet
  <2>1. k + i # 1 /\ i - 1 \in 1 .. Len(r) /\ k + (i - 1) = (k + i) - 1
    BY <1>1, <1>5
  <2>2. q[(k + i) - 1].at = "head" /\ q[(k + i) - 1].packet = q[k + i].packet
    BY <1>3, <1>5, <2>1 DEF Whole
  <2> QED
    BY <1>2, <1>3, <2>1, <2>2
<1> QED
  BY <1>4, <1>5

\* Up to the next delimiter: only a tail without its head is not a packet.
LEMMA PartRead ==
  ASSUME NEW P, NEW q \in Seq(UnitsOf(P)), NEW u \in Seq(UnitsOf(P)), NEW r \in Seq(UnitsOf(P)),
         NEW k \in 1 .. Len(q), Begins(u, q, k), Dropped(r, q, k), Whole(q),
         q[k].at = "tail", \A i \in 1 .. k - 1 : q[i].at # "tail"
  PROVE  Whole(r) /\ Orphan(r) = 0 /\ (~IsIntact(u) => Orphan(q) = 1)
<1>1. Len(q) \in Nat /\ k \in Nat /\ Len(r) = Len(q) - k /\ k <= Len(q) /\ k \in 0 .. Len(q) /\ k \in 1 .. Len(q)
      /\ Len(u) = k
  BY DEF Dropped, Begins
<1>2. Whole(r)
  BY <1>1, FrontLost
<1>3. Orphan(r) = 0
  <2> SUFFICES ASSUME Len(r) > 0, r[1].at = "tail" PROVE FALSE
    BY DEF Orphan
  <2>1. 1 \in 1 .. Len(q) - k /\ k + 1 \in 1 .. Len(q) /\ (k + 1) - 1 = k /\ k + 1 # 1
    BY <1>1
  <2>2. q[k + 1].at = "tail"
    BY <2>1 DEF Dropped
  <2>3. q[(k + 1) - 1].at = "head"
    BY <2>1, <2>2 DEF Whole
  <2> QED
    BY <2>1, <2>3
<1>4. CASE k = 1
  BY <1>1, <1>2, <1>3, <1>4 DEF Orphan
<1>5. CASE k # 1
  <2>1. q[k - 1].at = "head" /\ q[k - 1].packet = q[k].packet
    BY <1>1, <1>5 DEF Whole
  <2>2. k = 2
    <3>1. SUFFICES ASSUME k # 2 PROVE FALSE
      OBVIOUS
    <3>2. 1 \in 1 .. k - 1 /\ 1 \in 1 .. Len(q) /\ k - 1 # 1 /\ 1 + 1 = 2 /\ 2 \in 1 .. k - 1
      BY <1>1, <1>5, <3>1
    <3>3. q[1].at = "head"
      BY <3>2, UnitFacts, ZenonT(30)
    <3>4. q[2].at = "tail"
      BY <3>2, <3>3 DEF Whole
    <3> QED
      BY <3>2, <3>4
  <2> DEFINE p == q[2].packet
  <2>3. /\ u[1] = q[1] /\ u[2] = q[2] /\ q[1].at = "head" /\ q[2].at = "tail" /\ q[1].packet = p
        /\ 1 \in 1 .. Len(q) /\ 2 \in 1 .. Len(q) /\ Len(u) = 2
    BY <1>1, <2>1, <2>2 DEF Begins
  <2>4. q[1] = [at |-> "head", packet |-> p] /\ q[2] = [at |-> "tail", packet |-> p] /\ p \in P
    BY <2>3, UnitFacts
  <2> HIDE DEF p
  <2>5. /\ Frame(p) \in Seq(UnitsOf(P)) /\ Len(Frame(p)) = 2
        /\ Frame(p)[1] = [at |-> "head", packet |-> p] /\ Frame(p)[2] = [at |-> "tail", packet |-> p]
    BY <2>4, FrameFacts
  <2>6. ASSUME NEW i \in 1 .. Len(u) PROVE u[i] = Frame(p)[i]
    <3>1. i = 1 \/ i = 2
      BY <2>3
    <3> QED
      BY <2>3, <2>4, <2>5, <3>1
  <2>7. u = Frame(p)
    BY <2>3, <2>5, <2>6, SeqEqual
  <2>8. Last(u).packet = p
    BY <2>3, <2>4 DEF Last
  <2>9. IsIntact(u)
    BY <2>7, <2>8 DEF IsIntact
  <2> QED
    BY <1>2, <1>3, <2>9
<1> QED
  BY <1>4, <1>5

\* Responses in their frames.
LEMMA FramesFacts ==
  ASSUME NEW P, NEW s \in Seq(P)
  PROVE  /\ Frames(s) \in Seq(UnitsOf(P)) /\ Len(Frames(s)) = 2 * Len(s)
         /\ Whole(Frames(s)) /\ Orphan(Frames(s)) = 0
<1> DEFINE f == Frames(s)
           n == Len(s)
<1>1. n \in Nat /\ \A j \in 1 .. n : s[j] \in P
  BY ElementOfSeq
<1>2. f = [i \in 1 .. 2 * n |-> [at |-> IF i % 2 = 1 THEN "head" ELSE "tail", packet |-> s[(i + 1) \div 2]]]
  BY DEF Frames, FrameSize
<1> HIDE DEF f, n
<1>3. ASSUME NEW i \in 1 .. 2 * n
      PROVE  /\ (i + 1) \div 2 \in 1 .. n
             /\ i % 2 = 1 => i < 2 * n /\ (i + 1) % 2 # 1 /\ ((i + 1) + 1) \div 2 = (i + 1) \div 2
             /\ i % 2 # 1 => i > 1 /\ (i - 1) % 2 = 1 /\ ((i - 1) + 1) \div 2 = (i + 1) \div 2
  BY <1>1
<1>4. ASSUME NEW i \in 1 .. 2 * n
      PROVE  /\ f[i] \in UnitsOf(P)
             /\ f[i].at = "head" <=> i % 2 = 1
             /\ f[i].at = "tail" <=> i % 2 # 1
             /\ f[i].packet = s[(i + 1) \div 2]
  <2>1. s[(i + 1) \div 2] \in P
    BY <1>1, <1>3
  <2>2. f[i] = [at |-> IF i % 2 = 1 THEN "head" ELSE "tail", packet |-> s[(i + 1) \div 2]]
    BY <1>2
  <2> QED
    BY <2>1, <2>2 DEF UnitsOf
<1>5. f \in Seq(UnitsOf(P)) /\ Len(f) = 2 * n
  BY <1>1, <1>2, <1>4
<1>6. Whole(f)
  <2> SUFFICES ASSUME NEW i \in 1 .. 2 * n
               PROVE  /\ f[i].at = "head" => i < 2 * n /\ f[i + 1].at = "tail" /\ f[i + 1].packet = f[i].packet
                      /\ f[i].at = "tail" => i = 1 \/ (f[i - 1].at = "head" /\ f[i - 1].packet = f[i].packet)
    BY <1>5 DEF Whole
  <2>1. CASE i % 2 = 1
    <3>1. i + 1 \in 1 .. 2 * n /\ i < 2 * n
      BY <1>1, <1>3, <2>1
    <3>2. f[i + 1].at = "tail" /\ f[i + 1].packet = f[i].packet
      BY <1>3, <1>4, <2>1, <3>1
    <3> QED
      BY <1>4, <2>1, <3>1, <3>2
  <2>2. CASE i % 2 # 1
    <3>1. i - 1 \in 1 .. 2 * n
      BY <1>1, <1>3, <2>2
    <3>2. f[i - 1].at = "head" /\ f[i - 1].packet = f[i].packet
      BY <1>3, <1>4, <2>2, <3>1
    <3> QED
      BY <1>4, <2>2, <3>2
  <2> QED
    BY <2>1, <2>2
<1>7. Orphan(f) = 0
  <2>1. Len(f) > 0 => 1 \in 1 .. 2 * n
    BY <1>1, <1>5
  <2>2. Len(f) > 0 => f[1].at # "tail"
    BY <1>4, <2>1
  <2> QED
    BY <2>2 DEF Orphan
<1> QED
  BY <1>5, <1>6, <1>7 DEF f, n

\* Whole packets are sent.
LEMMA PacketsSent ==
  ASSUME NEW P, NEW q \in Seq(UnitsOf(P)), NEW f \in Seq(UnitsOf(P)), NEW r, r = q \o f,
         Whole(q), Whole(f), Orphan(f) = 0
  PROVE  r \in Seq(UnitsOf(P)) /\ Whole(r) /\ Orphan(r) = Orphan(q)
<1> DEFINE n == Len(q)
<1>1. r \in Seq(UnitsOf(P)) /\ Len(r) = n + Len(f) /\ Begins(q, r, n) /\ Dropped(f, r, n)
      /\ n \in Nat /\ Len(f) \in Nat /\ n = Len(q)
  <2> DEFINE S == UnitsOf(P)
  <2>1. q \in Seq(S) /\ f \in Seq(S) /\ r = q \o f
    OBVIOUS
  <2> HIDE DEF S
  <2>2. TwoOf(q, f, r, S)
    BY ONLY <2>1, TwoParts
  <2>3. Len(q) \in Nat /\ Len(f) \in Nat
    BY ONLY <2>1, LenProperties
  <2> QED
    BY <2>2, <2>3 DEF S, TwoOf
<1> HIDE DEF n
<1>2. /\ \A i \in 1 .. n : r[i] = q[i]
      /\ \A i \in 1 .. Len(f) : f[i] = r[n + i]
  BY <1>1 DEF Begins, Dropped
<1>3. \A i \in 1 .. Len(r) : i \in 1 .. n \/ (i > n /\ i - n \in 1 .. Len(f) /\ n + (i - n) = i)
  BY <1>1
<1>4. ASSUME NEW i \in 1 .. n
      PROVE  /\ r[i].at = "head" => i < Len(r) /\ r[i + 1].at = "tail" /\ r[i + 1].packet = r[i].packet
             /\ r[i].at = "tail" => i = 1 \/ (r[i - 1].at = "head" /\ r[i - 1].packet = r[i].packet)
  <2>1. /\ q[i].at = "head" => i < Len(q) /\ q[i + 1].at = "tail" /\ q[i + 1].packet = q[i].packet
        /\ q[i].at = "tail" => i = 1 \/ (q[i - 1].at = "head" /\ q[i - 1].packet = q[i].packet)
    BY <1>1 DEF Whole
  <2>2. /\ i < Len(q) => i + 1 \in 1 .. n /\ i < Len(r)
        /\ i # 1 => i - 1 \in 1 .. n
    BY <1>1
  <2> QED
    BY <1>2, <2>1, <2>2
<1>5. ASSUME NEW j \in 1 .. Len(f)
      PROVE  /\ f[j].at = "head" => n + j < Len(r) /\ r[(n + j) + 1].at = "tail" /\ r[(n + j) + 1].packet = f[j].packet
             /\ f[j].at = "tail" => r[(n + j) - 1].at = "head" /\ r[(n + j) - 1].packet = f[j].packet
  <2>1. /\ f[j].at = "head" => j < Len(f) /\ f[j + 1].at = "tail" /\ f[j + 1].packet = f[j].packet
        /\ f[j].at = "tail" => j = 1 \/ (f[j - 1].at = "head" /\ f[j - 1].packet = f[j].packet)
    BY DEF Whole
  <2>2. f[j].at = "tail" => j # 1
    BY <1>1 DEF Orphan
  <2>3. /\ j < Len(f) => j + 1 \in 1 .. Len(f) /\ n + (j + 1) = (n + j) + 1 /\ n + j < Len(r)
        /\ j # 1 => j - 1 \in 1 .. Len(f) /\ n + (j - 1) = (n + j) - 1
    BY <1>1
  <2>4. /\ j < Len(f) => f[j + 1] = r[(n + j) + 1]
        /\ j # 1 => f[j - 1] = r[(n + j) - 1]
    BY <1>2, <2>3
  <2> QED
    BY <2>1, <2>2, <2>3, <2>4
<1>6. Whole(r)
  <2> SUFFICES ASSUME NEW i \in 1 .. Len(r)
               PROVE  /\ r[i].at = "head" => i < Len(r) /\ r[i + 1].at = "tail" /\ r[i + 1].packet = r[i].packet
                      /\ r[i].at = "tail" => i = 1 \/ (r[i - 1].at = "head" /\ r[i - 1].packet = r[i].packet)
    BY DEF Whole
  <2>1. CASE i \in 1 .. n
    BY <1>4, <2>1
  <2>2. CASE i > n /\ i - n \in 1 .. Len(f) /\ n + (i - n) = i
    <3> DEFINE j == i - n
    <3>1. j \in 1 .. Len(f) /\ n + j = i
      BY <2>2
    <3> HIDE DEF j
    <3>2. f[j] = r[i] /\ (n + j) + 1 = i + 1 /\ (n + j) - 1 = i - 1
      BY <1>2, <3>1
    <3>3. /\ f[j].at = "head" => i < Len(r) /\ r[i + 1].at = "tail" /\ r[i + 1].packet = f[j].packet
          /\ f[j].at = "tail" => r[i - 1].at = "head" /\ r[i - 1].packet = f[j].packet
      BY <1>5, <3>1, <3>2
    <3> QED
      BY <3>2, <3>3
  <2> QED
    BY <1>3, <2>1, <2>2
<1>7. Orphan(r) = Orphan(q)
  <2>1. CASE n > 0
    <3>1. 1 \in 1 .. n /\ Len(q) > 0 /\ Len(r) > 0
      BY <1>1, <2>1
    <3> QED
      BY <1>2, <3>1 DEF Orphan
  <2>2. CASE n = 0
    <3>1. Len(q) = 0 /\ Len(r) = Len(f)
      BY <1>1, <2>2
    <3>2. Len(f) > 0 => f[1] = r[1]
      <4>1. Len(f) > 0 => 1 \in 1 .. Len(f) /\ n + 1 = 1
        BY <1>1, <2>2
      <4> QED
        BY <1>2, <4>1
    <3>3. Orphan(q) = 0
      BY <3>1 DEF Orphan
    <3>4. Orphan(r) = Orphan(f)
      BY <3>1, <3>2 DEF Orphan
    <3> QED
      BY <3>3, <3>4
  <2> QED
    BY <1>1, <2>1, <2>2
<1> QED
  BY <1>1, <1>6, <1>7

-----------------------------------------------------------------------------
(* The invariant. *)

CallsTo(n) == [session : 1 .. n, invocation : Nat, method : Methods]
Requests(n) ==
  {p \in [type : {"server_initialize", "server_request", "server_finalize"},
          call : CallsTo(n), body : {0}] :
     p.type = "server_initialize" => Streaming(p.call.method)}
Responses(n) == [type : {"client_response"}, call : CallsTo(n), body : Nat]

HeadsOnly(q) == \A i \in 1 .. Len(q) : q[i].at = "head"

UnitsTyped ==
  /\ session \in Nat
  /\ rx_packet \in Seq(UnitsOf(Requests(session))) /\ HeadsOnly(rx_packet)
  /\ rx_ring \in Seq(UnitsOf(Requests(session)))
  /\ to_device \in Seq(UnitsOf(Requests(session)))
  /\ host_buffer \in Seq(UnitsOf(Responses(session))) /\ HeadsOnly(host_buffer)
  /\ to_host \in Seq(UnitsOf(Responses(session)))
  /\ tx_ring \in Seq(UnitsOf(Responses(session))) /\ Len(tx_ring) <= TxSize

\* rx_work is queued once, and only when there is something to read.
Works == {"rx", "callback", "disconnected", "send"}
RxOnce(q) == \A i, j \in 1 .. Len(q) : q[i] = "rx" /\ q[j] = "rx" => i = j
HasRx(q) == \E i \in 1 .. Len(q) : q[i] = "rx"
WorksOnce == works \in Seq(Works) /\ RxOnce(works) /\ (HasRx(works) => rx_ring # << >>)

ToDevice == (rx_packet \o rx_ring) \o to_device
ToHost == (host_buffer \o to_host) \o tx_ring

\* What a stopped program cut off is a damaged packet later, or was one already.
DeviceFramed ==
  /\ cuts \in Nat /\ bad \in [device : Nat, host : Nat]
  /\ Paired(ToDevice) /\ bad.device + Cardinality(Stray(ToDevice)) <= cuts
HostFramed == Whole(ToHost) /\ bad.host + Orphan(ToHost) <= cuts

ServerFor(contexts, frame, n) ==
  /\ contexts \in [Slots -> {None} \cup CallsTo(n)]
  /\ frame \in [slot : Slots \cup {0}, offset : 0 .. Chunks]
  /\ frame.slot # 0 => contexts[frame.slot] # None /\ Streaming(contexts[frame.slot].method)
ServerSound == ServerFor(server_contexts, frame_buffer_read, session)

Unary(contexts) == {s \in Slots : contexts[s] # None /\ ~Streaming(contexts[s].method)}
LeaksBounded == leaks \in Nat /\ Cardinality(Unary(server_contexts)) <= leaks

\* The contexts of the program that runs, and the responses each was given.
ClientSound ==
  /\ next_invocation \in Nat /\ dtr \in BOOLEAN
  /\ dtr => session >= 1
  /\ ~dtr => client_contexts = {} /\ waiting = None
  /\ waiting = None \/ (waiting \in CallsTo(session) /\ waiting.session = session)
  /\ \A c \in client_contexts :
       /\ c \in [call : CallsTo(session), got : Seq(Responses(session)), requested : BOOLEAN]
       /\ c.call.session = session
       /\ \A i \in 1 .. Len(c.got) : IsFor(c, c.got[i].call)

CallInv ==
  /\ UnitsTyped /\ WorksOnce /\ DeviceFramed /\ HostFramed
  /\ ServerSound /\ LeaksBounded /\ ClientSound /\ AnswersOwnCall
-----------------------------------------------------------------------------
(* What is read. *)

\* What there is after the next part u was read: up to its end a packet at most.
ReadOf(b, q, r, u, a, P) ==
  /\ u \in Seq(UnitsOf(P)) /\ a \in Seq(UnitsOf(P))
  /\ Len(u) \in Nat \ {0} /\ Last(u) = u[Len(u)] /\ Last(u) \in UnitsOf(P)
  /\ \A i \in 1 .. Len(u) - 1 : u[i].at = "head"
  /\ Last(u).at = "head" => HeadsOnly(u)
  /\ (u \o a) \o r = (b \o q) \o r
  /\ u \o (a \o r) = (b \o q) \o r

\* The part that is read next, put behind what was read before.
LEMMA UnitsRead ==
  ASSUME NEW P, NEW b, b \in Seq(UnitsOf(P)), HeadsOnly(b), NEW q, q \in Seq(UnitsOf(P)), q # << >>,
         NEW r, r \in Seq(UnitsOf(P)), NEW u, u = b \o NextPart(q), NEW a, a = AfterPart(q)
  PROVE  ReadOf(b, q, r, u, a, P)
<1> DEFINE S == UnitsOf(P)
           p == NextPart(q)
<1>1. PICK k \in 1 .. Len(q) :
         /\ p \in Seq(S) /\ Begins(p, q, k) /\ a \in Seq(S) /\ Dropped(a, q, k)
         /\ \A i \in 1 .. k - 1 : q[i].at # "tail"
         /\ k = Len(q) \/ q[k].at = "tail"
  BY NextPartFacts
<1>2. \A i \in 1 .. Len(q) : q[i].at \in {"head", "tail"}
  BY UnitFacts
<1>3. u = b \o p /\ b \in Seq(S) /\ q \in Seq(S) /\ r \in Seq(S)
  OBVIOUS
<1> HIDE DEF S, p
<1>4. TwoOf(b, p, u, S)
  BY ONLY <1>1, <1>3, TwoParts
<1> DEFINE m == Len(b)
<1>5. Len(p) = k /\ Len(u) = m + k /\ m \in Nat /\ k \in Nat \ {0} /\ Len(q) \in Nat /\ k \in 0 .. Len(q) /\ k <= Len(q)
  BY <1>1, <1>3, <1>4, LenProperties DEF TwoOf, Begins
<1>6. \A i \in 1 .. m : u[i] = b[i] /\ b[i].at = "head"
  BY <1>4 DEF TwoOf, Begins, HeadsOnly
<1>7. \A i \in 1 .. k : u[m + i] = p[i] /\ p[i] = q[i]
  BY <1>1, <1>4, <1>5 DEF TwoOf, Begins, Dropped
<1> HIDE DEF m
<1>8. ASSUME NEW i \in 1 .. Len(u) - 1 PROVE u[i].at = "head"
  <2>1. CASE i \in 1 .. m
    BY <1>6, <2>1
  <2>2. CASE i \notin 1 .. m
    <3> DEFINE j == i - m
    <3>1. j \in 1 .. k - 1 /\ j \in 1 .. k /\ j \in 1 .. Len(q) /\ m + j = i
      BY <1>5, <2>2
    <3> HIDE DEF j
    <3>2. u[i] = q[j]
      BY <1>7, <3>1
    <3> QED
      BY <1>1, <1>2, <3>1, <3>2
  <2> QED
    BY <2>1, <2>2
<1>9. u \in Seq(S) /\ Len(u) \in Nat \ {0} /\ Last(u) = u[Len(u)]
  BY <1>4, <1>5 DEF TwoOf, Last
<1>10. Last(u) \in S
  BY <1>9, ElementOfSeq
<1>11. ASSUME Last(u).at = "head" PROVE HeadsOnly(u)
  <2>1. ASSUME NEW i \in 1 .. Len(u) PROVE i \in 1 .. Len(u) - 1 \/ i = Len(u)
    BY <1>9
  <2> QED
    BY <1>8, <1>9, <1>11, <2>1 DEF HeadsOnly
<1>12. (u \o a) \o r = (b \o q) \o r /\ u \o (a \o r) = (b \o q) \o r
  <2>1. p \o a = q
    BY <1>1, <1>3, <1>5, Joined, Zenon
  <2>2. b \in Seq(S) /\ p \in Seq(S) /\ a \in Seq(S)
    BY <1>1, <1>3
  <2>3. (b \o p) \o a = b \o (p \o a)
    BY ONLY <2>2, Assoc
  <2>6. u \in Seq(S) /\ a \in Seq(S) /\ r \in Seq(S)
    BY <1>1, <1>3, <1>9
  <2>4. (u \o a) \o r = u \o (a \o r)
    BY ONLY <2>6, Assoc, SMTT(30)
  <2>5. u \o a = b \o q
    BY <1>3, <2>1, <2>3
  <2> QED
    BY <2>4, <2>5, Zenon
<1> QED
  BY <1>1, <1>3, <1>8, <1>9, <1>10, <1>11, <1>12 DEF S, ReadOf

-----------------------------------------------------------------------------
(* What is sent to the host. *)

Answered ==
  \E s \in Seq(Responses(session)) : tx_ring' = tx_ring \o Frames(s) /\ Len(tx_ring') <= TxSize

\* Least is the smaller one.
LEMMA LeastFacts ==
  ASSUME NEW a \in Int, NEW b \in Int
  PROVE  Least(a, b) \in {a, b} /\ Least(a, b) <= a /\ Least(a, b) <= b
  BY DEF Least

\* Only what fits is written.
LEMMA WriteAnswers ==
  ASSUME UnitsTyped, NEW sent \in Seq(Responses(session)), Write(sent)
  PROVE  Answered
<1> DEFINE P == Responses(session)
           n == Len(tx_ring)
           l == Len(sent)
           m == Least(l, (TxSize - n) \div 2)
           f == SubSeq(sent, 1, m)
           g == Frames(f)
<1>1. n \in Nat /\ n <= TxSize /\ TxSize \in Nat /\ l \in Nat
  BY ConstantsAssumption DEF UnitsTyped
<1>2. (TxSize - n) \div 2 \in Nat /\ 2 * ((TxSize - n) \div 2) <= TxSize - n
  <2> HIDE DEF n
  <2> QED
    BY <1>1
<1>3. m \in 0 .. l /\ m \in Nat /\ n + 2 * m <= TxSize
  <2> DEFINE d == (TxSize - n) \div 2
  <2> HIDE DEF n, l, d
  <2>1. m \in {l, d} /\ m <= l /\ m <= d
    BY <1>1, <1>2, LeastFacts DEF d
  <2>2. d \in Nat /\ 2 * d <= TxSize - n
    BY <1>2 DEF d
  <2> HIDE DEF m
  <2> QED
    BY <1>1, <2>1, <2>2
<1>4. tx_ring' = tx_ring \o g
  BY DEF Write, Fitting, FreeSpace, FrameSize
<1>5. f \in Seq(P) /\ Len(f) = m
  <2>1. m \in 0 .. Len(sent) /\ sent \in Seq(P)
    BY <1>3
  <2> HIDE DEF m, P
  <2> QED
    BY <2>1, Split DEF Begins
<1> HIDE DEF f, P
<1>6. g \in Seq(UnitsOf(P)) /\ Len(g) = 2 * m
  BY <1>5, FramesFacts
<1>7. tx_ring \in Seq(UnitsOf(P))
  BY DEF UnitsTyped, P
<1> HIDE DEF g, m, n
<1>8. TwoOf(tx_ring, g, tx_ring', UnitsOf(P))
  BY ONLY <1>4, <1>6, <1>7, TwoParts
<1>9. Len(tx_ring') = n + 2 * m
  BY <1>6, <1>8 DEF TwoOf, n
<1>10. Len(tx_ring') <= TxSize
  BY <1>3, <1>9
<1> QED
  BY <1>4, <1>5, <1>10 DEF Answered, P, g

\* The host still has whole packets to read.
LEMMA AnsweredUnits ==
  ASSUME UnitsTyped, HostFramed, UNCHANGED << host_buffer, to_host, cuts >>, bad'.host = bad.host,
         Answered \/ UNCHANGED tx_ring
  PROVE  /\ tx_ring' \in Seq(UnitsOf(Responses(session))) /\ Len(tx_ring') <= TxSize
         /\ HostFramed'
<1> DEFINE S == UnitsOf(Responses(session))
<1>1. host_buffer \in Seq(S) /\ to_host \in Seq(S) /\ tx_ring \in Seq(S)
  BY DEF UnitsTyped
<1>2. CASE UNCHANGED tx_ring
  BY <1>2 DEF UnitsTyped, HostFramed, ToHost
<1>3. CASE Answered
  <2>1. PICK s \in Seq(Responses(session)) : tx_ring' = tx_ring \o Frames(s) /\ Len(tx_ring') <= TxSize
    BY <1>3 DEF Answered
  <2> DEFINE f == Frames(s)
             x == host_buffer \o to_host
             q == ToHost
             r == x \o (tx_ring \o f)
  <2>2. f \in Seq(S) /\ Whole(f) /\ Orphan(f) = 0
    BY FramesFacts
  <2>3. q = x \o tx_ring /\ tx_ring' = tx_ring \o f
    BY <2>1 DEF ToHost
  <2> HIDE DEF f
  <2>4. x \in Seq(S)
    BY ONLY <1>1, ConcatProperties
  <2> HIDE DEF x
  <2>5. q \in Seq(S)
    BY ONLY <1>1, <2>3, <2>4, ConcatProperties
  <2>6. tx_ring' \in Seq(S)
    BY ONLY <1>1, <2>2, <2>3, ConcatProperties
  <2>7. tx_ring \in Seq(S) /\ f \in Seq(S) /\ x \in Seq(S)
    BY <1>1, <2>2, <2>4
  <2>8. (x \o tx_ring) \o f = r
    BY ONLY <2>7, Assoc
  <2>9. r = q \o f
    BY <2>3, <2>8
  <2>10. ToHost' = r
    BY <2>3 DEF ToHost, x
  <2>11. Whole(q)
    BY DEF HostFramed
  <2> HIDE DEF q, r
  <2>12. Whole(r) /\ Orphan(r) = Orphan(q)
    BY <2>2, <2>5, <2>9, <2>11, PacketsSent
  <2>13. HostFramed'
    BY <2>10, <2>12 DEF HostFramed, q
  <2> QED
    BY <2>1, <2>6, <2>13
<1> QED
  BY <1>2, <1>3

-----------------------------------------------------------------------------
(* The contexts of the server. *)

\* A call is told from an empty context.
LEMMA NotNone == \A n : \A call \in CallsTo(n) : call # None
  BY DEF CallsTo, None

\* The contexts that unary calls hold can be counted.
LEMMA SlotsFinite ==
  /\ IsFiniteSet(Slots) /\ Slots \subseteq Nat /\ 0 \notin Slots
  /\ \A contexts : IsFiniteSet(Unary(contexts)) /\ Cardinality(Unary(contexts)) \in Nat
<1>1. IsFiniteSet(Slots) /\ Slots = 1 .. Cardinality(Slots)
  BY ConstantsAssumption
<1>2. ASSUME NEW contexts PROVE IsFiniteSet(Unary(contexts)) /\ Cardinality(Unary(contexts)) \in Nat
  <2>1. Unary(contexts) \in SUBSET Slots
    BY DEF Unary
  <2>2. IsFiniteSet(Unary(contexts))
    BY <1>1, <2>1, FS_Subset
  <2> QED
    BY <2>2, FS_CardinalityType
<1>3. Cardinality(Slots) \in Nat
  BY <1>1, FS_CardinalityType
<1>4. Slots \subseteq Nat /\ 0 \notin Slots
  BY <1>1, <1>3
<1> QED
  BY <1>1, <1>2, <1>4

\* Contexts that are freed, or taken by a stream, are not held by unary calls.
LEMMA FewerUnary ==
  ASSUME NEW a, NEW b, Unary(a) \subseteq Unary(b)
  PROVE  Cardinality(Unary(a)) <= Cardinality(Unary(b))
  BY SlotsFinite, FS_Subset

\* Responses are sent for the stream of the reader, which may end then.
LEMMA SendFacts ==
  ASSUME UnitsTyped, NEW contexts, NEW frame, ServerFor(contexts, frame, session), NEW taken, NEW held,
         NEW st, st = fd_rpc_server_ux_frame_buffer_read_send(State(contexts, frame), taken, held)
  PROVE  /\ ServerFor(st.contexts, st.frame, session) /\ st.sent \in Seq(Responses(session))
         /\ Unary(st.contexts) \subseteq Unary(contexts)
         /\ \A s \in Slots : st.contexts[s] \in {None, contexts[s]}
         /\ 2 * Len(st.sent) <= FreeSpace
         /\ \A j \in 1 .. Len(st.sent) : frame.slot # 0 /\ st.sent[j] = Response(contexts[frame.slot], frame.offset + j)
         /\ st.drops \/ st.frame.slot = 0
            \/ st.frame = [slot |-> frame.slot, offset |-> frame.offset + Len(st.sent)]
<1> DEFINE before == State(contexts, frame)
           free == FreeSpace
           count == Least(free \div 2, Completed - frame.offset)
           buffer == HasBuffer(taken, held)
           tried == IF buffer THEN count ELSE 1
           context == contexts[frame.slot]
           sent == IF buffer THEN [i \in 1 .. count |-> Response(context, frame.offset + i)] ELSE << >>
           moved == [before EXCEPT !.frame.offset = @ + tried, !.sent = sent, !.drops = ~buffer]
<1>1. /\ before.contexts = contexts /\ before.frame = frame /\ before.sent = << >>
      /\ before = [contexts |-> contexts, frame |-> frame, sent |-> << >>, drops |-> FALSE]
  BY DEF State
<1>2. /\ contexts \in [Slots -> {None} \cup CallsTo(session)]
      /\ frame \in [slot : Slots \cup {0}, offset : 0 .. Chunks]
      /\ frame.slot # 0 => contexts[frame.slot] # None /\ Streaming(contexts[frame.slot].method)
  BY DEF ServerFor
<1>3. Chunks \in Nat \ {0} /\ Completed = Chunks + 1 /\ frame.offset \in 0 .. Chunks
  BY <1>2, ConstantsAssumption DEF Completed
<1>4. free \in Nat
  BY ConstantsAssumption DEF FreeSpace, UnitsTyped
<1>5. /\ count \in Nat /\ count <= Completed - frame.offset /\ 2 * count <= free
      /\ count # 0 => frame.offset + tried \in Nat /\ frame.offset + tried <= Completed
  <2> DEFINE d == free \div 2
             e == Completed - frame.offset
  <2>1. /\ d \in Nat /\ 2 * d <= free
        /\ e \in Nat \ {0} /\ frame.offset + e = Completed /\ frame.offset \in Nat
    <3> HIDE DEF free
    <3> QED
      BY <1>3, <1>4
  <2> HIDE DEF d, e
  <2>2. count \in {d, e} /\ count <= d /\ count <= e
    BY <2>1, LeastFacts DEF d, e
  <2> HIDE DEF count, buffer, free
  <2>3. count \in Nat /\ count <= e /\ 2 * count <= free
    BY <1>4, <2>1, <2>2
  <2>4. count # 0 => tried \in Nat /\ tried <= e
    BY <2>1, <2>3
  <2> QED
    BY <2>1, <2>3, <2>4, <1>3 DEF e
<1>6. st = IF frame.slot = 0 \/ count = 0 THEN before
           ELSE IF frame.offset + tried = Completed THEN fd_rpc_server_ux_frame_buffer_close(moved)
           ELSE moved
  BY <1>1 DEF fd_rpc_server_ux_frame_buffer_read_send, ResponsesThatFit, FrameSize
<1> HIDE DEF count, buffer, free
<1>7. /\ moved.contexts = contexts /\ moved.sent = sent /\ moved.drops = ~buffer
      /\ moved.frame.slot = frame.slot /\ moved.frame.offset = frame.offset + tried
      /\ moved.frame = [slot |-> frame.slot, offset |-> frame.offset + tried]
  BY <1>1, <1>2
<1>8. CASE frame.slot = 0 \/ count = 0
  <2> HIDE DEF before, moved, sent
  <2>1. st = before
    BY <1>6, <1>8
  <2>2. st.contexts = contexts /\ st.frame = frame /\ st.sent = << >>
    BY <1>1, <2>1
  <2>3. frame = [slot |-> frame.slot, offset |-> frame.offset + Len(<< >>)]
    BY <1>2
  <2>4. 2 * Len(<< >>) <= free /\ \A j \in 1 .. Len(<< >>) : FALSE
    BY <1>4
  <2> QED
    BY <2>2, <2>3, <2>4 DEF free
<1>9. CASE ~(frame.slot = 0 \/ count = 0)
  <2>1. frame.slot \in Slots /\ context \in CallsTo(session) /\ Streaming(context.method)
    BY <1>2, <1>9
  <2>2. sent \in Seq(Responses(session))
    <3>1. CASE buffer
      <4>1. \A i \in 1 .. count : frame.offset + i \in Nat
        BY <1>3, <1>5
      <4>2. \A i \in 1 .. count : Response(context, frame.offset + i) \in Responses(session)
        BY <2>1, <4>1 DEF Response, Responses
      <4>3. sent = [i \in 1 .. count |-> Response(context, frame.offset + i)]
        BY <3>1
      <4> QED
        BY <1>5, <4>2, <4>3
    <3>2. CASE ~buffer
      BY <3>2
    <3> QED
      BY <3>1, <3>2
  <2>5. /\ 2 * Len(sent) <= free
        /\ \A j \in 1 .. Len(sent) : sent[j] = Response(context, frame.offset + j)
        /\ buffer => Len(sent) = tried
    <3>1. CASE buffer
      <4>1. sent = [i \in 1 .. count |-> Response(context, frame.offset + i)] /\ tried = count
        BY <3>1
      <4> HIDE DEF sent, tried
      <4>2. Len(sent) = count /\ \A j \in 1 .. count : sent[j] = Response(context, frame.offset + j)
        BY <1>5, <4>1
      <4> QED
        BY <1>5, <4>1, <4>2
    <3>2. CASE ~buffer
      BY <1>4, <3>2
    <3> QED
      BY <3>1, <3>2
  <2> HIDE DEF sent
  <2>3. CASE frame.offset + tried = Completed
    <3>1. st = [moved EXCEPT !.contexts = Freed(@, moved.frame.slot), !.frame = NoReader]
      BY <1>6, <1>9, <2>3 DEF fd_rpc_server_ux_frame_buffer_close
    <3>6. DOMAIN moved = {"contexts", "frame", "sent", "drops"}
      BY <1>1
    <3> HIDE DEF moved, before
    <3>7. st.contexts = Freed(moved.contexts, moved.frame.slot) /\ st.frame = NoReader /\ st.sent = moved.sent
      BY <3>6, <3>1
    <3>2. st.contexts = Freed(contexts, frame.slot) /\ st.frame = NoReader /\ st.sent = sent
      BY <1>7, <3>7
    <3>3. Freed(contexts, frame.slot) \in [Slots -> {None} \cup CallsTo(session)]
      BY <1>2 DEF Freed
    <3>4. Unary(Freed(contexts, frame.slot)) \subseteq Unary(contexts)
      BY DEF Unary, Freed
    <3>5. NoReader \in [slot : Slots \cup {0}, offset : 0 .. Chunks] /\ NoReader.slot = 0
      BY <1>3 DEF NoReader
    <3>8. \A s \in Slots : Freed(contexts, frame.slot)[s] \in {None, contexts[s]}
      BY DEF Freed
    <3> QED
      BY <1>9, <2>2, <2>5, <3>2, <3>3, <3>4, <3>5, <3>8 DEF ServerFor, free
  <2>4. CASE frame.offset + tried # Completed
    <3>1. st = moved
      BY <1>6, <1>9, <2>4
    <3>2. st.contexts = contexts /\ st.sent = sent /\ st.frame = [slot |-> frame.slot, offset |-> frame.offset + tried]
      BY <1>7, <3>1
    <3>3. frame.offset + tried \in 0 .. Chunks
      BY <1>3, <1>5, <1>9, <2>4
    <3>4. st.frame \in [slot : Slots \cup {0}, offset : 0 .. Chunks] /\ st.frame.slot = frame.slot
      BY <1>2, <3>2, <3>3
    <3>5. st.drops \/ st.frame = [slot |-> frame.slot, offset |-> frame.offset + Len(st.sent)]
      BY <1>7, <2>5, <3>1, <3>2
    <3> QED
      BY <1>2, <1>9, <2>2, <2>5, <3>2, <3>4, <3>5 DEF ServerFor, free
  <2> QED
    BY <2>3, <2>4
<1> QED
  BY <1>8, <1>9

\* What a packet that is handled does to the server and to what is sent.
Served ==
  /\ ServerFor(server_contexts', frame_buffer_read', session)
  /\ leaks' \in Nat /\ Cardinality(Unary(server_contexts')) <= leaks'
  /\ Answered \/ UNCHANGED tx_ring

\* A packet that is ignored changes nothing.
LEMMA IgnoreServes ==
  ASSUME ServerSound, LeaksBounded, Ignore
  PROVE  Served
  BY DEF ServerSound, LeaksBounded, Ignore, server_vars, Served

\* The context that a call allocates is one that was free.
LEMMA AllocatedFacts ==
  ASSUME ServerSound, NEW call \in CallsTo(session), FreeSlots # {}, NEW slot, slot = Lowest(FreeSlots)
  PROVE  /\ slot \in Slots /\ server_contexts[slot] = None
         /\ ServerFor(Allocated(slot, call), frame_buffer_read, session)
         /\ Unary(Allocated(slot, call)) \subseteq Unary(server_contexts) \cup {slot}
         /\ Streaming(call.method) => Unary(Allocated(slot, call)) \subseteq Unary(server_contexts)
<1>1. FreeSlots \subseteq Nat
  BY SlotsFinite DEF FreeSlots
<1>2. slot \in Slots /\ server_contexts[slot] = None
  <2>1. slot \in FreeSlots
    BY <1>1, LowestFacts
  <2> QED
    BY <2>1 DEF FreeSlots
<1>3. /\ server_contexts \in [Slots -> {None} \cup CallsTo(session)]
      /\ frame_buffer_read \in [slot : Slots \cup {0}, offset : 0 .. Chunks]
      /\ frame_buffer_read.slot # 0 => /\ server_contexts[frame_buffer_read.slot] # None
                                       /\ Streaming(server_contexts[frame_buffer_read.slot].method)
  BY DEF ServerSound, ServerFor
<1>4. /\ Allocated(slot, call) \in [Slots -> {None} \cup CallsTo(session)]
      /\ Allocated(slot, call)[slot] = call
      /\ \A s \in Slots : s # slot => Allocated(slot, call)[s] = server_contexts[s]
  BY <1>2, <1>3 DEF Allocated
<1>5. ServerFor(Allocated(slot, call), frame_buffer_read, session)
  <2>1. ASSUME frame_buffer_read.slot # 0
        PROVE  frame_buffer_read.slot \in Slots /\ frame_buffer_read.slot # slot
    BY <1>2, <1>3, <2>1
  <2> QED
    BY <1>3, <1>4, <2>1 DEF ServerFor
<1>6. /\ Unary(Allocated(slot, call)) \subseteq Unary(server_contexts) \cup {slot}
      /\ Streaming(call.method) => Unary(Allocated(slot, call)) \subseteq Unary(server_contexts)
  BY <1>4 DEF Unary
<1> QED
  BY <1>2, <1>5, <1>6

\* Only streams are initialized by the host, so no unary call gets this context.
LEMMA InitializeServes ==
  ASSUME UnitsTyped, ServerSound, LeaksBounded, NEW call \in CallsTo(session), Streaming(call.method),
         fd_rpc_channel_server_initialize(call)
  PROVE  Served
<1>1. CASE Ignore
  BY <1>1, IgnoreServes
<1>2. CASE /\ FreeSlots # {}
           /\ Apply(State(Allocated(Lowest(FreeSlots), call), frame_buffer_read))
           /\ UNCHANGED leaks
  <2> DEFINE slot == Lowest(FreeSlots)
             contexts == Allocated(slot, call)
  <2>1. ServerFor(contexts, frame_buffer_read, session) /\ Unary(contexts) \subseteq Unary(server_contexts)
    BY <1>2, AllocatedFacts
  <2> HIDE DEF slot
  <2>2. server_contexts' = contexts /\ frame_buffer_read' = frame_buffer_read /\ Write(<< >>) /\ leaks' = leaks
    BY <1>2 DEF Apply, State, slot
  <2> HIDE DEF contexts
  <2>3. << >> \in Seq(Responses(session))
    OBVIOUS
  <2>4. Answered
    BY <2>2, <2>3, WriteAnswers
  <2>5. Cardinality(Unary(contexts)) <= leaks
    <3>1. /\ Cardinality(Unary(contexts)) <= Cardinality(Unary(server_contexts))
          /\ Cardinality(Unary(contexts)) \in Nat /\ Cardinality(Unary(server_contexts)) \in Nat
      BY <2>1, FewerUnary, SlotsFinite
    <3> QED
      BY <3>1 DEF LeaksBounded
  <2> QED
    BY <2>1, <2>2, <2>4, <2>5 DEF Served, LeaksBounded
<1> QED
  BY <1>1, <1>2 DEF fd_rpc_channel_server_initialize

\* A refused unary request leaves one context more and is counted.
LEMMA UnaryServes ==
  ASSUME UnitsTyped, ServerSound, LeaksBounded, NEW call \in CallsTo(session), FreeSlots # {},
         NEW taken, UnaryRequest(Lowest(FreeSlots), call, taken)
  PROVE  Served
<1> DEFINE slot == Lowest(FreeSlots)
           contexts == Allocated(slot, call)
<1>1. CASE fd_rpc_server_ux_set_screen_request(slot, call, taken)
  <2> DEFINE sent == IF HasBuffer(taken, 1) THEN << Response(call, 0) >> ELSE << >>
  <2>1. sent \in Seq(Responses(session))
    <3>1. Response(call, 0) \in Responses(session)
      BY DEF Response, Responses
    <3> QED
      BY <3>1
  <2>2. Write(sent) /\ UNCHANGED << server_contexts, frame_buffer_read, leaks >>
    BY <1>1 DEF fd_rpc_server_ux_set_screen_request
  <2> HIDE DEF sent
  <2>3. Answered
    BY <2>1, <2>2, WriteAnswers
  <2> QED
    BY <2>2, <2>3 DEF Served, ServerSound, LeaksBounded
<1>2. CASE /\ server_contexts' = contexts /\ leaks' = leaks + 1
           /\ UNCHANGED << frame_buffer_read, tx_ring >>
  <2>1. ServerFor(contexts, frame_buffer_read, session) /\ Unary(contexts) \subseteq Unary(server_contexts) \cup {slot}
    BY AllocatedFacts
  <2> HIDE DEF contexts, slot
  <2> DEFINE a == Cardinality(Unary(contexts))
             b == Cardinality(Unary(server_contexts))
             c == Cardinality(Unary(server_contexts) \cup {slot})
  <2>2. IsFiniteSet(Unary(server_contexts)) /\ a \in Nat /\ b \in Nat
    BY SlotsFinite
  <2>3. IsFiniteSet(Unary(server_contexts) \cup {slot}) /\ c = IF slot \in Unary(server_contexts) THEN b ELSE b + 1
    BY <2>2, FS_AddElement, Zenon
  <2>4. a <= c
    BY <2>1, <2>3, FS_Subset
  <2>5. b <= leaks /\ leaks \in Nat
    BY DEF LeaksBounded
  <2> HIDE DEF a, b, c
  <2>6. c <= b + 1 /\ c \in Nat
    BY <2>2, <2>3
  <2>7. a <= leaks + 1
    BY <2>2, <2>4, <2>5, <2>6
  <2> QED
    BY <1>2, <2>1, <2>5, <2>7 DEF Served, a
<1> QED
  BY <1>1, <1>2 DEF UnaryRequest

\* Applying the state that a handler leaves behind.
LEMMA ApplyServes ==
  ASSUME UnitsTyped, LeaksBounded, NEW st, Apply(st), UNCHANGED leaks,
         ServerFor(st.contexts, st.frame, session), st.sent \in Seq(Responses(session)),
         Unary(st.contexts) \subseteq Unary(server_contexts)
  PROVE  Served
<1>1. server_contexts' = st.contexts /\ frame_buffer_read' = st.frame /\ Write(st.sent)
  BY DEF Apply
<1>2. Answered
  BY <1>1, WriteAnswers
<1>3. /\ Cardinality(Unary(st.contexts)) <= Cardinality(Unary(server_contexts))
      /\ Cardinality(Unary(st.contexts)) \in Nat /\ Cardinality(Unary(server_contexts)) \in Nat
  BY FewerUnary, SlotsFinite
<1>4. leaks \in Nat /\ Cardinality(Unary(server_contexts)) <= leaks
  BY DEF LeaksBounded
<1>5. Cardinality(Unary(st.contexts)) <= leaks
  BY <1>3, <1>4
<1> QED
  BY <1>1, <1>2, <1>4, <1>5 DEF Served

\* The context that is found is that of the call.
LEMMA GetFacts ==
  ASSUME NEW call, fd_rpc_server_context_get(call) # 0
  PROVE  /\ fd_rpc_server_context_get(call) \in Slots
         /\ IsCall(server_contexts[fd_rpc_server_context_get(call)], call)
<1> DEFINE found == {s \in Slots : IsCall(server_contexts[s], call)}
<1>1. found # {} /\ fd_rpc_server_context_get(call) = Lowest(found)
  BY DEF fd_rpc_server_context_get
<1>2. found \subseteq Nat
  BY SlotsFinite
<1>3. Lowest(found) \in found
  BY <1>1, <1>2, LowestFacts
<1> QED
  BY <1>1, <1>3

\* The reader is set to a context of a stream.
LEMMA StreamServes ==
  ASSUME UnitsTyped, ServerSound, LeaksBounded, NEW call \in CallsTo(session), Streaming(call.method),
         NEW taken, NEW slot, slot = fd_rpc_server_context_get(call), slot # 0, StreamRequest(slot, taken)
  PROVE  Served
<1> DEFINE frame == [slot |-> slot, offset |-> 0]
           st == fd_rpc_server_ux_frame_buffer_read_send(State(server_contexts, frame), taken, 1)
<1>1. slot \in Slots /\ server_contexts[slot] # None /\ Streaming(server_contexts[slot].method)
  BY GetFacts DEF IsCall
<1>2. ServerFor(server_contexts, frame, session)
  BY <1>1, ConstantsAssumption DEF ServerSound, ServerFor
<1>3. Apply(st) /\ UNCHANGED leaks
  BY DEF StreamRequest
<1>5. UnitsTyped
  OBVIOUS
<1> HIDE DEF frame
<1>4. /\ ServerFor(st.contexts, st.frame, session) /\ st.sent \in Seq(Responses(session))
      /\ Unary(st.contexts) \subseteq Unary(server_contexts)
  BY ONLY <1>2, <1>5, SendFacts, ZenonT(30)
<1> HIDE DEF st
<1> QED
  BY <1>3, <1>4, ApplyServes

\* fd_rpc_channel_server_request, over its cases.
LEMMA RequestServes ==
  ASSUME UnitsTyped, ServerSound, LeaksBounded, NEW call \in CallsTo(session), NEW taken,
         fd_rpc_channel_server_request(call, taken)
  PROVE  Served
<1>1. CASE Ignore
  BY <1>1, IgnoreServes
<1>2. CASE FreeSlots # {} /\ UnaryRequest(Lowest(FreeSlots), call, taken)
  BY <1>2, UnaryServes
<1>3. CASE /\ Streaming(call.method) /\ fd_rpc_server_context_get(call) # 0
           /\ StreamRequest(fd_rpc_server_context_get(call), taken)
  BY <1>3, StreamServes
<1> QED
  BY <1>1, <1>2, <1>3 DEF fd_rpc_channel_server_request

\* A finalize of a stream closes the reader, one of a unary call frees no context of a stream.
LEMMA FinalizeServes ==
  ASSUME UnitsTyped, ServerSound, LeaksBounded, NEW call \in CallsTo(session),
         fd_rpc_channel_server_finalize(call)
  PROVE  Served
<1>1. CASE Ignore
  BY <1>1, IgnoreServes
<1>2. CASE ~Ignore
  <2> DEFINE slot == fd_rpc_server_context_get(call)
             context == server_contexts[slot]
             closed == FinalizeServer(Current, context)
             st == [closed EXCEPT !.contexts = Freed(@, slot)]
             reader == frame_buffer_read.slot
             left == IF Streaming(context.method) THEN Freed(server_contexts, reader) ELSE server_contexts
             frame == IF Streaming(context.method) THEN NoReader ELSE frame_buffer_read
  <2>1. slot # 0 /\ Apply(st) /\ UNCHANGED leaks
    BY <1>2 DEF fd_rpc_channel_server_finalize
  <2>2. slot \in Slots /\ context # None
    BY <2>1, GetFacts DEF IsCall
  <2>3. /\ server_contexts \in [Slots -> {None} \cup CallsTo(session)]
        /\ frame_buffer_read \in [slot : Slots \cup {0}, offset : 0 .. Chunks]
        /\ reader # 0 => /\ server_contexts[reader] # None
                         /\ Streaming(server_contexts[reader].method)
    BY DEF ServerSound, ServerFor
  <2>4. closed = [contexts |-> left, frame |-> frame, sent |-> << >>, drops |-> FALSE]
    BY DEF FinalizeServer, Current, State, fd_rpc_server_ux_frame_buffer_close
  <2> HIDE DEF closed
  <2>5. st.contexts = Freed(left, slot) /\ st.frame = frame /\ st.sent = << >>
    BY <2>4
  <2> HIDE DEF st
  <2>6. left \in [Slots -> {None} \cup CallsTo(session)] /\ Unary(left) \subseteq Unary(server_contexts)
    BY <2>3 DEF Freed, Unary
  <2>7. frame \in [slot : Slots \cup {0}, offset : 0 .. Chunks]
    BY <2>3, ConstantsAssumption DEF NoReader
  <2>8. frame.slot # 0 => /\ frame.slot \in Slots /\ frame.slot # slot
                          /\ left[frame.slot] # None /\ Streaming(left[frame.slot].method)
    <3>1. CASE Streaming(context.method)
      BY <3>1 DEF NoReader
    <3>2. CASE ~Streaming(context.method)
      BY <2>3, <3>2
    <3> QED
      BY <3>1, <3>2
  <2> HIDE DEF left, frame
  <2>9. /\ Freed(left, slot) \in [Slots -> {None} \cup CallsTo(session)]
        /\ \A s \in Slots : s # slot => Freed(left, slot)[s] = left[s]
        /\ Unary(Freed(left, slot)) \subseteq Unary(left)
    BY <2>6 DEF Freed, Unary
  <2>10. ServerFor(st.contexts, st.frame, session)
    BY <2>5, <2>7, <2>8, <2>9 DEF ServerFor
  <2>11. Unary(st.contexts) \subseteq Unary(server_contexts) /\ st.sent \in Seq(Responses(session))
    BY <2>5, <2>6, <2>9
  <2> QED
    BY <2>1, <2>10, <2>11, ApplyServes
<1> QED
  BY <1>1, <1>2

\* fd_rpc_channel_received_packet, over the types of packets.
LEMMA HandleServes ==
  ASSUME UnitsTyped, ServerSound, LeaksBounded, NEW packet \in Requests(session), NEW taken,
         Handle(packet, taken)
  PROVE  Served
<1>1. packet.call \in CallsTo(session) /\ (packet.type = "server_initialize" => Streaming(packet.call.method))
  BY DEF Requests
<1>2. CASE packet.type = "server_initialize" /\ fd_rpc_channel_server_initialize(packet.call)
  BY <1>1, <1>2, InitializeServes
<1>3. CASE fd_rpc_channel_server_request(packet.call, taken)
  BY <1>1, <1>3, RequestServes
<1>4. CASE fd_rpc_channel_server_finalize(packet.call)
  BY <1>1, <1>4, FinalizeServes
<1> QED
  BY <1>2, <1>3, <1>4 DEF Handle

-----------------------------------------------------------------------------
(* The queue of works. *)

\* A submit adds a work that is not queued.
LEMMA SubmittedFacts ==
  ASSUME NEW q \in Seq(Works), RxOnce(q), NEW work \in Works
  PROVE  /\ Submitted(q, work) \in Seq(Works) /\ RxOnce(Submitted(q, work))
         /\ HasRx(Submitted(q, work)) => HasRx(q) \/ work = "rx"
<1>1. CASE Contains(q, work)
  BY <1>1 DEF Submitted
<1>2. CASE ~Contains(q, work)
  <2> DEFINE r == Append(q, work)
             n == Len(q)
  <2>1. n \in Nat /\ r \in Seq(Works) /\ Len(r) = n + 1 /\ r[n + 1] = work /\ \A i \in 1 .. n : r[i] = q[i]
    BY AppendProperties, LenProperties
  <2>2. \A i \in 1 .. n : q[i] # work
    BY <1>2 DEF Contains
  <2>3. Submitted(q, work) = r
    BY <1>2 DEF Submitted
  <2>4. Len(q) = n
    OBVIOUS
  <2> HIDE DEF r, n
  <2>5. \A i \in 1 .. Len(r) : i \in 1 .. n \/ i = n + 1
    BY <2>1
  <2>6. RxOnce(r)
    BY <2>1, <2>2, <2>4, <2>5 DEF RxOnce
  <2>7. HasRx(r) => HasRx(q) \/ work = "rx"
    BY <2>1, <2>4, <2>5 DEF HasRx
  <2> QED
    BY <2>1, <2>3, <2>6, <2>7
<1> QED
  BY <1>1, <1>2

\* The first work leaves the queue.
LEMMA TailFacts ==
  ASSUME NEW q \in Seq(Works), RxOnce(q), q # << >>
  PROVE  /\ Tail(q) \in Seq(Works) /\ RxOnce(Tail(q))
         /\ HasRx(Tail(q)) => HasRx(q) /\ Head(q) # "rx"
<1> DEFINE r == Tail(q)
           n == Len(q)
<1>1. /\ n \in Nat \ {0} /\ r \in Seq(Works) /\ Len(r) = n - 1 /\ Head(q) = q[1]
      /\ \A i \in 1 .. n - 1 : r[i] = q[i + 1]
  BY EmptySeq, HeadTailProperties
<1>2. Len(q) = n
  OBVIOUS
<1> HIDE DEF r, n
<1>3. \A i \in 1 .. Len(r) : r[i] = q[i + 1] /\ i + 1 \in 1 .. Len(q) /\ i + 1 # 1 /\ 1 \in 1 .. Len(q)
  BY <1>1, <1>2
<1>4. RxOnce(r)
  <2> SUFFICES ASSUME NEW i \in 1 .. Len(r), NEW j \in 1 .. Len(r), r[i] = "rx", r[j] = "rx" PROVE i = j
    BY DEF RxOnce
  <2>1. i + 1 = j + 1
    BY <1>3 DEF RxOnce
  <2> QED
    BY <2>1
<1>5. HasRx(r) => HasRx(q) /\ Head(q) # "rx"
  <2> SUFFICES ASSUME NEW i \in 1 .. Len(r), r[i] = "rx" PROVE HasRx(q) /\ Head(q) # "rx"
    BY DEF HasRx
  <2>1. q[i + 1] = "rx" /\ i + 1 \in 1 .. Len(q) /\ i + 1 # 1 /\ 1 \in 1 .. Len(q)
    BY <1>3
  <2> QED
    BY <1>1, <2>1 DEF HasRx, RxOnce
<1> QED
  BY <1>1, <1>4, <1>5 DEF r

-----------------------------------------------------------------------------
(* What an action leaves alone. *)

\* The client is the same after steps of the device.
LEMMA ClientKept ==
  ASSUME ClientSound, AnswersOwnCall,
         UNCHANGED << session, next_invocation, client_contexts, waiting, dtr, answers >>
  PROVE  ClientSound' /\ AnswersOwnCall'
  BY DEF ClientSound, AnswersOwnCall

\* The server is the same after steps of the host and of the interrupts.
LEMMA ServerKept ==
  ASSUME ServerSound, LeaksBounded, UNCHANGED << session, server_contexts, frame_buffer_read, leaks >>
  PROVE  ServerSound' /\ LeaksBounded'
  BY DEF ServerSound, LeaksBounded

\* Units that move towards the device stay in their order.
LEMMA DeviceKept ==
  ASSUME DeviceFramed, UNCHANGED cuts, bad' \in [device : Nat, host : Nat], bad'.device = bad.device,
         ToDevice' = ToDevice
  PROVE  DeviceFramed'
  BY DEF DeviceFramed

\* Units that move towards the host stay in their order.
LEMMA HostKept ==
  ASSUME HostFramed, UNCHANGED cuts, bad'.host = bad.host, ToHost' = ToHost
  PROVE  HostFramed'
  BY DEF HostFramed

-----------------------------------------------------------------------------
(* The device. *)

\* The receive interrupt moves units from the bus to the ring.
LEMMA RxIrqKeeps ==
  ASSUME CallInv, fd_rpc_channel_usb_rx_irq
  PROVE  CallInv' /\ ToDevice' = ToDevice
<1> DEFINE S == UnitsOf(Requests(session))
           count == Least(RxSize - Len(rx_ring), Len(to_device))
           p == SubSeq(to_device, 1, count)
           a == SubSeq(to_device, count + 1, Len(to_device))
<1>1. rx_packet \in Seq(S) /\ rx_ring \in Seq(S) /\ to_device \in Seq(S)
  BY DEF CallInv, UnitsTyped
<1>2. /\ to_device # << >> /\ Len(rx_ring) < RxSize /\ rx_ring' = rx_ring \o p /\ to_device' = a
      /\ works' = Submitted(works, "rx")
      /\ UNCHANGED << rx_packet, tx_ring, tx_enabled, tx_claimed, connected,
                      to_host, host_vars, server_vars, fault_vars >>
  BY DEF fd_rpc_channel_usb_rx_irq
<1>3. count \in 1 .. Len(to_device) /\ count \in 0 .. Len(to_device)
  <2> DEFINE x == RxSize - Len(rx_ring)
             y == Len(to_device)
  <2>1. RxSize \in Nat /\ Len(rx_ring) \in Nat
    BY <1>1, ConstantsAssumption
  <2>2. x \in Nat \ {0}
    BY <1>2, <2>1
  <2>3. y \in Nat \ {0}
    BY <1>1, <1>2, EmptySeq
  <2> HIDE DEF x, y
  <2>4. count \in {x, y} /\ count <= x /\ count <= y
    BY <2>2, <2>3, LeastFacts DEF x, y
  <2>5. count \in 1 .. y /\ count \in 0 .. y
    <3> HIDE DEF count
    <3> QED
      BY <2>2, <2>3, <2>4
  <2> QED
    BY <2>5 DEF y
<1> HIDE DEF count, S
<1>4. p \in Seq(S) /\ Begins(p, to_device, count) /\ a \in Seq(S) /\ Dropped(a, to_device, count)
  BY <1>1, <1>3, Split
<1>5. Len(p) = count
  BY <1>4 DEF Begins
<1> HIDE DEF p, a
<1>6. p \o a = to_device
  BY <1>1, <1>3, <1>4, Joined, Zenon
<1> DEFINE b == rx_packet \o rx_ring
<1>7. b \in Seq(S) /\ rx_ring' \in Seq(S)
  BY <1>1, <1>2, <1>4, ConcatProperties
<1>8. rx_packet \o (rx_ring \o p) = b \o p
  <2>1. rx_packet \in Seq(S) /\ rx_ring \in Seq(S) /\ p \in Seq(S)
    BY <1>1, <1>4
  <2>2. (rx_packet \o rx_ring) \o p = rx_packet \o (rx_ring \o p)
    BY ONLY <2>1, Assoc, SMTT(30)
  <2> QED
    BY <2>2
<1> HIDE DEF b
<1>9. (b \o p) \o a = b \o (p \o a)
  BY ONLY <1>4, <1>7, Assoc
<1>10. ToDevice' = ToDevice
  <2>1. ToDevice' = (rx_packet \o (rx_ring \o p)) \o a
    BY <1>2 DEF ToDevice
  <2>2. ToDevice = b \o to_device
    BY DEF ToDevice, b
  <2> QED
    BY <1>6, <1>8, <1>9, <2>1, <2>2
<1>11. rx_ring' # << >>
  <2>1. Len(rx_ring \o p) = Len(rx_ring) + Len(p) /\ Len(rx_ring) \in Nat
    BY <1>1, <1>4, ConcatProperties, LenProperties
  <2>2. Len(rx_ring \o p) # 0
    BY <1>3, <1>5, <2>1
  <2> QED
    BY <1>2, <2>2
<1>12. UnitsTyped'
  BY <1>1, <1>2, <1>4, <1>7 DEF CallInv, UnitsTyped, S, host_vars
<1>13. WorksOnce'
  <2>1. works \in Seq(Works) /\ RxOnce(works) /\ "rx" \in Works
    BY DEF CallInv, WorksOnce, Works
  <2>2. works' \in Seq(Works) /\ RxOnce(works')
    BY <1>2, <2>1, SubmittedFacts
  <2> QED
    BY <1>11, <2>2 DEF WorksOnce
<1>14. DeviceFramed' /\ HostFramed'
  BY <1>2, <1>10, DeviceKept, HostKept DEF CallInv, fault_vars, host_vars, ToHost, DeviceFramed
<1>15. ServerSound' /\ LeaksBounded' /\ ClientSound' /\ AnswersOwnCall'
  BY <1>2, ServerKept, ClientKept DEF CallInv, server_vars, host_vars
<1> QED
  BY <1>10, <1>12, <1>13, <1>14, <1>15 DEF CallInv

\* The transmit interrupt moves units from the ring to the bus.
LEMMA TxInterruptKeeps ==
  ASSUME CallInv, TxInterrupt
  PROVE  CallInv' /\ ToHost' = ToHost
<1> DEFINE S == UnitsOf(Responses(session))
<1>1. host_buffer \in Seq(S) /\ to_host \in Seq(S) /\ tx_ring \in Seq(S)
  BY DEF CallInv, UnitsTyped
<1>2. /\ fd_rpc_channel_usb_tx_irq
      /\ UNCHANGED << rx_ring, rx_packet, connected, to_device, host_vars, server_vars, fault_vars >>
  BY DEF TxInterrupt
<1>3. works' = works \/ works' = Submitted(works, "callback")
  BY <1>2 DEF fd_rpc_channel_usb_tx_irq
<1>4. UNCHANGED << tx_ring, to_host >> \/ (to_host' = to_host \o tx_ring /\ tx_ring' = << >>)
  BY <1>2 DEF fd_rpc_channel_usb_tx_irq
<1>5. WorksOnce'
  <2>1. works \in Seq(Works) /\ RxOnce(works) /\ "callback" \in Works /\ (HasRx(works) => rx_ring # << >>)
    BY DEF CallInv, WorksOnce, Works
  <2>2. works' \in Seq(Works) /\ RxOnce(works') /\ (HasRx(works') => HasRx(works))
    BY <1>3, <2>1, SubmittedFacts
  <2> QED
    BY <1>2, <2>1, <2>2 DEF WorksOnce
<1>6. /\ to_host' \in Seq(S) /\ tx_ring' \in Seq(S) /\ Len(tx_ring') <= TxSize
      /\ ToHost' = ToHost
  <2>1. CASE UNCHANGED << tx_ring, to_host >>
    BY <1>1, <1>2, <2>1 DEF CallInv, UnitsTyped, ToHost, host_vars
  <2>2. CASE to_host' = to_host \o tx_ring /\ tx_ring' = << >>
    <3> HIDE DEF S
    <3>1. (host_buffer \o to_host) \o tx_ring = host_buffer \o (to_host \o tx_ring)
      BY ONLY <1>1, Assoc
    <3>2. to_host' \in Seq(S)
      BY <1>1, <2>2, ConcatProperties
    <3>3. host_buffer \o to_host' \in Seq(S)
      BY <1>1, <3>2, ConcatProperties
    <3>4. (host_buffer \o to_host') \o << >> = host_buffer \o to_host'
      BY <3>3, ConcatEmptySeq
    <3>5. ToHost' = ToHost
      <4>1. ToHost' = (host_buffer \o to_host') \o << >>
        BY <1>2, <2>2 DEF ToHost, host_vars
      <4> QED
        BY <2>2, <3>1, <3>4, <4>1 DEF ToHost
    <3>6. tx_ring' \in Seq(S) /\ Len(tx_ring') <= TxSize
      BY <2>2, ConstantsAssumption
    <3> QED
      BY <3>2, <3>5, <3>6
  <2> QED
    BY <1>4, <2>1, <2>2
<1>7. UnitsTyped'
  BY <1>2, <1>6 DEF CallInv, UnitsTyped, host_vars
<1>8. DeviceFramed' /\ HostFramed'
  BY <1>2, <1>6, DeviceKept, HostKept DEF CallInv, fault_vars, ToDevice, DeviceFramed
<1>9. ServerSound' /\ LeaksBounded' /\ ClientSound' /\ AnswersOwnCall'
  BY <1>2, ServerKept, ClientKept DEF CallInv, server_vars, host_vars
<1> QED
  BY <1>5, <1>6, <1>7, <1>8, <1>9 DEF CallInv

\* The poll of DTR submits works.
LEMMA TimerKeeps ==
  ASSUME CallInv, fd_rpc_channel_usb_cdc_timer
  PROVE  CallInv'
<1>1. /\ works' = works \/ works' = Submitted(works, "disconnected")
      /\ UNCHANGED << rx_ring, rx_packet, tx_ring, tx_claimed,
                      to_device, to_host, host_vars, server_vars, fault_vars >>
  BY DEF fd_rpc_channel_usb_cdc_timer
<1>2. WorksOnce'
  <2>1. works \in Seq(Works) /\ RxOnce(works) /\ "disconnected" \in Works /\ (HasRx(works) => rx_ring # << >>)
    BY DEF CallInv, WorksOnce, Works
  <2>2. works' \in Seq(Works) /\ RxOnce(works') /\ (HasRx(works') => HasRx(works))
    BY <1>1, <2>1, SubmittedFacts
  <2> QED
    BY <1>1, <2>1, <2>2 DEF WorksOnce
<1>3. UnitsTyped'
  BY <1>1 DEF CallInv, UnitsTyped, host_vars
<1>4. DeviceFramed' /\ HostFramed'
  BY <1>1, DeviceKept, HostKept DEF CallInv, fault_vars, host_vars, ToDevice, ToHost, DeviceFramed
<1>5. ServerSound' /\ LeaksBounded' /\ ClientSound' /\ AnswersOwnCall'
  BY <1>1, ServerKept, ClientKept DEF CallInv, server_vars, host_vars
<1> QED
  BY <1>2, <1>3, <1>4, <1>5 DEF CallInv

\* A work that starts leaves the queue.
LEMMA StartKeeps ==
  ASSUME WorksOnce, works # << >>, works' = Tail(works), UNCHANGED rx_ring
  PROVE  WorksOnce'
<1>1. works' \in Seq(Works) /\ RxOnce(works') /\ (HasRx(works') => HasRx(works))
  BY TailFacts DEF WorksOnce
<1> QED
  BY <1>1 DEF WorksOnce

\* A closed channel frees every context, and the reader with them.
LEMMA DisconnectedKeeps ==
  ASSUME CallInv, disconnected_work
  PROVE  CallInv'
<1>1. /\ Starts("disconnected") /\ fd_rpc_channel_closed
      /\ UNCHANGED << rx_ring, rx_packet, tx_claimed, connected,
                      to_device, to_host, host_vars, fault_vars >>
  BY DEF disconnected_work
<1>2. /\ server_contexts' = [s \in Slots |-> None] /\ leaks' = 0 /\ UNCHANGED tx_ring
      /\ frame_buffer_read' =
           IF \E s \in Slots : server_contexts[s] # None /\ Streaming(server_contexts[s].method)
           THEN NoReader ELSE frame_buffer_read
  BY <1>1 DEF fd_rpc_channel_closed
<1>3. /\ frame_buffer_read \in [slot : Slots \cup {0}, offset : 0 .. Chunks]
      /\ frame_buffer_read.slot # 0 => /\ server_contexts[frame_buffer_read.slot] # None
                                       /\ Streaming(server_contexts[frame_buffer_read.slot].method)
  BY DEF CallInv, ServerSound, ServerFor
<1>4. frame_buffer_read' \in [slot : Slots \cup {0}, offset : 0 .. Chunks] /\ frame_buffer_read'.slot = 0
  <2>1. NoReader \in [slot : Slots \cup {0}, offset : 0 .. Chunks] /\ NoReader.slot = 0
    BY ConstantsAssumption DEF NoReader
  <2>2. frame_buffer_read.slot # 0 => frame_buffer_read.slot \in Slots
    BY <1>3
  <2> QED
    BY <1>2, <1>3, <2>1, <2>2
<1>5. server_contexts' \in [Slots -> {None} \cup CallsTo(session)]
  BY <1>2
<1>6. ServerSound'
  BY <1>1, <1>4, <1>5 DEF ServerSound, ServerFor, host_vars
<1>7. Unary(server_contexts') = {}
  BY <1>2 DEF Unary
<1>8. LeaksBounded'
  BY <1>2, <1>7, FS_EmptySet DEF LeaksBounded
<1>9. WorksOnce'
  BY <1>1, StartKeeps DEF CallInv, Starts
<1>10. UnitsTyped'
  BY <1>1, <1>2 DEF CallInv, UnitsTyped, host_vars
<1>11. DeviceFramed' /\ HostFramed'
  BY <1>1, <1>2, DeviceKept, HostKept DEF CallInv, fault_vars, host_vars, ToDevice, ToHost, DeviceFramed
<1>12. ClientSound' /\ AnswersOwnCall'
  BY <1>1, ClientKept DEF CallInv, host_vars
<1> QED
  BY <1>6, <1>8, <1>9, <1>10, <1>11, <1>12 DEF CallInv

\* Free space submits the send work.
LEMMA CallbackKeeps ==
  ASSUME CallInv, callback_work
  PROVE  CallInv'
<1>1. /\ works # << >> /\ (works' = Tail(works) \/ works' = Submitted(Tail(works), "send"))
      /\ UNCHANGED << rx_ring, rx_packet, tx_ring, tx_enabled, tx_claimed, connected,
                      to_device, to_host, host_vars, server_vars, fault_vars >>
  BY DEF callback_work
<1>2. WorksOnce'
  <2>1. works \in Seq(Works) /\ RxOnce(works) /\ "send" \in Works /\ (HasRx(works) => rx_ring # << >>)
    BY DEF CallInv, WorksOnce, Works
  <2>2. Tail(works) \in Seq(Works) /\ RxOnce(Tail(works)) /\ (HasRx(Tail(works)) => HasRx(works))
    BY <1>1, <2>1, TailFacts
  <2>3. works' \in Seq(Works) /\ RxOnce(works') /\ (HasRx(works') => HasRx(works))
    BY <1>1, <2>1, <2>2, SubmittedFacts, ZenonT(30)
  <2> QED
    BY <1>1, <2>1, <2>3 DEF WorksOnce
<1>3. UnitsTyped'
  BY <1>1 DEF CallInv, UnitsTyped, host_vars
<1>4. DeviceFramed' /\ HostFramed'
  BY <1>1, DeviceKept, HostKept DEF CallInv, fault_vars, host_vars, ToDevice, ToHost, DeviceFramed
<1>5. ServerSound' /\ LeaksBounded' /\ ClientSound' /\ AnswersOwnCall'
  BY <1>1, ServerKept, ClientKept DEF CallInv, server_vars, host_vars
<1> QED
  BY <1>2, <1>3, <1>4, <1>5 DEF CallInv

\* The send work sends what fits for the reader.
LEMMA SendWorkKeeps ==
  ASSUME CallInv, fd_rpc_server_ux_send_work
  PROVE  CallInv'
<1>1. PICK taken \in 0 .. Buffers :
         Taken(taken) /\ Apply(fd_rpc_server_ux_frame_buffer_read_send(Current, taken, 0))
  BY DEF fd_rpc_server_ux_send_work
<1>2. /\ Starts("send")
      /\ UNCHANGED << free_space_callback, screen, leaks, rx_ring, rx_packet, tx_claimed, connected,
                      to_device, to_host, host_vars, cuts, bad >>
  BY DEF fd_rpc_server_ux_send_work
<1> DEFINE st == fd_rpc_server_ux_frame_buffer_read_send(Current, taken, 0)
<1>3. UnitsTyped /\ ServerSound /\ LeaksBounded /\ HostFramed /\ DeviceFramed
  BY DEF CallInv
<1>4. /\ ServerFor(st.contexts, st.frame, session) /\ st.sent \in Seq(Responses(session))
      /\ Unary(st.contexts) \subseteq Unary(server_contexts)
  BY <1>3, SendFacts DEF Current, ServerSound
<1>5. Apply(st)
  BY <1>1
<1> HIDE DEF st
<1>6. Served
  BY <1>2, <1>3, <1>4, <1>5, ApplyServes
<1>7. WorksOnce'
  BY <1>2, StartKeeps DEF CallInv, Starts
<1>8. /\ tx_ring' \in Seq(UnitsOf(Responses(session))) /\ Len(tx_ring') <= TxSize
      /\ HostFramed'
  BY <1>2, <1>3, <1>6, AnsweredUnits DEF Served, host_vars
<1>9. UnitsTyped'
  BY <1>2, <1>3, <1>8 DEF UnitsTyped, host_vars
<1>10. DeviceFramed'
  BY <1>2, <1>3, DeviceKept DEF ToDevice, DeviceFramed
<1>11. ServerSound' /\ LeaksBounded'
  BY <1>2, <1>6 DEF Served, ServerSound, LeaksBounded, host_vars
<1>12. ClientSound' /\ AnswersOwnCall'
  BY <1>2, ClientKept DEF CallInv, host_vars
<1> QED
  BY <1>7, <1>8, <1>9, <1>10, <1>11, <1>12 DEF CallInv

\* The first k units were read, up to a delimiter.
HandledPart(k) ==
  /\ Dropped(ToDevice', ToDevice, k) /\ ToDevice[k].at = "tail"
  /\ Ignore \/ \E taken \in 0 .. Buffers : Handle(ToDevice[k].packet, taken)

\* rx_work reads up to the next delimiter and handles the packet, if it is one.
LEMMA ReceivedDataKeeps ==
  ASSUME CallInv, fd_rpc_channel_received_data
  PROVE  /\ CallInv'
         /\ (ToDevice' = ToDevice /\ Ignore) \/ \E k \in 1 .. Len(ToDevice) : HandledPart(k)
<1> DEFINE P == Requests(session)
           S == UnitsOf(P)
           units == rx_packet \o NextPart(rx_ring)
           rest == AfterPart(rx_ring)
           n == Len(units)
<1>1. /\ works # << >> /\ Head(works) = "rx" /\ rx_ring' = rest
      /\ works' = IF rx_ring' = << >> THEN Tail(works) ELSE works
      /\ UNCHANGED << tx_claimed, connected, to_device, to_host, host_vars, cuts >>
      /\ \/ Last(units).at = "head" /\ rx_packet' = units /\ Ignore /\ UNCHANGED << bad, shortages >>
         \/ /\ Last(units).at = "tail" /\ rx_packet' = << >>
            /\ \/ /\ ~IsIntact(units) /\ bad' = [bad EXCEPT !.device = @ + 1] /\ Ignore
               \/ /\ IsIntact(units)
                  /\ \E taken \in 0 .. Buffers : Handle(Last(units).packet, taken)
                  /\ UNCHANGED bad
  BY DEF fd_rpc_channel_received_data, AfterPacket
<1>2. UnitsTyped /\ ServerSound /\ LeaksBounded /\ HostFramed /\ DeviceFramed /\ WorksOnce
  BY DEF CallInv
<1>3. rx_packet \in Seq(S) /\ HeadsOnly(rx_packet) /\ rx_ring \in Seq(S) /\ to_device \in Seq(S)
  BY <1>2 DEF UnitsTyped
<1>4. rx_ring # << >>
  <2>1. 1 \in 1 .. Len(works) /\ works[1] = "rx"
    BY <1>1, <1>2, EmptySeq, HeadTailProperties DEF WorksOnce
  <2> QED
    BY <1>2, <2>1 DEF WorksOnce, HasRx
<1>5. /\ units \in Seq(S) /\ rest \in Seq(S)
      /\ n \in Nat \ {0} /\ Last(units) = units[n] /\ Last(units) \in S
      /\ \A i \in 1 .. n - 1 : units[i].at = "head"
      /\ Last(units).at = "head" => HeadsOnly(units)
      /\ (units \o rest) \o to_device = ToDevice
      /\ units \o (rest \o to_device) = ToDevice
  <2> DEFINE r == to_device
             b == rx_packet
             q == rx_ring
  <2>1. /\ units = b \o NextPart(q) /\ rest = AfterPart(q) /\ n = Len(units)
        /\ b \in Seq(S) /\ HeadsOnly(b) /\ q \in Seq(S) /\ q # << >> /\ r \in Seq(S)
        /\ ToDevice = (b \o q) \o r
    BY <1>3, <1>4 DEF ToDevice
  <2> HIDE DEF units, rest, n, r, b, q, P
  <2>2. ReadOf(b, q, r, units, rest, P)
    BY ONLY <2>1, UnitsRead, Zenon
  <2> QED
    BY <2>1, <2>2 DEF ReadOf, r
<1> HIDE DEF units, rest, n
<1>6. WorksOnce'
  <2>1. CASE rx_ring' = << >>
    <3>1. works' = Tail(works) /\ works \in Seq(Works) /\ RxOnce(works)
      BY <1>1, <1>2, <2>1 DEF WorksOnce
    <3>2. works' \in Seq(Works) /\ RxOnce(works') /\ ~HasRx(works')
      BY <1>1, <3>1, TailFacts
    <3> QED
      BY <3>2 DEF WorksOnce
  <2>2. CASE rx_ring' # << >>
    BY <1>1, <1>2, <2>2 DEF WorksOnce
  <2> QED
    BY <2>1, <2>2
<1>7. Last(units).at \in {"head", "tail"} /\ Last(units).packet \in P
  BY <1>5 DEF UnitsOf
<1>8. Served
  <2>1. CASE Ignore
    BY <1>2, <2>1, IgnoreServes
  <2>2. CASE \E taken \in 0 .. Buffers : Handle(Last(units).packet, taken)
    BY <1>2, <1>7, <2>2, HandleServes
  <2> QED
    BY <1>1, <2>1, <2>2
<1>9. bad' \in [device : Nat, host : Nat] /\ bad'.host = bad.host
  BY <1>1, <1>2 DEF DeviceFramed
<1>10. /\ tx_ring' \in Seq(UnitsOf(Responses(session))) /\ Len(tx_ring') <= TxSize
       /\ HostFramed'
  BY <1>1, <1>2, <1>8, <1>9, AnsweredUnits DEF Served, host_vars
<1>11. rx_packet' \in Seq(S) /\ HeadsOnly(rx_packet')
  <2>1. HeadsOnly(<< >>) /\ << >> \in Seq(S)
    BY DEF HeadsOnly
  <2> QED
    BY <1>1, <1>5, <2>1
<1>12. UnitsTyped'
  BY <1>1, <1>2, <1>3, <1>5, <1>10, <1>11 DEF UnitsTyped, host_vars
<1>13. /\ DeviceFramed'
       /\ (ToDevice' = ToDevice /\ Ignore) \/ \E k \in 1 .. Len(ToDevice) : HandledPart(k)
  <2>1. CASE Last(units).at = "head"
    <3>1. ToDevice' = (units \o rest) \o to_device /\ UNCHANGED bad /\ Ignore
      BY <1>1, <2>1 DEF ToDevice
    <3> QED
      BY <1>1, <1>2, <1>5, <1>9, <3>1, DeviceKept
  <2>2. CASE Last(units).at = "tail"
    <3> DEFINE r == rest \o to_device
               q == ToDevice
    <3>1. r \in Seq(S) /\ units \in Seq(S) /\ q = units \o r
      BY <1>3, <1>5, ConcatProperties
    <3>2. ToDevice' = r
      <4>1. ToDevice' = (<< >> \o rest) \o to_device
        BY <1>1, <2>2 DEF ToDevice
      <4>2. << >> \o rest = rest
        BY <1>5, ConcatEmptySeq
      <4> QED
        BY <4>1, <4>2
    <3> HIDE DEF r, q, S
    <3>3. TwoOf(units, r, q, S)
      BY ONLY <3>1, TwoParts
    <3>4. /\ q \in Seq(S) /\ n \in 1 .. Len(q) /\ Begins(units, q, n) /\ Dropped(r, q, n)
          /\ \A i \in 1 .. n : units[i] = q[i]
      BY <1>5, <3>3 DEF TwoOf, Begins, n
    <3>5. q[n].at = "tail" /\ \A i \in 1 .. n - 1 : q[i].at # "tail"
      <4>1. \A i \in 1 .. n - 1 : i \in 1 .. n
        BY <1>5
      <4>2. n \in 1 .. n
        BY <1>5
      <4> QED
        BY <1>5, <2>2, <3>4, <4>1, <4>2
    <3>6. Paired(q)
      BY <1>2 DEF DeviceFramed, q
    <3>7. /\ Paired(r)
          /\ Cardinality(Stray(r)) <= Cardinality(Stray(q))
          /\ ~IsIntact(units) => Cardinality(Stray(r)) + 1 <= Cardinality(Stray(q))
      BY <3>1, <3>4, <3>5, <3>6, PartConsumed DEF S
    <3> DEFINE x == Cardinality(Stray(q))
               y == Cardinality(Stray(r))
    <3>8. x \in Nat /\ y \in Nat
      BY <3>1, <3>4, StrayIsFinite, LenProperties
    <3>9. cuts \in Nat /\ bad.device \in Nat /\ bad.device + x <= cuts
      BY <1>2 DEF DeviceFramed, q
    <3>10. bad'.device = IF IsIntact(units) THEN bad.device ELSE bad.device + 1
      BY <1>1, <1>2, <2>2 DEF DeviceFramed
    <3>11. bad'.device + y <= cuts
      <4> HIDE DEF x, y
      <4>1. y <= x /\ (~IsIntact(units) => y + 1 <= x)
        BY <3>7 DEF x, y
      <4> DEFINE d == bad.device
                 e == bad'.device
      <4>2. d \in Nat /\ d + x <= cuts /\ (e = d \/ (e = d + 1 /\ y + 1 <= x))
        BY <3>9, <3>10, <4>1
      <4> HIDE DEF d, e
      <4>3. e + y <= cuts
        BY <3>8, <3>9, <4>1, <4>2
      <4> QED
        BY <4>3 DEF e
    <3>12. DeviceFramed'
      BY <1>1, <1>9, <3>2, <3>7, <3>9, <3>11 DEF DeviceFramed
    <3>13. HandledPart(n) /\ n \in 1 .. Len(ToDevice)
      <4>1. Last(units) = ToDevice[n] /\ n \in 1 .. Len(ToDevice)
        BY <1>5, <3>4 DEF q
      <4>2. Ignore \/ \E taken \in 0 .. Buffers : Handle(ToDevice[n].packet, taken)
        BY <1>1, <2>2, <4>1
      <4> QED
        BY <3>2, <3>4, <3>5, <4>1, <4>2 DEF HandledPart, q
    <3> QED
      BY <3>12, <3>13
  <2> QED
    BY <1>7, <2>1, <2>2
<1>14. ServerSound' /\ LeaksBounded'
  BY <1>1, <1>8 DEF Served, ServerSound, LeaksBounded, host_vars
<1>15. ClientSound' /\ AnswersOwnCall'
  BY <1>1, ClientKept DEF CallInv, host_vars
<1> QED
  BY <1>6, <1>10, <1>12, <1>13, <1>14, <1>15 DEF CallInv

-----------------------------------------------------------------------------
(* The host. *)

\* A call sends a packet in its frame and changes only the state of the client.
LEMMA Sends ==
  ASSUME CallInv, NEW packet \in Requests(session), Send(packet), UnchangedInCall
  PROVE  /\ UnitsTyped' /\ WorksOnce' /\ DeviceFramed' /\ HostFramed'
         /\ ServerSound' /\ LeaksBounded' /\ AnswersOwnCall'
         /\ ToDevice' = ToDevice \o Frame(packet)
<1> DEFINE P == Requests(session)
           S == UnitsOf(P)
           f == Frame(packet)
           x == rx_packet \o rx_ring
           q == ToDevice
           r == q \o f
<1>1. UnitsTyped /\ DeviceFramed /\ HostFramed /\ ServerSound /\ LeaksBounded
  BY DEF CallInv
<1>2. rx_packet \in Seq(S) /\ rx_ring \in Seq(S) /\ to_device \in Seq(S)
  BY <1>1 DEF UnitsTyped
<1>3. /\ to_device' = to_device \o f
      /\ UNCHANGED << session, host_buffer, dtr, answers, to_host, channel_vars, server_vars, fault_vars >>
  BY DEF Send, UnchangedInCall
<1>4. f \in Seq(S)
  BY FrameFacts
<1>5. q = x \o to_device
  BY DEF ToDevice
<1>6. ToDevice' = x \o (to_device \o f)
  BY <1>3 DEF ToDevice, channel_vars
<1>7. x \in Seq(S)
  BY <1>2, ConcatProperties
<1> HIDE DEF S, x, q
<1>8. to_device' \in Seq(S) /\ q \in Seq(S)
  BY <1>2, <1>3, <1>4, <1>5, <1>7, ConcatProperties
<1>9. ToDevice' = r
  <2>1. x \in Seq(S) /\ to_device \in Seq(S) /\ f \in Seq(S)
    BY <1>2, <1>4, <1>7
  <2> HIDE DEF f
  <2>2. (x \o to_device) \o f = x \o (to_device \o f)
    BY ONLY <2>1, Assoc
  <2> QED
    BY <1>5, <1>6, <2>2
<1>10. DeviceFramed'
  <2>1. Paired(q) /\ q \in Seq(UnitsOf(P)) /\ r = q \o Frame(packet)
    BY <1>1, <1>8 DEF DeviceFramed, q, S
  <2>2. SentBehind(q, r)
    <3> HIDE DEF r, P, f
    <3>1. packet \in P
      BY DEF P
    <3> QED
      BY ONLY <2>1, <3>1, PacketSent, Zenon
  <2> HIDE DEF r
  <2> QED
    BY <1>1, <1>3, <1>9, <2>2 DEF DeviceFramed, SentBehind, fault_vars, q
<1>11. UnitsTyped'
  BY <1>1, <1>3, <1>8 DEF UnitsTyped, channel_vars, S
<1>12. WorksOnce' /\ HostFramed' /\ AnswersOwnCall'
  BY <1>3, HostKept DEF CallInv, WorksOnce, channel_vars, fault_vars, ToHost, AnswersOwnCall
<1>13. ServerSound' /\ LeaksBounded'
  BY <1>1, <1>3, ServerKept DEF server_vars
<1> QED
  BY <1>9, <1>10, <1>11, <1>12, <1>13 DEF q

\* A call of the program that runs.
LEMMA NewCallFacts ==
  ASSUME CallInv, CanCall, NEW method \in Methods
  PROVE  /\ NewCall(method) \in CallsTo(session) /\ NewCall(method).session = session
         /\ NewCall(method).method = method
         /\ \A asked \in BOOLEAN :
              [Context(NewCall(method)) EXCEPT !.requested = asked] =
                [call |-> NewCall(method), got |-> << >>, requested |-> asked]
         /\ Context(NewCall(method)) = [call |-> NewCall(method), got |-> << >>, requested |-> FALSE]
<1>1. dtr /\ session \in Nat /\ session >= 1 /\ next_invocation \in Nat
  BY DEF CallInv, CanCall, ClientSound, UnitsTyped
<1> QED
  BY <1>1 DEF NewCall, CallsTo, Context

\* The packets that the host sends.
LEMMA RequestFacts ==
  ASSUME NEW call \in CallsTo(session)
  PROVE  /\ Request("server_request", call) \in Requests(session)
         /\ Request("server_finalize", call) \in Requests(session)
         /\ Streaming(call.method) => Request("server_initialize", call) \in Requests(session)
  BY DEF Request, Requests

\* The client has one more context, for a new call.
LEMMA ContextAdded ==
  ASSUME ClientSound, UnitsTyped, NEW call \in CallsTo(session), call.session = session, NEW asked \in BOOLEAN,
         next_invocation' \in Nat, UNCHANGED << session, dtr >>, dtr,
         waiting' \in {waiting, call},
         client_contexts' = client_contexts \union {[call |-> call, got |-> << >>, requested |-> asked]}
  PROVE  ClientSound'
<1> DEFINE new == [call |-> call, got |-> << >>, requested |-> asked]
<1>1. new \in [call : CallsTo(session), got : Seq(Responses(session)), requested : BOOLEAN]
  OBVIOUS
<1>2. new.call.session = session /\ Len(new.got) = 0
  OBVIOUS
<1>3. \A i \in 1 .. Len(new.got) : IsFor(new, new.got[i].call)
  BY <1>2
<1> HIDE DEF new
<1>4. client_contexts' = client_contexts \union {new}
  BY DEF new
<1> QED
  BY <1>1, <1>2, <1>3, <1>4 DEF ClientSound

\* A call starts: a context and a packet.
LEMMA CallKeeps ==
  ASSUME CallInv, NEW method \in Methods,
         unary_call(method) \/ server_streaming_initialize(method) \/ server_streaming_call(method)
  PROVE  CallInv'
<1> DEFINE call == NewCall(method)
<1>1. CanCall /\ next_invocation' = next_invocation + 1 /\ UnchangedInCall
  BY DEF unary_call, server_streaming_initialize, server_streaming_call
<1>2. /\ call \in CallsTo(session) /\ call.session = session /\ call.method = method
      /\ \A asked \in BOOLEAN :
           [Context(call) EXCEPT !.requested = asked] = [call |-> call, got |-> << >>, requested |-> asked]
      /\ Context(call) = [call |-> call, got |-> << >>, requested |-> FALSE]
  BY <1>1, NewCallFacts
<1>3. /\ waiting' \in {waiting, call}
      /\ \/ Send(Request("server_request", call))
         \/ Send(Request("server_initialize", call)) /\ Streaming(method)
      /\ \E asked \in BOOLEAN :
           client_contexts' = client_contexts \union {[call |-> call, got |-> << >>, requested |-> asked]}
  <2>1. CASE unary_call(method)
    BY <1>2, <2>1 DEF unary_call
  <2>2. CASE server_streaming_initialize(method)
    BY <1>2, <2>2 DEF server_streaming_initialize
  <2>3. CASE server_streaming_call(method)
    BY <1>2, <2>3 DEF server_streaming_call
  <2> QED
    BY <2>1, <2>2, <2>3
<1> HIDE DEF call
<1>4. dtr /\ UNCHANGED << session, dtr >> /\ next_invocation' \in Nat /\ ClientSound /\ UnitsTyped
  BY <1>1 DEF CallInv, CanCall, UnchangedInCall, ClientSound
<1>5. ClientSound'
  BY <1>2, <1>3, <1>4, ContextAdded
<1>6. PICK packet \in Requests(session) : Send(packet)
  BY <1>2, <1>3, RequestFacts
<1> QED
  BY <1>1, <1>5, <1>6, Sends DEF CallInv

\* A unary call returns a response that its own context was given, or times out.
LEMMA ReturnKeeps ==
  ASSUME CallInv, unary_call_returns
  PROVE  CallInv'
<1>1. PICK context \in client_contexts :
         /\ waiting # None /\ context.call = waiting
         /\ \/ UNCHANGED answers
            \/ /\ context.got # << >>
               /\ answers' = answers \union {[call |-> waiting, by |-> Head(context.got).call]}
  BY DEF unary_call_returns
<1>2. /\ client_contexts' = WithoutCall(waiting) /\ waiting' = None
      /\ UNCHANGED << session, next_invocation, host_buffer, dtr, packets, to_device, to_host,
                      channel_vars, server_vars, fault_vars >>
  BY DEF unary_call_returns
<1>3. ClientSound /\ AnswersOwnCall /\ UnitsTyped
  BY DEF CallInv
<1>4. ClientSound'
  BY <1>2, <1>3 DEF ClientSound, WithoutCall
<1>5. AnswersOwnCall'
  <2>1. CASE UNCHANGED answers
    BY <1>3, <2>1 DEF AnswersOwnCall
  <2>2. CASE /\ context.got # << >>
             /\ answers' = answers \union {[call |-> waiting, by |-> Head(context.got).call]}
    <3> DEFINE by == Head(context.got).call
               answer == [call |-> waiting, by |-> by]
    <3>1. /\ context.got \in Seq(Responses(session)) /\ context.call \in CallsTo(session)
          /\ context.call.session = session
          /\ \A i \in 1 .. Len(context.got) : IsFor(context, context.got[i].call)
      BY <1>3 DEF ClientSound
    <3>2. 1 \in 1 .. Len(context.got) /\ Head(context.got) = context.got[1] /\ context.got[1] \in Responses(session)
      BY <2>2, <3>1, EmptySeq, HeadTailProperties
    <3>3. by \in CallsTo(session) /\ IsFor(context, by)
      BY <3>1, <3>2 DEF Responses
    <3> HIDE DEF by
    <3>4. by.method = waiting.method /\ by.invocation = waiting.invocation
      BY <1>1, <3>3 DEF IsFor
    <3>5. waiting \in CallsTo(session) /\ waiting.session = session /\ session \in Nat
      BY <1>1, <1>3, <3>1 DEF UnitsTyped
    <3>6. by.session = waiting.session => by = waiting
      BY <3>3, <3>4, <3>5 DEF CallsTo
    <3>7. by.session # waiting.session => by.session < waiting.session
      BY <3>3, <3>5 DEF CallsTo
    <3>8. answer.by = answer.call \/ answer.by.session < answer.call.session
      BY <3>6, <3>7
    <3>9. answers' = answers \union {answer}
      BY <2>2 DEF by
    <3> HIDE DEF answer
    <3> QED
      BY <1>3, <3>8, <3>9 DEF AnswersOwnCall
  <2> QED
    BY <1>1, <2>1, <2>2
<1>6. UnitsTyped' /\ WorksOnce'
  BY <1>2, <1>3 DEF CallInv, UnitsTyped, WorksOnce, channel_vars
<1>7. DeviceFramed' /\ HostFramed'
  BY <1>2, DeviceKept, HostKept DEF CallInv, fault_vars, channel_vars, ToDevice, ToHost, DeviceFramed
<1>8. ServerSound' /\ LeaksBounded'
  BY <1>2, ServerKept DEF CallInv, server_vars
<1> QED
  BY <1>4, <1>5, <1>6, <1>7, <1>8 DEF CallInv

\* A stream of the host goes on or ends.
LEMMA StreamCallKeeps ==
  ASSUME CallInv, NEW context \in client_contexts,
         server_streaming_request(context) \/ server_streaming_finalize(context)
  PROVE  CallInv'
<1>1. ClientSound /\ context.call \in CallsTo(session) /\ context \in [call : CallsTo(session), got : Seq(Responses(session)), requested : BOOLEAN]
  BY DEF CallInv, ClientSound
<1>2. /\ dtr /\ UNCHANGED << next_invocation, waiting >> /\ UnchangedInCall
      /\ \/ client_contexts' = (client_contexts \ {context}) \union {[context EXCEPT !.requested = TRUE]}
         \/ client_contexts' = client_contexts \ {context}
      /\ \/ Send(Request("server_request", context.call))
         \/ Send(Request("server_finalize", context.call))
  BY DEF server_streaming_request, server_streaming_finalize
<1>3. UNCHANGED << session, dtr >>
  BY <1>2 DEF UnchangedInCall
<1>4. ClientSound'
  <2> DEFINE asked == [context EXCEPT !.requested = TRUE]
  <2>1. /\ asked \in [call : CallsTo(session), got : Seq(Responses(session)), requested : BOOLEAN]
        /\ asked.call = context.call /\ asked.got = context.got
    BY <1>1
  <2>2. context.call.session = session /\ \A i \in 1 .. Len(context.got) : IsFor(context, context.got[i].call)
    BY <1>1 DEF ClientSound
  <2>3. \A i \in 1 .. Len(asked.got) : IsFor(asked, asked.got[i].call)
    BY <2>1, <2>2 DEF IsFor
  <2>4. client_contexts' \subseteq client_contexts \union {asked}
    BY <1>2
  <2> HIDE DEF asked
  <2> QED
    BY <1>1, <1>2, <1>3, <2>1, <2>2, <2>3, <2>4 DEF ClientSound
<1>5. PICK packet \in Requests(session) : Send(packet)
  BY <1>1, <1>2, RequestFacts
<1> QED
  BY <1>2, <1>4, <1>5, Sends DEF CallInv

\* A response is given to the contexts it is for.
LEMMA ResponseKeeps ==
  ASSUME ClientSound, NEW packet \in Responses(session), dtr,
         UNCHANGED << session, next_invocation, waiting, dtr >>,
         transport_client_response(packet) \/ UNCHANGED client_contexts
  PROVE  ClientSound'
<1>1. CASE UNCHANGED client_contexts
  BY <1>1 DEF ClientSound
<1>2. CASE transport_client_response(packet)
  <2>1. ASSUME NEW d \in client_contexts'
        PROVE  /\ d \in [call : CallsTo(session), got : Seq(Responses(session)), requested : BOOLEAN]
               /\ d.call.session = session
               /\ \A i \in 1 .. Len(d.got) : IsFor(d, d.got[i].call)
    <3>1. PICK c \in client_contexts :
             d = IF IsFor(c, packet.call) THEN [c EXCEPT !.got = Append(@, packet)] ELSE c
      BY <1>2 DEF transport_client_response
    <3>2. /\ c \in [call : CallsTo(session), got : Seq(Responses(session)), requested : BOOLEAN]
          /\ c.call.session = session
          /\ \A i \in 1 .. Len(c.got) : IsFor(c, c.got[i].call)
      BY DEF ClientSound
    <3>3. CASE ~IsFor(c, packet.call)
      BY <3>1, <3>2, <3>3
    <3>4. CASE IsFor(c, packet.call)
      <4> DEFINE got == Append(c.got, packet)
                 n == Len(c.got)
      <4>1. /\ got \in Seq(Responses(session)) /\ Len(got) = n + 1 /\ got[n + 1] = packet
            /\ \A i \in 1 .. n : got[i] = c.got[i]
        BY <3>2, AppendProperties
      <4>2. n \in Nat
        BY <3>2, LenProperties
      <4>3. d = [c EXCEPT !.got = got]
        BY <3>1, <3>4
      <4>6. c.got \in Seq(Responses(session)) /\ n = Len(c.got)
        BY <3>2
      <4> HIDE DEF got, n
      <4>4. d.got = got /\ d.call = c.call
            /\ d \in [call : CallsTo(session), got : Seq(Responses(session)), requested : BOOLEAN]
        BY <3>2, <4>1, <4>3
      <4>5. ASSUME NEW i \in 1 .. n + 1 PROVE IsFor(d, got[i].call)
        <5>1. i \in 1 .. n \/ i = n + 1
          BY <4>2
        <5>2. IsFor(c, got[i].call)
          BY <3>2, <3>4, <4>1, <4>6, <5>1
        <5> QED
          BY <4>4, <5>2 DEF IsFor
      <4> QED
        BY <3>2, <4>1, <4>4, <4>5
    <3> QED
      BY <3>3, <3>4
  <2> QED
    BY <2>1 DEF ClientSound
<1> QED
  BY <1>1, <1>2

\* The first k units were read: a tail without its head, or a packet.
ReadPart(k) ==
  /\ Dropped(ToHost', ToHost, k) /\ ToHost[k].at = "tail"
  /\ \/ k = 1 /\ UNCHANGED client_contexts
     \/ /\ k = 2 /\ ToHost[1].at = "head" /\ ToHost[1].packet = ToHost[2].packet
        /\ transport_client_response(ToHost[2].packet)

\* The receiving thread of the host.
LEMMA ReadKeeps ==
  ASSUME CallInv, StreamChannel_read
  PROVE  /\ CallInv'
         /\ (ToHost' = ToHost /\ UNCHANGED client_contexts) \/ \E k \in 1 .. Len(ToHost) : ReadPart(k)
<1> DEFINE P == Responses(session)
           S == UnitsOf(P)
           units == host_buffer \o NextPart(to_host)
           rest == AfterPart(to_host)
           n == Len(units)
<1>1. /\ dtr /\ to_host # << >> /\ to_host' = rest
      /\ UNCHANGED << session, next_invocation, waiting, dtr, packets, answers, to_device, channel_vars,
                      server_vars, shortages, cuts >>
      /\ \/ Last(units).at = "head" /\ host_buffer' = units /\ UNCHANGED << client_contexts, bad >>
         \/ /\ Last(units).at = "tail" /\ host_buffer' = << >>
            /\ \/ ~IsIntact(units) /\ UNCHANGED client_contexts /\ bad' = [bad EXCEPT !.host = @ + 1]
               \/ IsIntact(units) /\ transport_client_response(Last(units).packet) /\ UNCHANGED bad
  BY DEF StreamChannel_read
<1>2. UnitsTyped /\ HostFramed /\ DeviceFramed /\ ClientSound
  BY DEF CallInv
<1>3. host_buffer \in Seq(S) /\ HeadsOnly(host_buffer) /\ to_host \in Seq(S) /\ tx_ring \in Seq(S)
  BY <1>2 DEF UnitsTyped
<1>4. /\ units \in Seq(S) /\ rest \in Seq(S)
      /\ n \in Nat \ {0} /\ Last(units) = units[n] /\ Last(units) \in S
      /\ \A i \in 1 .. n - 1 : units[i].at = "head"
      /\ Last(units).at = "head" => HeadsOnly(units)
      /\ (units \o rest) \o tx_ring = ToHost
      /\ units \o (rest \o tx_ring) = ToHost
  <2> DEFINE r == tx_ring
             b == host_buffer
             q == to_host
  <2>1. /\ units = b \o NextPart(q) /\ rest = AfterPart(q) /\ n = Len(units)
        /\ b \in Seq(S) /\ HeadsOnly(b) /\ q \in Seq(S) /\ q # << >> /\ r \in Seq(S)
        /\ ToHost = (b \o q) \o r
    BY <1>1, <1>3 DEF ToHost
  <2> HIDE DEF units, rest, n, r, b, q, P
  <2>2. ReadOf(b, q, r, units, rest, P)
    BY ONLY <2>1, UnitsRead, Zenon
  <2> QED
    BY <2>1, <2>2 DEF ReadOf, r
<1> HIDE DEF units, rest, n
<1>5. Last(units).at \in {"head", "tail"} /\ Last(units).packet \in P
  BY <1>4 DEF UnitsOf
<1>6. bad' \in [device : Nat, host : Nat] /\ bad'.device = bad.device
  BY <1>1, <1>2 DEF DeviceFramed
<1>7. host_buffer' \in Seq(S) /\ HeadsOnly(host_buffer')
  <2>1. HeadsOnly(<< >>) /\ << >> \in Seq(S)
    BY DEF HeadsOnly
  <2> QED
    BY <1>1, <1>4, <2>1
<1>8. UnitsTyped'
  BY <1>1, <1>2, <1>3, <1>4, <1>7 DEF UnitsTyped, channel_vars
<1>9. /\ HostFramed'
      /\ (ToHost' = ToHost /\ UNCHANGED client_contexts) \/ \E k \in 1 .. Len(ToHost) : ReadPart(k)
  <2>1. CASE Last(units).at = "head"
    <3>1. ToHost' = (units \o rest) \o tx_ring /\ UNCHANGED << bad, client_contexts >>
      BY <1>1, <2>1 DEF ToHost, channel_vars
    <3> QED
      BY <1>1, <1>2, <1>4, <3>1, HostKept
  <2>2. CASE Last(units).at = "tail"
    <3> DEFINE r == rest \o tx_ring
               q == ToHost
    <3>1. r \in Seq(S) /\ units \in Seq(S) /\ q = units \o r
      BY <1>3, <1>4, ConcatProperties
    <3>2. ToHost' = r
      <4>1. ToHost' = (<< >> \o rest) \o tx_ring
        BY <1>1, <2>2 DEF ToHost, channel_vars
      <4>2. << >> \o rest = rest
        BY <1>4, ConcatEmptySeq
      <4> QED
        BY <4>1, <4>2
    <3> HIDE DEF r, q, S
    <3>3. TwoOf(units, r, q, S)
      BY ONLY <3>1, TwoParts
    <3>4. /\ q \in Seq(S) /\ n \in 1 .. Len(q) /\ Begins(units, q, n) /\ Dropped(r, q, n)
          /\ \A i \in 1 .. n : units[i] = q[i]
      <4>1. n \in Nat \ {0} /\ n = Len(units)
        BY <1>4 DEF n
      <4>2. /\ q \in Seq(S) /\ n <= Len(q) /\ Len(q) \in Nat /\ Begins(units, q, n) /\ Dropped(r, q, n)
        BY <3>3, <4>1 DEF TwoOf, Begins
      <4>3. \A i \in 1 .. n : units[i] = q[i]
        BY <4>2 DEF Begins
      <4> HIDE DEF n
      <4>4. n \in 1 .. Len(q)
        BY ONLY <4>1, <4>2
      <4> QED
        BY <4>2, <4>3, <4>4
    <3>5. q[n].at = "tail" /\ \A i \in 1 .. n - 1 : q[i].at # "tail"
      <4>1. \A i \in 1 .. n - 1 : i \in 1 .. n
        BY <1>4
      <4>2. n \in 1 .. n
        BY <1>4
      <4> QED
        BY <1>4, <2>2, <3>4, <4>1, <4>2
    <3>6. Whole(q)
      BY <1>2 DEF HostFramed, q
    <3>7. Whole(r) /\ Orphan(r) = 0 /\ (~IsIntact(units) => Orphan(q) = 1)
      <4>1. r \in Seq(UnitsOf(P)) /\ units \in Seq(UnitsOf(P)) /\ q \in Seq(UnitsOf(P))
        BY <3>1, <3>4 DEF S
      <4> HIDE DEF P
      <4> QED
        BY ONLY <4>1, <3>4, <3>5, <3>6, PartRead, Zenon
    <3>8. Orphan(q) \in {0, 1}
      BY DEF Orphan
    <3>9. cuts \in Nat /\ bad.host \in Nat /\ bad.host + Orphan(q) <= cuts
      BY <1>2 DEF DeviceFramed, HostFramed, q
    <3>10. bad'.host = IF IsIntact(units) THEN bad.host ELSE bad.host + 1
      BY <1>1, <1>2, <2>2 DEF DeviceFramed
    <3>11. bad'.host + Orphan(r) <= cuts
      <4> DEFINE d == bad.host
                 e == bad'.host
                 x == Orphan(q)
                 y == Orphan(r)
      <4>1. /\ d \in Nat /\ x \in {0, 1} /\ y = 0 /\ d + x <= cuts
            /\ e = d \/ (e = d + 1 /\ x = 1)
        BY <3>7, <3>8, <3>9, <3>10
      <4> HIDE DEF d, e, x, y
      <4>2. e + y <= cuts
        BY <3>9, <4>1
      <4> QED
        BY <4>2 DEF e, y
    <3>12. HostFramed'
      BY <1>1, <3>2, <3>7, <3>11 DEF HostFramed
    <3>13. ReadPart(n) /\ n \in 1 .. Len(ToHost)
      <4>1. q = ToHost /\ Last(units) = q[n] /\ n \in 1 .. Len(q) /\ n \in Nat \ {0}
        BY <1>4, <3>4 DEF q
      <4>2. CASE ~IsIntact(units)
        <5>1. q[1].at = "tail"
          BY <3>7, <4>2 DEF Orphan
        <5>2. n = 1
          BY <3>5, <4>1, <5>1
        <5> QED
          BY <1>1, <2>2, <3>2, <3>4, <3>5, <4>1, <4>2, <5>2 DEF ReadPart
      <4>3. CASE IsIntact(units)
        <5> DEFINE p == Last(units).packet
        <5>1. units = Frame(p) /\ p \in P
          BY <1>5, <4>3 DEF IsIntact
        <5>2. n = 2 /\ units[1] = [at |-> "head", packet |-> p] /\ units[2] = [at |-> "tail", packet |-> p]
          BY <5>1, FrameFacts DEF n
        <5>3. q[1].at = "head" /\ q[1].packet = p /\ q[2].packet = p
          BY <3>4, <5>2
        <5> QED
          BY <1>1, <2>2, <3>2, <3>4, <3>5, <4>1, <4>3, <5>2, <5>3 DEF ReadPart
      <4> QED
        BY <4>2, <4>3
    <3> QED
      BY <3>12, <3>13
  <2> QED
    BY <1>5, <2>1, <2>2
<1>10. DeviceFramed'
  BY <1>1, <1>2, <1>6, DeviceKept DEF ToDevice, channel_vars
<1>11. ClientSound'
  BY <1>1, <1>2, <1>5, ResponseKeeps
<1>12. WorksOnce' /\ ServerSound' /\ LeaksBounded' /\ AnswersOwnCall'
  BY <1>1, ServerKept DEF CallInv, WorksOnce, channel_vars, server_vars, AnswersOwnCall
<1> QED
  BY <1>8, <1>9, <1>10, <1>11, <1>12 DEF CallInv

\* What was typed for the programs so far is typed for one more.
LEMMA NextSession ==
  ASSUME NEW n \in Nat
  PROVE  /\ CallsTo(n) \subseteq CallsTo(n + 1)
         /\ Seq(UnitsOf(Requests(n))) \subseteq Seq(UnitsOf(Requests(n + 1)))
         /\ Seq(UnitsOf(Responses(n))) \subseteq Seq(UnitsOf(Responses(n + 1)))
<1>1. CallsTo(n) \subseteq CallsTo(n + 1)
  <2>1. 1 .. n \subseteq 1 .. n + 1
    OBVIOUS
  <2> QED
    BY <2>1 DEF CallsTo
<1>2. Requests(n) \subseteq Requests(n + 1) /\ Responses(n) \subseteq Responses(n + 1)
  BY <1>1 DEF Requests, Responses
<1>3. /\ UnitsOf(Requests(n)) \subseteq UnitsOf(Requests(n + 1))
      /\ UnitsOf(Responses(n)) \subseteq UnitsOf(Responses(n + 1))
  BY <1>2 DEF UnitsOf
<1>4. ASSUME NEW A, NEW B, A \subseteq B, NEW s \in Seq(A) PROVE s \in Seq(B)
  <2>1. Len(s) \in Nat /\ s = [i \in 1 .. Len(s) |-> s[i]] /\ \A i \in 1 .. Len(s) : s[i] \in B
    BY <1>4, ElementOfSeq
  <2> QED
    BY <2>1, SeqDef
<1> QED
  BY <1>1, <1>3, <1>4

\* The next program finds units and contexts of the earlier ones.
LEMMA RunClientKeeps ==
  ASSUME CallInv, run_client
  PROVE  CallInv'
<1>1. /\ ~dtr /\ dtr' = TRUE /\ session' = session + 1 /\ next_invocation' = 0
      /\ UNCHANGED << client_contexts, waiting, host_buffer, packets, answers, to_device, to_host,
                      channel_vars, server_vars, fault_vars >>
  BY DEF run_client
<1>2. UnitsTyped /\ ServerSound /\ LeaksBounded /\ ClientSound /\ WorksOnce
  BY DEF CallInv
<1>3. session \in Nat
  BY <1>2 DEF UnitsTyped
<1>4. /\ CallsTo(session) \subseteq CallsTo(session')
      /\ Seq(UnitsOf(Requests(session))) \subseteq Seq(UnitsOf(Requests(session')))
      /\ Seq(UnitsOf(Responses(session))) \subseteq Seq(UnitsOf(Responses(session')))
  BY <1>1, <1>3, NextSession
<1>5. UnitsTyped'
  <2>1. session' \in Nat
    BY <1>1, <1>3
  <2> QED
    BY <1>1, <1>2, <1>4, <2>1 DEF UnitsTyped, channel_vars
<1>6. ServerSound' /\ LeaksBounded'
  <2>1. server_contexts' \in [Slots -> {None} \cup CallsTo(session')]
    BY <1>1, <1>2, <1>4 DEF ServerSound, ServerFor, server_vars
  <2> QED
    BY <1>1, <1>2, <2>1 DEF ServerSound, ServerFor, LeaksBounded, server_vars
<1>7. ClientSound'
  <2>1. client_contexts' = {} /\ waiting' = None /\ next_invocation' \in Nat /\ dtr' = TRUE
    BY <1>1, <1>2 DEF ClientSound
  <2>2. session' >= 1
    BY <1>1, <1>3
  <2> QED
    BY <2>1, <2>2 DEF ClientSound
<1>8. DeviceFramed' /\ HostFramed'
  BY <1>1, DeviceKept, HostKept DEF CallInv, fault_vars, channel_vars, ToDevice, ToHost, DeviceFramed
<1>9. WorksOnce' /\ AnswersOwnCall'
  BY <1>1 DEF CallInv, WorksOnce, channel_vars, AnswersOwnCall
<1> QED
  BY <1>5, <1>6, <1>7, <1>8, <1>9 DEF CallInv

\* A program stops: the end of what it sent is lost, and the front of what it had to read.
LEMMA StopsKeeps ==
  ASSUME CallInv, Stops
  PROVE  /\ CallInv'
         /\ \E k \in 0 .. Len(ToDevice) : Begins(ToDevice', ToDevice, k)
         /\ \E k \in 0 .. Len(ToHost) : Dropped(ToHost', ToHost, k)
<1> DEFINE S == UnitsOf(Requests(session))
           T == UnitsOf(Responses(session))
<1>1. /\ dtr /\ dtr' = FALSE /\ client_contexts' = {} /\ waiting' = None /\ host_buffer' = << >>
      /\ cuts' = cuts + 1
      /\ UNCHANGED << session, next_invocation, packets, answers, channel_vars, server_vars, bad, shortages >>
  BY DEF Stops
<1>2. PICK sent \in 0 .. Len(to_device) : to_device' = SubSeq(to_device, 1, sent)
  BY DEF Stops
<1>3. PICK read \in 0 .. Len(to_host) : to_host' = SubSeq(to_host, read + 1, Len(to_host))
  BY DEF Stops
<1>4. UnitsTyped /\ DeviceFramed /\ HostFramed /\ ClientSound
  BY DEF CallInv
<1>5. /\ rx_packet \in Seq(S) /\ rx_ring \in Seq(S) /\ to_device \in Seq(S)
      /\ host_buffer \in Seq(T) /\ to_host \in Seq(T) /\ tx_ring \in Seq(T)
  BY <1>4 DEF UnitsTyped
<1> HIDE DEF S, T
<1>6. to_device' \in Seq(S) /\ Begins(to_device', to_device, sent)
  BY <1>2, <1>5, Split
<1>7. to_host' \in Seq(T) /\ Dropped(to_host', to_host, read)
  BY <1>3, <1>5, Split
<1>8. UnitsTyped'
  <2>1. HeadsOnly(<< >>) /\ << >> \in Seq(T)
    BY DEF HeadsOnly
  <2> QED
    BY <1>1, <1>4, <1>6, <1>7, <2>1 DEF UnitsTyped, channel_vars, S, T
<1>9. cuts' \in Nat /\ cuts \in Nat /\ bad.device \in Nat /\ bad.host \in Nat /\ bad' = bad
      /\ bad \in [device : Nat, host : Nat]
  BY <1>1, <1>4 DEF DeviceFramed
<1>10. DeviceFramed' /\ \E k \in 0 .. Len(ToDevice) : Begins(ToDevice', ToDevice, k)
  <2> DEFINE x == rx_packet \o rx_ring
             q == ToDevice
             r == ToDevice'
             m == Len(x)
             k == m + sent
  <2>1. x \in Seq(S)
    BY <1>5, ConcatProperties
  <2>2. q = x \o to_device /\ r = x \o to_device' /\ m = Len(x)
    BY <1>1 DEF ToDevice, channel_vars
  <2> HIDE DEF x, q, r, m
  <2>3. TwoOf(x, to_device, q, S)
    BY ONLY <1>5, <2>1, <2>2, TwoParts
  <2>4. TwoOf(x, to_device', r, S)
    BY ONLY <1>6, <2>1, <2>2, TwoParts
  <2>5. /\ q \in Seq(S) /\ Len(q) = m + Len(to_device) /\ m \in Nat
        /\ \A i \in 1 .. m : x[i] = q[i]
        /\ \A i \in 1 .. Len(q) - m : to_device[i] = q[m + i]
    BY <2>1, <2>2, <2>3, LenProperties DEF TwoOf, Begins, Dropped
  <2>6. /\ r \in Seq(S) /\ Len(r) = m + Len(to_device')
        /\ \A i \in 1 .. m : x[i] = r[i]
        /\ \A i \in 1 .. Len(r) - m : to_device'[i] = r[m + i]
    BY <2>1, <2>2, <2>4 DEF TwoOf, Begins, Dropped
  <2>7. /\ Len(to_device') = sent /\ sent \in Nat /\ Len(to_device) \in Nat /\ sent <= Len(to_device)
        /\ \A i \in 1 .. sent : to_device'[i] = to_device[i]
    BY <1>2, <1>5, <1>6 DEF Begins
  <2>8. k \in 0 .. Len(q) /\ Len(r) = k
    BY <2>5, <2>6, <2>7
  <2>9. ASSUME NEW i \in 1 .. k PROVE r[i] = q[i]
    <3>1. CASE i \in 1 .. m
      BY <2>5, <2>6, <3>1
    <3>2. CASE i \notin 1 .. m
      <4> DEFINE j == i - m
      <4>1. j \in 1 .. sent /\ m + j = i /\ j \in 1 .. Len(q) - m /\ j \in 1 .. Len(r) - m
        BY <2>5, <2>6, <2>7, <2>8, <3>2
      <4> HIDE DEF j
      <4> QED
        BY <2>5, <2>6, <2>7, <4>1
    <3> QED
      BY <3>1, <3>2
  <2>10. Begins(r, q, k)
    BY <2>8, <2>9 DEF Begins
  <2>11. Paired(q) /\ bad.device + Cardinality(Stray(q)) <= cuts
    BY <1>4 DEF DeviceFramed, q
  <2> HIDE DEF k
  <2>12. Paired(r) /\ Cardinality(Stray(r)) <= Cardinality(Stray(q)) + 1
    BY <2>5, <2>6, <2>8, <2>10, <2>11, EndLost DEF S
  <2> DEFINE a == Cardinality(Stray(q))
             b == Cardinality(Stray(r))
  <2>13. a \in Nat /\ b \in Nat
    BY <2>5, <2>6, StrayIsFinite, LenProperties
  <2> HIDE DEF a, b
  <2>14. bad.device + b <= cuts + 1
    <3>1. b <= a + 1 /\ bad.device + a <= cuts
      BY <2>11, <2>12 DEF a, b
    <3> QED
      BY <1>9, <2>13, <3>1
  <2> QED
    BY <1>1, <1>9, <2>8, <2>10, <2>12, <2>14 DEF DeviceFramed, b, r, q
<1>11. HostFramed' /\ \E k \in 0 .. Len(ToHost) : Dropped(ToHost', ToHost, k)
  <2> DEFINE x == host_buffer \o to_host
             q == ToHost
             r == ToHost'
             m == Len(host_buffer)
             k == m + read
  <2>1. q = x \o tx_ring
    BY DEF ToHost
  <2>2. r = to_host' \o tx_ring
    <3>1. r = (<< >> \o to_host') \o tx_ring
      BY <1>1 DEF ToHost, channel_vars
    <3>2. << >> \o to_host' = to_host'
      BY <1>7, ConcatEmptySeq
    <3> QED
      BY <3>1, <3>2
  <2>3. x = host_buffer \o to_host /\ m = Len(host_buffer)
    OBVIOUS
  <2> HIDE DEF x, q, r, m
  <2>4. TwoOf(host_buffer, to_host, x, T)
    BY ONLY <1>5, <2>3, TwoParts
  <2>5. x \in Seq(T)
    BY <2>4 DEF TwoOf
  <2>6. TwoOf(x, tx_ring, q, T)
    BY ONLY <1>5, <2>1, <2>5, TwoParts
  <2>7. TwoOf(to_host', tx_ring, r, T)
    BY ONLY <1>5, <1>7, <2>2, TwoParts
  <2> DEFINE a == Len(to_host)
             b == Len(tx_ring)
  <2>8. a \in Nat /\ b \in Nat /\ m \in Nat /\ read \in 0 .. a /\ Len(to_host') = a - read
    BY <1>3, <1>5, <1>7, <2>3, LenProperties DEF Dropped
  <2>9. Len(x) = m + a /\ Len(q) = (m + a) + b /\ Len(r) = (a - read) + b
    BY <2>3, <2>4, <2>6, <2>7, <2>8 DEF TwoOf
  <2>10. /\ \A i \in 1 .. a : to_host[i] = x[m + i]
         /\ \A i \in 1 .. m + a : x[i] = q[i]
         /\ \A i \in 1 .. b : tx_ring[i] = q[(m + a) + i]
         /\ \A i \in 1 .. a - read : to_host'[i] = r[i]
         /\ \A i \in 1 .. b : tx_ring[i] = r[(a - read) + i]
         /\ \A i \in 1 .. a - read : to_host'[i] = to_host[read + i]
    <3>1. Len(x) - m = a /\ Len(q) - (m + a) = b /\ Len(r) - (a - read) = b
      BY <2>8, <2>9
    <3> QED
      BY <1>7, <2>3, <2>4, <2>6, <2>7, <2>8, <2>9, <3>1 DEF TwoOf, Begins, Dropped
  <2> HIDE DEF a, b
  <2>11. k \in 0 .. Len(q) /\ Len(r) = Len(q) - k
    BY <2>8, <2>9
  <2>12. ASSUME NEW i \in 1 .. Len(q) - k PROVE r[i] = q[k + i]
    <3>1. CASE i \in 1 .. a - read
      <4>1. read + i \in 1 .. a /\ m + (read + i) = k + i /\ k + i \in 1 .. m + a
        BY <2>8, <3>1
      <4>2. r[i] = to_host[read + i] /\ to_host[read + i] = x[m + (read + i)]
        BY <2>10, <3>1, <4>1
      <4> QED
        BY <2>10, <4>1, <4>2
    <3>2. CASE i \notin 1 .. a - read
      <4> DEFINE j == i - (a - read)
      <4>1. j \in 1 .. b /\ (a - read) + j = i /\ (m + a) + j = k + i
        BY <2>8, <2>9, <3>2
      <4> HIDE DEF j, k
      <4> QED
        BY <2>10, <4>1
    <3> QED
      BY <3>1, <3>2
  <2>13. Dropped(r, q, k)
    BY <2>11, <2>12 DEF Dropped
  <2>14. Whole(q) /\ bad.host + Orphan(q) <= cuts
    BY <1>4 DEF HostFramed, q
  <2>15. q \in Seq(T) /\ r \in Seq(T)
    BY <2>6, <2>7 DEF TwoOf
  <2> HIDE DEF k
  <2>16. Whole(r)
    BY <2>11, <2>13, <2>14, <2>15, FrontLost DEF T
  <2>17. Orphan(q) \in {0, 1} /\ Orphan(r) \in {0, 1}
    BY DEF Orphan
  <2>18. bad.host + Orphan(r) <= cuts + 1
    BY <1>9, <2>14, <2>17
  <2> QED
    BY <1>1, <2>11, <2>13, <2>16, <2>18 DEF HostFramed, r, q
<1>12. ClientSound'
  BY <1>1, <1>4 DEF ClientSound
<1>13. WorksOnce' /\ ServerSound' /\ LeaksBounded' /\ AnswersOwnCall'
  BY <1>1, ServerKept DEF CallInv, WorksOnce, channel_vars, server_vars, AnswersOwnCall
<1> QED
  BY <1>8, <1>10, <1>11, <1>12, <1>13 DEF CallInv

-----------------------------------------------------------------------------
(* Streams: their requests on the way to the device, their responses on the *)
(* way to the host, and what the host was given.                            *)

\* The program that runs used the number of the call.
Known(call) == call.session = session => call.invocation <= next_invocation
KnownIn(q) == \A i \in 1 .. Len(q) : Known(q[i].packet.call)

Asked(q, call) ==
  {i \in 1 .. Len(q) :
     q[i].at = "tail" /\ q[i].packet.type = "server_request" /\ q[i].packet.call = call}
Sent(q, call) == {i \in 1 .. Len(q) : q[i].at = "head" /\ q[i].packet.call = call}
Own(c) == {i \in 1 .. Len(c.got) : c.got[i].call = c.call}

AskedOnce(q, call) == \A i, j \in Asked(q, call) : i = j
SessionsInOrder(q) ==
  \A i, j \in 1 .. Len(q) : i <= j => q[i].packet.call.session <= q[j].packet.call.session
NotBefore(call, q) == \A i \in 1 .. Len(q) : call.session <= q[i].packet.call.session

\* The responses 1 .. g were given to the client, the responses g + 1 .. n are on their way.
GotInOrder(c, g) ==
  /\ \A i, j \in Own(c) : i < j => c.got[i].body < c.got[j].body
  /\ \A i \in Own(c) : c.got[i].body \in 1 .. g
  /\ \A b \in 1 .. g : \E i \in Own(c) : c.got[i].body = b
SentInOrder(q, call, g, n) ==
  /\ \A i, j \in Sent(q, call) : i < j => q[i].packet.body < q[j].packet.body
  /\ \A i \in Sent(q, call) : q[i].packet.body \in g + 1 .. n
  /\ \A b \in g + 1 .. n : \E i \in Sent(q, call) : q[i].packet.body = b

\* What is known of a queue is known of it without its front.
LEMMA DroppedStreams ==
  ASSUME NEW q, Len(q) \in Nat, NEW k \in 0 .. Len(q), NEW r, Dropped(r, q, k)
  PROVE  /\ KnownIn(q) => KnownIn(r)
         /\ SessionsInOrder(q) => SessionsInOrder(r) /\ (k > 0 => NotBefore(q[k].packet.call, r))
         /\ \A call : NotBefore(call, q) => NotBefore(call, r)
         /\ \A call : AskedOnce(q, call) => /\ AskedOnce(r, call)
                                            /\ k \in Asked(q, call) => Asked(r, call) = {}
         /\ \A call : Asked(q, call) = {} => Asked(r, call) = {}
<1>1. Len(r) = Len(q) - k /\ k \in Nat /\ \A i \in 1 .. Len(r) : r[i] = q[k + i] /\ k + i \in 1 .. Len(q)
  BY DEF Dropped
<1>2. KnownIn(q) => KnownIn(r)
  BY <1>1, Zenon DEF KnownIn
<1>3. ASSUME SessionsInOrder(q) PROVE SessionsInOrder(r)
  <2>1. \A i, j \in 1 .. Len(r) : i <= j => k + i <= k + j
    BY <1>1
  <2> QED
    BY <1>1, <1>3, <2>1 DEF SessionsInOrder
<1>4. ASSUME SessionsInOrder(q), k > 0 PROVE NotBefore(q[k].packet.call, r)
  <2>1. \A i \in 1 .. Len(r) : k \in 1 .. Len(q) /\ k <= k + i
    BY <1>1, <1>4
  <2> QED
    BY <1>1, <1>4, <2>1 DEF SessionsInOrder, NotBefore
<1>5. ASSUME NEW call, NotBefore(call, q) PROVE NotBefore(call, r)
  BY <1>1, <1>5 DEF NotBefore
<1>6. ASSUME NEW call, NEW i \in Asked(r, call) PROVE k + i \in Asked(q, call) /\ i \in Nat \ {0}
  BY <1>1, <1>6 DEF Asked
<1>7. ASSUME NEW call, AskedOnce(q, call)
      PROVE  AskedOnce(r, call) /\ (k \in Asked(q, call) => Asked(r, call) = {})
  <2>1. AskedOnce(r, call)
    <3> SUFFICES ASSUME NEW i \in Asked(r, call), NEW j \in Asked(r, call) PROVE i = j
      BY DEF AskedOnce
    <3>1. k + i = k + j /\ i \in Nat /\ j \in Nat
      BY <1>6, <1>7 DEF AskedOnce
    <3> QED
      BY <1>1, <3>1
  <2>2. ASSUME k \in Asked(q, call), NEW i \in Asked(r, call) PROVE FALSE
    <3>1. k = k + i /\ i \in Nat \ {0}
      BY <1>6, <1>7, <2>2 DEF AskedOnce
    <3> QED
      BY <1>1, <3>1
  <2> QED
    BY <2>1, <2>2
<1>8. ASSUME NEW call, Asked(q, call) = {} PROVE Asked(r, call) = {}
  BY <1>6, <1>8
<1> QED
  BY <1>2, <1>3, <1>4, <1>5, <1>7, <1>8

\* What is known of a queue is known of its front.
LEMMA BegunStreams ==
  ASSUME NEW q, Len(q) \in Nat, NEW k \in 0 .. Len(q), NEW r, Begins(r, q, k)
  PROVE  /\ KnownIn(q) => KnownIn(r)
         /\ SessionsInOrder(q) => SessionsInOrder(r)
         /\ \A call : NotBefore(call, q) => NotBefore(call, r)
<1>1. Len(r) = k /\ \A i \in 1 .. Len(r) : r[i] = q[i] /\ i \in 1 .. Len(q)
  BY DEF Begins
<1> QED
  BY <1>1 DEF KnownIn, SessionsInOrder, NotBefore

\* A packet of the program that runs is sent to the device.
AskedAfter(q, p, r) ==
  /\ \A i \in 1 .. Len(r) : r[i].packet = p \/ (i \in 1 .. Len(q) /\ r[i] = q[i])
  /\ SessionsInOrder(q) /\ (\A i \in 1 .. Len(q) : q[i].packet.call.session <= p.call.session)
       => SessionsInOrder(r)
  /\ \A call : NotBefore(call, q) /\ call.session <= p.call.session => NotBefore(call, r)
  /\ \A call : p.type # "server_request" \/ p.call # call => Asked(r, call) = Asked(q, call)
  /\ \A call : Asked(q, call) = {} => AskedOnce(r, call)

\* What the device is asked once the packet is behind the others.
LEMMA AskedFacts ==
  ASSUME NEW P, NEW q \in Seq(UnitsOf(P)), NEW p \in P, p.call.session \in Nat,
         NEW r, r = q \o Frame(p)
  PROVE  AskedAfter(q, p, r)
<1>1. /\ Len(q) \in Nat /\ Len(r) = Len(q) + 2
      /\ \A i \in 1 .. Len(q) : r[i] = q[i]
      /\ r[Len(q) + 1] = [at |-> "head", packet |-> p] /\ r[Len(q) + 2] = [at |-> "tail", packet |-> p]
  <2> DEFINE S == UnitsOf(P)
             f == Frame(p)
  <2>1. f \in Seq(S) /\ Len(f) = 2 /\ f[1] = [at |-> "head", packet |-> p] /\ f[2] = [at |-> "tail", packet |-> p]
    BY FrameFacts
  <2>2. q \in Seq(S) /\ r = q \o f
    OBVIOUS
  <2> HIDE DEF S, f
  <2>3. TwoOf(q, f, r, S) /\ Len(q) \in Nat
    BY ONLY <2>1, <2>2, TwoParts, LenProperties
  <2>4. Len(r) = Len(q) + 2 /\ \A i \in 1 .. Len(q) : q[i] = r[i]
    BY <2>1, <2>3 DEF TwoOf, Begins
  <2>5. \A i \in 1 .. 2 : f[i] = r[Len(q) + i]
    <3>1. Len(r) - Len(q) = 2
      BY <2>3, <2>4
    <3> QED
      BY <2>3, <3>1 DEF TwoOf, Dropped
  <2> QED
    BY <2>1, <2>3, <2>4, <2>5
<1> DEFINE n == Len(q)
<1>2. /\ n \in Nat /\ Len(r) = n + 2 /\ \A i \in 1 .. n : r[i] = q[i]
      /\ \A i \in 1 .. n + 2 : i \in 1 .. n \/ i = n + 1 \/ i = n + 2
      /\ r[n + 1].packet = p /\ r[n + 2].packet = p /\ r[n + 1].at = "head" /\ r[n + 2].at = "tail"
  BY <1>1
<1>3. n = Len(q)
  OBVIOUS
<1> HIDE DEF n
<1>4. ASSUME NEW i \in 1 .. Len(r)
      PROVE  (i \in 1 .. n /\ r[i] = q[i]) \/ (i > n /\ r[i].packet = p)
  <2>1. i \in 1 .. n \/ (i > n /\ i \in {n + 1, n + 2})
    BY ONLY <1>2, <1>4
  <2> QED
    BY ONLY <1>2, <2>1
<1>5. ASSUME SessionsInOrder(q), \A i \in 1 .. n : q[i].packet.call.session <= p.call.session
      PROVE  SessionsInOrder(r)
  <2>1. ASSUME NEW i \in 1 .. Len(r), NEW j \in 1 .. Len(r), i <= j
        PROVE  r[i].packet.call.session <= r[j].packet.call.session
    <3>1. CASE j \in 1 .. n /\ r[j] = q[j]
      <4>1. n \in Nat /\ Len(r) = n + 2 /\ i \in 1 .. Len(r) /\ i <= j /\ j \in 1 .. n
        BY <1>2, <2>1, <3>1
      <4>2. i \in 1 .. n
        BY ONLY <4>1
      <4>3. r[i] = q[i]
        BY <1>2, <4>2
      <4> QED
        BY <1>3, <1>5, <2>1, <3>1, <4>2, <4>3 DEF SessionsInOrder
    <3>2. CASE r[j].packet = p
      BY <1>4, <1>5, <3>2
    <3> QED
      BY <1>4, <3>1, <3>2
  <2> QED
    BY <2>1 DEF SessionsInOrder
<1>6. ASSUME NEW call, NotBefore(call, q), call.session <= p.call.session PROVE NotBefore(call, r)
  BY <1>3, <1>4, <1>6 DEF NotBefore
<1>7. ASSUME NEW call, p.type # "server_request" \/ p.call # call PROVE Asked(r, call) = Asked(q, call)
  <2>1. \A i \in Asked(r, call) : i \in 1 .. n /\ r[i] = q[i]
    BY <1>4, <1>7 DEF Asked
  <2>2. \A i \in 1 .. n : i \in 1 .. Len(r) /\ r[i] = q[i]
    BY <1>2
  <2> QED
    BY <1>3, <2>1, <2>2 DEF Asked
<1>8. ASSUME NEW call, Asked(q, call) = {} PROVE AskedOnce(r, call)
  <2>1. ASSUME NEW i \in Asked(r, call) PROVE i = n + 2
    <3>1. i \in 1 .. n + 2 /\ r[i].at = "tail"
      BY <1>2, <2>1 DEF Asked
    <3>2. i \notin 1 .. n
      BY <1>2, <1>3, <1>8, <2>1 DEF Asked
    <3> QED
      BY <1>2, <3>1, <3>2
  <2> QED
    BY <2>1 DEF AskedOnce
<1> QED
  BY <1>3, <1>4, <1>5, <1>6, <1>7, <1>8 DEF AskedAfter

\* Where the heads of the packets are that were sent to the host.
SentAt(q, s, r) ==
  /\ Len(q) \in Nat /\ Len(s) \in Nat /\ Len(r) = Len(q) + 2 * Len(s)
  /\ \A i \in 1 .. Len(q) : r[i] = q[i] /\ i \in 1 .. Len(r)
  /\ \A j \in 1 .. Len(s) :
       /\ Len(q) + (2 * j - 1) \in 1 .. Len(r)
       /\ r[Len(q) + (2 * j - 1)].at = "head" /\ r[Len(q) + (2 * j - 1)].packet = s[j]
  /\ \A i \in 1 .. Len(r) :
       \/ i \in 1 .. Len(q)
       \/ \E j \in 1 .. Len(s) :
            r[i].packet = s[j] /\ (r[i].at = "head" => i = Len(q) + (2 * j - 1))

\* The heads of the responses have every second place behind the others.
LEMMA SentPlaces ==
  ASSUME NEW P, NEW q \in Seq(UnitsOf(P)), NEW s \in Seq(P), NEW r, r = q \o Frames(s)
  PROVE  SentAt(q, s, r)
<1> DEFINE f == Frames(s)
           S == UnitsOf(P)
           m == Len(q)
           n == Len(s)
<1>1. f \in Seq(S) /\ Len(f) = 2 * n /\ n \in Nat
  BY FramesFacts
<1>2. f = [i \in 1 .. 2 * n |-> [at |-> IF i % 2 = 1 THEN "head" ELSE "tail", packet |-> s[(i + 1) \div 2]]]
  BY DEF Frames, FrameSize
<1>3. q \in Seq(S) /\ r = q \o f /\ m = Len(q) /\ n = Len(s)
  OBVIOUS
<1> HIDE DEF f, S, m, n
<1>4. TwoOf(q, f, r, S) /\ m \in Nat
  BY ONLY <1>1, <1>3, TwoParts, LenProperties
<1>5. Len(r) = m + 2 * n /\ \A i \in 1 .. m : q[i] = r[i]
  BY <1>1, <1>3, <1>4 DEF TwoOf, Begins
<1>6. \A i \in 1 .. 2 * n : f[i] = r[m + i]
  <2>1. Len(r) - Len(q) = 2 * n
    BY <1>1, <1>3, <1>4, <1>5
  <2> QED
    BY <1>3, <1>4, <2>1 DEF TwoOf, Dropped
<1>7. ASSUME NEW j \in 1 .. n
      PROVE  /\ m + (2 * j - 1) \in 1 .. Len(r)
             /\ r[m + (2 * j - 1)].at = "head" /\ r[m + (2 * j - 1)].packet = s[j]
  <2> DEFINE i == 2 * j - 1
  <2>1. i \in 1 .. 2 * n /\ i % 2 = 1 /\ (i + 1) \div 2 = j /\ m + i \in 1 .. m + 2 * n
    BY <1>1, <1>4
  <2> HIDE DEF i
  <2>2. f[i].at = "head" /\ f[i].packet = s[j]
    BY <1>2, <2>1
  <2> QED
    BY <1>5, <1>6, <2>1, <2>2 DEF i
<1>8. ASSUME NEW i \in 1 .. m + 2 * n, i \notin 1 .. m
      PROVE  \E j \in 1 .. n : r[i].packet = s[j] /\ (r[i].at = "head" => i = m + (2 * j - 1))
  <2> DEFINE l == i - m
  <2>1. l \in 1 .. 2 * n /\ m + l = i
    BY <1>1, <1>4, <1>8
  <2> HIDE DEF l
  <2>2. /\ (l + 1) \div 2 \in 1 .. n
        /\ l % 2 = 1 => l = 2 * ((l + 1) \div 2) - 1
    <3>1. l \in Nat /\ l >= 1 /\ l <= 2 * n
      BY <1>1, <2>1
    <3>2. (l + 1) \div 2 \in 1 .. n
      BY ONLY <1>1, <3>1
    <3>3. l % 2 = 1 => l = 2 * ((l + 1) \div 2) - 1
      BY ONLY <3>1
    <3> QED
      BY <3>2, <3>3
  <2>3. r[i].packet = s[(l + 1) \div 2] /\ (r[i].at = "head" => l % 2 = 1)
    <3>1. f[l] = [at |-> IF l % 2 = 1 THEN "head" ELSE "tail", packet |-> s[(l + 1) \div 2]]
      BY <1>2, <2>1
    <3>2. r[i] = f[l]
      BY <1>6, <2>1
    <3>3. f[l].packet = s[(l + 1) \div 2] /\ (l % 2 # 1 => f[l].at = "tail")
      BY <3>1
    <3> QED
      BY <3>2, <3>3
  <2>4. r[i].at = "head" => i = m + (2 * ((l + 1) \div 2) - 1)
    BY <2>1, <2>2, <2>3
  <2> QED
    BY <2>2, <2>3, <2>4
<1>9. \A i \in 1 .. m : i \in 1 .. Len(r)
  BY <1>1, <1>4, <1>5
<1> QED
  BY <1>1, <1>3, <1>4, <1>5, <1>7, <1>8, <1>9 DEF SentAt

\* Responses to other calls leave the order of a stream's alone.
LEMMA SentOthers ==
  ASSUME NEW q, NEW s, NEW r, SentAt(q, s, r), NEW call, \A j \in 1 .. Len(s) : s[j].call # call,
         NEW g, NEW n, SentInOrder(q, call, g, n)
  PROVE  SentInOrder(r, call, g, n)
<1>1. ASSUME NEW i PROVE i \in Sent(r, call) <=> i \in Sent(q, call)
  <2>1. i \in Sent(q, call) => i \in Sent(r, call)
    BY DEF SentAt, Sent
  <2>2. ASSUME i \in Sent(r, call) PROVE i \in Sent(q, call)
    <3>1. i \in 1 .. Len(r) /\ r[i].at = "head" /\ r[i].packet.call = call
      BY <2>2 DEF Sent
    <3>2. i \in 1 .. Len(q) \/ \E j \in 1 .. Len(s) : r[i].packet = s[j]
      BY <3>1 DEF SentAt
    <3>3. i \in 1 .. Len(q) /\ r[i] = q[i]
      BY <3>1, <3>2 DEF SentAt
    <3> QED
      BY <3>1, <3>3 DEF Sent
  <2> QED
    BY <2>1, <2>2
<1>2. \A i \in Sent(q, call) : r[i] = q[i]
  BY DEF SentAt, Sent
<1> QED
  BY <1>1, <1>2, Zenon DEF SentInOrder

\* The next responses of a stream follow those that were sent.
LEMMA SentOwn ==
  ASSUME NEW q, NEW s, NEW r, SentAt(q, s, r), NEW call, NEW g \in Nat, NEW n \in Nat, g <= n,
         \A j \in 1 .. Len(s) : s[j].call = call /\ s[j].body = n + j,
         SentInOrder(q, call, g, n)
  PROVE  SentInOrder(r, call, g, n + Len(s))
<1> DEFINE m == Len(q)
           l == Len(s)
<1>1. /\ m \in Nat /\ l \in Nat /\ Len(r) = m + 2 * l
      /\ \A i \in 1 .. m : r[i] = q[i] /\ i \in 1 .. Len(r)
      /\ \A j \in 1 .. l : /\ m + (2 * j - 1) \in 1 .. Len(r) /\ r[m + (2 * j - 1)].at = "head"
                           /\ r[m + (2 * j - 1)].packet.call = call /\ r[m + (2 * j - 1)].packet.body = n + j
      /\ \A i \in 1 .. Len(r) :
           \/ i \in 1 .. m
           \/ r[i].at = "head" => \E j \in 1 .. l : i = m + (2 * j - 1)
  <2>1. /\ m \in Nat /\ l \in Nat /\ Len(r) = m + 2 * l
        /\ \A i \in 1 .. m : r[i] = q[i] /\ i \in 1 .. Len(r)
        /\ \A j \in 1 .. l : /\ m + (2 * j - 1) \in 1 .. Len(r) /\ r[m + (2 * j - 1)].at = "head"
                             /\ r[m + (2 * j - 1)].packet = s[j]
        /\ \A i \in 1 .. Len(r) :
             \/ i \in 1 .. m
             \/ \E j \in 1 .. l : r[i].packet = s[j] /\ (r[i].at = "head" => i = m + (2 * j - 1))
    BY Zenon DEF SentAt
  <2>2. \A i \in 1 .. Len(r) : i \in 1 .. m \/ (r[i].at = "head" => \E j \in 1 .. l : i = m + (2 * j - 1))
    BY <2>1, Zenon
  <2> HIDE DEF m, l
  <2>3. \A j \in 1 .. l : s[j].call = call /\ s[j].body = n + j
    BY DEF l
  <2>4. ASSUME NEW j \in 1 .. l
        PROVE  r[m + (2 * j - 1)].packet.call = call /\ r[m + (2 * j - 1)].packet.body = n + j
    <3>1. r[m + (2 * j - 1)].packet = s[j]
      BY <2>1, Zenon
    <3>2. s[j].call = call /\ s[j].body = n + j
      BY <2>3
    <3> QED
      BY ONLY <3>1, <3>2
  <2>5. \A j \in 1 .. l : m + (2 * j - 1) \in 1 .. Len(r) /\ r[m + (2 * j - 1)].at = "head"
    BY <2>1, Zenon
  <2>6. Len(r) = m + 2 * l /\ \A i \in 1 .. m : r[i] = q[i] /\ i \in 1 .. Len(r)
    BY <2>1, Zenon
  <2>7. m \in Nat /\ l \in Nat
    BY <2>1, Zenon
  <2>8. \A j \in 1 .. l : /\ m + (2 * j - 1) \in 1 .. Len(r) /\ r[m + (2 * j - 1)].at = "head"
                           /\ r[m + (2 * j - 1)].packet.call = call /\ r[m + (2 * j - 1)].packet.body = n + j
    BY <2>4, <2>5, Zenon
  <2> QED
    BY ONLY <2>2, <2>6, <2>7, <2>8, Zenon
<1>2. /\ \A i, j \in Sent(q, call) : i < j => q[i].packet.body < q[j].packet.body
      /\ \A i \in Sent(q, call) : q[i].packet.body \in g + 1 .. n
      /\ \A b \in g + 1 .. n : \E i \in Sent(q, call) : q[i].packet.body = b
  BY DEF SentInOrder
<1>3. \A i \in Sent(q, call) : i \in Sent(r, call) /\ r[i] = q[i] /\ i \in 1 .. m
  BY <1>1 DEF Sent
<1>4. \A j \in 1 .. l : m + (2 * j - 1) \in Sent(r, call)
  BY <1>1 DEF Sent
<1>5. \A i \in Sent(r, call) : i \in Sent(q, call) \/ \E j \in 1 .. l : i = m + (2 * j - 1)
  BY <1>1 DEF Sent
<1> HIDE DEF m, l
<1>6. ASSUME NEW i \in Sent(r, call), NEW j \in Sent(r, call), i < j
      PROVE  r[i].packet.body < r[j].packet.body
  <2>1. CASE i \in Sent(q, call) /\ j \in Sent(q, call)
    BY <1>2, <1>3, <1>6, <2>1
  <2>2. CASE i \in Sent(q, call) /\ j \notin Sent(q, call)
    <3>1. PICK b \in 1 .. l : j = m + (2 * b - 1)
      BY <1>5, <2>2
    <3>2. r[j].packet.body = n + b
      BY <1>1, <3>1
    <3>3. r[i].packet.body \in g + 1 .. n
      BY <1>2, <1>3, <2>2
    <3> QED
      BY <1>1, <3>2, <3>3
  <2>3. CASE i \notin Sent(q, call)
    <3>1. PICK a \in 1 .. l : i = m + (2 * a - 1)
      BY <1>5, <2>3
    <3>2. j \notin 1 .. m
      BY <1>1, <1>6, <3>1
    <3>3. PICK b \in 1 .. l : j = m + (2 * b - 1)
      BY <1>3, <1>5, <3>2
    <3>4. r[i].packet.body = n + a /\ r[j].packet.body = n + b /\ a < b
      BY <1>1, <1>6, <3>1, <3>3
    <3> QED
      BY <3>4
  <2> QED
    BY <2>1, <2>2, <2>3
<1>7. ASSUME NEW i \in Sent(r, call) PROVE r[i].packet.body \in g + 1 .. n + l
  <2>1. CASE i \in Sent(q, call)
    <3>1. r[i].packet.body \in g + 1 .. n
      BY <1>2, <1>3, <2>1
    <3> QED
      BY <1>1, <3>1
  <2>2. CASE i \notin Sent(q, call)
    <3>1. PICK a \in 1 .. l : i = m + (2 * a - 1)
      BY <1>5, <2>2
    <3>2. r[i].packet.body = n + a
      BY <1>1, <3>1
    <3> QED
      BY <1>1, <3>2
  <2> QED
    BY <2>1, <2>2
<1>8. ASSUME NEW b \in g + 1 .. n + l PROVE \E i \in Sent(r, call) : r[i].packet.body = b
  <2>1. CASE b <= n
    <3>1. b \in g + 1 .. n
      BY <1>1, <2>1
    <3>2. PICK i \in Sent(q, call) : q[i].packet.body = b
      BY <1>2, <3>1
    <3> QED
      BY <1>3, <3>2
  <2>2. CASE ~(b <= n)
    <3> DEFINE j == b - n
    <3>1. j \in 1 .. l /\ n + j = b
      BY <1>1, <2>2
    <3> HIDE DEF j
    <3> QED
      BY <1>1, <1>4, <3>1
  <2> QED
    BY <2>1, <2>2
<1> QED
  BY <1>6, <1>7, <1>8 DEF SentInOrder, l

\* The host reads a packet: a response of the stream is the next one.
LEMMA ReadStreams ==
  ASSUME NEW q, Len(q) \in Nat, NEW k \in 1 .. Len(q), NEW r, Dropped(r, q, k), q[k].at = "tail",
         k = 1 \/ (k = 2 /\ q[1].at = "head"),
         NEW call, NEW g \in Nat, NEW n \in Nat, SentInOrder(q, call, g, n)
  PROVE  /\ 1 \notin Sent(q, call) => SentInOrder(r, call, g, n)
         /\ 1 \in Sent(q, call) =>
              k = 2 /\ q[1].packet.body = g + 1 /\ g + 1 <= n /\ SentInOrder(r, call, g + 1, n)
<1>1. Len(r) = Len(q) - k /\ \A i \in 1 .. Len(r) : r[i] = q[k + i] /\ k + i \in 1 .. Len(q)
  BY DEF Dropped
<1>2. /\ \A i, j \in Sent(q, call) : i < j => q[i].packet.body < q[j].packet.body
      /\ \A i \in Sent(q, call) : q[i].packet.body \in g + 1 .. n
      /\ \A b \in g + 1 .. n : \E i \in Sent(q, call) : q[i].packet.body = b
  BY DEF SentInOrder
<1>3. \A i \in Sent(r, call) : k + i \in Sent(q, call) /\ r[i] = q[k + i] /\ i \in Nat \ {0}
  BY <1>1 DEF Sent
<1>4. ASSUME NEW i \in Sent(q, call), i # 1
      PROVE  i - k \in Sent(r, call) /\ r[i - k] = q[i]
  <2>1. i \in 1 .. Len(q) /\ q[i].at = "head" /\ q[i].packet.call = call /\ i # k
    BY DEF Sent
  <2>2. i - k \in 1 .. Len(r) /\ k + (i - k) = i
    BY <1>1, <1>4, <2>1
  <2> QED
    BY <1>1, <2>1, <2>2 DEF Sent
<1>5. ASSUME NEW i \in Sent(r, call), NEW j \in Sent(r, call), i < j
      PROVE  r[i].packet.body < r[j].packet.body
  <2>1. k + i < k + j
    BY <1>3, <1>5
  <2>2. q[k + i].packet.body < q[k + j].packet.body
    BY <1>2, <1>3, <2>1
  <2> QED
    BY <1>3, <2>2
<1>6. \A i \in Sent(r, call) : r[i].packet.body \in g + 1 .. n
  BY <1>2, <1>3
<1>7. ASSUME 1 \notin Sent(q, call) PROVE SentInOrder(r, call, g, n)
  <2>1. ASSUME NEW b \in g + 1 .. n PROVE \E i \in Sent(r, call) : r[i].packet.body = b
    <3>1. PICK i \in Sent(q, call) : q[i].packet.body = b
      BY <1>2
    <3> QED
      BY <1>4, <1>7, <3>1
  <2> QED
    BY <1>5, <1>6, <2>1 DEF SentInOrder
<1>8. ASSUME 1 \in Sent(q, call)
      PROVE  k = 2 /\ q[1].packet.body = g + 1 /\ g + 1 <= n /\ SentInOrder(r, call, g + 1, n)
  <2>1. k = 2 /\ \A i \in Sent(q, call) : i \in Nat \ {0}
    BY <1>8 DEF Sent
  <2>2. q[1].packet.body \in g + 1 .. n
    BY <1>2, <1>8
  <2>3. g + 1 \in g + 1 .. n
    BY <2>2
  <2>4. PICK i \in Sent(q, call) : q[i].packet.body = g + 1
    BY <1>2, <2>3
  <2>5. q[1].packet.body = g + 1
    <3>1. CASE i = 1
      BY <2>4, <3>1
    <3>2. CASE i # 1
      <4>1. q[1].packet.body < q[i].packet.body
        BY <1>2, <1>8, <2>1, <3>2
      <4> QED
        BY <2>2, <2>4, <4>1
    <3> QED
      BY <3>1, <3>2
  <2>6. ASSUME NEW j \in Sent(r, call) PROVE r[j].packet.body \in (g + 1) + 1 .. n
    <3>1. k + j \in Sent(q, call) /\ r[j] = q[k + j] /\ 1 < k + j
      BY <1>3, <2>1
    <3>2. q[1].packet.body < q[k + j].packet.body
      BY <1>2, <1>8, <3>1
    <3> QED
      BY <1>6, <2>5, <3>1, <3>2
  <2>7. ASSUME NEW b \in (g + 1) + 1 .. n PROVE \E j \in Sent(r, call) : r[j].packet.body = b
    <3>1. b \in g + 1 .. n /\ b # g + 1
      OBVIOUS
    <3>2. PICK j \in Sent(q, call) : q[j].packet.body = b
      BY <1>2, <3>1
    <3> QED
      BY <1>4, <2>5, <3>1, <3>2
  <2>8. g + 1 <= n
    BY <2>2
  <2>9. SentInOrder(r, call, g + 1, n)
    BY <1>5, <2>6, <2>7, Zenon DEF SentInOrder
  <2> QED
    BY <2>1, <2>5, <2>8, <2>9
<1> QED
  BY <1>7, <1>8

\* A context of the client is given a packet.
LEMMA GotFacts ==
  ASSUME NEW R, NEW c, NEW d, c.got \in Seq(R), NEW packet \in R, d.call = c.call,
         d.got = Append(c.got, packet), NEW g \in Nat, GotInOrder(c, g)
  PROVE  /\ packet.call # c.call => GotInOrder(d, g)
         /\ packet.call = c.call /\ packet.body = g + 1 => GotInOrder(d, g + 1)
<1> DEFINE m == Len(c.got)
<1>1. /\ m \in Nat /\ Len(d.got) = m + 1 /\ d.got[m + 1] = packet
      /\ \A i \in 1 .. m : d.got[i] = c.got[i]
  BY AppendProperties, LenProperties
<1>2. /\ \A i, j \in Own(c) : i < j => c.got[i].body < c.got[j].body
      /\ \A i \in Own(c) : c.got[i].body \in 1 .. g
      /\ \A b \in 1 .. g : \E i \in Own(c) : c.got[i].body = b
  BY DEF GotInOrder
<1>3. \A i \in Own(c) : i \in Own(d) /\ i \in 1 .. m /\ d.got[i] = c.got[i]
  BY <1>1 DEF Own
<1>4. \A i \in Own(d) : i \in Own(c) \/ (i = m + 1 /\ packet.call = c.call)
  BY <1>1 DEF Own
<1>5. packet.call = c.call => m + 1 \in Own(d)
  BY <1>1 DEF Own
<1> HIDE DEF m
<1>6. ASSUME packet.call # c.call PROVE GotInOrder(d, g)
  BY <1>2, <1>3, <1>4, <1>6, Zenon DEF GotInOrder
<1>7. ASSUME packet.call = c.call, packet.body = g + 1 PROVE GotInOrder(d, g + 1)
  <2>1. ASSUME NEW i \in Own(d), NEW j \in Own(d), i < j PROVE d.got[i].body < d.got[j].body
    <3>1. i \in Own(c)
      <4>1. CASE i = m + 1
        <5>1. j \in 1 .. m \/ j = m + 1
          BY <1>3, <1>4
        <5> QED
          BY <1>1, <2>1, <4>1, <5>1
      <4> QED
        BY <1>4, <4>1
    <3>2. CASE j \in Own(c)
      BY <1>2, <1>3, <2>1, <3>1, <3>2
    <3>3. CASE j = m + 1
      <4> DEFINE x == d.got[i].body
      <4>1. x \in 1 .. g /\ d.got[j].body = g + 1
        BY <1>1, <1>2, <1>3, <1>7, <3>1, <3>3
      <4> HIDE DEF x
      <4>2. x < g + 1
        BY <4>1
      <4> QED
        BY <4>1, <4>2 DEF x
    <3> QED
      BY <1>4, <3>2, <3>3
  <2>2. ASSUME NEW i \in Own(d) PROVE d.got[i].body \in 1 .. g + 1
    <3> DEFINE x == d.got[i].body
    <3>1. x \in 1 .. g \/ x = g + 1
      BY <1>1, <1>2, <1>3, <1>4, <1>7
    <3> HIDE DEF x
    <3>2. x \in 1 .. g + 1
      BY <3>1
    <3> QED
      BY <3>2 DEF x
  <2>3. ASSUME NEW b \in 1 .. g + 1 PROVE \E i \in Own(d) : d.got[i].body = b
    <3>1. b \in 1 .. g \/ b = g + 1
      OBVIOUS
    <3> QED
      BY <1>1, <1>2, <1>3, <1>5, <1>7, <3>1
  <2> QED
    BY <2>1, <2>2, <2>3 DEF GotInOrder
<1> QED
  BY <1>6, <1>7

-----------------------------------------------------------------------------
(* The invariant of the streams. *)

Reads(contexts, frame, call) == frame.slot # 0 /\ contexts[frame.slot] = call

\* Of n responses that were sent for a stream, its client was given g.
StreamFollows(c, g, n) ==
  /\ GotInOrder(c, g) /\ SentInOrder(ToHost, c.call, g, n)
  /\ Reads(server_contexts, frame_buffer_read, c.call) => frame_buffer_read.offset = n
  /\ ~c.requested \/ Asked(ToDevice, c.call) # {} =>
       n = 0 /\ ~Reads(server_contexts, frame_buffer_read, c.call)
StreamInOrder(c) ==
  /\ AskedOnce(ToDevice, c.call) /\ (~c.requested => Asked(ToDevice, c.call) = {})
  /\ dropped \/ \E n \in Nat : \E g \in 0 .. n : StreamFollows(c, g, n)

\* The device has no context of a program later than one whose packets it still has to read.
DeviceStreams ==
  /\ KnownIn(ToDevice) /\ SessionsInOrder(ToDevice)
  /\ \A s \in Slots : server_contexts[s] # None =>
       Known(server_contexts[s]) /\ NotBefore(server_contexts[s], ToDevice)
ClientStreams ==
  /\ \A c \in client_contexts : Known(c.call) /\ (Streaming(c.call.method) => StreamInOrder(c))
  /\ \A c, d \in client_contexts : c.call = d.call => c = d
StreamInv == DeviceStreams /\ KnownIn(ToHost) /\ ClientStreams

\* What the device has to read is the same, or a packet of the call was read.
Advances(calls, asks) ==
  \/ ToDevice' = ToDevice /\ calls = {} /\ asks = {}
  \/ \E k \in 1 .. Len(ToDevice) :
       /\ Dropped(ToDevice', ToDevice, k) /\ ToDevice[k].at = "tail"
       /\ calls = {ToDevice[k].packet.call}
       /\ asks = IF ToDevice[k].packet.type = "server_request" THEN calls ELSE {}

\* The device sends s, for a stream from response n + 1 on.
Continues(call, s, n) ==
  /\ \A j \in 1 .. Len(s) : s[j].call = call /\ s[j].body = n + j
  /\ Reads(server_contexts', frame_buffer_read', call) => frame_buffer_read'.offset = n + Len(s)
SendsFor(call, s, asks) ==
  \/ dropped'
  \/ /\ \A j \in 1 .. Len(s) : s[j].call # call
     /\ Reads(server_contexts', frame_buffer_read', call) =>
          Reads(server_contexts, frame_buffer_read, call) /\ frame_buffer_read'.offset = frame_buffer_read.offset
  \/ Reads(server_contexts, frame_buffer_read, call) /\ Continues(call, s, frame_buffer_read.offset)
  \/ call \in asks /\ Continues(call, s, 0)
DeviceSends(s, calls, asks) ==
  /\ s \in Seq(Responses(session)) /\ tx_ring' = tx_ring \o Frames(s)
  /\ dropped => dropped'
  /\ \A x \in Slots : server_contexts'[x] \in {None, server_contexts[x]} \cup calls
  /\ \A j \in 1 .. Len(s) :
       s[j].call \in calls \/ \E x \in Slots : server_contexts[x] # None /\ s[j].call = server_contexts[x]
  /\ \A call \in CallsTo(session) :
       Streaming(call.method) /\ call.session = session => SendsFor(call, s, asks)

\* The queues are sequences of units.
LEMMA QueuesTyped ==
  ASSUME UnitsTyped
  PROVE  /\ ToDevice \in Seq(UnitsOf(Requests(session))) /\ ToHost \in Seq(UnitsOf(Responses(session)))
         /\ Len(ToDevice) \in Nat /\ Len(ToHost) \in Nat
         /\ \A i \in 1 .. Len(ToDevice) : ToDevice[i].packet \in Requests(session)
         /\ \A i \in 1 .. Len(ToHost) : ToHost[i].packet \in Responses(session)
<1>1. /\ rx_packet \in Seq(UnitsOf(Requests(session))) /\ rx_ring \in Seq(UnitsOf(Requests(session)))
      /\ to_device \in Seq(UnitsOf(Requests(session)))
      /\ host_buffer \in Seq(UnitsOf(Responses(session))) /\ to_host \in Seq(UnitsOf(Responses(session)))
      /\ tx_ring \in Seq(UnitsOf(Responses(session)))
  BY DEF UnitsTyped
<1>2. ToDevice \in Seq(UnitsOf(Requests(session)))
  BY <1>1, ConcatProperties DEF ToDevice
<1>3. ToHost \in Seq(UnitsOf(Responses(session)))
  BY <1>1, ConcatProperties DEF ToHost
<1>4. Len(ToDevice) \in Nat /\ Len(ToHost) \in Nat
  BY <1>2, <1>3, LenProperties
<1> QED
  BY <1>2, <1>3, <1>4, UnitFacts

\* What was read of the device's queue.
LEMMA AdvanceFacts ==
  ASSUME UnitsTyped, DeviceStreams, NEW calls, NEW asks, Advances(calls, asks)
  PROVE  /\ KnownIn(ToDevice') /\ SessionsInOrder(ToDevice')
         /\ \A call \in calls : Known(call) /\ NotBefore(call, ToDevice')
         /\ \A call : NotBefore(call, ToDevice) => NotBefore(call, ToDevice')
         /\ \A call : AskedOnce(ToDevice, call) =>
              /\ AskedOnce(ToDevice', call)
              /\ call \in asks => Asked(ToDevice, call) # {} /\ Asked(ToDevice', call) = {}
         /\ \A call : Asked(ToDevice, call) = {} => Asked(ToDevice', call) = {}
<1> DEFINE q == ToDevice
           r == ToDevice'
<1>1. KnownIn(q) /\ SessionsInOrder(q) /\ Len(q) \in Nat
  BY QueuesTyped DEF DeviceStreams
<1>2. CASE r = q /\ calls = {} /\ asks = {}
  BY <1>1, <1>2
<1>3. CASE \E k \in 1 .. Len(q) :
             /\ Dropped(r, q, k) /\ q[k].at = "tail" /\ calls = {q[k].packet.call}
             /\ asks = IF q[k].packet.type = "server_request" THEN calls ELSE {}
  <2>1. PICK k \in 1 .. Len(q) :
             /\ Dropped(r, q, k) /\ q[k].at = "tail" /\ calls = {q[k].packet.call}
             /\ asks = IF q[k].packet.type = "server_request" THEN calls ELSE {}
    BY <1>3
  <2> HIDE DEF q, r
  <2>2. k \in 0 .. Len(q) /\ k > 0
    BY <1>1
  <2>3. /\ KnownIn(q) => KnownIn(r)
        /\ SessionsInOrder(q) => SessionsInOrder(r) /\ (k > 0 => NotBefore(q[k].packet.call, r))
        /\ \A call : NotBefore(call, q) => NotBefore(call, r)
        /\ \A call : AskedOnce(q, call) => /\ AskedOnce(r, call)
                                           /\ k \in Asked(q, call) => Asked(r, call) = {}
        /\ \A call : Asked(q, call) = {} => Asked(r, call) = {}
    BY <1>1, <2>1, <2>2, DroppedStreams
  <2>4. \A call \in asks : k \in Asked(q, call)
    BY <2>1 DEF Asked
  <2>5. \A call \in calls : Known(call)
    BY <1>1, <2>1 DEF KnownIn
  <2>6. \A call \in calls : NotBefore(call, r)
    BY <1>1, <2>1, <2>2, <2>3
  <2>7. \A call : AskedOnce(q, call) =>
          /\ AskedOnce(r, call)
          /\ call \in asks => Asked(q, call) # {} /\ Asked(r, call) = {}
    BY <2>3, <2>4
  <2> QED
    BY <1>1, <2>3, <2>5, <2>6, <2>7 DEF q, r
<1> QED
  BY <1>2, <1>3 DEF Advances

\* Responses that the device sends are behind those on their way.
LEMMA SentBehindOthers ==
  ASSUME UnitsTyped, NEW s \in Seq(Responses(session)), tx_ring' = tx_ring \o Frames(s),
         UNCHANGED << host_buffer, to_host >>
  PROVE  SentAt(ToHost, s, ToHost')
<1> DEFINE S == UnitsOf(Responses(session))
           f == Frames(s)
           x == host_buffer \o to_host
           q == ToHost
<1>1. host_buffer \in Seq(S) /\ to_host \in Seq(S) /\ tx_ring \in Seq(S)
  BY DEF UnitsTyped
<1>2. f \in Seq(S)
  BY FramesFacts
<1>3. q = x \o tx_ring /\ ToHost' = x \o (tx_ring \o f)
  BY DEF ToHost
<1>4. x \in Seq(S)
  BY <1>1, ConcatProperties
<1> HIDE DEF f, x, S
<1>9. tx_ring \in Seq(S) /\ f \in Seq(S) /\ x \in Seq(S)
  BY <1>1, <1>2, <1>4
<1>5. (x \o tx_ring) \o f = x \o (tx_ring \o f)
  BY ONLY <1>9, Assoc
<1>6. ToHost' = q \o f
  BY <1>3, <1>5
<1> DEFINE P == Responses(session)
           r == ToHost'
<1>7. q \in Seq(UnitsOf(P)) /\ r = q \o Frames(s) /\ s \in Seq(P)
  BY <1>6, QueuesTyped DEF f
<1> HIDE DEF q, r, P
<1>8. SentAt(q, s, r)
  BY ONLY <1>7, SentPlaces, Zenon
<1> QED
  BY <1>8 DEF q, r

\* What the device sends for a stream follows what it sent.
LEMMA StreamContinues ==
  ASSUME UnitsTyped, NEW c, StreamInOrder(c), c.call \in CallsTo(session), Streaming(c.call.method),
         c.call.session = session,
         NEW s, NEW calls, NEW asks, DeviceStreams, Advances(calls, asks), DeviceSends(s, calls, asks),
         UNCHANGED << host_buffer, to_host >>
  PROVE  StreamInOrder(c)'
<1> DEFINE call == c.call
           before == Reads(server_contexts, frame_buffer_read, call)
           after == Reads(server_contexts', frame_buffer_read', call)
           l == Len(s)
<1>1. /\ AskedOnce(ToDevice, call) /\ (~c.requested => Asked(ToDevice, call) = {})
      /\ dropped \/ \E n \in Nat : \E g \in 0 .. n : StreamFollows(c, g, n)
  BY DEF StreamInOrder
<1>2. /\ AskedOnce(ToDevice', call)
      /\ call \in asks => Asked(ToDevice, call) # {} /\ Asked(ToDevice', call) = {}
      /\ Asked(ToDevice, call) = {} => Asked(ToDevice', call) = {}
  BY <1>1, AdvanceFacts
<1>3. SentAt(ToHost, s, ToHost') /\ l \in Nat
  BY SentBehindOthers, LenProperties DEF DeviceSends
<1>4. (dropped => dropped') /\ SendsFor(call, s, asks)
  BY DEF DeviceSends
<1>5. SUFFICES ASSUME ~dropped'
               PROVE  \E n \in Nat : \E g \in 0 .. n : StreamFollows(c, g, n)'
  BY <1>1, <1>2 DEF StreamInOrder
<1>6. PICK n \in Nat : \E g \in 0 .. n : StreamFollows(c, g, n)
  BY <1>1, <1>4, <1>5
<1>7. PICK g \in 0 .. n : StreamFollows(c, g, n)
  BY <1>6
<1>8. /\ GotInOrder(c, g) /\ SentInOrder(ToHost, call, g, n)
      /\ before => frame_buffer_read.offset = n
      /\ ~c.requested \/ Asked(ToDevice, call) # {} => n = 0 /\ ~before
  BY <1>7 DEF StreamFollows
<1>9. SUFFICES \E e \in Nat :
        /\ n <= e /\ SentInOrder(ToHost', call, g, e)
        /\ after => frame_buffer_read'.offset = e
        /\ ~c.requested \/ Asked(ToDevice', call) # {} => e = 0 /\ ~after
  <2>1. PICK e \in Nat :
        /\ n <= e /\ SentInOrder(ToHost', call, g, e)
        /\ after => frame_buffer_read'.offset = e
        /\ ~c.requested \/ Asked(ToDevice', call) # {} => e = 0 /\ ~after
    BY <1>9
  <2>2. g \in 0 .. e
    BY <2>1
  <2>3. StreamFollows(c, g, e)'
    BY <1>8, <2>1 DEF StreamFollows
  <2> QED
    BY <2>1, <2>2, <2>3
<1>10. CASE /\ \A j \in 1 .. l : s[j].call # call
            /\ after => before /\ frame_buffer_read'.offset = frame_buffer_read.offset
  <2>1. SentInOrder(ToHost', call, g, n)
    BY <1>3, <1>8, <1>10, SentOthers
  <2>2. ~c.requested \/ Asked(ToDevice', call) # {} => n = 0 /\ ~after
    BY <1>1, <1>2, <1>8, <1>10
  <2>3. after => frame_buffer_read'.offset = n
    BY <1>8, <1>10
  <2> QED
    BY <2>1, <2>2, <2>3
<1>11. ASSUME NEW o, o = n, Continues(call, s, o), before \/ call \in asks
       PROVE  /\ SentInOrder(ToHost', call, g, n + l)
              /\ after => frame_buffer_read'.offset = n + l
              /\ ~(~c.requested \/ Asked(ToDevice', call) # {})
  <2>1. (\A j \in 1 .. l : s[j].call = call /\ s[j].body = n + j) /\ (after => frame_buffer_read'.offset = n + l)
    BY <1>11 DEF Continues
  <2>2. SentInOrder(ToHost', call, g, n + l)
    <3>1. g \in Nat /\ g <= n
      OBVIOUS
    <3> HIDE DEF call
    <3> QED
      BY <1>3, <1>8, <2>1, <3>1, SentOwn
  <2>3. ~(~c.requested \/ Asked(ToDevice', call) # {})
    BY <1>1, <1>2, <1>8, <1>11
  <2> QED
    BY <2>1, <2>2, <2>3
<1>12. CASE before /\ Continues(call, s, frame_buffer_read.offset)
  <2>1. frame_buffer_read.offset = n /\ n + l \in Nat /\ n <= n + l
    BY <1>3, <1>8, <1>12
  <2> HIDE DEF before, after
  <2> QED
    BY <1>11, <1>12, <2>1
<1>13. CASE call \in asks /\ Continues(call, s, 0)
  <2>1. 0 = n /\ n + l \in Nat /\ n <= n + l
    BY <1>2, <1>3, <1>8, <1>1, <1>13
  <2> HIDE DEF before, after
  <2> QED
    BY <1>11, <1>13, <2>1
<1> QED
  BY <1>4, <1>5, <1>10, <1>12, <1>13 DEF SendsFor

\* Every step of the device's work queue keeps the invariant of the streams.
LEMMA DeviceSendsKeeps ==
  ASSUME UnitsTyped, ClientSound, StreamInv,
         NEW s, NEW calls, NEW asks, Advances(calls, asks), DeviceSends(s, calls, asks),
         UNCHANGED << session, next_invocation, client_contexts, host_buffer, to_host >>
  PROVE  StreamInv'
<1>1. DeviceStreams /\ KnownIn(ToHost) /\ ClientStreams
  BY DEF StreamInv
<1>2. /\ KnownIn(ToDevice') /\ SessionsInOrder(ToDevice')
      /\ \A call \in calls : Known(call) /\ NotBefore(call, ToDevice')
      /\ \A call : NotBefore(call, ToDevice) => NotBefore(call, ToDevice')
  BY <1>1, AdvanceFacts
<1>3. /\ s \in Seq(Responses(session)) /\ tx_ring' = tx_ring \o Frames(s)
      /\ \A x \in Slots : server_contexts'[x] \in {None, server_contexts[x]} \cup calls
      /\ \A j \in 1 .. Len(s) :
           s[j].call \in calls \/ \E x \in Slots : server_contexts[x] # None /\ s[j].call = server_contexts[x]
  BY DEF DeviceSends
<1>4. \A call : Known(call)' <=> Known(call)
  BY DEF Known
<1>5. \A x \in Slots : server_contexts[x] # None => Known(server_contexts[x]) /\ NotBefore(server_contexts[x], ToDevice)
  BY <1>1 DEF DeviceStreams
<1>6. DeviceStreams'
  <2>1. KnownIn(ToDevice)'
    BY <1>2, <1>4 DEF KnownIn, Known
  <2>2. ASSUME NEW x \in Slots, server_contexts'[x] # None
        PROVE  Known(server_contexts[x])' /\ NotBefore(server_contexts'[x], ToDevice')
    <3> DEFINE call == server_contexts'[x]
    <3>1. call \in calls \/ (server_contexts[x] # None /\ call = server_contexts[x])
      BY <1>3, <2>2
    <3>2. Known(call) /\ NotBefore(call, ToDevice')
      BY <1>2, <1>5, <3>1
    <3> QED
      BY <3>2 DEF Known
  <2> QED
    BY <1>2, <2>1, <2>2 DEF DeviceStreams
<1>7. KnownIn(ToHost)'
  <2>1. SentAt(ToHost, s, ToHost')
    BY <1>3, SentBehindOthers
  <2>2. ASSUME NEW i \in 1 .. Len(ToHost') PROVE Known(ToHost'[i].packet.call)
    <3>1. CASE i \in 1 .. Len(ToHost)
      BY <1>1, <2>1, <3>1 DEF SentAt, KnownIn
    <3>2. CASE \E j \in 1 .. Len(s) : ToHost'[i].packet = s[j]
      BY <1>2, <1>3, <1>5, <3>2
    <3> QED
      BY <2>1, <3>1, <3>2 DEF SentAt
  <2> QED
    BY <2>2 DEF KnownIn, Known
<1>8. ClientStreams'
  <2>1. \A c \in client_contexts : Known(c.call) /\ (Streaming(c.call.method) => StreamInOrder(c))
                                    /\ c.call \in CallsTo(session) /\ c.call.session = session
    BY <1>1 DEF ClientStreams, ClientSound
  <2>2. ASSUME NEW c \in client_contexts, Streaming(c.call.method) PROVE StreamInOrder(c)'
    BY <1>1, <2>1, <2>2, StreamContinues
  <2>3. ASSUME NEW c \in client_contexts PROVE Known(c.call)'
    BY <2>1 DEF Known
  <2> QED
    BY <1>1, <2>2, <2>3 DEF ClientStreams
<1> QED
  BY <1>6, <1>7, <1>8 DEF StreamInv

\* What is written of what was to be sent.
LEMMA WriteSends ==
  ASSUME UnitsTyped, NEW sent \in Seq(Responses(session)), Write(sent)
  PROVE  \E s \in Seq(Responses(session)) :
            /\ tx_ring' = tx_ring \o Frames(s)
            /\ \A j \in 1 .. Len(s) : j \in 1 .. Len(sent) /\ s[j] = sent[j]
            /\ 2 * Len(sent) <= FreeSpace => s = sent
<1> DEFINE P == Responses(session)
           free == FreeSpace
           l == Len(sent)
           m == Least(l, free \div 2)
           s == SubSeq(sent, 1, m)
<1>1. free \in Nat /\ l \in Nat
  BY ConstantsAssumption DEF FreeSpace, UnitsTyped
<1>2. tx_ring' = tx_ring \o Frames(s)
  BY DEF Write, Fitting, FrameSize
<1>3. m \in 0 .. l /\ (2 * l <= free => m = l)
  <2> HIDE DEF free, l
  <2>1. free \div 2 \in Nat /\ (2 * l <= free => l <= free \div 2)
    BY <1>1
  <2> DEFINE d == free \div 2
  <2>2. d \in Nat /\ (2 * l <= free => l <= d) /\ m = Least(l, d)
    BY <2>1
  <2> HIDE DEF d, m
  <2> QED
    BY <1>1, <2>2 DEF Least
<1>4. m \in 0 .. Len(sent) /\ sent \in Seq(P)
  BY <1>3
<1> HIDE DEF m, P
<1>5. s \in Seq(P) /\ Begins(s, sent, m)
  BY <1>4, Split
<1> HIDE DEF s
<1>6. Len(s) = m /\ \A j \in 1 .. Len(s) : j \in 1 .. Len(sent) /\ s[j] = sent[j]
  BY <1>4, <1>5 DEF Begins
<1>7. ASSUME 2 * l <= free PROVE s = sent
  <2>1. Len(s) = Len(sent)
    BY <1>3, <1>6, <1>7
  <2> QED
    BY <1>4, <1>5, <1>6, <2>1, SeqEqual
<1> QED
  BY <1>2, <1>5, <1>6, <1>7 DEF P

\* Nothing is sent, as no response.
LEMMA NothingSent ==
  ASSUME UnitsTyped, UNCHANGED tx_ring
  PROVE  /\ tx_ring' = tx_ring \o Frames(<< >>)
         /\ << >> \in Seq(Responses(session)) /\ Len(<< >>) = 0
<1> DEFINE P == Responses(session)
           n == << >>
           f == Frames(n)
<1>1. n \in Seq(P) /\ Len(n) = 0
  OBVIOUS
<1> HIDE DEF P, n
<1>2. f \in Seq(UnitsOf(P)) /\ Len(f) = 2 * Len(n)
  BY <1>1, FramesFacts
<1> HIDE DEF f
<1>3. f = << >>
  BY <1>1, <1>2, EmptySeq
<1>4. tx_ring \in Seq(UnitsOf(Responses(session)))
  BY DEF UnitsTyped
<1>5. tx_ring \o << >> = tx_ring
  BY <1>4, ConcatEmptySeq
<1> QED
  BY <1>1, <1>3, <1>5 DEF P, n, f

\* A step that leaves the reader alone, or closes it, and sends no response of a stream.
LEMMA QuietSends ==
  ASSUME ServerSound, NEW s \in Seq(Responses(session)), tx_ring' = tx_ring \o Frames(s),
         NEW calls, NEW asks, dropped => dropped',
         \A j \in 1 .. Len(s) : s[j].call \in calls /\ ~Streaming(s[j].call.method),
         \A x \in Slots : server_contexts'[x] \in {None, server_contexts[x]} \cup calls,
         frame_buffer_read'.slot = 0 \/ frame_buffer_read' = frame_buffer_read,
         frame_buffer_read.slot # 0 =>
           server_contexts'[frame_buffer_read.slot] \in {None, server_contexts[frame_buffer_read.slot]}
  PROVE  DeviceSends(s, calls, asks)
<1>1. ASSUME NEW call \in CallsTo(session), Streaming(call.method)
      PROVE  SendsFor(call, s, asks)
  <2>1. \A j \in 1 .. Len(s) : s[j].call # call
    BY <1>1
  <2>2. call # None
    BY NotNone
  <2>3. Reads(server_contexts', frame_buffer_read', call) =>
          Reads(server_contexts, frame_buffer_read, call) /\ frame_buffer_read'.offset = frame_buffer_read.offset
    BY <2>2 DEF Reads
  <2> QED
    BY <2>1, <2>3 DEF SendsFor
<1> QED
  BY <1>1 DEF DeviceSends

\* The responses of a stream that fit are sent.
LEMMA ReaderSends ==
  ASSUME UnitsTyped, NEW frame, ServerFor(server_contexts, frame, session), NEW taken, NEW held,
         Apply(fd_rpc_server_ux_frame_buffer_read_send(State(server_contexts, frame), taken, held)),
         NEW calls, NEW asks,
         \A call \in CallsTo(session) :
           call.session = session /\ Reads(server_contexts, frame, call) =>
             (call \in asks /\ frame.offset = 0) \/ frame = frame_buffer_read
  PROVE  \E s \in Seq(Responses(session)) : DeviceSends(s, calls, asks)
<1> DEFINE st == fd_rpc_server_ux_frame_buffer_read_send(State(server_contexts, frame), taken, held)
           sent == st.sent
<1>1. /\ sent \in Seq(Responses(session))
      /\ \A x \in Slots : st.contexts[x] \in {None, server_contexts[x]}
      /\ 2 * Len(sent) <= FreeSpace
      /\ \A j \in 1 .. Len(sent) : frame.slot # 0 /\ sent[j] = Response(server_contexts[frame.slot], frame.offset + j)
      /\ st.drops \/ st.frame.slot = 0
         \/ st.frame = [slot |-> frame.slot, offset |-> frame.offset + Len(sent)]
  BY SendFacts
<1>2. Apply(st)
  OBVIOUS
<1> HIDE DEF st
<1>3. /\ server_contexts' = st.contexts /\ frame_buffer_read' = st.frame
      /\ dropped' = (dropped \/ st.drops) /\ Write(sent)
  BY <1>2 DEF Apply
<1> HIDE DEF sent
<1>4. tx_ring' = tx_ring \o Frames(sent)
  BY <1>1, <1>3, WriteSends
<1>5. frame.slot # 0 => frame.slot \in Slots /\ server_contexts[frame.slot] # None
  BY DEF ServerFor
<1>9. ASSUME NEW j \in 1 .. Len(sent)
      PROVE  frame.slot # 0 /\ sent[j].call = server_contexts[frame.slot] /\ sent[j].body = frame.offset + j
  <2>1. frame.slot # 0 /\ sent[j] = Response(server_contexts[frame.slot], frame.offset + j)
    BY ONLY <1>1, <1>9, Zenon
  <2> QED
    BY <2>1 DEF Response
<1>6. ASSUME NEW call \in CallsTo(session), call.session = session
      PROVE  SendsFor(call, sent, asks)
  <2>1. CASE dropped'
    BY <2>1 DEF SendsFor
  <2>2. CASE ~dropped'
    <3>1. frame_buffer_read'.slot = 0
          \/ frame_buffer_read' = [slot |-> frame.slot, offset |-> frame.offset + Len(sent)]
      BY <1>1, <1>3, <2>2
    <3>2. CASE Reads(server_contexts, frame, call)
      <4>1. \A j \in 1 .. Len(sent) : sent[j].call = call /\ sent[j].body = frame.offset + j
        BY <1>9, <3>2 DEF Reads
      <4>2. Reads(server_contexts', frame_buffer_read', call) => frame_buffer_read'.offset = frame.offset + Len(sent)
        BY <3>1 DEF Reads
      <4>3. Continues(call, sent, frame.offset)
        BY <4>1, <4>2 DEF Continues
      <4> QED
        BY <1>6, <3>2, <4>3 DEF SendsFor
    <3>3. CASE ~Reads(server_contexts, frame, call)
      <4>1. \A j \in 1 .. Len(sent) : sent[j].call # call
        BY <1>9, <3>3 DEF Reads
      <4>2. call # None
        BY NotNone
      <4>3. ~Reads(server_contexts', frame_buffer_read', call)
        BY <1>1, <1>3, <1>5, <3>1, <3>3, <4>2 DEF Reads
      <4> QED
        BY <4>1, <4>3 DEF SendsFor
    <3> QED
      BY <3>2, <3>3
  <2> QED
    BY <2>1, <2>2
<1>7. \A j \in 1 .. Len(sent) : \E x \in Slots : server_contexts[x] # None /\ sent[j].call = server_contexts[x]
  BY <1>5, <1>9
<1>8. DeviceSends(sent, calls, asks)
  BY <1>1, <1>3, <1>4, <1>6, <1>7 DEF DeviceSends
<1> QED
  BY <1>1, <1>8

\* A packet that is ignored.
LEMMA IgnoreSends ==
  ASSUME UnitsTyped, ServerSound, Ignore, NEW calls, NEW asks
  PROVE  \E s \in Seq(Responses(session)) : DeviceSends(s, calls, asks)
<1>1. UNCHANGED << server_contexts, frame_buffer_read, dropped, tx_ring >>
  BY DEF Ignore, server_vars
<1> DEFINE n == << >>
           P == Responses(session)
<1>2. n \in Seq(P) /\ tx_ring' = tx_ring \o Frames(n) /\ Len(n) = 0
  <2>1. tx_ring' = tx_ring
    BY <1>1
  <2> HIDE DEF P
  <2> QED
    BY ONLY <2>1, UnitsTyped, NothingSent, Zenon DEF P
<1> HIDE DEF n
<1>3. /\ \A j \in 1 .. Len(n) : n[j].call \in calls /\ ~Streaming(n[j].call.method)
      /\ \A x \in Slots : server_contexts'[x] \in {None, server_contexts[x]} \cup calls
      /\ frame_buffer_read' = frame_buffer_read /\ (dropped => dropped')
      /\ server_contexts'[frame_buffer_read.slot] \in {None, server_contexts[frame_buffer_read.slot]}
  BY <1>1, <1>2
<1>4. DeviceSends(n, calls, asks)
  BY <1>2, <1>3, QuietSends
<1> QED
  BY <1>2, <1>4

\* A handler that sends nothing and keeps the reader, or closes it.
LEMMA ApplySends ==
  ASSUME UnitsTyped, ServerSound, NEW st, Apply(st), st.sent = << >>, NEW calls, NEW asks,
         \A x \in Slots : st.contexts[x] \in {None, server_contexts[x]} \cup calls,
         st.frame.slot = 0 \/ st.frame = frame_buffer_read,
         frame_buffer_read.slot # 0 =>
           st.contexts[frame_buffer_read.slot] \in {None, server_contexts[frame_buffer_read.slot]}
  PROVE  \E s \in Seq(Responses(session)) : DeviceSends(s, calls, asks)
<1> DEFINE sent == st.sent
<1>1. /\ server_contexts' = st.contexts /\ frame_buffer_read' = st.frame /\ (dropped => dropped')
      /\ Write(sent)
  BY DEF Apply
<1>2. sent \in Seq(Responses(session)) /\ Len(sent) = 0
  OBVIOUS
<1> HIDE DEF sent
<1>3. PICK s \in Seq(Responses(session)) :
         tx_ring' = tx_ring \o Frames(s) /\ \A j \in 1 .. Len(s) : j \in 1 .. Len(sent)
  BY <1>1, <1>2, WriteSends
<1>4. \A j \in 1 .. Len(s) : FALSE
  BY <1>2, <1>3
<1>5. DeviceSends(s, calls, asks)
  BY <1>1, <1>3, <1>4, QuietSends
<1> QED
  BY <1>5

\* The context of an initialize is not the one of the reader.
LEMMA InitializeSends ==
  ASSUME UnitsTyped, ServerSound, NEW call \in CallsTo(session), fd_rpc_channel_server_initialize(call),
         NEW asks
  PROVE  \E s \in Seq(Responses(session)) : DeviceSends(s, {call}, asks)
<1>1. CASE Ignore
  BY <1>1, IgnoreSends
<1>2. CASE FreeSlots # {} /\ Apply(State(Allocated(Lowest(FreeSlots), call), frame_buffer_read))
  <2> DEFINE slot == Lowest(FreeSlots)
             st == State(Allocated(slot, call), frame_buffer_read)
  <2>1. slot \in Slots /\ server_contexts[slot] = None
    BY <1>2, AllocatedFacts
  <2>2. st.contexts = [server_contexts EXCEPT ![slot] = call] /\ st.frame = frame_buffer_read /\ st.sent = << >>
    BY DEF State, Allocated
  <2>3. Apply(st)
    BY <1>2
  <2> HIDE DEF st, slot
  <2>4. /\ server_contexts \in [Slots -> {None} \cup CallsTo(session)]
        /\ frame_buffer_read.slot # 0 =>
             frame_buffer_read.slot \in Slots /\ server_contexts[frame_buffer_read.slot] # None
    BY DEF ServerSound, ServerFor
  <2>5. \A x \in Slots : st.contexts[x] = IF x = slot THEN call ELSE server_contexts[x]
    BY <2>2, <2>4
  <2> QED
    BY <2>1, <2>2, <2>3, <2>4, <2>5, ApplySends
<1> QED
  BY <1>1, <1>2 DEF fd_rpc_channel_server_initialize

\* The response to a unary call is for no stream.
LEMMA UnarySends ==
  ASSUME UnitsTyped, ServerSound, NEW call \in CallsTo(session), ~Streaming(call.method), FreeSlots # {},
         NEW taken, UnaryRequest(Lowest(FreeSlots), call, taken), NEW asks
  PROVE  \E s \in Seq(Responses(session)) : DeviceSends(s, {call}, asks)
<1> DEFINE slot == Lowest(FreeSlots)
<1>1. CASE fd_rpc_server_ux_set_screen_request(slot, call, taken)
  <2> DEFINE sent == IF HasBuffer(taken, 1) THEN << Response(call, 0) >> ELSE << >>
             answer == Response(call, 0)
  <2>1. answer \in Responses(session) /\ answer.call = call
    BY DEF Response, Responses
  <2> HIDE DEF answer
  <2>2. sent \in Seq(Responses(session)) /\ \A j \in 1 .. Len(sent) : sent[j].call = call
    <3>1. sent = << >> \/ sent = << answer >>
      BY DEF answer
    <3> QED
      BY <2>1, <3>1
  <2>3. Write(sent) /\ UNCHANGED << server_contexts, frame_buffer_read, dropped >>
    BY <1>1 DEF fd_rpc_server_ux_set_screen_request
  <2> HIDE DEF sent
  <2>4. PICK s \in Seq(Responses(session)) :
           tx_ring' = tx_ring \o Frames(s) /\ \A j \in 1 .. Len(s) : j \in 1 .. Len(sent) /\ s[j] = sent[j]
    BY <2>2, <2>3, WriteSends
  <2>5. \A j \in 1 .. Len(s) : s[j].call = call
    BY <2>2, <2>4
  <2>6. DeviceSends(s, {call}, asks)
    BY <2>3, <2>4, <2>5, QuietSends
  <2> QED
    BY <2>6
<1>2. CASE server_contexts' = Allocated(slot, call) /\ UNCHANGED << frame_buffer_read, dropped, tx_ring >>
  <2> DEFINE n == << >>
  <2>1. n \in Seq(Responses(session)) /\ tx_ring' = tx_ring \o Frames(n) /\ Len(n) = 0
    BY <1>2, NothingSent
  <2>2. slot \in Slots /\ server_contexts[slot] = None
    BY AllocatedFacts
  <2> HIDE DEF n, slot
  <2>3. /\ server_contexts \in [Slots -> {None} \cup CallsTo(session)]
        /\ frame_buffer_read.slot # 0 =>
             frame_buffer_read.slot \in Slots /\ server_contexts[frame_buffer_read.slot] # None
    BY DEF ServerSound, ServerFor
  <2>4. \A x \in Slots : server_contexts'[x] = IF x = slot THEN call ELSE server_contexts[x]
    BY <1>2, <2>3 DEF Allocated
  <2>5. /\ \A j \in 1 .. Len(n) : n[j].call \in {call} /\ ~Streaming(n[j].call.method)
        /\ \A x \in Slots : server_contexts'[x] \in {None, server_contexts[x]} \cup {call}
        /\ frame_buffer_read' = frame_buffer_read /\ (dropped => dropped')
        /\ frame_buffer_read.slot # 0 =>
             server_contexts'[frame_buffer_read.slot] \in {None, server_contexts[frame_buffer_read.slot]}
    BY <1>2, <2>1, <2>2, <2>3, <2>4
  <2>6. DeviceSends(n, {call}, asks)
    BY <2>1, <2>5, QuietSends
  <2> QED
    BY <2>1, <2>6
<1> QED
  BY <1>1, <1>2 DEF UnaryRequest

\* The context that is found for a request is its own, if it is one of the program that runs.
LEMMA StreamSends ==
  ASSUME UnitsTyped, ServerSound, NEW call \in CallsTo(session),
         \A x \in Slots : server_contexts[x] # None => server_contexts[x].session <= call.session,
         NEW taken, NEW slot, slot = fd_rpc_server_context_get(call), slot # 0, StreamRequest(slot, taken),
         Streaming(call.method)
  PROVE  \E s \in Seq(Responses(session)) : DeviceSends(s, {call}, {call})
<1> DEFINE frame == [slot |-> slot, offset |-> 0]
<1>1. slot \in Slots /\ IsCall(server_contexts[slot], call)
  BY GetFacts
<1>2. Apply(fd_rpc_server_ux_frame_buffer_read_send(State(server_contexts, frame), taken, 1))
  BY DEF StreamRequest
<1>3. ServerFor(server_contexts, frame, session)
  BY <1>1, ConstantsAssumption DEF ServerSound, ServerFor, IsCall
<1>4. frame.slot = slot /\ frame.offset = 0
  OBVIOUS
<1> HIDE DEF frame
<1>5. ASSUME NEW other \in CallsTo(session), other.session = session, Reads(server_contexts, frame, other)
      PROVE  other = call
  <2>1. server_contexts[slot] = other /\ other # None
    BY <1>4, <1>5, NotNone DEF Reads
  <2>2. other.method = call.method /\ other.invocation = call.invocation
    BY <1>1, <2>1 DEF IsCall
  <2>3. session <= call.session /\ call.session \in 1 .. session
    BY <1>1, <1>5, <2>1 DEF CallsTo
  <2>4. other.session = call.session
    BY <1>5, <2>3 DEF UnitsTyped
  <2> QED
    BY <2>2, <2>4 DEF CallsTo
<1> QED
  BY <1>2, <1>3, <1>4, <1>5, ReaderSends

\* A finalize closes the reader or frees the context of another call.
LEMMA FinalizeSends ==
  ASSUME UnitsTyped, ServerSound, NEW call \in CallsTo(session), fd_rpc_channel_server_finalize(call),
         NEW asks
  PROVE  \E s \in Seq(Responses(session)) : DeviceSends(s, {call}, asks)
<1>1. CASE Ignore
  BY <1>1, IgnoreSends
<1>2. CASE ~Ignore
  <2> DEFINE slot == fd_rpc_server_context_get(call)
             context == server_contexts[slot]
             closed == FinalizeServer(Current, context)
             st == [closed EXCEPT !.contexts = Freed(@, slot)]
             reader == frame_buffer_read.slot
             left == IF Streaming(context.method) THEN Freed(server_contexts, reader) ELSE server_contexts
             frame == IF Streaming(context.method) THEN NoReader ELSE frame_buffer_read
  <2>1. Apply(st)
    BY <1>2 DEF fd_rpc_channel_server_finalize
  <2>2. closed = [contexts |-> left, frame |-> frame, sent |-> << >>, drops |-> FALSE]
    BY DEF FinalizeServer, Current, State, fd_rpc_server_ux_frame_buffer_close
  <2> HIDE DEF closed
  <2>3. st.contexts = Freed(left, slot) /\ st.frame = frame /\ st.sent = << >>
    BY <2>2
  <2> HIDE DEF st
  <2>4. frame.slot = 0 \/ frame = frame_buffer_read
    BY DEF NoReader
  <2>5. \A x \in Slots : left[x] \in {None, server_contexts[x]}
    BY DEF Freed
  <2> HIDE DEF left, frame
  <2>6. \A x \in Slots : st.contexts[x] \in {None, left[x]}
    BY <2>3 DEF Freed
  <2>7. \A x \in Slots : st.contexts[x] \in {None, server_contexts[x]}
    BY <2>5, <2>6
  <2>8. reader # 0 => reader \in Slots
    BY DEF ServerSound, ServerFor
  <2> QED
    BY <2>1, <2>3, <2>4, <2>7, <2>8, ApplySends
<1> QED
  BY <1>1, <1>2

\* What a packet asked for.
AskedBy(packet) == IF packet.type = "server_request" THEN {packet.call} ELSE {}

\* Whatever the packet is, what is sent for a stream follows what was sent for it.
LEMMA HandleSends ==
  ASSUME UnitsTyped, ServerSound, NEW packet \in Requests(session), NEW taken, Handle(packet, taken),
         \A x \in Slots : server_contexts[x] # None => server_contexts[x].session <= packet.call.session
  PROVE  \E s \in Seq(Responses(session)) : DeviceSends(s, {packet.call}, AskedBy(packet))
<1> DEFINE call == packet.call
<1>1. call \in CallsTo(session)
  BY DEF Requests
<1>2. CASE packet.type = "server_initialize" /\ fd_rpc_channel_server_initialize(call)
  BY <1>1, <1>2, InitializeSends
<1>3. CASE packet.type = "server_request" /\ fd_rpc_channel_server_request(call, taken)
  <2>1. AskedBy(packet) = {call}
    BY <1>3 DEF AskedBy
  <2>2. CASE Ignore
    BY <2>2, IgnoreSends
  <2>3. CASE ~Streaming(call.method) /\ FreeSlots # {} /\ UnaryRequest(Lowest(FreeSlots), call, taken)
    BY <1>1, <2>3, UnarySends
  <2>4. CASE /\ Streaming(call.method) /\ fd_rpc_server_context_get(call) # 0
             /\ StreamRequest(fd_rpc_server_context_get(call), taken)
    BY <1>1, <2>1, <2>4, StreamSends
  <2> QED
    BY <1>3, <2>2, <2>3, <2>4 DEF fd_rpc_channel_server_request
<1>4. CASE packet.type = "server_finalize" /\ fd_rpc_channel_server_finalize(call)
  BY <1>1, <1>4, FinalizeSends
<1> QED
  BY <1>2, <1>3, <1>4 DEF Handle

-----------------------------------------------------------------------------
(* The steps of the device's work queue. *)

\* rx_work: a packet may start a stream, or answer a call.
LEMMA ReceivedDataStreams ==
  ASSUME CallInv, StreamInv, fd_rpc_channel_received_data
  PROVE  StreamInv'
<1>1. UnitsTyped /\ ServerSound /\ ClientSound
  BY DEF CallInv
<1>2. UNCHANGED << session, next_invocation, client_contexts, host_buffer, to_host >>
  BY DEF fd_rpc_channel_received_data, host_vars
<1>3. CASE ToDevice' = ToDevice /\ Ignore
  <2>1. Advances({}, {})
    BY <1>3 DEF Advances
  <2>2. PICK s : DeviceSends(s, {}, {})
    BY <1>1, <1>3, IgnoreSends
  <2> QED
    BY <1>1, <1>2, <2>1, <2>2, DeviceSendsKeeps
<1>4. ASSUME NEW k \in 1 .. Len(ToDevice), HandledPart(k) PROVE StreamInv'
  <2> DEFINE packet == ToDevice[k].packet
             calls == {packet.call}
             asks == AskedBy(packet)
  <2>1. packet \in Requests(session)
    BY <1>1, QueuesTyped
  <2>2. Advances(calls, asks)
    BY <1>4 DEF Advances, HandledPart, AskedBy
  <2>3. \A x \in Slots : server_contexts[x] # None => server_contexts[x].session <= packet.call.session
    BY DEF StreamInv, DeviceStreams, NotBefore
  <2>4. Ignore \/ \E taken \in 0 .. Buffers : Handle(packet, taken)
    BY <1>4 DEF HandledPart
  <2> HIDE DEF packet
  <2>5. \E s : DeviceSends(s, calls, asks)
    BY <1>1, <2>1, <2>3, <2>4, IgnoreSends, HandleSends
  <2>6. PICK s : DeviceSends(s, calls, asks)
    BY <2>5
  <2> HIDE DEF calls, asks
  <2> QED
    BY <1>1, <1>2, <2>2, <2>6, DeviceSendsKeeps
<1> QED
  BY <1>3, <1>4, ReceivedDataKeeps

\* The send work goes on where the reader is.
LEMMA SendWorkStreams ==
  ASSUME CallInv, StreamInv, fd_rpc_server_ux_send_work
  PROVE  StreamInv'
<1>1. UnitsTyped /\ ServerSound /\ ClientSound
  BY DEF CallInv
<1>2. UNCHANGED << session, next_invocation, client_contexts, host_buffer, to_host, rx_packet, rx_ring,
                   to_device >>
  BY DEF fd_rpc_server_ux_send_work, host_vars
<1>3. PICK taken \in 0 .. Buffers :
         Apply(fd_rpc_server_ux_frame_buffer_read_send(State(server_contexts, frame_buffer_read), taken, 0))
  BY DEF fd_rpc_server_ux_send_work, Current
<1>4. Advances({}, {})
  BY <1>2 DEF Advances, ToDevice
<1>5. ServerFor(server_contexts, frame_buffer_read, session)
  BY <1>1 DEF ServerSound
<1>6. PICK s : DeviceSends(s, {}, {})
  BY <1>1, <1>3, <1>5, ReaderSends
<1> QED
  BY <1>1, <1>2, <1>4, <1>6, DeviceSendsKeeps

\* disconnected_work closes the reader with its context.
LEMMA DisconnectedStreams ==
  ASSUME CallInv, StreamInv, disconnected_work
  PROVE  StreamInv'
<1>1. UnitsTyped /\ ServerSound /\ ClientSound
  BY DEF CallInv
<1>2. UNCHANGED << session, next_invocation, client_contexts, host_buffer, to_host, rx_packet, rx_ring,
                   to_device, dropped, tx_ring >>
  BY DEF disconnected_work, fd_rpc_channel_closed, host_vars
<1>3. Advances({}, {})
  BY <1>2 DEF Advances, ToDevice
<1>4. \A x \in Slots : server_contexts'[x] = None
  BY DEF disconnected_work, fd_rpc_channel_closed
<1>5. frame_buffer_read'.slot = 0 /\ (frame_buffer_read.slot # 0 => frame_buffer_read.slot \in Slots)
  BY <1>1 DEF disconnected_work, fd_rpc_channel_closed, ServerSound, ServerFor, NoReader
<1> DEFINE n == << >>
<1>6. n \in Seq(Responses(session)) /\ tx_ring' = tx_ring \o Frames(n) /\ Len(n) = 0
  BY <1>1, <1>2, NothingSent
<1> HIDE DEF n
<1>7. \A j \in 1 .. Len(n) : n[j].call \in {} /\ ~Streaming(n[j].call.method)
  BY <1>6
<1>8. DeviceSends(n, {}, {})
  BY <1>1, <1>2, <1>4, <1>5, <1>6, <1>7, QuietSends
<1> QED
  BY <1>1, <1>2, <1>3, <1>8, DeviceSendsKeeps

-----------------------------------------------------------------------------
(* The other steps. *)

\* A step that changes neither what is on its way nor the server.
LEMMA StreamsKept ==
  ASSUME StreamInv, UNCHANGED << session, next_invocation, server_contexts, frame_buffer_read, dropped >>,
         ToDevice' = ToDevice, ToHost' = ToHost, client_contexts' \subseteq client_contexts
  PROVE  StreamInv'
<1>1. DeviceStreams /\ KnownIn(ToHost) /\ ClientStreams
  BY DEF StreamInv
<1>2. \A call : Known(call)' <=> Known(call)
  BY DEF Known
<1>3. DeviceStreams'
  BY <1>1 DEF DeviceStreams, KnownIn, Known
<1>4. KnownIn(ToHost)'
  BY <1>1 DEF KnownIn, Known
<1>5. ASSUME NEW c, StreamInOrder(c) PROVE StreamInOrder(c)'
  BY <1>5 DEF StreamInOrder, StreamFollows
<1>6. ClientStreams'
  <2>1. \A c \in client_contexts' : Known(c.call)'
    BY <1>1 DEF ClientStreams, Known
  <2> QED
    BY <1>1, <1>5, <2>1 DEF ClientStreams
<1> QED
  BY <1>3, <1>4, <1>6 DEF StreamInv

\* The interrupts only move units along.
LEMMA RxIrqStreams ==
  ASSUME CallInv, StreamInv, fd_rpc_channel_usb_rx_irq
  PROVE  StreamInv'
<1>1. UNCHANGED << host_vars, server_vars, host_buffer, to_host, tx_ring >> /\ ToDevice' = ToDevice
  BY RxIrqKeeps DEF fd_rpc_channel_usb_rx_irq, host_vars
<1> QED
  BY <1>1, StreamsKept DEF ToHost, host_vars, server_vars

\* So does the one that transmits.
LEMMA TxInterruptStreams ==
  ASSUME CallInv, StreamInv, TxInterrupt
  PROVE  StreamInv'
<1>1. UNCHANGED << host_vars, server_vars, rx_ring, rx_packet, to_device >> /\ ToHost' = ToHost
  BY TxInterruptKeeps DEF TxInterrupt
<1> QED
  BY <1>1, StreamsKept DEF ToDevice, host_vars, server_vars

\* callback_work only submits the send work.
LEMMA CallbackStreams ==
  ASSUME StreamInv, callback_work
  PROVE  StreamInv'
<1>1. UNCHANGED << rx_ring, rx_packet, tx_ring, to_device, to_host, host_vars, server_vars >>
  BY DEF callback_work
<1> QED
  BY <1>1, StreamsKept DEF ToDevice, ToHost, host_vars, server_vars

\* The poll of DTR leaves the queues alone.
LEMMA TimerStreams ==
  ASSUME StreamInv, fd_rpc_channel_usb_cdc_timer
  PROVE  StreamInv'
<1>1. UNCHANGED << rx_ring, rx_packet, tx_ring, to_device, to_host, host_vars, server_vars >>
  BY DEF fd_rpc_channel_usb_cdc_timer
<1> QED
  BY <1>1, StreamsKept DEF ToDevice, ToHost, host_vars, server_vars

\* A unary call that returns drops its own context.
LEMMA ReturnStreams ==
  ASSUME StreamInv, unary_call_returns
  PROVE  StreamInv'
<1>1. /\ UNCHANGED << session, next_invocation, host_buffer, to_device, to_host, channel_vars, server_vars >>
      /\ client_contexts' \subseteq client_contexts
  BY DEF unary_call_returns, WithoutCall
<1> QED
  BY <1>1, StreamsKept DEF ToDevice, ToHost, channel_vars, server_vars

\* Nothing is on its way for a context whose call is a new one.
New(c) ==
  /\ Asked(ToDevice, c.call) = {}
  /\ dropped \/ /\ GotInOrder(c, 0) /\ SentInOrder(ToHost, c.call, 0, 0)
                /\ ~Reads(server_contexts, frame_buffer_read, c.call)

\* No earlier packet has the invocation of a new call.
LEMMA NewFacts ==
  ASSUME CallInv, StreamInv, NEW c, c.call \in CallsTo(session), c.call.session = session,
         c.call.invocation = next_invocation + 1, c.got = << >>
  PROVE  New(c)
<1> DEFINE call == c.call
<1>1. ~Known(call)
  BY DEF Known, CallInv, ClientSound
<1>2. Asked(ToDevice, call) = {} /\ Sent(ToHost, call) = {}
  BY <1>1 DEF StreamInv, DeviceStreams, KnownIn, Asked, Sent
<1>3. ~Reads(server_contexts, frame_buffer_read, call)
  <2>1. frame_buffer_read.slot # 0 => frame_buffer_read.slot \in Slots
    BY DEF CallInv, ServerSound, ServerFor
  <2>2. call # None
    BY NotNone
  <2> QED
    BY <1>1, <2>1, <2>2 DEF StreamInv, DeviceStreams, Reads
<1>4. SentInOrder(ToHost, call, 0, 0)
  <2>1. 0 + 1 .. 0 = {}
    OBVIOUS
  <2> QED
    BY <1>2, <2>1, Zenon DEF SentInOrder
<1>5. GotInOrder(c, 0)
  <2>1. Own(c) = {} /\ 1 .. 0 = {}
    BY DEF Own
  <2> QED
    BY <2>1, Zenon DEF GotInOrder
<1> QED
  BY <1>2, <1>3, <1>4, <1>5 DEF New

\* The program sends a packet, and has a new context or one less.
LEMMA HostSendsKeeps ==
  ASSUME CallInv, StreamInv, NEW p \in Requests(session), p.call.session = session,
         ToDevice' = ToDevice \o Frame(p), ToHost' = ToHost,
         UNCHANGED << session, server_contexts, frame_buffer_read, dropped >>,
         next_invocation' \in Nat, next_invocation <= next_invocation', p.call.invocation <= next_invocation',
         \A c \in client_contexts' :
           \/ c \in client_contexts /\ (Streaming(c.call.method) => p.type # "server_request" \/ p.call # c.call)
           \/ c.call = p.call /\ (Streaming(c.call.method) => New(c) /\ (c.requested \/ p.type # "server_request")),
         \A c, d \in client_contexts' : c.call = d.call => c = d
  PROVE  StreamInv'
<1> DEFINE q == ToDevice
           r == ToDevice'
           P == Requests(session)
<1>1. DeviceStreams /\ KnownIn(ToHost) /\ ClientStreams
  BY DEF StreamInv
<1>2. UnitsTyped /\ ServerSound /\ ClientSound
  BY DEF CallInv
<1>3. q \in Seq(UnitsOf(P)) /\ Len(q) \in Nat /\ \A i \in 1 .. Len(q) : q[i].packet \in P
  BY <1>2, QueuesTyped
<1>4. session \in Nat /\ \A i \in 1 .. Len(q) : q[i].packet.call.session <= session
  <2>1. \A x \in P : x.call.session <= session
    BY <1>2 DEF Requests, CallsTo, UnitsTyped
  <2> QED
    BY <1>2, <1>3, <2>1 DEF UnitsTyped
<1>5. r = q \o Frame(p) /\ p.call.session \in Nat /\ p \in P /\ q \in Seq(UnitsOf(P))
  BY <1>3, <1>4
<1> HIDE DEF q, r, P
<1>6. /\ \A i \in 1 .. Len(r) : r[i].packet = p \/ (i \in 1 .. Len(q) /\ r[i] = q[i])
      /\ SessionsInOrder(q) /\ (\A i \in 1 .. Len(q) : q[i].packet.call.session <= p.call.session)
           => SessionsInOrder(r)
      /\ \A call : NotBefore(call, q) /\ call.session <= p.call.session => NotBefore(call, r)
      /\ \A call : p.type # "server_request" \/ p.call # call => Asked(r, call) = Asked(q, call)
      /\ \A call : Asked(q, call) = {} => AskedOnce(r, call)
  <2>1. AskedAfter(q, p, r)
    BY ONLY <1>5, AskedFacts, Zenon
  <2> QED
    BY ONLY <2>1 DEF AskedAfter
<1> DEFINE Now(call) == call.session = session => call.invocation <= next_invocation'
<1>7. \A call : Known(call) /\ (call.session = session => call.invocation \in Nat) => Now(call)
  BY <1>2 DEF Known, ClientSound
<1>8. Now(p.call)
  OBVIOUS
<1>9. \A call \in CallsTo(session) : call.invocation \in Nat /\ call.session <= session
  BY <1>4 DEF CallsTo
<1>10. KnownIn(ToDevice)'
  <2>1. \A i \in 1 .. Len(q) : q[i].packet.call \in CallsTo(session)
    BY <1>3 DEF P, Requests
  <2>2. \A i \in 1 .. Len(q) : Now(q[i].packet.call)
    BY <1>1, <1>7, <1>9, <2>1 DEF DeviceStreams, KnownIn, q
  <2>3. \A i \in 1 .. Len(r) : Now(r[i].packet.call)
    BY <1>6, <1>8, <2>2
  <2> QED
    BY <2>3 DEF KnownIn, Known, r
<1>11. KnownIn(ToHost)'
  <2>1. \A i \in 1 .. Len(ToHost) : ToHost[i].packet.call \in CallsTo(session)
    BY <1>2, QueuesTyped DEF Responses
  <2>2. \A i \in 1 .. Len(ToHost) : Now(ToHost[i].packet.call)
    BY <1>1, <1>7, <1>9, <2>1 DEF KnownIn
  <2> QED
    BY <2>2 DEF KnownIn, Known
<1>12. DeviceStreams'
  <2>1. SessionsInOrder(r)
    BY <1>1, <1>4, <1>6 DEF DeviceStreams, q
  <2>2. ASSUME NEW s \in Slots, server_contexts[s] # None
        PROVE  Now(server_contexts[s]) /\ NotBefore(server_contexts[s], r)
    <3>1. server_contexts[s] \in CallsTo(session)
      BY <1>2, <2>2 DEF ServerSound, ServerFor
    <3>2. Known(server_contexts[s]) /\ NotBefore(server_contexts[s], q)
      BY <1>1, <2>2 DEF DeviceStreams, q
    <3> QED
      BY <1>6, <1>7, <1>9, <3>1, <3>2
  <2> QED
    BY <1>10, <2>1, <2>2 DEF DeviceStreams, Known, r
<1>13. ASSUME NEW c \in client_contexts' PROVE Now(c.call) /\ (Streaming(c.call.method) => StreamInOrder(c)')
  <2>1. CASE c \in client_contexts /\ (Streaming(c.call.method) => p.type # "server_request" \/ p.call # c.call)
    <3>1. c.call \in CallsTo(session) /\ Known(c.call) /\ (Streaming(c.call.method) => StreamInOrder(c))
      BY <1>1, <1>2, <2>1 DEF ClientSound, ClientStreams
    <3>2. Now(c.call)
      BY <1>7, <1>9, <3>1
    <3>3. ASSUME Streaming(c.call.method) PROVE StreamInOrder(c)'
      <4>1. Asked(ToDevice', c.call) = Asked(ToDevice, c.call)
        BY <1>6, <2>1, <3>3 DEF q, r
      <4>2. AskedOnce(ToDevice', c.call) /\ (~c.requested => Asked(ToDevice', c.call) = {})
        BY <3>1, <3>3, <4>1 DEF StreamInOrder, AskedOnce
      <4> QED
        BY <3>1, <3>3, <4>1, <4>2 DEF StreamInOrder, StreamFollows
    <3> QED
      BY <3>2, <3>3
  <2>2. CASE c.call = p.call /\ (Streaming(c.call.method) => New(c) /\ (c.requested \/ p.type # "server_request"))
    <3>1. ASSUME Streaming(c.call.method) PROVE StreamInOrder(c)'
      <4>1. New(c) /\ (c.requested \/ p.type # "server_request")
        BY <2>2, <3>1
      <4>2. AskedOnce(ToDevice', c.call) /\ (~c.requested => Asked(ToDevice', c.call) = {})
        BY <1>6, <4>1 DEF New, q, r
      <4>3. dropped \/ StreamFollows(c, 0, 0)'
        BY <4>1 DEF New, StreamFollows
      <4>4. 0 \in Nat /\ 0 \in 0 .. 0
        OBVIOUS
      <4> QED
        BY <4>2, <4>3, <4>4 DEF StreamInOrder
    <3> QED
      BY <1>8, <2>2, <3>1
  <2> QED
    BY <2>1, <2>2
<1>14. ClientStreams'
  BY <1>13 DEF ClientStreams, Known
<1> QED
  BY <1>11, <1>12, <1>14 DEF StreamInv

\* A call of the host starts: its stream is a new one.
LEMMA CallStreams ==
  ASSUME CallInv, StreamInv, NEW method \in Methods,
         unary_call(method) \/ server_streaming_initialize(method) \/ server_streaming_call(method)
  PROVE  StreamInv'
<1> DEFINE call == NewCall(method)
<1>1. /\ CanCall /\ next_invocation' = next_invocation + 1
      /\ UnchangedInCall
  BY DEF unary_call, server_streaming_initialize, server_streaming_call
<1>2. /\ call \in CallsTo(session) /\ call.session = session /\ call.method = method
      /\ \A asked \in BOOLEAN :
           [Context(call) EXCEPT !.requested = asked] = [call |-> call, got |-> << >>, requested |-> asked]
      /\ Context(call) = [call |-> call, got |-> << >>, requested |-> FALSE]
      /\ call.invocation = next_invocation + 1
  BY <1>1, NewCallFacts DEF NewCall
<1>3. \E asked \in BOOLEAN, type \in {"server_request", "server_initialize"} :
         /\ Send(Request(type, call))
         /\ Streaming(method) => asked \/ type # "server_request"
         /\ type = "server_initialize" => Streaming(method)
         /\ client_contexts' = client_contexts \union {[call |-> call, got |-> << >>, requested |-> asked]}
  <2>1. CASE unary_call(method)
    BY <1>2, <2>1 DEF unary_call
  <2>2. CASE server_streaming_initialize(method)
    BY <1>2, <2>2 DEF server_streaming_initialize
  <2>3. CASE server_streaming_call(method)
    BY <1>2, <2>3 DEF server_streaming_call
  <2> QED
    BY <2>1, <2>2, <2>3
<1> HIDE DEF call
<1>4. PICK asked \in BOOLEAN, type \in {"server_request", "server_initialize"} :
         /\ Send(Request(type, call))
         /\ Streaming(method) => asked \/ type # "server_request"
         /\ type = "server_initialize" => Streaming(method)
         /\ client_contexts' = client_contexts \union {[call |-> call, got |-> << >>, requested |-> asked]}
  BY <1>3
<1> DEFINE p == Request(type, call)
           new == [call |-> call, got |-> << >>, requested |-> asked]
<1>5. p \in Requests(session)
  BY <1>2, <1>4, RequestFacts
<1>6. p.call = call /\ p.type = type
  BY DEF Request
<1>7. new.call = call /\ new.got = << >> /\ new.requested = asked
  OBVIOUS
<1>8. Send(p) /\ client_contexts' = client_contexts \union {new}
  BY <1>4
<1> HIDE DEF p, new
<1>9. ToDevice' = ToDevice \o Frame(p)
  BY <1>1, <1>5, <1>8, Sends
<1>10. New(new)
  BY <1>2, <1>7, NewFacts
<1>11. \A c \in client_contexts : c.call # call
  <2>1. \A c \in client_contexts : Known(c.call)
    BY DEF StreamInv, ClientStreams
  <2> QED
    BY <1>2, <2>1 DEF Known, CallInv, ClientSound
<1>12. UNCHANGED << session, server_contexts, frame_buffer_read, dropped >> /\ ToHost' = ToHost
  BY <1>1 DEF UnchangedInCall, channel_vars, server_vars, ToHost
<1>13. next_invocation \in Nat
  BY DEF CallInv, ClientSound
<1>14. /\ next_invocation' \in Nat /\ next_invocation <= next_invocation'
       /\ p.call.invocation <= next_invocation' /\ p.call.session = session
  BY <1>1, <1>2, <1>6, <1>13
<1>15. \A c \in client_contexts' :
           \/ c \in client_contexts /\ (Streaming(c.call.method) => p.type # "server_request" \/ p.call # c.call)
           \/ c.call = p.call /\ (Streaming(c.call.method) => New(c) /\ (c.requested \/ p.type # "server_request"))
  BY <1>2, <1>4, <1>6, <1>7, <1>8, <1>10, <1>11
<1>16. \A c, d \in client_contexts' : c.call = d.call => c = d
  BY <1>7, <1>8, <1>11 DEF StreamInv, ClientStreams
<1> QED
  BY <1>5, <1>9, <1>12, <1>14, <1>15, <1>16, HostSendsKeeps

\* A stream is asked for once, and given up.
LEMMA StreamCallStreams ==
  ASSUME CallInv, StreamInv, NEW context \in client_contexts,
         server_streaming_request(context) \/ server_streaming_finalize(context)
  PROVE  StreamInv'
<1> DEFINE call == context.call
           asked == [context EXCEPT !.requested = TRUE]
<1>1. /\ context \in [call : CallsTo(session), got : Seq(Responses(session)), requested : BOOLEAN]
      /\ call \in CallsTo(session) /\ call.session = session /\ next_invocation \in Nat
  BY DEF CallInv, ClientSound
<1>2. UnchangedInCall /\ UNCHANGED next_invocation /\ Streaming(call.method)
  BY DEF server_streaming_request, server_streaming_finalize
<1>3. /\ Known(call) /\ StreamInOrder(context)
      /\ \A c, d \in client_contexts : c.call = d.call => c = d
  BY <1>2 DEF StreamInv, ClientStreams
<1>4. asked.call = call /\ asked.got = context.got /\ asked.requested
  BY <1>1
<1>5. UNCHANGED << session, server_contexts, frame_buffer_read, dropped >> /\ ToHost' = ToHost
  BY <1>2 DEF UnchangedInCall, channel_vars, server_vars, ToHost
<1>6. next_invocation' \in Nat /\ next_invocation <= next_invocation' /\ call.invocation <= next_invocation'
  BY <1>1, <1>2, <1>3 DEF Known
<1>7. CASE server_streaming_request(context)
  <2> DEFINE p == Request("server_request", call)
  <2>1. ~context.requested /\ Send(p) /\ client_contexts' = (client_contexts \ {context}) \union {asked}
    BY <1>7 DEF server_streaming_request
  <2>2. p \in Requests(session) /\ p.call = call /\ p.type = "server_request"
    BY <1>1, RequestFacts DEF Request
  <2> HIDE DEF p, asked
  <2>3. ToDevice' = ToDevice \o Frame(p)
    BY <1>2, <2>1, <2>2, Sends
  <2>4. New(asked)
    <3>1. Asked(ToDevice, call) = {}
      BY <1>3, <2>1 DEF StreamInOrder
    <3>2. ASSUME ~dropped
          PROVE  /\ GotInOrder(context, 0) /\ SentInOrder(ToHost, call, 0, 0)
                 /\ ~Reads(server_contexts, frame_buffer_read, call)
      <4>1. PICK n \in Nat : \E g \in 0 .. n : StreamFollows(context, g, n)
        BY <1>3, <3>2 DEF StreamInOrder
      <4>2. PICK g \in 0 .. n : StreamFollows(context, g, n)
        BY <4>1
      <4>3. n = 0 /\ ~Reads(server_contexts, frame_buffer_read, call)
        BY <2>1, <4>2 DEF StreamFollows
      <4>4. g = 0
        BY <4>3
      <4> QED
        BY <4>2, <4>3, <4>4 DEF StreamFollows
    <3>3. GotInOrder(context, 0) => GotInOrder(asked, 0)
      BY <1>4 DEF GotInOrder, Own
    <3> QED
      BY <1>4, <3>1, <3>2, <3>3 DEF New
  <2>5. \A c \in client_contexts' :
           \/ c \in client_contexts /\ (Streaming(c.call.method) => p.type # "server_request" \/ p.call # c.call)
           \/ c.call = p.call /\ (Streaming(c.call.method) => New(c) /\ (c.requested \/ p.type # "server_request"))
    <3>1. \A c \in client_contexts : c # context => c.call # call
      BY <1>3
    <3> HIDE DEF call
    <3> QED
      BY <1>4, <2>1, <2>2, <2>4, <3>1
  <2>6. \A c, d \in client_contexts' : c.call = d.call => c = d
    BY <1>3, <1>4, <2>1
  <2>7. p.call.session = session /\ p.call.invocation <= next_invocation'
    BY <1>1, <1>6, <2>2
  <2> QED
    BY <1>5, <1>6, <2>2, <2>3, <2>5, <2>6, <2>7, HostSendsKeeps
<1>8. CASE server_streaming_finalize(context)
  <2> DEFINE p == Request("server_finalize", call)
  <2>1. Send(p) /\ client_contexts' = client_contexts \ {context}
    BY <1>8 DEF server_streaming_finalize
  <2>2. p \in Requests(session) /\ p.call = call /\ p.type = "server_finalize"
    BY <1>1, RequestFacts DEF Request
  <2> HIDE DEF p
  <2>3. ToDevice' = ToDevice \o Frame(p)
    BY <1>2, <2>1, <2>2, Sends
  <2>4. \A c \in client_contexts' : c \in client_contexts /\ p.type # "server_request"
    BY <2>1, <2>2
  <2>5. \A c, d \in client_contexts' : c.call = d.call => c = d
    BY <1>3, <2>1
  <2>6. p.call.session = session /\ p.call.invocation <= next_invocation'
    BY <1>1, <1>6, <2>2
  <2> QED
    BY <1>5, <1>6, <2>2, <2>3, <2>4, <2>5, <2>6, HostSendsKeeps
<1> QED
  BY <1>7, <1>8

\* The host reads a packet: the context of the stream is given its next response.
LEMMA ReadStreamStreams ==
  ASSUME CallInv, StreamInv, StreamChannel_read
  PROVE  StreamInv'
<1>1. UnitsTyped /\ ClientSound /\ DeviceStreams /\ KnownIn(ToHost) /\ ClientStreams
  BY DEF CallInv, StreamInv
<1>2. /\ UNCHANGED << session, next_invocation, server_contexts, frame_buffer_read, dropped >>
      /\ ToDevice' = ToDevice
  BY DEF StreamChannel_read, channel_vars, server_vars, ToDevice
<1>3. CASE ToHost' = ToHost /\ UNCHANGED client_contexts
  BY <1>2, <1>3, StreamsKept
<1>4. ASSUME NEW k \in 1 .. Len(ToHost), ReadPart(k) PROVE StreamInv'
  <2> DEFINE q == ToHost
             r == ToHost'
             packet == q[k].packet
  <2>1. /\ Dropped(r, q, k) /\ q[k].at = "tail" /\ Len(q) \in Nat /\ k \in 0 .. Len(q)
        /\ k = 1 \/ (k = 2 /\ q[1].at = "head")
        /\ packet \in Responses(session)
    BY <1>1, <1>4, QueuesTyped DEF ReadPart
  <2>2. \A call : 1 \in Sent(q, call) <=> k = 2 /\ packet.call = call
    BY <1>4, <2>1 DEF Sent, ReadPart
  <2>3. \A d \in client_contexts' : \E c \in client_contexts :
           \/ d = c /\ (k = 1 \/ ~IsFor(c, packet.call))
           \/ k = 2 /\ IsFor(c, packet.call) /\ d = [c EXCEPT !.got = Append(@, packet)]
    BY <1>4 DEF ReadPart, transport_client_response
  <2>4. \A call : Known(call)' <=> Known(call)
    BY <1>2 DEF Known
  <2>5. KnownIn(ToHost)'
    <3> HIDE DEF q, r
    <3>1. KnownIn(q) => KnownIn(r)
      BY <2>1, DroppedStreams
    <3>2. \A i \in 1 .. Len(r) : Known(r[i].packet.call)
      BY <1>1, <3>1 DEF KnownIn, q
    <3> QED
      BY <1>2, <3>2 DEF KnownIn, Known, r
  <2>6. DeviceStreams'
    BY <1>1, <1>2 DEF DeviceStreams, KnownIn, Known
  <2> HIDE DEF q, r, packet
  <2>7. ASSUME NEW c \in client_contexts, NEW d, d.call = c.call, d.requested = c.requested,
               Streaming(c.call.method),
               \/ d = c /\ (k = 1 \/ ~IsFor(c, packet.call))
               \/ k = 2 /\ IsFor(c, packet.call) /\ d.got = Append(c.got, packet)
        PROVE  StreamInOrder(d)'
    <3>1. StreamInOrder(c) /\ c.got \in Seq(Responses(session))
      BY <1>1, <2>7 DEF ClientStreams, ClientSound
    <3>2. AskedOnce(ToDevice', d.call) /\ (~d.requested => Asked(ToDevice', d.call) = {})
      BY <1>2, <2>7, <3>1 DEF StreamInOrder
    <3>3. ASSUME NEW n \in Nat, NEW g \in 0 .. n, StreamFollows(c, g, n)
          PROVE  \E h \in 0 .. n : StreamFollows(d, h, n)'
      <4>1. GotInOrder(c, g) /\ SentInOrder(q, c.call, g, n) /\ g \in Nat
        BY <3>3 DEF StreamFollows, q
      <4>2. /\ 1 \notin Sent(q, c.call) => SentInOrder(r, c.call, g, n)
            /\ 1 \in Sent(q, c.call) =>
                 k = 2 /\ q[1].packet.body = g + 1 /\ g + 1 <= n /\ SentInOrder(r, c.call, g + 1, n)
        BY <2>1, <4>1, ReadStreams
      <4>3. ASSUME NEW h \in 0 .. n, GotInOrder(d, h), SentInOrder(r, d.call, h, n)
            PROVE  StreamFollows(d, h, n)'
        BY <1>2, <2>7, <3>3, <4>3 DEF StreamFollows, r
      <4>4. CASE 1 \notin Sent(q, c.call)
        <5>1. GotInOrder(d, g)
          <6>1. CASE d = c
            BY <4>1, <6>1
          <6>2. CASE k = 2 /\ d.got = Append(c.got, packet)
            <7>1. packet.call # c.call
              BY <2>2, <4>4, <6>2
            <7> QED
              <8>1. /\ c.got \in Seq(Responses(session)) /\ packet \in Responses(session) /\ d.call = c.call
                    /\ g \in Nat /\ GotInOrder(c, g)
                    /\ d.got = Append(c.got, packet) /\ packet.call # c.call
                BY <2>1, <2>7, <3>1, <4>1, <6>2, <7>1
              <8> QED
                BY ONLY <8>1, GotFacts
          <6> QED
            BY <2>7, <6>1, <6>2
        <5>2. SentInOrder(r, d.call, g, n)
          BY <2>7, <4>2, <4>4
        <5> QED
          BY <4>3, <5>1, <5>2
      <4>5. CASE 1 \in Sent(q, c.call)
        <5>1. k = 2 /\ packet.call = c.call /\ g + 1 <= n /\ SentInOrder(r, d.call, g + 1, n)
          BY <2>2, <2>7, <4>2, <4>5
        <5>2. packet.body = g + 1
          <6>1. q[1].packet = packet
            BY <1>4, <5>1 DEF ReadPart, q, packet
          <6> QED
            BY <4>2, <4>5, <6>1
        <5>3. d.got = Append(c.got, packet)
          BY <2>7, <5>1 DEF IsFor
        <5>4. GotInOrder(d, g + 1)
          <6>1. /\ c.got \in Seq(Responses(session)) /\ packet \in Responses(session) /\ d.call = c.call
                /\ g \in Nat /\ GotInOrder(c, g)
                /\ d.got = Append(c.got, packet) /\ packet.call = c.call /\ packet.body = g + 1
            BY <2>1, <2>7, <3>1, <4>1, <5>1, <5>2, <5>3
          <6> QED
            BY ONLY <6>1, GotFacts
        <5>5. g + 1 \in 0 .. n
          BY <3>3, <5>1
        <5> QED
          BY <4>3, <5>1, <5>4, <5>5
      <4> QED
        BY <4>4, <4>5
    <3>4. dropped' \/ \E n \in Nat : \E h \in 0 .. n : StreamFollows(d, h, n)'
      BY <1>2, <3>1, <3>3 DEF StreamInOrder
    <3> QED
      BY <3>2, <3>4 DEF StreamInOrder
  <2>8. ASSUME NEW d \in client_contexts'
        PROVE  \E c \in client_contexts :
                 /\ d.call = c.call /\ d.requested = c.requested
                 /\ \/ d = c /\ (k = 1 \/ ~IsFor(c, packet.call))
                    \/ k = 2 /\ IsFor(c, packet.call) /\ d = [c EXCEPT !.got = Append(@, packet)]
                         /\ d.got = Append(c.got, packet)
    <3>1. \A c \in client_contexts : c \in [call : CallsTo(session), got : Seq(Responses(session)), requested : BOOLEAN]
      BY <1>1 DEF ClientSound
    <3> QED
      BY <2>3, <3>1
  <2>9. ASSUME NEW d \in client_contexts' PROVE Known(d.call)' /\ (Streaming(d.call.method) => StreamInOrder(d)')
    <3>1. PICK c \in client_contexts :
             /\ d.call = c.call /\ d.requested = c.requested
             /\ \/ d = c /\ (k = 1 \/ ~IsFor(c, packet.call))
                \/ k = 2 /\ IsFor(c, packet.call) /\ d.got = Append(c.got, packet)
      BY <2>8, <2>9
    <3>2. Known(c.call)
      BY <1>1 DEF ClientStreams
    <3>3. Known(d.call)'
      BY <2>4, <3>1, <3>2 DEF Known
    <3>4. Streaming(c.call.method) => StreamInOrder(d)'
      BY <2>7, <3>1
    <3> QED
      BY <3>1, <3>3, <3>4
  <2>10. ASSUME NEW d \in client_contexts', NEW e \in client_contexts', d.call = e.call PROVE d = e
    <3>1. PICK c \in client_contexts :
             /\ d.call = c.call
             /\ \/ d = c /\ (k = 1 \/ ~IsFor(c, packet.call))
                \/ k = 2 /\ IsFor(c, packet.call) /\ d = [c EXCEPT !.got = Append(@, packet)]
      BY <2>8
    <3>2. PICK f \in client_contexts :
             /\ e.call = f.call
             /\ \/ e = f /\ (k = 1 \/ ~IsFor(f, packet.call))
                \/ k = 2 /\ IsFor(f, packet.call) /\ e = [f EXCEPT !.got = Append(@, packet)]
      BY <2>8
    <3>3. c = f
      BY <1>1, <2>10, <3>1, <3>2 DEF ClientStreams
    <3> QED
      BY <3>1, <3>2, <3>3
  <2> QED
    BY <2>5, <2>6, <2>9, <2>10 DEF StreamInv, ClientStreams
<1> QED
  BY <1>3, <1>4, ReadKeeps

\* What the next program finds is of the programs before it.
LEMMA RunClientStreams ==
  ASSUME CallInv, StreamInv, run_client
  PROVE  StreamInv'
<1>1. UnitsTyped /\ ServerSound /\ DeviceStreams /\ session \in Nat
  BY DEF CallInv, StreamInv, UnitsTyped
<1>2. /\ session' = session + 1 /\ client_contexts' = {}
      /\ UNCHANGED << server_contexts, ToDevice, ToHost >>
  BY DEF run_client, CallInv, ClientSound, channel_vars, server_vars, ToDevice, ToHost
<1>3. \A call \in CallsTo(session) : call.session # session'
  BY <1>1, <1>2 DEF CallsTo
<1>4. KnownIn(ToDevice)' /\ KnownIn(ToHost)'
  <2>1. /\ \A i \in 1 .. Len(ToDevice) : ToDevice[i].packet.call \in CallsTo(session)
        /\ \A i \in 1 .. Len(ToHost) : ToHost[i].packet.call \in CallsTo(session)
    BY <1>1, QueuesTyped DEF Requests, Responses
  <2> QED
    BY <1>2, <1>3, <2>1 DEF KnownIn, Known
<1>5. \A s \in Slots : server_contexts'[s] # None => Known(server_contexts[s])' /\ NotBefore(server_contexts[s], ToDevice)
  <2>1. \A s \in Slots : server_contexts[s] # None => server_contexts[s] \in CallsTo(session)
    BY <1>1 DEF ServerSound, ServerFor
  <2> QED
    BY <1>1, <1>2, <1>3, <2>1 DEF Known, DeviceStreams
<1>6. DeviceStreams'
  BY <1>1, <1>2, <1>4, <1>5 DEF DeviceStreams, SessionsInOrder, NotBefore
<1>7. ClientStreams'
  BY <1>2 DEF ClientStreams
<1> QED
  BY <1>4, <1>6, <1>7 DEF StreamInv

\* The program that stops leaves nobody to answer.
LEMMA StopsStreams ==
  ASSUME CallInv, StreamInv, Stops
  PROVE  StreamInv'
<1>1. UnitsTyped /\ DeviceStreams /\ KnownIn(ToHost)
  BY DEF CallInv, StreamInv
<1>2. client_contexts' = {} /\ UNCHANGED << session, next_invocation, server_contexts >>
  BY DEF Stops, server_vars
<1>3. PICK k \in 0 .. Len(ToDevice) : Begins(ToDevice', ToDevice, k)
  BY StopsKeeps
<1>4. PICK l \in 0 .. Len(ToHost) : Dropped(ToHost', ToHost, l)
  BY StopsKeeps
<1> DEFINE q == ToDevice
           r == ToDevice'
           v == ToHost
           w == ToHost'
<1>5. Len(q) \in Nat /\ Len(v) \in Nat
  BY <1>1, QueuesTyped
<1>6. k \in 0 .. Len(q) /\ Begins(r, q, k) /\ l \in 0 .. Len(v) /\ Dropped(w, v, l)
  BY <1>3, <1>4
<1> HIDE DEF q, r, v, w
<1>7. /\ KnownIn(q) => KnownIn(r)
      /\ SessionsInOrder(q) => SessionsInOrder(r)
      /\ \A call : NotBefore(call, q) => NotBefore(call, r)
  BY <1>5, <1>6, BegunStreams
<1>8. KnownIn(v) => KnownIn(w)
  BY <1>5, <1>6, DroppedStreams
<1>9. KnownIn(r) /\ KnownIn(w) /\ SessionsInOrder(r)
  BY <1>1, <1>7, <1>8 DEF DeviceStreams, q, v
<1>10. KnownIn(ToDevice)' /\ KnownIn(ToHost)'
  BY <1>2, <1>9 DEF KnownIn, Known, r, w
<1>11. \A s \in Slots : server_contexts'[s] # None => Known(server_contexts[s]) /\ NotBefore(server_contexts[s], r)
  BY <1>1, <1>2, <1>7 DEF DeviceStreams, q
<1>12. DeviceStreams'
  BY <1>2, <1>9, <1>10, <1>11 DEF DeviceStreams, Known, r
<1>13. ClientStreams'
  BY <1>2 DEF ClientStreams
<1> QED
  BY <1>10, <1>12, <1>13 DEF StreamInv

\* The responses that a context was given are counted by their offsets.
LEMMA GotCounted ==
  ASSUME NEW c, Len(c.got) \in Nat, NEW g \in Nat, GotInOrder(c, g), NEW i \in Own(c)
  PROVE  c.got[i].body = Cardinality({j \in Own(c) : j <= i})
<1> DEFINE S == {j \in Own(c) : j <= i}
           b == c.got[i].body
           f == [j \in S |-> c.got[j].body]
<1>1. /\ \A x, y \in Own(c) : x < y => c.got[x].body < c.got[y].body
      /\ \A x \in Own(c) : c.got[x].body \in 1 .. g /\ x \in 1 .. Len(c.got)
      /\ \A x \in 1 .. g : \E y \in Own(c) : c.got[y].body = x
  BY DEF GotInOrder, Own
<1>2. b \in 1 .. g /\ b \in Nat
  BY <1>1
<1>3. IsFiniteSet(S)
  <2>1. S \in SUBSET (1 .. Len(c.got))
    BY <1>1
  <2>2. IsFiniteSet(1 .. Len(c.got))
    BY FS_Interval
  <2> QED
    BY <2>1, <2>2, FS_Subset
<1>4. ASSUME NEW j \in S PROVE f[j] \in 1 .. b
  <2>1. j = i \/ j < i
    BY <1>1
  <2> QED
    BY <1>1, <1>2, <2>1
<1>5. ASSUME NEW x \in S, NEW y \in S, f[x] = f[y] PROVE x = y
  <2>1. ~(x < y) /\ ~(y < x)
    BY <1>1, <1>5
  <2> QED
    BY <1>1, <2>1
<1>6. ASSUME NEW x \in 1 .. b PROVE \E j \in S : f[j] = x
  <2>1. PICK j \in Own(c) : c.got[j].body = x
    BY <1>1, <1>2
  <2>2. ~(i < j)
    <3>1. i < j => b < x
      BY <1>1, <2>1
    <3> HIDE DEF b
    <3> QED
      BY <1>2, <3>1
  <2>3. j \in S
    BY <1>1, <2>2
  <2> QED
    BY <2>1, <2>3
<1>7. f \in [S -> 1 .. b]
  BY <1>4
<1>8. f \in Bijection(S, 1 .. b)
  <2> HIDE DEF S, b
  <2>1. \A x, y \in S : f[x] = f[y] => x = y
    BY <1>5
  <2>2. \A x \in 1 .. b : \E j \in S : f[j] = x
    BY <1>6
  <2> HIDE DEF f
  <2> QED
    BY <1>7, <2>1, <2>2 DEF Bijection, Injection, Surjection, IsInjective
<1>9. ExistsBijection(S, 1 .. b)
  BY <1>8 DEF ExistsBijection
<1> HIDE DEF S, b, f
<1>10. Cardinality(1 .. b) = Cardinality(S)
  BY <1>3, <1>9, FS_Bijection
<1>11. Cardinality(1 .. b) = b
  BY <1>2, FS_Interval
<1> QED
  BY <1>10, <1>11 DEF S, b

-----------------------------------------------------------------------------
(* The theorems. *)

\* Nothing is on its way at the start.
LEMMA InitHolds ==
  ASSUME Init
  PROVE  CallInv
<1>1. /\ \A P : << >> \in Seq(P)
      /\ Len(<< >>) = 0 /\ << >> \o << >> = << >>
  BY ConcatEmptySeq
<1>2. UnitsTyped /\ WorksOnce
  BY <1>1, ConstantsAssumption DEF Init, UnitsTyped, WorksOnce, HeadsOnly, RxOnce, HasRx
<1>3. ToDevice = << >> /\ ToHost = << >>
  BY <1>1 DEF Init, ToDevice, ToHost
<1>4. Stray(<< >>) = {} /\ Paired(<< >>) /\ Whole(<< >>) /\ Orphan(<< >>) = 0
  BY DEF Stray, Paired, Whole, Orphan
<1>9. Cardinality({}) = 0
  BY FS_EmptySet
<1>5. DeviceFramed /\ HostFramed
  <2>1. Cardinality(Stray(ToDevice)) = 0 /\ Paired(ToDevice) /\ Whole(ToHost) /\ Orphan(ToHost) = 0
    BY <1>3, <1>4, <1>9
  <2>2. bad = [device |-> 0, host |-> 0] /\ cuts = 0
    BY DEF Init
  <2> QED
    BY <2>1, <2>2 DEF DeviceFramed, HostFramed
<1>6. ServerSound
  BY ConstantsAssumption DEF Init, ServerSound, ServerFor, NoReader
<1>7. LeaksBounded
  <2>1. Unary(server_contexts) = {}
    BY DEF Init, Unary
  <2> QED
    <3>1. Cardinality(Unary(server_contexts)) = 0
      BY <1>9, <2>1
    <3>2. leaks = 0
      BY DEF Init
    <3> QED
      BY <3>1, <3>2 DEF LeaksBounded
<1>8. ClientSound /\ AnswersOwnCall
  BY DEF Init, ClientSound, AnswersOwnCall
<1> QED
  BY <1>2, <1>5, <1>6, <1>7, <1>8 DEF CallInv

\* The invariant is inductive.
LEMMA NextKeeps ==
  ASSUME CallInv, [Next]_vars
  PROVE  CallInv'
<1>1. CASE Device
  BY <1>1, RxIrqKeeps, TxInterruptKeeps, ReceivedDataKeeps, DisconnectedKeeps, CallbackKeeps,
     SendWorkKeeps DEF Device
<1>2. CASE fd_rpc_channel_usb_cdc_timer
  BY <1>2, TimerKeeps
<1>3. CASE \E method \in Methods :
             unary_call(method) \/ server_streaming_initialize(method) \/ server_streaming_call(method)
  BY <1>3, CallKeeps
<1>4. CASE unary_call_returns
  BY <1>4, ReturnKeeps
<1>5. CASE \E context \in client_contexts :
             server_streaming_request(context) \/ server_streaming_finalize(context)
  BY <1>5, StreamCallKeeps
<1>6. CASE StreamChannel_read
  BY <1>6, ReadKeeps
<1>7. CASE run_client
  BY <1>7, RunClientKeeps
<1>8. CASE Stops
  BY <1>8, StopsKeeps
<1>9. CASE UNCHANGED vars
  <2>1. UNCHANGED << host_vars, channel_vars, server_vars, to_device, to_host, fault_vars >>
    BY <1>9 DEF vars
  <2>2. UnitsTyped' /\ WorksOnce'
    BY <2>1 DEF CallInv, UnitsTyped, WorksOnce, host_vars, channel_vars
  <2>3. DeviceFramed' /\ HostFramed'
    BY <2>1, DeviceKept, HostKept
       DEF CallInv, host_vars, channel_vars, fault_vars, ToDevice, ToHost, DeviceFramed
  <2>4. ServerSound' /\ LeaksBounded' /\ ClientSound' /\ AnswersOwnCall'
    BY <2>1, ServerKept, ClientKept DEF CallInv, host_vars, server_vars
  <2> QED
    BY <2>2, <2>3, <2>4 DEF CallInv
<1> QED
  BY <1>1, <1>2, <1>3, <1>4, <1>5, <1>6, <1>7, <1>8, <1>9 DEF Next

\* fd_rpc.c, fd_rpc_channel_usb.c, fd_rpc_server_ux.c and rpc.py together keep the
\* types, the framing in both directions, the contexts and the answers.
THEOREM InvariantHolds == Spec => []CallInv
<1>1. Init => CallInv
  BY InitHolds
<1>2. CallInv /\ [Next]_vars => CallInv'
  BY NextKeeps
<1> QED
  BY <1>1, <1>2, PTL DEF Spec

\* fd_rpc_server_ux_frame_buffer_close and the finalize of a server: the reader
\* of the frame buffer never refers to a context that was freed.
THEOREM ReaderSafe == Spec => []ReaderHasContext
<1>1. CallInv => ReaderHasContext
  BY DEF CallInv, ServerSound, ServerFor, ReaderHasContext
<1> QED
  BY <1>1, InvariantHolds, PTL

\* fd_rpc_channel_server_request: a context is left allocated only by a request
\* that was refused.
THEOREM LeaksCounted == Spec => []LeaksOnlyOnRefusal
<1>1. CallInv => LeaksOnlyOnRefusal
  BY DEF CallInv, LeaksBounded, Unary, LeaksOnlyOnRefusal
<1> QED
  BY <1>1, InvariantHolds, PTL

\* rpc.py, transport_client_response: no response to another call of the same
\* program is returned.
THEOREM AnswersMatch == Spec => []AnswersOwnCall
<1>1. CallInv => AnswersOwnCall
  BY DEF CallInv
<1> QED
  BY <1>1, InvariantHolds, PTL

\* fd_rpc_channel_received_data and Transport.receive: a program that stops in
\* the middle of a packet costs one packet in each direction.
THEOREM FramingRecovers == Spec => []Resynchronizes
<1>1. CallInv => Resynchronizes
  <2> SUFFICES ASSUME CallInv PROVE Resynchronizes
    OBVIOUS
  <2> DEFINE a == Cardinality(Stray(ToDevice))
             b == Orphan(ToHost)
  <2>1. /\ cuts \in Nat /\ bad.device \in Nat /\ bad.host \in Nat
        /\ bad.device + a <= cuts /\ bad.host + b <= cuts
    BY DEF CallInv, DeviceFramed, HostFramed
  <2>2. a \in Nat
    <3>1. /\ rx_packet \in Seq(UnitsOf(Requests(session))) /\ rx_ring \in Seq(UnitsOf(Requests(session)))
          /\ to_device \in Seq(UnitsOf(Requests(session)))
      BY DEF CallInv, UnitsTyped
    <3>2. ToDevice \in Seq(UnitsOf(Requests(session)))
      BY <3>1, ConcatProperties DEF ToDevice
    <3>3. Len(ToDevice) \in Nat
      BY <3>2, LenProperties
    <3> QED
      BY <3>3, StrayIsFinite
  <2>3. b \in Nat
    BY DEF Orphan
  <2> HIDE DEF a, b
  <2>4. bad.device <= cuts /\ bad.host <= cuts
    BY <2>1, <2>2, <2>3
  <2> QED
    BY <2>4 DEF Resynchronizes
<1> QED
  BY <1>1, InvariantHolds, PTL

\* Nobody called yet.
LEMMA StreamsStart ==
  ASSUME Init
  PROVE  StreamInv
<1>1. << >> \o << >> = << >> /\ Len(<< >>) = 0
  BY ConcatEmptySeq
<1>2. ToDevice = << >> /\ ToHost = << >>
  BY <1>1 DEF Init, ToDevice, ToHost
<1>3. KnownIn(<< >>) /\ SessionsInOrder(<< >>)
  BY <1>1 DEF KnownIn, SessionsInOrder
<1>4. DeviceStreams
  BY <1>2, <1>3 DEF Init, DeviceStreams
<1>5. ClientStreams
  BY DEF Init, ClientStreams
<1> QED
  BY <1>2, <1>3, <1>4, <1>5 DEF StreamInv

\* The invariant of the streams is inductive, given that of the calls.
LEMMA NextKeepsStreams ==
  ASSUME CallInv, StreamInv, [Next]_vars
  PROVE  StreamInv'
<1>1. CASE Device
  BY <1>1, RxIrqStreams, TxInterruptStreams, ReceivedDataStreams, DisconnectedStreams, CallbackStreams,
     SendWorkStreams DEF Device
<1>2. CASE fd_rpc_channel_usb_cdc_timer
  BY <1>2, TimerStreams
<1>3. CASE \E method \in Methods :
             unary_call(method) \/ server_streaming_initialize(method) \/ server_streaming_call(method)
  BY <1>3, CallStreams
<1>4. CASE unary_call_returns
  BY <1>4, ReturnStreams
<1>5. CASE \E context \in client_contexts :
             server_streaming_request(context) \/ server_streaming_finalize(context)
  BY <1>5, StreamCallStreams
<1>6. CASE StreamChannel_read
  BY <1>6, ReadStreamStreams
<1>7. CASE run_client
  BY <1>7, RunClientStreams
<1>8. CASE Stops
  BY <1>8, StopsStreams
<1>9. CASE UNCHANGED vars
  <2>1. UNCHANGED << host_vars, channel_vars, server_vars, to_device, to_host, fault_vars >>
    BY <1>9 DEF vars
  <2> QED
    BY <2>1, StreamsKept DEF host_vars, channel_vars, server_vars, ToDevice, ToHost
<1> QED
  BY <1>1, <1>2, <1>3, <1>4, <1>5, <1>6, <1>7, <1>8, <1>9 DEF Next

\* fd_rpc_server_ux_frame_buffer_read_send, its one reader shared by all streams,
\* and transport_client_response: unless a response found no buffer, every stream
\* of the program that runs was given the frame buffer from its start, each part
\* once and in order, whatever other streams, programs and losses there were.
THEOREM StreamsSafe == Spec => []FramesInOrder
<1>1. Init => CallInv /\ StreamInv
  BY InitHolds, StreamsStart
<1>2. CallInv /\ StreamInv /\ [Next]_vars => (CallInv /\ StreamInv)'
  BY NextKeeps, NextKeepsStreams
<1>3. CallInv /\ StreamInv => FramesInOrder
  <2> SUFFICES ASSUME CallInv, StreamInv, ~dropped,
                      NEW c \in client_contexts, Streaming(c.call.method),
                      NEW i \in {i \in DOMAIN c.got : c.got[i].call.session = session}
               PROVE  c.got[i].body =
                        Cardinality({j \in {j \in DOMAIN c.got : c.got[j].call.session = session} : j <= i})
    BY DEF FramesInOrder
  <2>1. /\ c \in [call : CallsTo(session), got : Seq(Responses(session)), requested : BOOLEAN]
        /\ c.call.session = session
        /\ \A j \in 1 .. Len(c.got) : IsFor(c, c.got[j].call)
    BY DEF CallInv, ClientSound
  <2>2. /\ Len(c.got) \in Nat /\ DOMAIN c.got = 1 .. Len(c.got)
        /\ \A j \in 1 .. Len(c.got) : c.got[j].call \in CallsTo(session)
    <3>1. c.got \in Seq(Responses(session))
      BY <2>1
    <3>2. \A j \in 1 .. Len(c.got) : c.got[j] \in Responses(session)
      BY <3>1, ElementOfSeq
    <3> QED
      BY <3>1, <3>2, LenProperties DEF Responses
  <2>3. {j \in DOMAIN c.got : c.got[j].call.session = session} = Own(c)
    <3>1. ASSUME NEW j \in 1 .. Len(c.got)
          PROVE  c.got[j].call.session = session <=> c.got[j].call = c.call
      <4>1. /\ c.got[j].call \in CallsTo(session) /\ c.call \in CallsTo(session)
            /\ c.call.method = c.got[j].call.method /\ c.call.invocation = c.got[j].call.invocation
        BY <2>1, <2>2 DEF IsFor
      <4>2. \A x, y \in CallsTo(session) :
              x.session = y.session /\ x.method = y.method /\ x.invocation = y.invocation => x = y
        BY DEF CallsTo
      <4> QED
        BY <2>1, <4>1, <4>2
    <3> QED
      BY <2>2, <3>1 DEF Own
  <2>4. StreamInOrder(c)
    BY DEF StreamInv, ClientStreams
  <2>5. PICK n \in Nat : \E g \in 0 .. n : StreamFollows(c, g, n)
    BY <2>4 DEF StreamInOrder
  <2>6. PICK g \in 0 .. n : GotInOrder(c, g)
    BY <2>5 DEF StreamFollows
  <2> QED
    BY <2>2, <2>3, <2>6, GotCounted
<1> QED
  BY <1>1, <1>2, <1>3, PTL DEF Spec
=============================================================================

---------------------------- MODULE RaidLog_proofs ----------------------------
(***************************************************************************)
(* Proofs about RaidLogCapture and the BibleLimiter it extends, for any    *)
(* number of calls, views, logs and slots.                                 *)
(*                                                                         *)
(* The limiter first: LimiterInv is inductive, since a dispatch hands out  *)
(* exactly the free slots (DispatchStep).  Then the captures, in three     *)
(* layers: what each step changes (the Effect lemmas, FrameStep, OwnStep), *)
(* how calls, render queue and navigations fit together (CallsInv,         *)
(* RenderInv, NavigationInv), and who came after whom (OrderInv,           *)
(* CaptureInv, SharedInv, PendingInv), on which CleanInv and ImageInv, the *)
(* age of what a caller is shown, rest.                                    *)
(***************************************************************************)
EXTENDS RaidLogCapture, FiniteSetTheorems, SequenceTheorems, TLAPS

-----------------------------------------------------------------------------
(* Sets of positions and sequences.                                        *)

\* A set of positions that has no gaps is counted by its largest member.
LEMMA Prefix ==
  ASSUME NEW len \in Nat, NEW S \in SUBSET (1..len),
         \A i \in S : 1..i \subseteq S
  PROVE  Cardinality(S) \in 0..len /\ S = 1..Cardinality(S)
<1>1. /\ IsFiniteSet(S) /\ Cardinality(S) \in Nat /\ Cardinality(S) <= len
  <2>1. IsFiniteSet(1..len) /\ Cardinality(1..len) = len
    BY FS_Interval
  <2>2. IsFiniteSet(S) /\ Cardinality(S) <= Cardinality(1..len)
    BY <2>1, FS_Subset
  <2>3. Cardinality(S) \in Nat
    BY <2>2, FS_CardinalityType
  <2> QED BY <2>1, <2>2, <2>3
<1>2. ASSUME NEW i \in S
      PROVE  i \in 1..Cardinality(S)
  <2>1. i \in Nat /\ i >= 1 /\ 1..i \in SUBSET S
    OBVIOUS
  <2>2. Cardinality(1..i) = i
    BY <2>1, FS_Interval
  <2>3. Cardinality(1..i) <= Cardinality(S)
    BY <1>1, <2>1, FS_Subset
  <2> QED BY <1>1, <2>1, <2>2, <2>3
<1>3. IsFiniteSet(1..Cardinality(S))
      /\ Cardinality(1..Cardinality(S)) = Cardinality(S)
  BY <1>1, FS_Interval
<1>4. S \in SUBSET (1..Cardinality(S))
  BY <1>2
<1>5. S = 1..Cardinality(S)
  <2> DEFINE T == 1..Cardinality(S)
  <2>1. IsFiniteSet(T) /\ S \in SUBSET T /\ Cardinality(T) = Cardinality(S)
    BY <1>3, <1>4
  <2> HIDE DEF T
  <2>2. S = T
    BY <2>1, FS_Subset
  <2> QED BY <2>2 DEF T
<1> QED BY <1>1, <1>5

\* No entry of a queue is there twice.
Distinct(q) == \A i, j \in 1..Len(q) : q[i] = q[j] => i = j

\* The entries of a queue.
Entries(q) == {q[i] : i \in 1..Len(q)}

\* Taking a waiting entry out leaves the others, in their order.
LEMMA RemovedQueue ==
  ASSUME NEW S, NEW q \in Seq(S), Distinct(q), NEW at \in 1..Len(q)
  PROVE  /\ Removed(q, q[at]) \in Seq(S)
         /\ Len(Removed(q, q[at])) = Len(q) - 1
         /\ \A i \in 1..(Len(q) - 1) :
              Removed(q, q[at])[i] = IF i < at THEN q[i] ELSE q[i + 1]
<1>1. Len(q) \in Nat /\ DOMAIN q = 1..Len(q) /\ \A i \in 1..Len(q) : q[i] \in S
  BY LenProperties, ElementOfSeq
<1>2. (CHOOSE i \in DOMAIN q : q[i] = q[at]) = at
  BY <1>1 DEF Distinct
<1> DEFINE a == SubSeq(q, 1, at - 1)
           b == SubSeq(q, at + 1, Len(q))
<1>3. /\ a \in Seq(S) /\ Len(a) = at - 1
      /\ \A i \in 1..(at - 1) : a[i] = q[i]
  BY <1>1, SubSeqProperties
<1>4. /\ b \in Seq(S) /\ Len(b) = Len(q) - at
      /\ \A i \in 1..(Len(q) - at) : b[i] = q[at + i]
  <2>1. \A i \in at + 1 .. Len(q) : q[i] \in S
    BY <1>1
  <2>2. /\ b \in Seq(S)
        /\ Len(b) = IF at + 1 <= Len(q) THEN Len(q) - (at + 1) + 1 ELSE 0
        /\ \A i \in 1 .. Len(q) - (at + 1) + 1 : b[i] = q[(at + 1) + i - 1]
    BY <1>1, <2>1, SubSeqProperties
  <2>3. Len(b) = Len(q) - at
    <3>1. PICK len \in Nat : len = Len(q)
      BY <1>1
    <3>2. at \in 1..len
      BY <3>1
    <3>3. CASE at + 1 <= len
      <4>1. len - (at + 1) + 1 = len - at
        BY <3>2
      <4> HIDE DEF b
      <4> QED BY <2>2, <3>1, <3>3, <4>1
    <3>4. CASE ~(at + 1 <= len)
      <4>1. len - at = 0
        BY <3>1, <3>2, <3>4
      <4> HIDE DEF b
      <4> QED BY <2>2, <3>1, <3>4, <4>1
    <3> QED BY <3>3, <3>4
  <2>4. ASSUME NEW i \in 1..(Len(q) - at)
        PROVE  b[i] = q[at + i]
    <3> HIDE DEF b
    <3>1. i \in 1 .. Len(q) - (at + 1) + 1 /\ (at + 1) + i - 1 = at + i
      BY <1>1
    <3> QED BY <2>2, <3>1
  <2> QED BY <2>2, <2>3, <2>4
<1>5. Removed(q, q[at]) = a \o b
  BY <1>2 DEF Removed
<1> HIDE DEF a, b
<1>6. /\ a \o b \in Seq(S) /\ Len(a \o b) = Len(a) + Len(b)
      /\ \A i \in 1 .. Len(a) + Len(b) :
           (a \o b)[i] = IF i <= Len(a) THEN a[i] ELSE b[i - Len(a)]
  BY <1>3, <1>4, ConcatProperties
<1>7. ASSUME NEW i \in 1..(Len(q) - 1)
      PROVE  (a \o b)[i] = IF i < at THEN q[i] ELSE q[i + 1]
  <2>1. (a \o b)[i] = IF i <= at - 1 THEN a[i] ELSE b[i - (at - 1)]
    BY <1>1, <1>3, <1>4, <1>6
  <2>2. CASE i < at
    BY <1>1, <1>3, <2>1, <2>2
  <2>3. CASE ~(i < at)
    <3>1. i - (at - 1) \in 1..(Len(q) - at) /\ at + (i - (at - 1)) = i + 1
      BY <1>1, <2>3
    <3> QED BY <1>1, <1>4, <2>1, <2>3, <3>1
  <2> QED BY <2>2, <2>3
<1> QED BY <1>1, <1>3, <1>4, <1>5, <1>6, <1>7

\* The queue without one of its entries, with a new one, without its first.
LEMMA RemovedEntries ==
  ASSUME NEW S, NEW q \in Seq(S), Distinct(q), NEW at \in 1..Len(q)
  PROVE  /\ Removed(q, q[at]) \in Seq(S) /\ Distinct(Removed(q, q[at]))
         /\ Len(Removed(q, q[at])) = Len(q) - 1
         /\ Entries(Removed(q, q[at])) = Entries(q) \ {q[at]}
<1>1. PICK p : p = Removed(q, q[at])
  OBVIOUS
<1>2. /\ p \in Seq(S) /\ Len(p) = Len(q) - 1 /\ Len(q) \in Nat
      /\ \A i \in 1..(Len(q) - 1) : p[i] = IF i < at THEN q[i] ELSE q[i + 1]
  BY <1>1, RemovedQueue, LenProperties
<1>3. ASSUME NEW i \in 1..Len(p)
      PROVE  \E k \in 1..Len(q) : /\ k = IF i < at THEN i ELSE i + 1
                                  /\ k # at /\ p[i] = q[k]
  <2>1. i \in 1..(Len(q) - 1)
    BY <1>2
  <2>2. p[i] = IF i < at THEN q[i] ELSE q[i + 1]
    BY <1>2, <2>1
  <2> QED BY <1>2, <2>1, <2>2
<1>4. Distinct(p)
  <2>1. ASSUME NEW i \in 1..Len(p), NEW j \in 1..Len(p), p[i] = p[j]
        PROVE  i = j
    <3>1. PICK k \in 1..Len(q) : k = (IF i < at THEN i ELSE i + 1) /\ p[i] = q[k]
      BY <1>3
    <3>2. PICK l \in 1..Len(q) : l = (IF j < at THEN j ELSE j + 1) /\ p[j] = q[l]
      BY <1>3
    <3>3. k = l
      BY <2>1, <3>1, <3>2 DEF Distinct
    <3>4. i \in Int /\ j \in Int
      BY <1>2
    <3> QED BY <3>1, <3>2, <3>3, <3>4
  <2> QED BY <2>1 DEF Distinct
<1>5. ASSUME NEW x \in Entries(p)
      PROVE  x \in Entries(q) \ {q[at]}
  <2>1. PICK i \in 1..Len(p) : p[i] = x
    BY DEF Entries
  <2>2. PICK k \in 1..Len(q) : k # at /\ p[i] = q[k]
    BY <1>3
  <2>3. q[k] # q[at]
    BY <2>2 DEF Distinct
  <2> QED BY <2>1, <2>2, <2>3 DEF Entries
<1>6. ASSUME NEW x \in Entries(q) \ {q[at]}
      PROVE  x \in Entries(p)
  <2>1. PICK k \in 1..Len(q) : q[k] = x
    BY DEF Entries
  <2>2. CASE k < at
    <3>1. k \in 1..(Len(q) - 1) /\ k \in 1..Len(p)
      BY <1>2, <2>2
    <3> QED BY <1>2, <2>1, <2>2, <3>1 DEF Entries
  <2>3. CASE k > at
    <3>1. k - 1 \in 1..(Len(q) - 1) /\ ~(k - 1 < at) /\ (k - 1) + 1 = k
          /\ k - 1 \in 1..Len(p)
      BY <1>2, <2>3
    <3>2. p[k - 1] = x
      BY <1>2, <2>1, <3>1
    <3> QED BY <3>1, <3>2 DEF Entries
  <2> QED BY <1>6, <2>1, <2>2, <2>3
<1>7. Entries(p) = Entries(q) \ {q[at]}
  BY <1>5, <1>6
<1> QED BY <1>1, <1>2, <1>4, <1>7

LEMMA AppendEntries ==
  ASSUME NEW S, NEW q \in Seq(S), Distinct(q), NEW e \in S, e \notin Entries(q)
  PROVE  /\ Append(q, e) \in Seq(S) /\ Distinct(Append(q, e))
         /\ Len(Append(q, e)) = Len(q) + 1 /\ Append(q, e) # <<>>
         /\ Entries(Append(q, e)) = Entries(q) \cup {e}
<1>1. PICK p : p = Append(q, e)
  OBVIOUS
<1>2. /\ p \in Seq(S) /\ Len(p) = Len(q) + 1 /\ p # <<>> /\ Len(q) \in Nat
      /\ \A i \in 1..Len(q) : p[i] = q[i]
      /\ p[Len(q) + 1] = e
  BY <1>1, AppendProperties, LenProperties
<1>3. \A i \in 1..Len(p) : i \in 1..Len(q) \/ i = Len(q) + 1
  BY <1>2
<1>4. \A i \in 1..Len(q) : i \in 1..Len(p) /\ q[i] # e
  BY <1>2 DEF Entries
<1>5. Len(q) + 1 \in 1..Len(p)
  BY <1>2
<1>6. Distinct(p)
  <2>1. ASSUME NEW i \in 1..Len(p), NEW j \in 1..Len(p), p[i] = p[j]
        PROVE  i = j
    <3>1. CASE i \in 1..Len(q) /\ j \in 1..Len(q)
      <4>1. q[i] = q[j]
        BY <1>2, <2>1, <3>1
      <4> QED BY <3>1, <4>1 DEF Distinct
    <3>2. CASE ~(i \in 1..Len(q) /\ j \in 1..Len(q))
      BY <1>2, <1>3, <1>4, <2>1, <3>2
    <3> QED BY <3>1, <3>2
  <2> QED BY <2>1 DEF Distinct
<1>7. Entries(p) = Entries(q) \cup {e}
  <2>1. ASSUME NEW x \in Entries(p)
        PROVE  x \in Entries(q) \cup {e}
    <3>1. PICK i \in 1..Len(p) : p[i] = x
      BY DEF Entries
    <3> QED BY <1>2, <1>3, <3>1 DEF Entries
  <2>2. ASSUME NEW x \in Entries(q) \cup {e}
        PROVE  x \in Entries(p)
    <3>1. CASE x = e
      BY <1>2, <1>5, <3>1 DEF Entries
    <3>2. CASE x \in Entries(q)
      <4>1. PICK i \in 1..Len(q) : q[i] = x
        BY <3>2 DEF Entries
      <4> QED BY <1>2, <1>4, <4>1 DEF Entries
    <3> QED BY <3>1, <3>2
  <2> QED BY <2>1, <2>2
<1> QED BY <1>1, <1>2, <1>6, <1>7

LEMMA TailEntries ==
  ASSUME NEW S, NEW q \in Seq(S), Distinct(q), q # <<>>
  PROVE  /\ Tail(q) \in Seq(S) /\ Distinct(Tail(q)) /\ Head(q) = q[1]
         /\ 1 \in 1..Len(q) /\ Len(Tail(q)) = Len(q) - 1
         /\ \A i \in 1..(Len(q) - 1) : Tail(q)[i] = q[i + 1]
         /\ Entries(Tail(q)) = Entries(q) \ {q[1]}
<1>1. PICK p : p = Tail(q)
  OBVIOUS
<1>2. /\ p \in Seq(S) /\ Len(p) = Len(q) - 1
      /\ \A i \in 1..Len(p) : p[i] = q[i + 1]
  BY <1>1, HeadTailProperties
<1>3. Len(q) \in Nat \ {0} /\ Head(q) = q[1]
  BY EmptySeq
<1>4. \A i \in 1..Len(p) : i + 1 \in 1..Len(q) /\ i + 1 # 1 /\ p[i] = q[i + 1]
  BY <1>2, <1>3
<1>5. Distinct(p)
  <2>1. ASSUME NEW i \in 1..Len(p), NEW j \in 1..Len(p), p[i] = p[j]
        PROVE  i = j
    <3>1. /\ i + 1 \in 1..Len(q) /\ j + 1 \in 1..Len(q)
          /\ q[i + 1] = q[j + 1]
      BY <1>4, <2>1
    <3>2. i + 1 = j + 1
      BY <3>1 DEF Distinct
    <3>3. i \in Int /\ j \in Int
      BY <1>2, <1>3
    <3> QED BY <3>2, <3>3
  <2> QED BY <2>1 DEF Distinct
<1>6. 1 \in 1..Len(q)
  BY <1>3
<1>7. ASSUME NEW x \in Entries(p)
      PROVE  x \in Entries(q) \ {q[1]}
  <2>1. PICK i \in 1..Len(p) : p[i] = x
    BY DEF Entries
  <2>2. i + 1 \in 1..Len(q) /\ i + 1 # 1 /\ q[i + 1] = x
    BY <1>4, <2>1
  <2>3. q[i + 1] # q[1]
    BY <1>6, <2>2 DEF Distinct
  <2> QED BY <2>2, <2>3 DEF Entries
<1>8. ASSUME NEW x \in Entries(q) \ {q[1]}
      PROVE  x \in Entries(p)
  <2>1. PICK k \in 1..Len(q) : q[k] = x
    BY DEF Entries
  <2>2. k - 1 \in 1..Len(p) /\ (k - 1) + 1 = k
    BY <1>2, <1>3, <1>8, <2>1
  <2>3. p[k - 1] = x
    BY <1>4, <2>1, <2>2
  <2> QED BY <2>2, <2>3 DEF Entries
<1>9. Entries(p) = Entries(q) \ {q[1]}
  BY <1>7, <1>8
<1> QED BY <1>1, <1>2, <1>3, <1>5, <1>6, <1>9

-----------------------------------------------------------------------------
(* The limiter's dispatch.                                                 *)

InFlightOf(rq) ==
  {r \in Reqs : rq[r].st \in {"starting", "running", "settling"}}

LEMMA AliveCount ==
  ASSUME NEW q, NEW rq, NEW n \in Nat
  PROVE  /\ Alive(q, rq, n) \subseteq 1..n
         /\ IsFiniteSet(Alive(q, rq, n))
         /\ Cardinality(Alive(q, rq, n)) \in 0..n
<1>1. IsFiniteSet(1..n) /\ Cardinality(1..n) = n
  BY FS_Interval
<1>2. Alive(q, rq, n) \in SUBSET (1..n)
  BY DEF Alive
<1>3. IsFiniteSet(Alive(q, rq, n)) /\ Cardinality(Alive(q, rq, n)) <= n
  BY <1>1, <1>2, FS_Subset
<1>4. Cardinality(Alive(q, rq, n)) \in Nat
  BY <1>3, FS_CardinalityType
<1> QED BY <1>2, <1>3, <1>4

LEMMA AliveGrows ==
  ASSUME NEW q, NEW rq, NEW m \in Nat, NEW n \in Nat, m <= n
  PROVE  Cardinality(Alive(q, rq, m)) <= Cardinality(Alive(q, rq, n))
<1>1. Alive(q, rq, m) \in SUBSET Alive(q, rq, n)
  BY DEF Alive
<1>2. IsFiniteSet(Alive(q, rq, n))
  BY AliveCount
<1> QED BY <1>1, <1>2, FS_Subset

LEMMA AliveNext ==
  ASSUME NEW q, NEW rq, NEW n \in Nat \ {0}
  PROVE  Cardinality(Alive(q, rq, n)) <= Cardinality(Alive(q, rq, n - 1)) + 1
<1>1. Alive(q, rq, n) \in SUBSET (Alive(q, rq, n - 1) \cup {n})
  BY DEF Alive
<1>2. /\ IsFiniteSet(Alive(q, rq, n - 1))
      /\ Cardinality(Alive(q, rq, n - 1)) \in Nat
  <2>1. n - 1 \in Nat
    OBVIOUS
  <2> QED BY <2>1, AliveCount
<1>3. /\ IsFiniteSet(Alive(q, rq, n - 1) \cup {n})
      /\ Cardinality(Alive(q, rq, n - 1) \cup {n})
           <= Cardinality(Alive(q, rq, n - 1)) + 1
  BY <1>2, FS_AddElement
<1>4. Cardinality(Alive(q, rq, n))
        <= Cardinality(Alive(q, rq, n - 1) \cup {n})
  BY <1>1, <1>3, FS_Subset
<1>5. /\ Cardinality(Alive(q, rq, n)) \in Nat
      /\ Cardinality(Alive(q, rq, n - 1) \cup {n}) \in Nat
  BY <1>3, AliveCount, FS_CardinalityType
<1> QED BY <1>2, <1>3, <1>4, <1>5

\* The loop of _dispatch shifts a prefix of the queue: it stops at the end of
\* the queue or with every slot taken, and takes no slot too many.
LEMMA TakenPrefix ==
  ASSUME NEW q \in Seq(Reqs), NEW rq, NEW used \in 0..MaxSlots,
         NEW n, n = Cardinality(Taken(q, rq, used))
  PROVE  /\ n \in 0..Len(q) /\ Taken(q, rq, used) = 1..n
         /\ used + Cardinality(Alive(q, rq, n)) <= MaxSlots
         /\ n < Len(q) => used + Cardinality(Alive(q, rq, n)) = MaxSlots
         /\ used < MaxSlots /\ q # <<>> => n >= 1
<1> DEFINE T == Taken(q, rq, used)
           A(i) == Cardinality(Alive(q, rq, i))
<1>1. /\ Len(q) \in Nat /\ MaxSlots \in Nat \ {0}
      /\ q # <<>> => Len(q) >= 1
  BY SlotsAssumption, LenProperties, EmptySeq
<1>2. \A i \in Nat : A(i) \in Nat /\ A(i) <= i
  BY AliveCount
<1>3. \A i, j \in Nat : i <= j => A(i) <= A(j)
  BY AliveGrows
<1>4. \A i \in Nat \ {0} : A(i) <= A(i - 1) + 1
  BY AliveNext
<1>5. \A i \in 1..Len(q) : i \in T <=> used + A(i - 1) < MaxSlots
  BY DEF Taken
<1>6. T \in SUBSET (1..Len(q))
  BY DEF Taken
<1>t. n = Cardinality(T)
  OBVIOUS
<1> HIDE DEF A, T
<1>7. ASSUME NEW i \in T
      PROVE  1..i \subseteq T
  <2>1. ASSUME NEW j \in 1..i
        PROVE  j \in T
    <3>1. /\ i \in 1..Len(q) /\ j \in 1..Len(q) /\ i - 1 \in Nat
          /\ j - 1 \in Nat /\ j - 1 <= i - 1
      BY <1>1, <1>6
    <3>a. A(j - 1) <= A(i - 1)
      BY <3>1, <1>3
    <3>b. A(j - 1) \in Nat
      BY <3>1, <1>2
    <3>c. A(i - 1) \in Nat
      BY <3>1, <1>2
    <3>2. A(j - 1) <= A(i - 1) /\ A(j - 1) \in Nat /\ A(i - 1) \in Nat
      BY <3>a, <3>b, <3>c
    <3> QED BY <1>1, <1>5, <3>1, <3>2
  <2> QED BY <2>1
<1>8. n \in 0..Len(q) /\ T = 1..n
  BY <1>1, <1>6, <1>7, <1>t, Prefix
<1>9. used + A(n) <= MaxSlots
  <2>1. CASE n = 0
    BY <1>1, <1>2, <2>1
  <2>2. CASE n # 0
    <3>1. /\ n \in T /\ n \in 1..Len(q) /\ n - 1 \in Nat
          /\ n \in Nat \ {0}
      BY <1>1, <1>8, <2>2
    <3>2. A(n) <= A(n - 1) + 1 /\ A(n) \in Nat /\ A(n - 1) \in Nat
      BY <3>1, <1>2, <1>4
    <3> QED BY <1>1, <1>5, <3>1, <3>2
  <2> QED BY <2>1, <2>2
<1>10. n < Len(q) => used + A(n) = MaxSlots
  <2>1. ASSUME n < Len(q)
        PROVE  used + A(n) = MaxSlots
    <3>1. /\ n + 1 \in 1..Len(q) /\ n + 1 \notin T /\ (n + 1) - 1 = n
          /\ n \in Nat
      BY <1>1, <1>8, <2>1
    <3>2. ~(used + A(n) < MaxSlots)
      BY <1>5, <3>1
    <3>3. A(n) \in Nat /\ used \in Nat /\ MaxSlots \in Nat
      BY <1>1, <1>2, <3>1
    <3> QED BY <1>9, <3>2, <3>3
  <2> QED BY <2>1
<1>11. used < MaxSlots /\ q # <<>> => n >= 1
  <2>1. ASSUME used < MaxSlots, q # <<>>
        PROVE  n >= 1
    <3>1. 1 \in 1..Len(q) /\ A(1 - 1) = 0
      BY <1>1, <1>2, <2>1
    <3>2. 1 \in T
      BY <1>5, <1>1, <2>1, <3>1
    <3> QED BY <1>8, <3>2
  <2> QED BY <2>1
<1> QED BY <1>8, <1>9, <1>10, <1>11 DEF A, T

\* A queue and the states of the requests fit together.
QueueFits(q, rq) ==
  /\ q \in Seq(Reqs) /\ Distinct(q)
  /\ rq \in [Reqs -> Request]
  /\ \A r \in Reqs : rq[r].st = "queued" <=> \E i \in 1..Len(q) : q[i] = r

LEMMA ShiftedType ==
  ASSUME NEW x \in Request
  PROVE  /\ Shifted(x) \in Request /\ Rejected \in Request
         /\ Rejected.st = "done" /\ Shifted(x).st \in {"done", "starting"}
         /\ Shifted(x).st = "starting" <=> ~PastDeadline(x)
  BY DEF Shifted, Rejected, Fresh, Request, Stages, Outcomes, None

\* The requests a dispatch starts, counted.
LEMMA StartedCount ==
  ASSUME NEW q \in Seq(Reqs), Distinct(q), NEW rq, NEW n \in 0..Len(q),
         NEW started, started = {q[i] : i \in Alive(q, rq, n)}
  PROVE  /\ IsFiniteSet(started)
         /\ Cardinality(started) = Cardinality(Alive(q, rq, n))
<1> DEFINE A == Alive(q, rq, n)
           f == [i \in A |-> q[i]]
<1>1. IsFiniteSet(A) /\ A \subseteq 1..Len(q) /\ Len(q) \in Nat
  <2>1. IsFiniteSet(A) /\ A \subseteq 1..n /\ Len(q) \in Nat
    BY AliveCount, LenProperties
  <2> QED BY <2>1
<1>2. f \in Bijection(A, started)
  <2>1. f \in [A -> started]
    OBVIOUS
  <2>2. \A i, j \in A : f[i] = f[j] => i = j
    BY <1>1 DEF Distinct
  <2>3. \A t \in started : \E i \in A : f[i] = t
    OBVIOUS
  <2> QED BY <2>1, <2>2, <2>3 DEF Bijection, Injection, Surjection, IsInjective
<1> HIDE DEF A, f
<1>3. ExistsBijection(A, started)
  BY <1>2 DEF ExistsBijection
<1>4. IsFiniteSet(started) /\ Cardinality(started) = Cardinality(A)
  BY <1>1, <1>3, FS_Bijection
<1> QED BY <1>4 DEF A

\* The entries that stay when the first n are shifted.
LEMMA ShiftedQueue ==
  ASSUME NEW q \in Seq(Reqs), Distinct(q), NEW n \in 0..Len(q),
         NEW rest, rest = SubSeq(q, n + 1, Len(q))
  PROVE  /\ rest \in Seq(Reqs) /\ Len(rest) = Len(q) - n /\ Distinct(rest)
         /\ \A i \in 1..(Len(q) - n) : rest[i] = q[n + i]
         /\ Entries(rest) = {q[i] : i \in (n + 1)..Len(q)}
<1>1. Len(q) \in Nat /\ \A i \in 1..Len(q) : q[i] \in Reqs
  BY LenProperties, ElementOfSeq
<1>2. \A i \in n + 1 .. Len(q) : q[i] \in Reqs
  BY <1>1
<1>3. /\ rest \in Seq(Reqs)
      /\ Len(rest) = IF n + 1 <= Len(q) THEN Len(q) - (n + 1) + 1 ELSE 0
      /\ \A i \in 1 .. Len(q) - (n + 1) + 1 : rest[i] = q[(n + 1) + i - 1]
  BY <1>1, <1>2, SubSeqProperties
<1>4. /\ Len(rest) = Len(q) - n
      /\ \A i \in 1..(Len(q) - n) : rest[i] = q[n + i]
  BY <1>1, <1>3
<1>e. \A i \in 1..Len(rest) : n + i \in 1..Len(q) /\ rest[i] = q[n + i]
  BY <1>1, <1>4
<1>5. Distinct(rest)
  <2>1. ASSUME NEW i \in 1..Len(rest), NEW j \in 1..Len(rest),
               rest[i] = rest[j]
        PROVE  i = j
    <3>1. n + i \in 1..Len(q) /\ n + j \in 1..Len(q) /\ q[n + i] = q[n + j]
      BY <1>e, <2>1
    <3>2. n + i = n + j
      BY <3>1 DEF Distinct
    <3> QED BY <1>1, <1>4, <3>2
  <2> QED BY <2>1 DEF Distinct
<1>6. ASSUME NEW r, NEW i \in (n + 1)..Len(q), q[i] = r
      PROVE  \E j \in 1..Len(rest) : rest[j] = r
  <2>1. i - n \in 1..Len(rest) /\ n + (i - n) = i
    BY <1>1, <1>4
  <2>2. rest[i - n] = r
    BY <1>4, <1>6, <2>1
  <2> QED BY <2>1, <2>2
<1>7. ASSUME NEW r, NEW j \in 1..Len(rest), rest[j] = r
      PROVE  \E i \in (n + 1)..Len(q) : q[i] = r
  <2>1. n + j \in (n + 1)..Len(q) /\ q[n + j] = r
    BY <1>1, <1>4, <1>7
  <2> QED BY <2>1
<1>8. Entries(rest) = {q[i] : i \in (n + 1)..Len(q)}
  BY <1>6, <1>7 DEF Entries
<1> QED BY <1>3, <1>4, <1>5, <1>8

\* A dispatch hands out exactly the free slots: what it counts is in flight,
\* and a request stays in the queue only when no slot is left.
LEMMA DispatchStep ==
  ASSUME NEW q, NEW rq, QueueFits(q, rq), NEW used \in 0..MaxSlots,
         used = Cardinality(InFlightOf(rq)), Dispatch(q, rq, used)
  PROVE  /\ QueueFits(queue, req)'
         /\ active' \in Nat /\ active' <= MaxSlots
         /\ active' = Cardinality(InFlightOf(req'))
         /\ queue' # <<>> => active' = MaxSlots /\ ~Blocked
         /\ Len(queue') <= Len(q)
         /\ used < MaxSlots /\ q # <<>> => Len(queue') < Len(q)
<1>t. /\ q \in Seq(Reqs) /\ Distinct(q) /\ Len(q) \in Nat
      /\ rq \in [Reqs -> Request] /\ MaxSlots \in Nat \ {0}
      /\ \A i \in 1..Len(q) : q[i] \in Reqs
      /\ q # <<>> => Len(q) >= 1
      /\ DOMAIN q = 1..Len(q)
      /\ \A r \in Reqs : rq[r].st = "queued" <=> \E i \in 1..Len(q) : q[i] = r
  BY SlotsAssumption, LenProperties, ElementOfSeq, EmptySeq DEF QueueFits
<1>1. CASE Blocked
  <2>1. queue' = <<>> /\ active' = used /\ req' = RejectQueued(rq, q)
    BY <1>1 DEF Dispatch
  <2>2. \A r \in Reqs : req'[r] = IF rq[r].st = "queued" THEN Rejected
                                  ELSE rq[r]
    BY <1>t, <2>1 DEF RejectQueued
  <2>3. Rejected \in Request /\ Rejected.st = "done"
    BY DEF Rejected, Fresh, Request, Stages, Outcomes, None
  <2>4. req' \in [Reqs -> Request]
    <3>1. req' = [r \in Reqs |-> req'[r]]
      BY <2>1 DEF RejectQueued
    <3>2. \A r \in Reqs : req'[r] \in Request
      BY <1>t, <2>2, <2>3
    <3> QED BY <3>1, <3>2
  <2>5. InFlightOf(req') = InFlightOf(rq)
    BY <2>2, <2>3 DEF InFlightOf
  <2>6. queue' \in Seq(Reqs) /\ Len(queue') = 0 /\ Distinct(queue')
    BY <2>1, EmptySeq DEF Distinct
  <2>7. QueueFits(queue, req)'
    BY <2>2, <2>3, <2>4, <2>6, <1>t DEF QueueFits
  <2> QED BY <1>t, <2>1, <2>5, <2>6, <2>7
<1>2. CASE ~Blocked
  <2>p. PICK n : n = Cardinality(Taken(q, rq, used))
    OBVIOUS
  <2>o. PICK started : started = {q[i] : i \in Alive(q, rq, n)}
    OBVIOUS
  <2>1. /\ n \in 0..Len(q) /\ Taken(q, rq, used) = 1..n
        /\ used + Cardinality(Alive(q, rq, n)) <= MaxSlots
        /\ n < Len(q) => used + Cardinality(Alive(q, rq, n)) = MaxSlots
        /\ used < MaxSlots /\ q # <<>> => n >= 1
    BY <1>t, <2>p, TakenPrefix
  <2>2. /\ queue' = SubSeq(q, n + 1, Len(q))
        /\ active' = used + Cardinality(Alive(q, rq, n))
        /\ req' = [r \in Reqs |-> IF \E i \in 1..n : q[i] = r
                                    THEN Shifted(rq[r]) ELSE rq[r]]
    BY <1>2, <2>1, <2>p DEF Dispatch
  <2>3. /\ IsFiniteSet(started)
        /\ Cardinality(started) = Cardinality(Alive(q, rq, n))
        /\ Cardinality(started) \in Nat
    <3>1. /\ IsFiniteSet(started)
          /\ Cardinality(started) = Cardinality(Alive(q, rq, n))
      BY <1>t, <2>1, <2>o, StartedCount
    <3> QED BY <3>1, FS_CardinalityType
  <2>4. /\ queue' \in Seq(Reqs) /\ Len(queue') = Len(q) - n
        /\ Distinct(queue')
        /\ \A r : (\E i \in 1..Len(queue') : queue'[i] = r)
                    <=> \E i \in (n + 1)..Len(q) : q[i] = r
    <3>1. PICK rest : rest = SubSeq(q, n + 1, Len(q))
      OBVIOUS
    <3>a. q \in Seq(Reqs) /\ Distinct(q) /\ n \in 0..Len(q)
      BY <1>t, <2>1
    <3>2. /\ rest \in Seq(Reqs) /\ Len(rest) = Len(q) - n /\ Distinct(rest)
          /\ Entries(rest) = {q[i] : i \in (n + 1)..Len(q)}
      BY <3>a, <3>1, ShiftedQueue
    <3>3. queue' = rest
      BY <2>2, <3>1
    <3> QED BY <3>2, <3>3 DEF Entries
  <2>5. \A i \in Alive(q, rq, n) : i \in 1..n /\ ~PastDeadline(rq[q[i]])
    BY DEF Alive
  <2>6. \A i \in 1..n : ~PastDeadline(rq[q[i]]) => i \in Alive(q, rq, n)
    BY DEF Alive
  <2>n. 1..n \subseteq 1..Len(q)
    BY <1>t, <2>1
  <2>s. \A r : r \in started <=> \E i \in 1..n : q[i] = r
                                                 /\ ~PastDeadline(rq[r])
    BY <2>5, <2>6, <2>o
  <2>7. ASSUME NEW r \in Reqs
        PROVE  /\ req'[r] \in Request
               /\ req'[r].st = "queued"
                    <=> \E i \in 1..Len(queue') : queue'[i] = r
               /\ r \in InFlightOf(req')
                    <=> r \in InFlightOf(rq) \/ r \in started
               /\ r \in started => r \notin InFlightOf(rq)
    <3>1. CASE \E i \in 1..n : q[i] = r
      <4>1. PICK i \in 1..n : q[i] = r
        BY <3>1
      <4>2. i \in 1..Len(q) /\ rq[r].st = "queued" /\ rq[r] \in Request
        BY <1>t, <2>n, <4>1
      <4>3. req'[r] = Shifted(rq[r])
        BY <2>2, <3>1
      <4>4. ~ \E j \in (n + 1)..Len(q) : q[j] = r
        <5>1. ASSUME NEW j \in (n + 1)..Len(q), q[j] = r
              PROVE  FALSE
          <6>1. j \in 1..Len(q) /\ j # i
            BY <1>t, <2>1, <4>2, <4>1
          <6> QED BY <1>t, <4>1, <4>2, <5>1, <6>1 DEF Distinct
        <5> QED BY <5>1
      <4>5. r \in started <=> ~PastDeadline(rq[r])
        BY <2>s, <3>1
      <4>6. /\ Shifted(rq[r]) \in Request
            /\ Shifted(rq[r]).st \in {"done", "starting"}
            /\ Shifted(rq[r]).st = "starting" <=> ~PastDeadline(rq[r])
        BY <4>2, ShiftedType
      <4>7. r \notin InFlightOf(rq)
        BY <4>2 DEF InFlightOf
      <4>8. r \in InFlightOf(req') <=> Shifted(rq[r]).st = "starting"
        BY <4>3, <4>6 DEF InFlightOf
      <4> QED BY <2>4, <4>3, <4>4, <4>5, <4>6, <4>7, <4>8
    <3>2. CASE ~ \E i \in 1..n : q[i] = r
      <4>1. req'[r] = rq[r] /\ rq[r] \in Request
        BY <1>t, <2>2, <3>2
      <4>2. (\E i \in 1..Len(q) : q[i] = r)
              <=> \E i \in (n + 1)..Len(q) : q[i] = r
        <5>1. \A i \in 1..Len(q) : i \in 1..n \/ i \in (n + 1)..Len(q)
          BY <1>t, <2>1
        <5>2. (n + 1)..Len(q) \subseteq 1..Len(q)
          BY <1>t, <2>1
        <5> QED BY <5>1, <5>2, <3>2
      <4>3. r \notin started
        BY <2>s, <3>2
      <4> QED BY <1>t, <2>4, <4>1, <4>2, <4>3 DEF InFlightOf
    <3> QED BY <3>1, <3>2
  <2>8. req' \in [Reqs -> Request]
    <3>1. req' = [r \in Reqs |-> req'[r]]
      BY <2>2
    <3> QED BY <3>1, <2>7
  <2>9. QueueFits(queue, req)'
    BY <2>4, <2>7, <2>8 DEF QueueFits
  <2>10. active' = Cardinality(InFlightOf(req'))
    <3>1. started \subseteq Reqs
      BY <2>s, <2>n, <1>t
    <3>2. InFlightOf(req') = InFlightOf(rq) \cup started
      BY <2>7, <3>1 DEF InFlightOf
    <3>3. InFlightOf(rq) \cap started = {}
      BY <2>7, <3>1
    <3>4. IsFiniteSet(InFlightOf(rq)) /\ Cardinality(InFlightOf(rq)) \in Nat
      <4>1. InFlightOf(rq) \in SUBSET Reqs /\ IsFiniteSet(Reqs)
        BY SlotsAssumption DEF InFlightOf
      <4>2. IsFiniteSet(InFlightOf(rq))
        BY <4>1, FS_Subset
      <4> QED BY <4>2, FS_CardinalityType
    <3>5. Cardinality(InFlightOf(rq) \cup started)
            = Cardinality(InFlightOf(rq)) + Cardinality(started)
                - Cardinality(InFlightOf(rq) \cap started)
      BY <2>3, <3>4, FS_Union
    <3>6. Cardinality(InFlightOf(rq) \cap started) = 0
      BY <3>3, FS_EmptySet
    <3>7. Cardinality(InFlightOf(rq) \cup started)
            = Cardinality(InFlightOf(rq)) + Cardinality(started)
      BY <2>3, <3>4, <3>5, <3>6
    <3>8. active' = used + Cardinality(started)
      BY <2>2, <2>3
    <3> QED BY <3>2, <3>7, <3>8
  <2>11. active' \in Nat /\ active' <= MaxSlots
    BY <1>t, <2>1, <2>2, <2>3
  <2>12. queue' # <<>> => active' = MaxSlots
    <3>1. ASSUME queue' # <<>>
          PROVE  n < Len(q)
      <4>1. Len(queue') \in Nat \ {0}
        BY <2>4, <3>1, EmptySeq
      <4>2. Len(queue') = Len(q) - n
        BY <2>4
      <4>3. n \in 0..Len(q) /\ Len(q) \in Nat
        BY <1>t, <2>1
      <4> QED BY <4>1, <4>2, <4>3
    <3> QED BY <2>1, <2>2, <3>1
  <2>13. /\ Len(queue') <= Len(q)
         /\ used < MaxSlots /\ q # <<>> => Len(queue') < Len(q)
    BY <1>t, <2>1, <2>4
  <2> QED BY <1>2, <2>9, <2>10, <2>11, <2>12, <2>13
<1> QED BY <1>1, <1>2

-----------------------------------------------------------------------------
(* The limiter's invariant and its steps.                                  *)

LimiterInv == LimiterTypeOK /\ SlotsAccounted /\ NoLostWakeup

LEMMA LimiterFacts ==
  ASSUME LimiterInv
  PROVE  /\ QueueFits(queue, req) /\ clock \in Nat /\ blockedUntil \in Nat
         /\ active \in 0..MaxSlots /\ active = Cardinality(InFlightOf(req))
         /\ IsFiniteSet(InFlightOf(req)) /\ MaxSlots \in Nat \ {0}
         /\ Len(queue) \in Nat /\ Len(queue) <= MaxPending
         /\ MaxPending \in Nat
         /\ queue # <<>> => active = MaxSlots /\ ~Blocked
<1>1. /\ clock \in Nat /\ blockedUntil \in Nat /\ active \in 0..MaxSlots
      /\ queue \in Seq(Reqs) /\ req \in [Reqs -> Request]
      /\ active = Cardinality(InFlightOf(req))
      /\ MaxSlots \in Nat \ {0} /\ MaxPending \in Nat
  BY SlotsAssumption, QueueAssumption
  DEF LimiterInv, LimiterTypeOK, SlotsAccounted, InFlight, InFlightOf
<1>2. Len(queue) \in Nat /\ DOMAIN queue = 1..Len(queue)
  BY <1>1, LenProperties
<1>3. InFlightOf(req) \in SUBSET Reqs /\ IsFiniteSet(Reqs)
  BY SlotsAssumption DEF InFlightOf
<1>4. IsFiniteSet(InFlightOf(req))
  BY <1>3, FS_Subset
<1> QED BY <1>1, <1>2, <1>4 DEF LimiterInv, NoLostWakeup, QueueFits, Distinct

LEMMA LimiterFrom ==
  ASSUME QueueFits(queue, req)', clock' \in Nat, blockedUntil' \in Nat,
         active' \in Nat, active' <= MaxSlots,
         active' = Cardinality(InFlightOf(req')),
         Len(queue') <= MaxPending,
         queue' # <<>> => active' = MaxSlots /\ ~Blocked'
  PROVE  LimiterInv'
<1>1. queue' \in Seq(Reqs) /\ req' \in [Reqs -> Request] /\ Distinct(queue')
      /\ \A r \in Reqs : req'[r].st = "queued"
                           <=> \E i \in 1..Len(queue') : queue'[i] = r
  BY DEF QueueFits
<1>2. DOMAIN queue' = 1..Len(queue')
  BY <1>1, LenProperties
<1> QED
  BY <1>1, <1>2
  DEF LimiterInv, LimiterTypeOK, SlotsAccounted, InFlight, InFlightOf,
      NoLostWakeup, Distinct

\* A step that neither queues a request nor lets one leave the queue or a slot.
LEMMA Steady ==
  ASSUME LimiterInv, UNCHANGED <<active, queue, blockedUntil>>,
         clock' \in Nat, clock' >= clock, req' \in [Reqs -> Request],
         \A r \in Reqs :
           /\ req'[r].st = "queued" <=> req[r].st = "queued"
           /\ r \in InFlightOf(req') <=> r \in InFlightOf(req)
  PROVE  LimiterInv'
<1>1. InFlightOf(req') = InFlightOf(req)
  BY DEF InFlightOf
<1>2. QueueFits(queue, req)'
  BY LimiterFacts DEF QueueFits
<1>3. Blocked' => Blocked
  BY LimiterFacts DEF Blocked
<1> QED BY <1>1, <1>2, <1>3, LimiterFacts, LimiterFrom

\* A waiting request leaves the queue with an error.
LEMMA LeavesQueue ==
  ASSUME LimiterInv, NEW r \in Reqs, req[r].st = "queued",
         queue' = Removed(queue, r), req' = [req EXCEPT ![r] = Rejected],
         UNCHANGED <<clock, active, blockedUntil>>
  PROVE  LimiterInv'
<1>1. PICK at \in 1..Len(queue) : queue[at] = r
  BY LimiterFacts DEF QueueFits
<1>2. /\ queue \in Seq(Reqs) /\ Distinct(queue) /\ req \in [Reqs -> Request]
      /\ Len(queue) \in Nat
      /\ \A x \in Reqs : req[x].st = "queued"
                           <=> \E i \in 1..Len(queue) : queue[i] = x
  BY LimiterFacts DEF QueueFits
<1>3. /\ queue' \in Seq(Reqs) /\ Distinct(queue')
      /\ Len(queue') = Len(queue) - 1
      /\ Entries(queue') = Entries(queue) \ {r}
  BY <1>1, <1>2, RemovedEntries
<1>4. Rejected \in Request /\ Rejected.st = "done"
  BY DEF Rejected, Fresh, Request, Stages, Outcomes, None
<1>5. \A x \in Reqs : req'[x] = IF x = r THEN Rejected ELSE req[x]
  BY <1>2
<1>6. \A x \in Reqs : req'[x].st = "queued" <=> x \in Entries(queue')
  BY <1>2, <1>3, <1>4, <1>5 DEF Entries
<1>7. req' \in [Reqs -> Request]
  BY <1>2, <1>4
<1>8. QueueFits(queue, req)'
  BY <1>3, <1>6, <1>7 DEF QueueFits, Entries
<1>9. InFlightOf(req') = InFlightOf(req)
  BY <1>2, <1>4 DEF InFlightOf
<1>10. queue # <<>>
  <2>1. Len(<<>>) = 0 /\ Len(queue) >= 1
    BY <1>1, <1>2
  <2> QED BY <2>1
<1>11. Len(queue') <= MaxPending
  BY <1>2, <1>3, LimiterFacts
<1>12. Blocked' <=> Blocked
  BY DEF Blocked
<1>13. /\ clock' \in Nat /\ blockedUntil' \in Nat /\ active' \in Nat
       /\ active' <= MaxSlots /\ active' = Cardinality(InFlightOf(req'))
       /\ active = MaxSlots /\ ~Blocked
  <2>1. /\ UNCHANGED <<clock, active, blockedUntil>> /\ clock \in Nat
        /\ blockedUntil \in Nat /\ active \in 0..MaxSlots
        /\ MaxSlots \in Nat /\ active = Cardinality(InFlightOf(req))
    BY LimiterFacts
  <2>2. active = MaxSlots /\ ~Blocked
    BY <1>10, LimiterFacts
  <2>3. active' = active /\ active \in Nat
    BY <2>1
  <2>4. active' <= MaxSlots
    BY <2>1, <2>3
  <2>5. active' = Cardinality(InFlightOf(req'))
    BY <1>9, <2>1, <2>3
  <2> QED BY <2>1, <2>2, <2>3, <2>4, <2>5
<1> QED BY <1>8, <1>11, <1>12, <1>13, LimiterFrom

LEMMA RunStep ==
  ASSUME LimiterInv, NEW r \in Reqs, Run(r)
  PROVE  LimiterInv'
<1>1. req[r].st = "idle" /\ UNCHANGED <<clock, blockedUntil>>
  BY DEF Run
<1>2. /\ QueueFits(queue, req) /\ Len(queue) \in Nat
      /\ queue \in Seq(Reqs) /\ req \in [Reqs -> Request] /\ Distinct(queue)
      /\ \A x \in Reqs : req[x].st = "queued"
                           <=> \E i \in 1..Len(queue) : queue[i] = x
      /\ clock \in Nat /\ blockedUntil \in Nat
  BY LimiterFacts DEF QueueFits
<1>b. Blocked' <=> Blocked
  BY <1>1 DEF Blocked
<1>3. CASE req[r].aborted \/ Blocked \/ Full
  <2>1. req' = [req EXCEPT ![r] = Rejected] /\ UNCHANGED <<active, queue>>
    BY <1>3 DEF Run
  <2>2. Rejected \in Request /\ Rejected.st = "done"
    BY DEF Rejected, Fresh, Request, Stages, Outcomes, None
  <2>3. /\ req' \in [Reqs -> Request]
        /\ \A x \in Reqs :
             /\ req'[x].st = "queued" <=> req[x].st = "queued"
             /\ x \in InFlightOf(req') <=> x \in InFlightOf(req)
    BY <1>1, <1>2, <2>1, <2>2 DEF InFlightOf
  <2>4. UNCHANGED <<active, queue, blockedUntil>> /\ clock' \in Nat
        /\ clock' >= clock
    BY <1>1, <1>2, <2>1
  <2> QED BY <2>3, <2>4, Steady
<1>4. CASE ~(req[r].aborted \/ Blocked \/ Full)
  <2>1. PICK q : q = Append(queue, r)
    OBVIOUS
  <2>d. PICK d \in Nat \cup {None} :
          d = IF active >= MaxSlots THEN clock + QueueWait ELSE None
    <3>1. clock + QueueWait \in Nat
      BY <1>2, QueueAssumption
    <3>2. (IF active >= MaxSlots THEN clock + QueueWait ELSE None)
             \in Nat \cup {None}
      BY <3>1
    <3> QED BY <3>2
  <2>x. PICK x : x = [req[r] EXCEPT !.st = "queued", !.deadline = d]
    OBVIOUS
  <2>y. x \in Request /\ x.st = "queued"
    <3>1. req[r] \in Request
      BY <1>2
    <3> QED BY <3>1, <2>x, <2>d DEF Request, Stages
  <2>2. PICK rq : rq = [req EXCEPT ![r] = x]
    OBVIOUS
  <2>3. Dispatch(q, rq, active)
    <3>1. rq = [req EXCEPT ![r].st = "queued", ![r].deadline = d]
      BY <1>2, <2>x, <2>2
    <3> QED BY <1>4, <2>1, <2>d, <3>1 DEF Run
  <2>4. /\ q \in Seq(Reqs) /\ Distinct(q) /\ Len(q) = Len(queue) + 1
        /\ q # <<>> /\ Entries(q) = Entries(queue) \cup {r}
    <3>1. r \notin Entries(queue)
      BY <1>1, <1>2 DEF Entries
    <3> QED BY <1>2, <2>1, <3>1, AppendEntries
  <2>5. /\ rq \in [Reqs -> Request] /\ rq[r].st = "queued"
        /\ \A s \in Reqs : s # r => rq[s] = req[s]
    BY <1>2, <2>2, <2>y
  <2>8. \A s \in Reqs : rq[s].st = "queued" <=> s \in Entries(q)
    <3>1. \A s \in Reqs : req[s].st = "queued" <=> s \in Entries(queue)
      BY <1>2 DEF Entries
    <3> QED BY <2>4, <2>5, <3>1
  <2>9. QueueFits(q, rq)
    BY <2>4, <2>5, <2>8 DEF QueueFits, Entries
  <2>10. InFlightOf(rq) = InFlightOf(req)
    BY <1>1, <2>5 DEF InFlightOf
  <2>11. active \in 0..MaxSlots /\ active = Cardinality(InFlightOf(rq))
    BY <2>10, LimiterFacts
  <2>12. /\ QueueFits(queue, req)'
         /\ active' \in Nat /\ active' <= MaxSlots
         /\ active' = Cardinality(InFlightOf(req'))
         /\ queue' # <<>> => active' = MaxSlots /\ ~Blocked
         /\ Len(queue') <= Len(q)
         /\ active < MaxSlots /\ q # <<>> => Len(queue') < Len(q)
    BY <2>3, <2>9, <2>11, DispatchStep
  <2>13. Len(queue') \in Nat
    BY <2>12, LenProperties DEF QueueFits
  <2>14. Len(queue') <= MaxPending
    <3>1. CASE active < MaxSlots
      <4>1. queue = <<>>
        BY <3>1, LimiterFacts
      <4>2. Len(queue') = 0
        BY <2>4, <2>12, <2>13, <3>1, <4>1
      <4> QED BY <4>2, LimiterFacts
    <3>2. CASE ~(active < MaxSlots)
      <4>1. Len(queue) < MaxPending
        BY <1>4, <3>2, LimiterFacts DEF Full
      <4> QED BY <1>2, <2>4, <2>12, <2>13, <4>1, LimiterFacts
    <3> QED BY <3>1, <3>2
  <2> QED BY <1>1, <1>2, <1>b, <2>12, <2>14, LimiterFrom
<1> QED BY <1>3, <1>4

LEMMA StartStep ==
  ASSUME LimiterInv, NEW r \in Reqs, Start(r)
  PROVE  LimiterInv'
<1>1. /\ req[r].st = "starting" /\ req \in [Reqs -> Request]
      /\ UNCHANGED <<clock, active, queue, blockedUntil>> /\ clock \in Nat
  BY LimiterFacts DEF Start, QueueFits
<1>2. /\ req' \in [Reqs -> Request]
      /\ req'[r].st \in {"running", "settling"}
      /\ \A x \in Reqs : x # r => req'[x] = req[x]
  BY <1>1 DEF Start, Ended, Fresh, Request, Stages, Outcomes, None
<1>3. \A x \in Reqs :
        /\ req'[x].st = "queued" <=> req[x].st = "queued"
        /\ x \in InFlightOf(req') <=> x \in InFlightOf(req)
  BY <1>1, <1>2 DEF InFlightOf
<1> QED BY <1>1, <1>2, <1>3, Steady

LEMMA AnswerStep ==
  ASSUME LimiterInv, NEW r \in Reqs, Answer(r)
  PROVE  LimiterInv'
<1>1. /\ req[r].st = "running" /\ req \in [Reqs -> Request]
      /\ UNCHANGED <<clock, active, queue, blockedUntil>> /\ clock \in Nat
  BY LimiterFacts DEF Answer, QueueFits
<1>2. /\ req' \in [Reqs -> Request] /\ req'[r].st = "settling"
      /\ \A x \in Reqs : x # r => req'[x] = req[x]
  <2>1. PICK out \in Outcomes : req' = [req EXCEPT ![r] = Ended(out)]
    BY DEF Answer, Outcomes
  <2>2. Ended(out) \in Request /\ Ended(out).st = "settling"
    BY DEF Ended, Fresh, Request, Stages, None
  <2> QED BY <1>1, <2>1, <2>2
<1>3. \A x \in Reqs :
        /\ req'[x].st = "queued" <=> req[x].st = "queued"
        /\ x \in InFlightOf(req') <=> x \in InFlightOf(req)
  BY <1>1, <1>2 DEF InFlightOf
<1> QED BY <1>1, <1>2, <1>3, Steady

LEMMA ThrottledStep ==
  ASSUME LimiterInv, NEW r \in Reqs, Throttled(r)
  PROVE  LimiterInv'
<1>1. PICK retryAfter \in RetryAfters :
        OpenCircuit([req EXCEPT ![r] = Ended("refused")], retryAfter)
  BY DEF Throttled
<1>2. PICK rq : rq = [req EXCEPT ![r] = Ended("refused")]
  OBVIOUS
<1>3. /\ queue' = <<>> /\ req' = RejectQueued(rq, queue)
      /\ UNCHANGED <<clock, active>> /\ req[r].st = "running"
      /\ blockedUntil' \in Nat
  BY <1>1, <1>2, BackoffAssumption, LimiterFacts
  DEF Throttled, OpenCircuit, Backoff
<1>4. /\ req \in [Reqs -> Request] /\ DOMAIN queue = 1..Len(queue)
      /\ \A x \in Reqs : req[x].st = "queued"
                           <=> \E i \in 1..Len(queue) : queue[i] = x
  BY LimiterFacts, LenProperties DEF QueueFits
<1>5. /\ Ended("refused") \in Request /\ Ended("refused").st = "settling"
      /\ Rejected \in Request /\ Rejected.st = "done"
  BY DEF Ended, Rejected, Fresh, Request, Stages, Outcomes, None
<1>6. \A x \in Reqs : req'[x] = IF req[x].st = "queued" THEN Rejected
                                ELSE IF x = r THEN Ended("refused")
                                ELSE req[x]
  BY <1>2, <1>3, <1>4 DEF RejectQueued
<1>7. req' \in [Reqs -> Request]
  <2>1. req' = [x \in Reqs |-> req'[x]]
    BY <1>3 DEF RejectQueued
  <2> QED BY <1>4, <1>5, <1>6, <2>1
<1>8. InFlightOf(req') = InFlightOf(req)
  BY <1>3, <1>5, <1>6 DEF InFlightOf
<1>9. queue' \in Seq(Reqs) /\ Len(queue') = 0 /\ Distinct(queue')
  BY <1>3, EmptySeq DEF Distinct
<1>10. QueueFits(queue, req)'
  BY <1>5, <1>6, <1>7, <1>9 DEF QueueFits
<1>11. /\ clock' \in Nat /\ active' \in Nat /\ active' <= MaxSlots
       /\ active' = Cardinality(InFlightOf(req')) /\ Len(queue') <= MaxPending
  BY <1>3, <1>8, <1>9, LimiterFacts
<1> QED BY <1>3, <1>10, <1>11, LimiterFrom

LEMMA SettleStep ==
  ASSUME LimiterInv, NEW r \in Reqs, Settle(r)
  PROVE  LimiterInv'
<1>1. /\ req[r].st = "settling" /\ UNCHANGED <<clock, blockedUntil>>
      /\ QueueFits(queue, req) /\ req \in [Reqs -> Request]
      /\ active \in 0..MaxSlots /\ active = Cardinality(InFlightOf(req))
      /\ IsFiniteSet(InFlightOf(req)) /\ MaxSlots \in Nat
      /\ Len(queue) \in Nat /\ Len(queue) <= MaxPending /\ MaxPending \in Nat
      /\ clock \in Nat /\ blockedUntil \in Nat
  BY LimiterFacts DEF Settle, QueueFits
<1>2. PICK rq : rq = [req EXCEPT ![r].st = "done"]
  OBVIOUS
<1>3. Dispatch(queue, rq, active - 1)
  BY <1>2 DEF Settle
<1>4. /\ rq \in [Reqs -> Request] /\ rq[r].st = "done"
      /\ \A x \in Reqs : x # r => rq[x] = req[x]
  BY <1>1, <1>2 DEF Request, Stages
<1>5. QueueFits(queue, rq)
  BY <1>1, <1>4 DEF QueueFits
<1>6. InFlightOf(rq) = InFlightOf(req) \ {r} /\ r \in InFlightOf(req)
  BY <1>1, <1>4 DEF InFlightOf
<1>7. Cardinality(InFlightOf(rq)) = active - 1
  BY <1>1, <1>6, FS_RemoveElement
<1>8. active >= 1
  <2>1. InFlightOf(req) # {}
    BY <1>6
  <2>2. Cardinality(InFlightOf(req)) # 0
    BY <1>1, <2>1, FS_EmptySet
  <2> QED BY <1>1, <2>2
<1>9. active - 1 \in 0..MaxSlots
  BY <1>1, <1>8
<1>10. /\ QueueFits(queue, req)'
       /\ active' \in Nat /\ active' <= MaxSlots
       /\ active' = Cardinality(InFlightOf(req'))
       /\ queue' # <<>> => active' = MaxSlots /\ ~Blocked
       /\ Len(queue') <= Len(queue)
  BY <1>3, <1>5, <1>7, <1>9, DispatchStep
<1>11. Len(queue') \in Nat
  BY <1>10, LenProperties DEF QueueFits
<1>12. Blocked' <=> Blocked
  BY <1>1 DEF Blocked
<1>13. Len(queue') <= MaxPending
  BY <1>1, <1>10, <1>11
<1> QED BY <1>1, <1>10, <1>12, <1>13, LimiterFrom

LEMMA QueueTimeoutStep ==
  ASSUME LimiterInv, NEW r \in Reqs, QueueTimeout(r)
  PROVE  LimiterInv'
  BY LeavesQueue DEF QueueTimeout

LEMMA AbortStep ==
  ASSUME LimiterInv, NEW r \in Reqs, Abort(r)
  PROVE  LimiterInv'
<1>1. CASE req[r].st = "queued"
  BY <1>1, LeavesQueue DEF Abort
<1>2. CASE req[r].st # "queued"
  <2>1. /\ req' = [req EXCEPT ![r].aborted = TRUE]
        /\ UNCHANGED <<clock, active, queue, blockedUntil>>
        /\ req \in [Reqs -> Request] /\ clock \in Nat
    BY <1>2, LimiterFacts DEF Abort, QueueFits
  <2>2. req' \in [Reqs -> Request]
    BY <2>1 DEF Request
  <2>3. \A x \in Reqs : req'[x].st = req[x].st
    BY <2>1 DEF Request
  <2> QED BY <2>1, <2>2, <2>3, Steady DEF InFlightOf
<1> QED BY <1>1, <1>2

LEMMA TickStep ==
  ASSUME LimiterInv, Tick
  PROVE  LimiterInv'
<1>1. UNCHANGED <<active, queue, blockedUntil, req>> /\ clock' = clock + 1
  BY DEF Tick, limiterVars
<1>2. clock \in Nat /\ req \in [Reqs -> Request]
  BY LimiterFacts DEF QueueFits
<1> QED BY <1>1, <1>2, Steady

LEMMA RenewStep ==
  ASSUME LimiterInv, NEW r \in Reqs, Renew(r)
  PROVE  LimiterInv'
<1>1. /\ req[r].st = "done" /\ req' = [req EXCEPT ![r] = Fresh]
      /\ UNCHANGED <<clock, active, queue, blockedUntil>>
      /\ req \in [Reqs -> Request] /\ clock \in Nat
  BY LimiterFacts DEF Renew, QueueFits
<1>2. Fresh \in Request /\ Fresh.st = "idle"
  BY DEF Fresh, Request, Stages, Outcomes, None
<1>3. /\ req' \in [Reqs -> Request]
      /\ \A x \in Reqs :
           /\ req'[x].st = "queued" <=> req[x].st = "queued"
           /\ x \in InFlightOf(req') <=> x \in InFlightOf(req)
  BY <1>1, <1>2 DEF InFlightOf
<1>4. UNCHANGED <<active, queue, blockedUntil>> /\ clock' \in Nat
      /\ clock' >= clock
  BY <1>1
<1> QED BY <1>3, <1>4, Steady

-----------------------------------------------------------------------------
(* The limiter under the captures.                                         *)

\* Seen from the limiter, a step of the captures is a step of the limiter: it
\* uses it through its interface, and nothing else touches its state.
LEMMA LimiterMoves ==
  ASSUME [Next]_vars
  PROVE  [LimiterNext]_<<clock, limiterVars>>
<1>1. CASE Time
  BY <1>1 DEF Time, LimiterNext
<1>2. ASSUME NEW c \in Calls, Begin(c) \/ CallStep(c)
      PROVE  [LimiterNext]_<<clock, limiterVars>>
  <2>1. c \in Reqs
    BY CallsAssumption
  <2>2. CASE Begin(c)
    BY <2>2 DEF Begin
  <2>3. CASE \/ SharedDone(c) \/ RenderTimeout(c) \/ RunJob(c) \/ Attempt(c)
             \/ Prepare(c) \/ Shoot(c) \/ End(c) \/ Clear(c)
    BY <2>3 DEF SharedDone, RenderTimeout, RunJob, Attempt, Prepare, Shoot,
                End, Clear
  <2>4. CASE Navigate(c) \/ Load(c) \/ Loaded(c)
    BY <2>1, <2>4 DEF Navigate, Load, Loaded, LimiterNext, LimiterStep
  <2>5. CASE Expire(c)
    BY <2>1, <2>5 DEF Expire, LimiterNext, LimiterStep
  <2> QED BY <1>2, <2>2, <2>3, <2>4, <2>5 DEF CallStep
<1>3. ASSUME NEW r \in Reqs, OtherRequest(r) \/ LimiterCallback(r)
      PROVE  [LimiterNext]_<<clock, limiterVars>>
  BY <1>3 DEF OtherRequest, LimiterCallback, LimiterNext, LimiterStep
<1>4. ASSUME NEW l \in Logs, Publish(l)
      PROVE  [LimiterNext]_<<clock, limiterVars>>
  BY <1>4 DEF Publish
<1>5. CASE UNCHANGED vars
  BY <1>5 DEF vars
<1> QED BY <1>1, <1>2, <1>3, <1>4, <1>5 DEF Next

LEMMA LimiterInvInit == Init => LimiterInv
<1> SUFFICES ASSUME Init
             PROVE  LimiterInv
  OBVIOUS
<1>1. PICK w \in Workloads :
        /\ clock = w.from
        /\ req = [r \in Reqs |-> IF r \in Calls \cup w.others
                                   THEN Fresh ELSE [Fresh EXCEPT !.st = "done"]]
  BY DEF Init
<1>2. active = 0 /\ queue = <<>> /\ blockedUntil = 0
  BY DEF Init
<1>3. clock \in Nat
  BY <1>1, WorkloadAssumption, ClockAssumption
<1>4. /\ Fresh \in Request /\ Fresh.st = "idle"
      /\ [Fresh EXCEPT !.st = "done"] \in Request
      /\ [Fresh EXCEPT !.st = "done"].st = "done"
  BY DEF Fresh, Request, Stages, Outcomes, None
<1>5. /\ req \in [Reqs -> Request]
      /\ \A r \in Reqs : req[r].st \in {"idle", "done"}
  BY <1>1, <1>4
<1>6. InFlight = {}
  BY <1>5 DEF InFlight
<1>7. SlotsAccounted
  BY <1>2, <1>6, FS_EmptySet, SlotsAssumption DEF SlotsAccounted
<1>8. queue \in Seq(Reqs) /\ Len(queue) = 0 /\ DOMAIN queue = {}
  BY <1>2, EmptySeq
<1>9. LimiterTypeOK
  BY <1>2, <1>3, <1>5, <1>8 DEF LimiterTypeOK
<1>10. NoLostWakeup
  BY <1>2, <1>5, <1>8, QueueAssumption DEF NoLostWakeup
<1> QED BY <1>7, <1>9, <1>10 DEF LimiterInv

LEMMA LimiterInvStep ==
  ASSUME LimiterInv, [Next]_vars
  PROVE  LimiterInv'
<1>1. [LimiterNext]_<<clock, limiterVars>>
  BY LimiterMoves
<1>2. ASSUME NEW r \in Reqs, LimiterStep(r) \/ Renew(r)
      PROVE  LimiterInv'
  BY <1>2, RunStep, StartStep, AnswerStep, ThrottledStep, SettleStep,
     QueueTimeoutStep, AbortStep, RenewStep DEF LimiterStep
<1>3. CASE UNCHANGED <<clock, limiterVars>>
  <2>1. /\ UNCHANGED <<active, queue, blockedUntil, req>>
        /\ clock' \in Nat /\ clock' >= clock /\ req \in [Reqs -> Request]
    BY <1>3, LimiterFacts DEF limiterVars, QueueFits
  <2> QED BY <2>1, Steady
<1> QED BY <1>1, <1>2, <1>3, TickStep DEF LimiterNext

\* The limiter never loses a wake-up, whatever uses it.
THEOREM WakeupsKept == Spec => []NoLostWakeup
<1>1. Spec => []LimiterInv
  BY LimiterInvInit, LimiterInvStep, PTL DEF Spec
<1>2. LimiterInv => NoLostWakeup
  BY DEF LimiterInv
<1> QED BY <1>1, <1>2, PTL

\* A dispatch sends nothing: what it picks starts in a later step.
LEMMA DispatchSendsNothing ==
  ASSUME NEW q, NEW rq \in [Reqs -> Request], NEW used, Dispatch(q, rq, used),
         NEW r \in Reqs, req'[r].st = "running"
  PROVE  rq[r].st = "running"
<1>1. Rejected.st = "done" /\ Shifted(rq[r]).st \in {"done", "starting"}
  BY ShiftedType
<1>2. CASE Blocked
  BY <1>1, <1>2 DEF Dispatch, RejectQueued
<1>3. CASE ~Blocked
  <2>1. req'[r] \in {Shifted(rq[r]), rq[r]}
    BY <1>3 DEF Dispatch
  <2> QED BY <1>1, <2>1
<1> QED BY <1>2, <1>3

LEMMA SentInTime ==
  ASSUME LimiterInv, [LimiterNext]_<<clock, limiterVars>>, NEW r \in Reqs,
         req[r].st # "running", req'[r].st = "running"
  PROVE  ~PastDeadline(req[r])
<1>1. req \in [Reqs -> Request]
  BY DEF LimiterInv, LimiterTypeOK
<1>2. CASE UNCHANGED <<clock, limiterVars>> \/ Tick
  BY <1>2 DEF Tick, limiterVars
<1>3. ASSUME NEW s \in Reqs, LimiterStep(s) \/ Renew(s)
      PROVE  ~PastDeadline(req[r])
  <2>1. Rejected.st = "done" /\ Fresh.st = "idle"
    BY DEF Rejected, Fresh
  <2>2. CASE Run(s)
    <3>1. CASE req[s].aborted \/ Blocked \/ Full
      BY <1>1, <2>1, <2>2, <3>1 DEF Run
    <3>2. CASE ~(req[s].aborted \/ Blocked \/ Full)
      <4>1. PICK d : d = IF active >= MaxSlots THEN clock + QueueWait ELSE None
        OBVIOUS
      <4>2. PICK rq : rq = [req EXCEPT ![s].st = "queued", ![s].deadline = d]
        OBVIOUS
      <4>3. Dispatch(Append(queue, s), rq, active) /\ req[s].st = "idle"
        BY <2>2, <3>2, <4>1, <4>2 DEF Run
      <4>4. d \in Nat \cup {None}
        <5>1. clock + QueueWait \in Nat
          BY QueueAssumption DEF LimiterInv, LimiterTypeOK
        <5> QED BY <4>1, <5>1
      <4>5. /\ rq \in [Reqs -> Request] /\ rq[s].st = "queued"
            /\ \A x \in Reqs : x # s => rq[x] = req[x]
        <5>1. PICK x : x = [req[s] EXCEPT !.st = "queued", !.deadline = d]
          OBVIOUS
        <5>2. req[s] \in Request
          BY <1>1
        <5>3. x \in Request /\ x.st = "queued"
          BY <5>1, <5>2, <4>4 DEF Request, Stages
        <5>4. rq = [req EXCEPT ![s] = x]
          BY <1>1, <4>2, <5>1
        <5> QED BY <1>1, <5>3, <5>4
      <4>6. rq[r].st = "running"
        BY <4>3, <4>5, DispatchSendsNothing
      <4> QED BY <4>5, <4>6
    <3> QED BY <3>1, <3>2
  <2>3. CASE Start(s)
    BY <1>1, <2>3 DEF Start, Ended, Fresh, Request
  <2>4. CASE Answer(s)
    BY <1>1, <2>4 DEF Answer, Ended, Fresh, Request
  <2>5. CASE Throttled(s)
    <3>1. PICK rq : rq = [req EXCEPT ![s] = Ended("refused")]
      OBVIOUS
    <3>2. req' = RejectQueued(rq, queue)
      BY <2>5, <3>1 DEF Throttled, OpenCircuit
    <3>3. req'[r] \in {Rejected, rq[r]} /\ Ended("refused").st = "settling"
      BY <3>2 DEF RejectQueued, Ended, Fresh
    <3> QED BY <1>1, <2>1, <3>1, <3>3
  <2>6. CASE Settle(s)
    <3>1. PICK rq : rq = [req EXCEPT ![s].st = "done"]
      OBVIOUS
    <3>2. Dispatch(queue, rq, active - 1)
      BY <2>6, <3>1 DEF Settle
    <3>3. /\ rq \in [Reqs -> Request] /\ rq[s].st = "done"
          /\ \A x \in Reqs : x # s => rq[x] = req[x]
      BY <1>1, <3>1 DEF Request, Stages
    <3>4. rq[r].st = "running"
      BY <3>2, <3>3, DispatchSendsNothing
    <3> QED BY <3>3, <3>4
  <2>7. CASE QueueTimeout(s)
    BY <1>1, <2>1, <2>7 DEF QueueTimeout
  <2>8. CASE Abort(s)
    BY <1>1, <2>1, <2>8 DEF Abort, Request
  <2>9. CASE Renew(s)
    BY <1>1, <2>1, <2>9 DEF Renew
  <2> QED
    BY <1>3, <2>2, <2>3, <2>4, <2>5, <2>6, <2>7, <2>8, <2>9 DEF LimiterStep
<1> QED BY <1>2, <1>3 DEF LimiterNext

\* A request that waited past its deadline is never sent.
THEOREM SendsInTime == Spec => NeverSentLate
<1>1. Spec => []LimiterInv
  BY LimiterInvInit, LimiterInvStep, PTL DEF Spec
<1>2. LimiterInv /\ [Next]_vars =>
        [\A r \in Reqs : req[r].st # "running" /\ req'[r].st = "running"
           => ~PastDeadline(req[r])]_<<clock, limiterVars>>
  BY LimiterMoves, SentInTime
<1> QED BY <1>1, <1>2, PTL DEF Spec, NeverSentLate

-----------------------------------------------------------------------------
(* The invariant of the captures.                                          *)

Waiting == {"queued", "picked"}
Running == {"attempt", "prepare", "navigate", "shoot"}
Over == {"ending", "settled", "done"}

\* A call the render queue has accepted has a deadline for good.
Admitted(c) == call[c].deadline > 0
Refreshes(c) == Admitted(c) /\ call[c].refresh

\* What a call has recorded of the queue, the log and its own progress.
Recorded(c) ==
  /\ Admitted(c) => call[c].pc \in Waiting \cup Running \cup Over
  /\ call[c].pc \in Waiting \cup Running \cup {"ending", "settled"}
       => Admitted(c)
  /\ call[c].deadline <= clock + TimeoutMs
  /\ call[c].seen <= site[CallLog(c)]
  /\ call[c].seen > 0 <=> Refreshes(c)
  /\ call[c].opened => Admitted(c) /\ call[c].pc \in Running \cup Over
  /\ call[c].ok => call[c].pc \in Over

CallsInv ==
  /\ \A l \in Logs : site[l] >= 1
  /\ \A c \in Calls : Recorded(c)

\* The render queue: one job runs, the queue holds the waiting calls once.
RenderInv == RenderSlotSound /\ Distinct(pending)

\* A navigation is the only request of a call, what it has loaded is the log
\* that was asked for, and only a call at work holds a page.
Answered ==
  \A r \in Reqs : req[r].out = "ok" => req[r].st \in {"settling", "done"}

Navigates(c) ==
  /\ call[c].pc # "navigate" => req[c].st = "idle"
  /\ call[c].pc = "navigate" /\ (req[c].st = "running" \/ req[c].out = "ok")
       => call[c].page.log = CallLog(c)
  /\ call[c].pc = "shoot" => call[c].page.log = CallLog(c)
  /\ call[c].pc \notin {"prepare", "navigate", "shoot"}
       => call[c].page = NoPage

NavigationInv == Answered /\ \A c \in Calls : Navigates(c)

\* The refreshes a call came after were accepted before it, are ahead of it in
\* the render queue, and their budget ends first.
Behind(c, r) ==
  \A i, j \in DOMAIN pending :
    pending[i] = r => call[c].pc = "queued" /\ (pending[j] = c => i < j)

After(c, r) ==
  /\ r # c /\ Refreshes(r) /\ CallLog(r) = CallLog(c)
  /\ Admitted(c) =>
       /\ call[r].deadline <= call[c].deadline
       /\ call[c].seen > 0 => call[r].seen <= call[c].seen
       /\ call[c].pc \in {"ending"} \cup Waiting \cup Running => Behind(c, r)
       /\ call[c].pc \in {"settled", "done"} /\ call[r].pc \in Waiting
            => Late(r)

OrderInv == \A c \in Calls : \A r \in floors[c] : After(c, r)

\* The calls that may be shared came after every refresh of their log, or are
\* one of them.
Registered(k, d) ==
  /\ call[d].key = k /\ Admitted(d) /\ call[d].pc # "done"
  /\ \A r \in Calls : Refreshes(r) /\ CallLog(r) = LogOf[k]
       => r = d \/ r \in floors[d]

CaptureInv ==
  \A k \in Keys : captures[k] # NoCall => Registered(k, captures[k])

\* Callers that share a capture began after it and before a later refresh.
SharedInv ==
  \A c \in Calls : call[c].pc = "shared" =>
    LET d == call[c].owner
    IN /\ d \in Calls /\ Admitted(d)
       /\ floors[c] \subseteq floors[d] \cup {d}

\* While a refresh waits for the browser and may still get it, a refresh of
\* its log is registered, and no image of the log is taken from the cache.
PendingInv ==
  \A r \in Calls : Refreshes(r) /\ call[r].pc \in Waiting =>
    Late(r) \/ RefreshPending(r)

\* Nothing older than refresh r is left where a later call could take it from.
Clean(r) ==
  /\ \A k \in Keys : LogOf[k] = CallLog(r)
       => cache[k] = 0 \/ cache[k] >= call[r].seen
  /\ warm.log = CallLog(r) => warm.version >= call[r].seen
  /\ \A d \in Calls :
       (d = r => call[d].pc # "prepare") /\ call[d].page.log = CallLog(r)
         => call[d].page.version >= call[r].seen

\* A refresh that got as far as dropping the images of its log.
Ran(r) ==
  /\ Refreshes(r)
  /\ \/ call[r].pc \in Running
     \/ call[r].pc \in Over /\ (call[r].opened \/ ~Late(r))

CleanInv == \A r \in Calls : Ran(r) => Clean(r)

\* The budget of a refresh ran out before it could load the page.
Missed(r) ==
  ~call[r].opened /\ Late(r) /\ call[r].pc \in Waiting \cup Over

Fresher(c) ==
  /\ call[c].seen > 0 => call[c].version >= call[c].seen
  /\ \A r \in floors[c] : call[c].version >= call[r].seen \/ Missed(r)

ImageInv == \A c \in Calls : call[c].ok => Fresher(c)

CapturesInv ==
  /\ TypeOK /\ CallsInv /\ RenderInv /\ NavigationInv /\ OrderInv
  /\ CaptureInv /\ SharedInv /\ PendingInv /\ CleanInv /\ ImageInv

-----------------------------------------------------------------------------
(* What the steps of a call change.                                        *)

CallsTyped == call \in [Calls -> CallState]

\* The call c moves to step pc; the fields that say which call it is stay.
Moves(c, pc) ==
  /\ call' \in [Calls -> CallState]
  /\ \A d \in Calls : d # c => call'[d] = call[d]
  /\ call'[c].pc = pc
  /\ call'[c].key = call[c].key /\ call'[c].refresh = call[c].refresh
  /\ call'[c].deadline = call[c].deadline /\ call'[c].seen = call[c].seen

\* Its result and what it has opened stay too.
Keeps(c) ==
  /\ call'[c].ok = call[c].ok /\ call'[c].version = call[c].version
  /\ call'[c].opened = call[c].opened /\ call'[c].owner = call[c].owner

LEMMA GotoEffect ==
  ASSUME CallsTyped, NEW c \in Calls, NEW pc \in Steps, Goto(c, pc)
  PROVE  Moves(c, pc) /\ Keeps(c) /\ call'[c].page = call[c].page
  BY DEF CallsTyped, Goto, Moves, Keeps, CallState

LEMMA FailEffect ==
  ASSUME CallsTyped, NEW c \in Calls, Fail(c)
  PROVE  Moves(c, "ending") /\ Keeps(c) /\ call'[c].page = NoPage
  BY DEF CallsTyped, Fail, Moves, Keeps, CallState, Steps, NoPage, Page

LEMMA SucceedEffect ==
  ASSUME CallsTyped, NEW c \in Calls, NEW v \in Nat, Succeed(c, v)
  PROVE  /\ Moves(c, "ending") /\ call'[c].page = NoPage
         /\ call'[c].ok = TRUE /\ call'[c].version = v
         /\ call'[c].opened = call[c].opened /\ call'[c].owner = call[c].owner
<1>1. PICK x : x = [call[c] EXCEPT !.pc = "ending", !.ok = TRUE,
                                   !.version = v, !.page = NoPage]
  OBVIOUS
<1>2. NoPage \in Page
  BY DEF NoPage, Page
<1>3. call[c] \in CallState
  BY DEF CallsTyped
<1>4. /\ x \in CallState /\ x.pc = "ending" /\ x.ok = TRUE
      /\ x.version = v /\ x.page = NoPage
      /\ x.key = call[c].key /\ x.refresh = call[c].refresh
      /\ x.deadline = call[c].deadline /\ x.seen = call[c].seen
      /\ x.opened = call[c].opened /\ x.owner = call[c].owner
  BY <1>1, <1>2, <1>3 DEF CallState, Steps
<1>5. call' = [call EXCEPT ![c] = x]
  BY <1>1 DEF CallsTyped, Succeed
<1> QED BY <1>4, <1>5 DEF CallsTyped, Moves

LEMMA TakePageEffect ==
  ASSUME CallsTyped, NEW c \in Calls, warm \in Page, TakePage(c)
  PROVE  Moves(c, "prepare") /\ Keeps(c) /\ call'[c].page = warm
         /\ warm' = NoPage
  BY DEF CallsTyped, TakePage, Moves, Keeps, CallState, Steps

LEMMA CrashEffect ==
  ASSUME CallsTyped, NEW c \in Calls, Crash(c)
  PROVE  /\ Moves(c, "ending") \/ Moves(c, "attempt")
         /\ Keeps(c) /\ call'[c].page = NoPage
<1>1. CASE call[c].retried \/ call[c].expired
  BY <1>1, FailEffect DEF Crash
<1>2. CASE ~(call[c].retried \/ call[c].expired)
  BY <1>2 DEF CallsTyped, Crash, Moves, Keeps, CallState, Steps, NoPage, Page
<1> QED BY <1>1, <1>2

LEMMA Typed ==
  ASSUME TypeOK
  PROVE  /\ CallsTyped /\ cache \in [Keys -> Nat] /\ warm \in Page
         /\ captures \in [Keys -> Calls \cup {NoCall}]
         /\ site \in [Logs -> Nat] /\ floors \in [Calls -> SUBSET Calls]
         /\ pending \in Seq(Calls) /\ rendering \in BOOLEAN /\ clock \in Nat
         /\ Len(pending) \in Nat /\ DOMAIN pending = 1..Len(pending)
         /\ \A i \in 1..Len(pending) : pending[i] \in Calls
         /\ TimeoutMs \in Nat \ {0}
         /\ \A c \in Calls : /\ call[c] \in CallState /\ call[c].key \in Keys
                             /\ CallLog(c) \in Logs /\ c # NoCall
                             /\ call[c].deadline \in Nat /\ call[c].seen \in Nat
                             /\ call[c].page \in Page /\ call[c].version \in Nat
<1>1. CallsTyped /\ cache \in [Keys -> Nat] /\ warm \in Page
      /\ captures \in [Keys -> Calls \cup {NoCall}]
      /\ site \in [Logs -> Nat] /\ floors \in [Calls -> SUBSET Calls]
      /\ pending \in Seq(Calls) /\ rendering \in BOOLEAN /\ clock \in Nat
  BY DEF TypeOK, LimiterTypeOK, CallsTyped
<1>2. /\ Len(pending) \in Nat /\ DOMAIN pending = 1..Len(pending)
      /\ \A i \in 1..Len(pending) : pending[i] \in Calls
  BY <1>1, LenProperties, ElementOfSeq
<1>3. \A c \in Calls : /\ call[c] \in CallState /\ call[c].key \in Keys
                       /\ CallLog(c) \in Logs /\ c # NoCall
                       /\ call[c].deadline \in Nat /\ call[c].seen \in Nat
                       /\ call[c].page \in Page /\ call[c].version \in Nat
  BY <1>1, KeysAssumption, CallsAssumption DEF CallsTyped, CallState, CallLog
<1> QED BY <1>1, <1>2, <1>3, BudgetAssumption

\* The cache has lost entries at most.
Evicts ==
  /\ cache' \in [Keys -> Nat]
  /\ \A k \in Keys : cache'[k] \in {0, cache[k]}

LEMMA MissEffect ==
  ASSUME TypeOK, NEW c \in Calls, Miss(c)
  PROVE  Evicts
  BY Typed DEF Miss, Evicts

LEMMA InvalidatedEffect ==
  ASSUME TypeOK, NEW c \in Calls, cache' = Invalidated(c)
  PROVE  /\ Evicts
         /\ \A k \in Keys : LogOf[k] = CallLog(c) => cache'[k] = 0
  BY Typed DEF Invalidated, Evicts

\* The four ways a call may begin.
BeginsHit(c) ==
  /\ Hit(c) /\ Moves(c, "done") /\ call'[c].ok
  /\ call'[c].version = cache[call[c].key]
  /\ call'[c].opened = call[c].opened /\ call'[c].page = call[c].page
  /\ UNCHANGED <<rendering, pending, captures, cache>>

BeginsShared(c) ==
  /\ Shareable(c) /\ Moves(c, "shared")
  /\ call'[c].owner = captures[call[c].key]
  /\ call'[c].ok = call[c].ok /\ call'[c].version = call[c].version
  /\ call'[c].opened = call[c].opened /\ call'[c].page = call[c].page
  /\ Evicts
  /\ UNCHANGED <<rendering, pending, captures>>

BeginsRefused(c) ==
  /\ Moves(c, "done") /\ Keeps(c) /\ call'[c].page = call[c].page
  /\ Evicts
  /\ UNCHANGED <<rendering, pending, captures>>

BeginsQueued(c) ==
  /\ ~Shareable(c) /\ captures' = Accepted(c) /\ Evicts
  /\ call' \in [Calls -> CallState]
  /\ \A d \in Calls : d # c => call'[d] = call[d]
  /\ call'[c].key = call[c].key /\ call'[c].refresh = call[c].refresh
  /\ call'[c].deadline = clock + TimeoutMs
  /\ call'[c].seen = IF call[c].refresh THEN site[CallLog(c)] ELSE 0
  /\ Keeps(c) /\ call'[c].page = call[c].page
  /\ rendering' = TRUE
  /\ \/ /\ rendering /\ call'[c].pc = "queued"
        /\ pending' = Append(pending, c)
     \/ /\ ~rendering /\ call'[c].pc = "picked"
        /\ pending = <<>> /\ pending' = <<>>

LEMMA BeginEffect ==
  ASSUME TypeOK, RenderInv, NEW c \in Calls, Begin(c)
  PROVE  /\ call[c].pc = "idle"
         /\ floors' = [floors EXCEPT ![c] = AcceptedRefreshes(c)]
         /\ UNCHANGED <<clock, limiterVars, warm, site>>
         /\ \/ BeginsHit(c) \/ BeginsShared(c) \/ BeginsRefused(c)
            \/ BeginsQueued(c)
<1>t. CallsTyped /\ cache \in [Keys -> Nat] /\ call[c].key \in Keys
      /\ captures \in [Keys -> Calls \cup {NoCall}]
      /\ call[c] \in CallState /\ clock \in Nat /\ CallLog(c) \in Logs
      /\ site \in [Logs -> Nat] /\ TimeoutMs \in Nat
  BY Typed
<1>1. CASE /\ Hit(c)
           /\ call' = [call EXCEPT ![c].pc = "done", ![c].ok = TRUE,
                         ![c].version = cache[call[c].key]]
           /\ UNCHANGED <<rendering, pending, captures, cache>>
  <2>1. PICK v \in Nat : v = cache[call[c].key]
    BY <1>t
  <2>2. PICK x : x = [call[c] EXCEPT !.pc = "done", !.ok = TRUE, !.version = v]
    OBVIOUS
  <2>3. /\ x \in CallState /\ x.pc = "done" /\ x.ok /\ x.version = v
        /\ x.opened = call[c].opened /\ x.page = call[c].page
        /\ x.key = call[c].key /\ x.refresh = call[c].refresh
        /\ x.deadline = call[c].deadline /\ x.seen = call[c].seen
    BY <1>t, <2>2 DEF CallState, Steps
  <2>4. call' = [call EXCEPT ![c] = x]
    BY <1>t, <1>1, <2>1, <2>2 DEF CallsTyped
  <2>5. Moves(c, "done") /\ call'[c] = x
    BY <1>t, <2>3, <2>4 DEF Moves, CallsTyped
  <2>6. BeginsHit(c)
    BY <1>1, <2>1, <2>3, <2>5 DEF BeginsHit
  <2> QED BY <2>6 DEF Begin
<1>2. CASE /\ Miss(c) /\ Shareable(c)
           /\ call' = [call EXCEPT ![c].pc = "shared",
                         ![c].owner = captures[call[c].key]]
           /\ UNCHANGED <<rendering, pending, captures>>
  <2>1. PICK o \in Calls \cup {NoCall} : o = captures[call[c].key]
    BY <1>t
  <2>2. PICK x : x = [call[c] EXCEPT !.pc = "shared", !.owner = o]
    OBVIOUS
  <2>3. /\ x \in CallState /\ x.pc = "shared" /\ x.owner = o
        /\ x.ok = call[c].ok /\ x.version = call[c].version
        /\ x.opened = call[c].opened /\ x.page = call[c].page
        /\ x.key = call[c].key /\ x.refresh = call[c].refresh
        /\ x.deadline = call[c].deadline /\ x.seen = call[c].seen
    BY <1>t, <2>2 DEF CallState, Steps
  <2>4. call' = [call EXCEPT ![c] = x]
    BY <1>t, <1>2, <2>1, <2>2 DEF CallsTyped
  <2>5. Moves(c, "shared") /\ call'[c] = x
    BY <1>t, <2>3, <2>4 DEF Moves, CallsTyped
  <2>6. BeginsShared(c)
    BY <1>2, <2>1, <2>3, <2>5, MissEffect DEF BeginsShared
  <2> QED BY <2>6 DEF Begin
<1>3. CASE /\ Miss(c) /\ Goto(c, "done")
           /\ UNCHANGED <<rendering, pending, captures>>
  <2>1. BeginsRefused(c)
    BY <1>t, <1>3, MissEffect, GotoEffect DEF BeginsRefused, Steps
  <2> QED BY <2>1 DEF Begin
<1>4. CASE /\ Miss(c) /\ ~Shareable(c)
           /\ captures' = Accepted(c)
           /\ RenderNext([call EXCEPT ![c].pc = "queued",
                            ![c].deadline = clock + TimeoutMs,
                            ![c].seen = IF call[c].refresh
                                          THEN site[CallLog(c)] ELSE 0],
                         Append(pending, c), rendering)
  <2>1. PICK s \in Nat : s = IF call[c].refresh THEN site[CallLog(c)] ELSE 0
    BY <1>t
  <2>2. PICK dl \in Nat : dl = clock + TimeoutMs
    BY <1>t
  <2>3. PICK x : x = [call[c] EXCEPT !.pc = "queued", !.deadline = dl,
                                     !.seen = s]
    OBVIOUS
  <2>4. PICK cs : cs = [call EXCEPT ![c] = x]
    OBVIOUS
  <2>5. RenderNext(cs, Append(pending, c), rendering)
    <3>1. cs = [call EXCEPT ![c].pc = "queued",
                            ![c].deadline = clock + TimeoutMs,
                            ![c].seen = IF call[c].refresh
                                          THEN site[CallLog(c)] ELSE 0]
      BY <1>t, <2>1, <2>2, <2>3, <2>4 DEF CallsTyped
    <3> QED BY <1>4, <3>1
  <2>6. /\ x \in CallState /\ x.pc = "queued" /\ x.deadline = dl /\ x.seen = s
        /\ x.ok = call[c].ok /\ x.version = call[c].version
        /\ x.opened = call[c].opened /\ x.page = call[c].page
        /\ x.key = call[c].key /\ x.refresh = call[c].refresh
        /\ x.owner = call[c].owner
    BY <1>t, <2>1, <2>2, <2>3 DEF CallState, Steps
  <2>7. /\ cs \in [Calls -> CallState] /\ cs[c] = x
        /\ \A d \in Calls : d # c => cs[d] = call[d]
    BY <1>t, <2>4, <2>6 DEF CallsTyped
  <2>8. /\ Append(pending, c) # <<>>
        /\ pending = <<>> => Head(Append(pending, c)) = c
                             /\ Tail(Append(pending, c)) = <<>>
    BY Typed, AppendProperties, HeadTailAppend
  <2>9. ~rendering => pending = <<>>
    BY DEF RenderInv, RenderSlotSound
  <2>10. CASE rendering
    <3>1. call' = cs /\ pending' = Append(pending, c) /\ rendering' = TRUE
      BY <2>5, <2>10 DEF RenderNext
    <3>2. BeginsQueued(c)
      BY <1>4, <2>1, <2>2, <2>6, <2>7, <2>10, <3>1, MissEffect
      DEF BeginsQueued, Keeps
    <3> QED BY <3>2 DEF Begin
  <2>11. CASE ~rendering
    <3>1. /\ call' = [cs EXCEPT ![c].pc = "picked"] /\ pending' = <<>>
          /\ rendering' = TRUE
      BY <2>5, <2>8, <2>9, <2>11 DEF RenderNext
    <3>2. PICK y : y = [x EXCEPT !.pc = "picked"]
      OBVIOUS
    <3>3. /\ y \in CallState /\ y.pc = "picked" /\ y.deadline = dl
          /\ y.seen = s /\ y.ok = call[c].ok /\ y.version = call[c].version
          /\ y.opened = call[c].opened /\ y.page = call[c].page
          /\ y.key = call[c].key /\ y.refresh = call[c].refresh
          /\ y.owner = call[c].owner
      BY <2>6, <3>2 DEF CallState, Steps
    <3>4. call' = [cs EXCEPT ![c] = y]
      BY <2>7, <3>1, <3>2
    <3>5. /\ call' \in [Calls -> CallState] /\ call'[c] = y
          /\ \A d \in Calls : d # c => call'[d] = call[d]
      BY <2>7, <3>3, <3>4
    <3>6. BeginsQueued(c)
      BY <1>4, <2>1, <2>2, <2>9, <2>11, <3>1, <3>3, <3>5, MissEffect
      DEF BeginsQueued, Keeps
    <3> QED BY <3>6 DEF Begin
  <2> QED BY <2>10, <2>11
<1> QED BY <1>1, <1>2, <1>3, <1>4 DEF Begin

LEMMA SharedDoneEffect ==
  ASSUME TypeOK, SharedInv, NEW c \in Calls, SharedDone(c)
  PROVE  /\ call[c].pc = "shared" /\ Moves(c, "done")
         /\ \E d \in Calls :
              /\ d = call[c].owner /\ call[d].pc \in {"settled", "done"}
              /\ call'[c].ok = call[d].ok /\ call'[c].version = call[d].version
         /\ call'[c].opened = call[c].opened /\ call'[c].page = call[c].page
         /\ UNCHANGED <<clock, limiterVars, rendering, pending, cache, captures,
                        warm, site, floors>>
<1>1. PICK d \in Calls : d = call[c].owner
  BY DEF SharedInv, SharedDone
<1>2. /\ call[c].pc = "shared" /\ call[d].pc \in {"settled", "done"}
      /\ call' = [call EXCEPT ![c].pc = "done", ![c].ok = call[d].ok,
                    ![c].version = call[d].version, ![c].owner = NoCall]
      /\ UNCHANGED <<clock, limiterVars, rendering, pending, cache, captures,
                     warm, site, floors>>
  BY <1>1 DEF SharedDone
<1>3. call[c] \in CallState /\ call[d] \in CallState /\ CallsTyped
  BY Typed
<1>4. PICK v \in Nat : v = call[d].version
  BY <1>3 DEF CallState
<1>5. PICK b \in BOOLEAN : b = call[d].ok
  BY <1>3 DEF CallState
<1>6. PICK x : x = [call[c] EXCEPT !.pc = "done", !.ok = b, !.version = v,
                                   !.owner = NoCall]
  OBVIOUS
<1>7. /\ x \in CallState /\ x.pc = "done" /\ x.version = v /\ x.ok = b
      /\ x.opened = call[c].opened /\ x.page = call[c].page
      /\ x.key = call[c].key /\ x.refresh = call[c].refresh
      /\ x.deadline = call[c].deadline /\ x.seen = call[c].seen
  BY <1>3, <1>6 DEF CallState, Steps
<1>8. call' = [call EXCEPT ![c] = x]
  BY <1>2, <1>3, <1>4, <1>5, <1>6 DEF CallsTyped
<1>9. Moves(c, "done") /\ call'[c] = x
  BY <1>3, <1>7, <1>8 DEF Moves, CallsTyped
<1> QED BY <1>1, <1>2, <1>4, <1>5, <1>7, <1>9

LEMMA RunJobEffect ==
  ASSUME TypeOK, NEW c \in Calls, RunJob(c)
  PROVE  /\ call[c].pc = "picked"
         /\ UNCHANGED <<clock, limiterVars, rendering, pending, captures, site,
                        floors>>
         /\ call'[c].opened = call[c].opened /\ call'[c].owner = call[c].owner
         /\ \/ /\ Late(c) /\ Moves(c, "ending") /\ Keeps(c)
               /\ call'[c].page = NoPage /\ UNCHANGED <<cache, warm>>
            \/ /\ Hit(c) /\ Moves(c, "ending") /\ call'[c].page = NoPage
               /\ call'[c].ok /\ call'[c].version = cache[call[c].key]
               /\ UNCHANGED <<cache, warm>>
            \/ /\ ~Late(c) /\ Moves(c, "prepare") /\ Keeps(c)
               /\ call'[c].page = warm /\ warm' = NoPage /\ Evicts
               /\ call[c].refresh => \A k \in Keys : LogOf[k] = CallLog(c)
                                                       => cache'[k] = 0
<1>t. CallsTyped /\ cache[call[c].key] \in Nat /\ warm \in Page
  BY Typed
<1>1. /\ call[c].pc = "picked"
      /\ UNCHANGED <<clock, limiterVars, rendering, pending, captures, site,
                     floors>>
  BY DEF RunJob
<1>2. CASE Late(c) /\ Fail(c) /\ UNCHANGED <<cache, warm>>
  <2>1. Moves(c, "ending") /\ Keeps(c) /\ call'[c].page = NoPage
    BY <1>t, <1>2, FailEffect
  <2> QED BY <1>1, <1>2, <2>1 DEF Keeps
<1>3. CASE Hit(c) /\ Succeed(c, cache[call[c].key]) /\ UNCHANGED <<cache, warm>>
  <2>1. /\ Moves(c, "ending") /\ call'[c].page = NoPage
        /\ call'[c].ok /\ call'[c].version = cache[call[c].key]
        /\ call'[c].opened = call[c].opened /\ call'[c].owner = call[c].owner
    BY <1>t, <1>3, SucceedEffect
  <2> QED BY <1>1, <1>3, <2>1
<1>4. CASE /\ ~Late(c)
           /\ IF call[c].refresh THEN cache' = Invalidated(c) ELSE Miss(c)
           /\ TakePage(c)
  <2>1. /\ Moves(c, "prepare") /\ Keeps(c) /\ call'[c].page = warm
        /\ warm' = NoPage
    BY <1>t, <1>4, TakePageEffect
  <2>2. /\ Evicts
        /\ call[c].refresh => \A k \in Keys : LogOf[k] = CallLog(c)
                                                => cache'[k] = 0
    BY <1>4, MissEffect, InvalidatedEffect
  <2> QED BY <1>1, <1>4, <2>1, <2>2 DEF Keeps
<1> QED BY <1>2, <1>3, <1>4 DEF RunJob

LEMMA AttemptEffect ==
  ASSUME TypeOK, NEW c \in Calls, Attempt(c)
  PROVE  /\ call[c].pc = "attempt" /\ Keeps(c)
         /\ UNCHANGED <<clock, limiterVars, rendering, pending, cache, captures,
                        site, floors>>
         /\ \/ /\ Moves(c, "ending") /\ call'[c].page = NoPage
               /\ UNCHANGED warm
            \/ /\ Moves(c, "prepare") /\ call'[c].page = warm /\ warm' = NoPage
  BY Typed, FailEffect, TakePageEffect DEF Attempt

LEMMA PrepareEffect ==
  ASSUME TypeOK, NEW c \in Calls, Prepare(c)
  PROVE  /\ call[c].pc = "prepare" /\ Keeps(c)
         /\ UNCHANGED <<clock, limiterVars, rendering, pending, cache, captures,
                        warm, site, floors>>
         /\ \/ Moves(c, "ending") /\ call'[c].page = NoPage
            \/ Moves(c, "navigate") /\ call'[c].page = NoPage
            \/ /\ Moves(c, "shoot") /\ ~call[c].refresh
               /\ call'[c].page = call[c].page
               /\ call'[c].page.log = CallLog(c)
<1>t. CallsTyped /\ call[c] \in CallState /\ CallLog(c) \in Logs
      /\ NoPage \in Page /\ NoPage.log = NoCall
  BY Typed DEF NoPage, Page
<1>1. /\ call[c].pc = "prepare"
      /\ UNCHANGED <<clock, limiterVars, rendering, pending, cache, captures,
                     warm, site, floors>>
  BY DEF Prepare
<1>2. CASE Fail(c)
  BY <1>1, <1>2, <1>t, FailEffect
<1>3. CASE call' = [call EXCEPT ![c].pc = "navigate", ![c].page = NoPage]
  <2>1. /\ Moves(c, "navigate") /\ Keeps(c) /\ call'[c].page = NoPage
    BY <1>3, <1>t DEF CallsTyped, Moves, Keeps, CallState, Steps
  <2> QED BY <1>1, <2>1
<1>4. ASSUME NEW page \in {call[c].page, NoPage},
             ~(call[c].refresh \/ page.log # CallLog(c)),
             call' = [call EXCEPT ![c].pc = "shoot", ![c].page = page]
      PROVE  /\ Moves(c, "shoot") /\ Keeps(c) /\ ~call[c].refresh
             /\ call'[c].page = call[c].page /\ call'[c].page.log = CallLog(c)
  <2>1. page = call[c].page
    BY <1>4, <1>t, CallsAssumption
  <2>2. /\ Moves(c, "shoot") /\ Keeps(c) /\ call'[c].page = page
    BY <1>4, <2>1, <1>t DEF CallsTyped, Moves, Keeps, CallState, Steps
  <2> QED BY <1>4, <2>1, <2>2
<1> QED BY <1>1, <1>2, <1>3, <1>4 DEF Prepare

LEMMA LoadEffect ==
  ASSUME TypeOK, NavigationInv, NEW c \in Calls, Load(c)
  PROVE  /\ call[c].pc = "navigate" /\ Moves(c, "navigate")
         /\ call'[c].ok = call[c].ok /\ call'[c].version = call[c].version
         /\ call'[c].owner = call[c].owner
         /\ UNCHANGED <<clock, rendering, pending, cache, captures, warm, site,
                        floors>>
         /\ \/ /\ req'[c].st = "running"
               /\ call'[c].opened = call[c].refresh
               /\ call'[c].page = [log |-> CallLog(c),
                                   version |-> site[CallLog(c)]]
            \/ /\ req'[c].st = "settling" /\ req'[c].out = "refused"
               /\ call'[c].opened = call[c].opened
               /\ call'[c].page = call[c].page
<1>t. /\ CallsTyped /\ call[c] \in CallState /\ CallLog(c) \in Logs
      /\ site \in [Logs -> Nat] /\ req \in [Reqs -> Request] /\ c \in Reqs
      /\ req[c] \in Request
  BY Typed, CallsAssumption DEF TypeOK, LimiterTypeOK
<1>1. /\ req[c].st = "starting"
      /\ UNCHANGED <<clock, rendering, pending, cache, captures, warm, site,
                     floors>>
  BY DEF Load, Start
<1>2. call[c].pc = "navigate"
  BY <1>1 DEF NavigationInv, Navigates
<1>3. \/ req'[c].st = "running"
      \/ req'[c].st = "settling" /\ req'[c].out = "refused"
  BY <1>t DEF Load, Start, Ended, Fresh, Request
<1>4. CASE req'[c].st = "running"
  <2>1. PICK p \in Page : p = [log |-> CallLog(c), version |-> site[CallLog(c)]]
    BY <1>t DEF Page
  <2>2. PICK b \in BOOLEAN : b = call[c].refresh
    BY <1>t DEF CallState
  <2>3. call' = [call EXCEPT ![c].opened = b, ![c].page = p]
    BY <1>4, <2>1, <2>2 DEF Load
  <2>4. /\ Moves(c, "navigate") /\ call'[c].opened = b /\ call'[c].page = p
        /\ call'[c].ok = call[c].ok /\ call'[c].version = call[c].version
        /\ call'[c].owner = call[c].owner
    BY <1>2, <1>t, <2>3 DEF CallsTyped, Moves, CallState
  <2> QED BY <1>1, <1>2, <1>4, <2>1, <2>2, <2>4
<1>5. CASE req'[c].st # "running"
  <2>1. call' = call
    BY <1>5 DEF Load
  <2> QED BY <1>1, <1>2, <1>3, <1>5, <1>t, <2>1 DEF CallsTyped, Moves
<1> QED BY <1>4, <1>5

LEMMA LoadedEffect ==
  ASSUME TypeOK, NEW c \in Calls, Loaded(c)
  PROVE  /\ call[c].pc = "navigate" /\ Keeps(c) /\ Renew(c)
         /\ UNCHANGED <<clock, rendering, pending, cache, captures, warm, site,
                        floors>>
         /\ \/ Moves(c, "ending") /\ call'[c].page = NoPage
            \/ Moves(c, "attempt") /\ call'[c].page = NoPage
            \/ /\ Moves(c, "shoot") /\ call'[c].page = call[c].page
               /\ req[c].out = "ok"
<1>1. /\ call[c].pc = "navigate" /\ Renew(c)
      /\ UNCHANGED <<clock, rendering, pending, cache, captures, warm, site,
                     floors>>
  BY DEF Loaded, Renew
<1>2. CASE Fail(c) \/ Crash(c)
  BY <1>1, <1>2, Typed, FailEffect, CrashEffect
<1>3. CASE Goto(c, "shoot") /\ req[c].out = "ok"
  BY <1>1, <1>3, Typed, GotoEffect DEF Steps
<1> QED BY <1>2, <1>3 DEF Loaded

LEMMA ShootEffect ==
  ASSUME TypeOK, NEW c \in Calls, Shoot(c)
  PROVE  /\ call[c].pc = "shoot"
         /\ UNCHANGED <<clock, limiterVars, rendering, pending, captures, site,
                        floors>>
         /\ call'[c].opened = call[c].opened /\ call'[c].owner = call[c].owner
         /\ call'[c].page = NoPage
         /\ \/ /\ Moves(c, "ending") /\ call'[c].ok
               /\ call'[c].version = call[c].page.version
               /\ cache' = [cache EXCEPT ![call[c].key] = call[c].page.version]
               /\ warm' = call[c].page
            \/ /\ Moves(c, "ending") \/ Moves(c, "attempt")
               /\ Keeps(c) /\ UNCHANGED <<cache, warm>>
<1>1. /\ call[c].pc = "shoot"
      /\ UNCHANGED <<clock, limiterVars, rendering, pending, captures, site,
                     floors>>
  BY DEF Shoot
<1>2. CASE /\ Succeed(c, call[c].page.version)
           /\ cache' = [cache EXCEPT ![call[c].key] = call[c].page.version]
           /\ warm' = call[c].page
  <2>1. call[c].page.version \in Nat /\ CallsTyped
    BY Typed DEF Page
  <2> QED BY <1>1, <1>2, <2>1, SucceedEffect
<1>3. CASE (Fail(c) \/ Crash(c)) /\ UNCHANGED <<cache, warm>>
  <2>1. (Moves(c, "ending") \/ Moves(c, "attempt")) /\ Keeps(c)
        /\ call'[c].page = NoPage
    BY <1>3, Typed, FailEffect, CrashEffect
  <2> QED BY <1>1, <1>3, <2>1 DEF Keeps
<1> QED BY <1>2, <1>3 DEF Shoot

LEMMA ExpireEffect ==
  ASSUME TypeOK, NEW c \in Calls, Expire(c)
  PROVE  /\ call[c].pc \in Running /\ Moves(c, call[c].pc) /\ Keeps(c)
         /\ call'[c].page = call[c].page
         /\ UNCHANGED <<clock, rendering, pending, cache, captures, warm, site,
                        floors>>
<1>1. /\ call[c].pc \in {"prepare", "navigate", "shoot"}
      /\ call' = [call EXCEPT ![c].expired = TRUE]
      /\ UNCHANGED <<clock, rendering, pending, cache, captures, warm, site,
                     floors>>
  BY DEF Expire, Abort
<1>2. CallsTyped
  BY Typed
<1> QED BY <1>1, <1>2 DEF CallsTyped, Moves, Keeps, CallState, Running

LEMMA ClearEffect ==
  ASSUME TypeOK, NEW c \in Calls, Clear(c)
  PROVE  /\ call[c].pc = "settled" /\ Moves(c, "done") /\ Keeps(c)
         /\ call'[c].page = call[c].page
         /\ captures' = [k \in Keys |-> IF captures[k] = c THEN NoCall
                                                           ELSE captures[k]]
         /\ UNCHANGED <<clock, limiterVars, rendering, pending, cache, warm,
                        site, floors>>
  BY Typed, GotoEffect DEF Clear, Steps

LEMMA RenderTimeoutEffect ==
  ASSUME TypeOK, NEW c \in Calls, RenderTimeout(c)
  PROVE  /\ call[c].pc = "queued" /\ Late(c) /\ Moves(c, "settled") /\ Keeps(c)
         /\ call'[c].page = call[c].page
         /\ pending' = Removed(pending, c)
         /\ UNCHANGED <<clock, limiterVars, rendering, cache, captures, warm,
                        site, floors>>
  BY Typed, GotoEffect DEF RenderTimeout, Steps

\* The end of a job hands the browser to the oldest waiting call.
LEMMA EndEffect ==
  ASSUME TypeOK, RenderInv, NEW c \in Calls, End(c)
  PROVE  /\ call[c].pc = "ending" /\ call'[c].pc = "settled" /\ Keeps(c)
         /\ call' \in [Calls -> CallState]
         /\ call'[c].key = call[c].key /\ call'[c].refresh = call[c].refresh
         /\ call'[c].deadline = call[c].deadline /\ call'[c].seen = call[c].seen
         /\ call'[c].page = call[c].page
         /\ UNCHANGED <<clock, limiterVars, cache, captures, warm, site, floors>>
         /\ \/ /\ pending = <<>> /\ pending' = <<>> /\ rendering' = FALSE
               /\ \A d \in Calls : d # c => call'[d] = call[d]
            \/ /\ pending # <<>> /\ pending' = Tail(pending) /\ rendering' = TRUE
               /\ \E n \in Calls :
                    /\ n = Head(pending) /\ n # c /\ call[n].pc = "queued"
                    /\ call'[n] = [call[n] EXCEPT !.pc = "picked"]
                    /\ \A d \in Calls : d # c /\ d # n => call'[d] = call[d]
<1>t. CallsTyped /\ call[c] \in CallState /\ pending \in Seq(Calls)
      /\ DOMAIN pending = 1..Len(pending)
  BY Typed
<1>1. call[c].pc = "ending"
      /\ UNCHANGED <<clock, limiterVars, cache, captures, warm, site, floors>>
  BY DEF End
<1>2. PICK x : x = [call[c] EXCEPT !.pc = "settled", !.expired = FALSE,
                                   !.retried = FALSE]
  OBVIOUS
<1>3. /\ x \in CallState /\ x.pc = "settled"
      /\ x.ok = call[c].ok /\ x.version = call[c].version
      /\ x.opened = call[c].opened /\ x.page = call[c].page
      /\ x.key = call[c].key /\ x.refresh = call[c].refresh
      /\ x.owner = call[c].owner
      /\ x.deadline = call[c].deadline /\ x.seen = call[c].seen
  BY <1>t, <1>2 DEF CallState, Steps
<1>4. PICK cs : cs = [call EXCEPT ![c] = x]
  OBVIOUS
<1>5. RenderNext(cs, pending, FALSE)
  <2>1. cs = [call EXCEPT ![c].pc = "settled", ![c].expired = FALSE,
                          ![c].retried = FALSE]
    BY <1>t, <1>2, <1>4 DEF CallsTyped
  <2> QED BY <2>1 DEF End
<1>6. /\ cs \in [Calls -> CallState] /\ cs[c] = x
      /\ \A d \in Calls : d # c => cs[d] = call[d]
  BY <1>t, <1>3, <1>4 DEF CallsTyped
<1>7. CASE pending = <<>>
  <2>1. call' = cs /\ pending' = <<>> /\ rendering' = FALSE
    BY <1>5, <1>7 DEF RenderNext
  <2> QED BY <1>1, <1>3, <1>6, <1>7, <2>1 DEF Keeps
<1>8. CASE pending # <<>>
  <2>1. PICK h : h = Head(pending)
    OBVIOUS
  <2>2. /\ call' = [cs EXCEPT ![h].pc = "picked"] /\ pending' = Tail(pending)
        /\ rendering' = TRUE
    BY <1>5, <1>8, <2>1 DEF RenderNext
  <2>3. h = pending[1] /\ 1 \in 1..Len(pending) /\ h \in Calls
    BY <1>8, <1>t, <2>1, EmptySeq, ElementOfSeq
  <2>4. call[h].pc = "queued"
    BY <1>t, <2>3 DEF RenderInv, RenderSlotSound
  <2>5. h # c
    BY <1>1, <2>4
  <2>6. PICK y : y = [call[h] EXCEPT !.pc = "picked"]
    OBVIOUS
  <2>7. y \in CallState
    BY <2>3, <2>6, <1>t DEF CallsTyped, CallState, Steps
  <2>8. call' = [cs EXCEPT ![h] = y]
    BY <1>6, <2>2, <2>3, <2>5, <2>6
  <2>9. /\ call' \in [Calls -> CallState] /\ call'[h] = y /\ call'[c] = x
        /\ \A d \in Calls : d # c /\ d # h => call'[d] = call[d]
    BY <1>6, <2>3, <2>5, <2>7, <2>8
  <2>10. /\ call'[c].pc = "settled" /\ Keeps(c)
         /\ call'[c].key = call[c].key /\ call'[c].refresh = call[c].refresh
         /\ call'[c].deadline = call[c].deadline /\ call'[c].seen = call[c].seen
         /\ call'[c].page = call[c].page
    BY <1>3, <2>9 DEF Keeps
  <2>11. \E n \in Calls :
           /\ n = Head(pending) /\ n # c /\ call[n].pc = "queued"
           /\ call'[n] = [call[n] EXCEPT !.pc = "picked"]
           /\ \A d \in Calls : d # c /\ d # n => call'[d] = call[d]
    BY <2>1, <2>3, <2>4, <2>5, <2>6, <2>9
  <2> QED BY <1>1, <1>8, <2>2, <2>9, <2>10, <2>11
<1> QED BY <1>7, <1>8

-----------------------------------------------------------------------------
(* What every step keeps.                                                  *)

\* The steps that leave the captures alone.
Quiet == UNCHANGED captureVars /\ clock' >= clock /\ clock' \in Nat

LEMMA StepCases ==
  ASSUME TypeOK, [Next]_vars
  PROVE  \/ Quiet
         \/ \E l \in Logs : Publish(l)
         \/ \E c \in Calls :
              \/ Begin(c) \/ SharedDone(c) \/ RenderTimeout(c) \/ RunJob(c)
              \/ Attempt(c) \/ Prepare(c) \/ Load(c) \/ Loaded(c) \/ Shoot(c)
              \/ Expire(c) \/ End(c) \/ Clear(c)
<1>1. clock \in Nat
  BY Typed
<1>2. CASE Time \/ UNCHANGED vars
  BY <1>1, <1>2 DEF Time, Tick, vars, Quiet
<1>3. ASSUME NEW c \in Calls, Navigate(c)
      PROVE  Quiet
  BY <1>1, <1>3 DEF Navigate, Run, Quiet
<1>4. ASSUME NEW r \in Reqs, OtherRequest(r) \/ LimiterCallback(r)
      PROVE  Quiet
  BY <1>1, <1>4 DEF OtherRequest, LimiterCallback, Run, Start, Abort, Answer,
     Throttled, Settle, QueueTimeout, Quiet
<1> QED BY <1>2, <1>3, <1>4 DEF Next, CallStep

\* How a call moves on, and what stays with it once it has begun.
Follows(x, y) ==
  /\ x = "shared" => y \in {"shared", "done"}
  /\ x = "queued" => y \in {"queued", "picked", "settled"}
  /\ x = "picked" => y \in {"picked", "prepare", "ending"}
  /\ x \in Running => y \in Running \cup {"ending"}
  /\ x = "ending" => y \in {"ending", "settled"}
  /\ x = "settled" => y \in {"settled", "done"}
  /\ x = "done" => y = "done"

Frame(d) ==
  /\ call'[d].key = call[d].key /\ call'[d].refresh = call[d].refresh
  /\ call[d].pc # "idle" \/ call'[d].pc = "idle" =>
       /\ call'[d].deadline = call[d].deadline /\ call'[d].seen = call[d].seen
       /\ floors'[d] = floors[d]
  /\ Follows(call[d].pc, call'[d].pc)
  /\ call[d].pc = "queued" /\ call'[d].pc = "settled" => Late(d)
  /\ call[d].pc = "picked" /\ call'[d].pc = "prepare" => ~Late(d)
  /\ call[d].pc = "shared" /\ call'[d].pc = "shared" => call'[d] = call[d]
  /\ call'[d].opened => call[d].opened \/ call[d].pc = "navigate"
  /\ call[d].pc \in Over =>
       call'[d].ok = call[d].ok /\ call'[d].version = call[d].version
       /\ call'[d].opened = call[d].opened
  /\ call'[d].ok => call[d].ok \/ call'[d].pc \in Over

LEMMA SameFrame ==
  ASSUME NEW d, call'[d] = call[d], floors'[d] = floors[d]
  PROVE  Frame(d)
  BY DEF Frame, Follows, Running

LEMMA MovesFrame ==
  ASSUME TypeOK, NEW c \in Calls, NEW pc, Moves(c, pc), floors' = floors,
         Follows(call[c].pc, pc), call[c].pc # "idle",
         call[c].pc = "queued" => Late(c), call[c].pc # "shared" \/ pc = "done",
         call[c].pc = "picked" /\ pc = "prepare" => ~Late(c),
         call'[c].opened => call[c].opened \/ call[c].pc = "navigate",
         call[c].pc \in Over => Keeps(c),
         call'[c].ok => call[c].ok \/ pc \in Over
  PROVE  \A d \in Calls : Frame(d)
<1>1. ASSUME NEW d \in Calls, d # c
      PROVE  Frame(d)
  BY <1>1, SameFrame DEF Moves
<1>2. Frame(c)
  BY DEF Moves, Keeps, Frame
<1> QED BY <1>1, <1>2

LEMMA FrameStep ==
  ASSUME TypeOK, RenderInv, SharedInv, NavigationInv, [Next]_vars
  PROVE  /\ \A d \in Calls : Frame(d)
         /\ clock' \in Nat /\ clock' >= clock
         /\ \A l \in Logs : site'[l] >= site[l]
<1>t. clock \in Nat /\ site \in [Logs -> Nat]
  BY Typed
<1>s. ASSUME NEW pc
      PROVE  /\ Follows("idle", pc) /\ Follows(pc, pc)
  BY DEF Follows, Running
<1>1. CASE Quiet
  <2>1. UNCHANGED <<call, floors, site>> /\ clock' \in Nat /\ clock' >= clock
    BY <1>1 DEF Quiet, captureVars
  <2> QED BY <1>t, <2>1, SameFrame
<1>2. ASSUME NEW l \in Logs, Publish(l)
      PROVE  /\ \A d \in Calls : Frame(d)
             /\ clock' = clock
             /\ \A m \in Logs : site'[m] >= site[m]
  <2>1. UNCHANGED <<call, floors, clock>> /\ site' = [site EXCEPT ![l] = @ + 1]
    BY <1>2 DEF Publish
  <2> QED BY <1>t, <2>1, SameFrame
<1>3. ASSUME NEW c \in Calls, Begin(c)
      PROVE  (\A d \in Calls : Frame(d)) /\ UNCHANGED <<clock, site>>
  <2>1. /\ call[c].pc = "idle"
        /\ floors' = [floors EXCEPT ![c] = AcceptedRefreshes(c)]
        /\ UNCHANGED <<clock, limiterVars, warm, site>>
        /\ \/ BeginsHit(c) \/ BeginsShared(c) \/ BeginsRefused(c)
           \/ BeginsQueued(c)
    BY <1>3, BeginEffect
  <2>2. /\ \A d \in Calls : d # c => call'[d] = call[d]
        /\ call'[c].key = call[c].key /\ call'[c].refresh = call[c].refresh
        /\ call'[c].pc # "idle" /\ call'[c].opened = call[c].opened
        /\ call'[c].ok => call[c].ok \/ call'[c].pc \in Over
    BY <2>1 DEF BeginsHit, BeginsShared, BeginsRefused, BeginsQueued, Moves,
                Keeps, Over
  <2>3. ASSUME NEW d \in Calls
        PROVE  Frame(d)
    <3>1. CASE d # c
      <4>1. floors'[d] = floors[d]
        BY <2>1, <3>1, Typed
      <4> QED BY <2>2, <3>1, <4>1, SameFrame
    <3>2. CASE d = c
      BY <2>1, <2>2, <3>2, <1>s DEF Frame, Over
    <3> QED BY <3>1, <3>2
  <2> QED BY <2>1, <2>3
<1>4. ASSUME NEW c \in Calls,
             \/ SharedDone(c) \/ RenderTimeout(c) \/ RunJob(c) \/ Clear(c)
      PROVE  (\A d \in Calls : Frame(d)) /\ UNCHANGED <<clock, site>>
  <2>1. CASE SharedDone(c)
    <3>1. /\ call[c].pc = "shared" /\ Moves(c, "done")
          /\ call'[c].opened = call[c].opened
          /\ UNCHANGED <<clock, site, floors>>
      BY <2>1, SharedDoneEffect
    <3> QED BY <3>1, MovesFrame DEF Follows, Over, Running
  <2>2. CASE RenderTimeout(c)
    <3>1. /\ call[c].pc = "queued" /\ Late(c) /\ Moves(c, "settled") /\ Keeps(c)
          /\ UNCHANGED <<clock, site, floors>>
      BY <2>2, RenderTimeoutEffect
    <3> QED BY <3>1, MovesFrame DEF Follows, Over, Running, Keeps
  <2>3. CASE RunJob(c)
    <3>1. /\ call[c].pc = "picked" /\ UNCHANGED <<clock, site, floors>>
          /\ call'[c].opened = call[c].opened
          /\ \/ Moves(c, "ending")
             \/ Moves(c, "prepare") /\ call'[c].ok = call[c].ok /\ ~Late(c)
      BY <2>3, RunJobEffect DEF Keeps
    <3> QED BY <3>1, MovesFrame DEF Follows, Over, Running
  <2>4. CASE Clear(c)
    <3>1. /\ call[c].pc = "settled" /\ Moves(c, "done") /\ Keeps(c)
          /\ UNCHANGED <<clock, site, floors>>
      BY <2>4, ClearEffect
    <3> QED BY <3>1, MovesFrame DEF Follows, Over, Running, Keeps
  <2> QED BY <1>4, <2>1, <2>2, <2>3, <2>4
<1>5. ASSUME NEW c \in Calls,
             \/ Attempt(c) \/ Prepare(c) \/ Load(c) \/ Loaded(c) \/ Shoot(c)
             \/ Expire(c)
      PROVE  (\A d \in Calls : Frame(d)) /\ UNCHANGED <<clock, site>>
  <2>1. ASSUME NEW pc \in Running \cup {"ending"}, Moves(c, pc), floors' = floors,
               call[c].pc \in Running,
               call'[c].opened => call[c].opened \/ call[c].pc = "navigate",
               call'[c].ok => call[c].ok \/ pc = "ending"
        PROVE  \A d \in Calls : Frame(d)
    BY <2>1, MovesFrame DEF Follows, Over, Running
  <2>2. CASE Attempt(c)
    <3>1. /\ call[c].pc = "attempt" /\ Keeps(c) /\ UNCHANGED <<clock, site, floors>>
          /\ Moves(c, "ending") \/ Moves(c, "prepare")
      BY <2>2, AttemptEffect
    <3> QED BY <2>1, <3>1 DEF Running, Keeps
  <2>3. CASE Prepare(c)
    <3>1. /\ call[c].pc = "prepare" /\ Keeps(c) /\ UNCHANGED <<clock, site, floors>>
          /\ Moves(c, "ending") \/ Moves(c, "navigate") \/ Moves(c, "shoot")
      BY <2>3, PrepareEffect
    <3> QED BY <2>1, <3>1 DEF Running, Keeps
  <2>4. CASE Load(c)
    <3>1. /\ call[c].pc = "navigate" /\ UNCHANGED <<clock, site, floors>>
          /\ Moves(c, "navigate") /\ call'[c].ok = call[c].ok
      BY <2>4, LoadEffect
    <3> QED BY <2>1, <3>1 DEF Running
  <2>5. CASE Loaded(c)
    <3>1. /\ call[c].pc = "navigate" /\ Keeps(c) /\ UNCHANGED <<clock, site, floors>>
          /\ Moves(c, "ending") \/ Moves(c, "attempt") \/ Moves(c, "shoot")
      BY <2>5, LoadedEffect
    <3> QED BY <2>1, <3>1 DEF Running, Keeps
  <2>6. CASE Shoot(c)
    <3>1. /\ call[c].pc = "shoot" /\ UNCHANGED <<clock, site, floors>>
          /\ call'[c].opened = call[c].opened
          /\ \/ Moves(c, "ending")
             \/ Moves(c, "attempt") /\ call'[c].ok = call[c].ok
      BY <2>6, ShootEffect DEF Keeps
    <3> QED BY <2>1, <3>1 DEF Running
  <2>7. CASE Expire(c)
    <3>1. /\ call[c].pc \in Running /\ Moves(c, call[c].pc) /\ Keeps(c)
          /\ UNCHANGED <<clock, site, floors>>
      BY <2>7, ExpireEffect
    <3> QED BY <2>1, <3>1 DEF Keeps
  <2> QED BY <1>5, <2>2, <2>3, <2>4, <2>5, <2>6, <2>7
<1>6. ASSUME NEW c \in Calls, End(c)
      PROVE  (\A d \in Calls : Frame(d)) /\ UNCHANGED <<clock, site>>
  <2>1. /\ call[c].pc = "ending" /\ call'[c].pc = "settled" /\ Keeps(c)
        /\ call'[c].key = call[c].key /\ call'[c].refresh = call[c].refresh
        /\ call'[c].deadline = call[c].deadline /\ call'[c].seen = call[c].seen
        /\ UNCHANGED <<clock, site, floors>>
        /\ \A d \in Calls : d # c =>
             \/ call'[d] = call[d]
             \/ call[d].pc = "queued"
                /\ call'[d] = [call[d] EXCEPT !.pc = "picked"]
    BY <1>6, EndEffect
  <2>2. ASSUME NEW d \in Calls
        PROVE  Frame(d)
    <3>1. CASE d = c
      BY <2>1, <3>1 DEF Frame, Follows, Running, Over, Keeps
    <3>2. CASE call'[d] = call[d]
      BY <2>1, <3>2, SameFrame
    <3>3. CASE call[d].pc = "queued"
               /\ call'[d] = [call[d] EXCEPT !.pc = "picked"]
      <4>1. call[d] \in CallState
        BY Typed
      <4>2. /\ call'[d].pc = "picked" /\ call'[d].key = call[d].key
            /\ call'[d].refresh = call[d].refresh
            /\ call'[d].deadline = call[d].deadline
            /\ call'[d].seen = call[d].seen
            /\ call'[d].opened = call[d].opened /\ call'[d].ok = call[d].ok
        BY <3>3, <4>1 DEF CallState
      <4> QED BY <2>1, <3>3, <4>2 DEF Frame, Follows, Running, Over
    <3> QED BY <2>1, <3>1, <3>2, <3>3
  <2> QED BY <2>1, <2>2
<1>7. ASSUME UNCHANGED <<clock, site>>
      PROVE  clock' \in Nat /\ clock' >= clock
             /\ \A l \in Logs : site'[l] >= site[l]
  BY <1>t, <1>7
<1> QED BY <1>1, <1>2, <1>3, <1>4, <1>5, <1>6, <1>7, <1>t, StepCases

LEMMA TypeInit == Init => TypeOK
<1> SUFFICES ASSUME Init
             PROVE  TypeOK
  OBVIOUS
<1>1. PICK w \in Workloads :
        /\ cache = [k \in Keys |-> IF k \in w.cached THEN 1 ELSE 0]
        /\ warm \in WarmPages(w)
        /\ call = [c \in Calls |->
             IF c \in DOMAIN w.asks
               THEN NewCall(w.asks[c].key, w.asks[c].refresh, "idle")
               ELSE NewCall(CHOOSE k \in Keys : TRUE, FALSE, "done")]
  BY DEF Init
<1>2. /\ rendering = FALSE /\ pending = <<>>
      /\ captures = [k \in Keys |-> NoCall]
      /\ site = [l \in Logs |-> 1] /\ floors = [c \in Calls |-> {}]
  BY DEF Init
<1>3. LimiterTypeOK
  BY LimiterInvInit DEF LimiterInv
<1>4. warm \in Page
  <2>1. NoPage \in Page
    BY DEF NoPage, Page
  <2>2. \A k \in Keys : [log |-> LogOf[k], version |-> 1] \in Page
    BY KeysAssumption DEF Page
  <2>3. w.cached \subseteq Keys
    BY WorkloadAssumption
  <2> QED BY <1>1, <2>1, <2>2, <2>3 DEF WarmPages
<1>5. call \in [Calls -> CallState]
  <2>1. ASSUME NEW k \in Keys, NEW b \in BOOLEAN, NEW st \in {"idle", "done"}
        PROVE  NewCall(k, b, st) \in CallState
    BY DEF NewCall, CallState, Steps, NoPage, Page
  <2>2. ASSUME NEW c \in Calls
        PROVE  call[c] \in CallState
    <3>1. CASE c \in DOMAIN w.asks
      <4>1. w.asks[c].key \in Keys /\ w.asks[c].refresh \in BOOLEAN
        BY <3>1, WorkloadAssumption
      <4> QED BY <1>1, <2>1, <3>1, <4>1
    <3>2. CASE c \notin DOMAIN w.asks
      <4>1. (CHOOSE k \in Keys : TRUE) \in Keys
        BY KeysAssumption
      <4> QED BY <1>1, <2>1, <3>2, <4>1
    <3> QED BY <3>1, <3>2
  <2> QED BY <1>1, <2>2
<1>6. cache \in [Keys -> Nat]
  BY <1>1
<1>7. pending \in Seq(Calls)
  BY <1>2, EmptySeq
<1> QED BY <1>2, <1>3, <1>4, <1>5, <1>6, <1>7 DEF TypeOK

LEMMA TypeStep ==
  ASSUME TypeOK, LimiterInv, RenderInv, SharedInv, NavigationInv, [Next]_vars
  PROVE  TypeOK'
<1>t. /\ CallsTyped /\ cache \in [Keys -> Nat] /\ warm \in Page
      /\ captures \in [Keys -> Calls \cup {NoCall}]
      /\ site \in [Logs -> Nat] /\ floors \in [Calls -> SUBSET Calls]
      /\ pending \in Seq(Calls) /\ rendering \in BOOLEAN
      /\ NoPage \in Page
  BY Typed DEF NoPage, Page
<1>l. LimiterTypeOK'
  BY LimiterInvStep DEF LimiterInv
<1>u. ASSUME UNCHANGED <<rendering, pending>>
      PROVE  rendering' \in BOOLEAN /\ pending' \in Seq(Calls)
  BY <1>t, <1>u
<1> DEFINE Rest == /\ rendering' \in BOOLEAN /\ pending' \in Seq(Calls)
                   /\ cache' \in [Keys -> Nat]
                   /\ captures' \in [Keys -> Calls \cup {NoCall}]
                   /\ warm' \in Page /\ call' \in [Calls -> CallState]
                   /\ site' \in [Logs -> Nat]
                   /\ floors' \in [Calls -> SUBSET Calls]
<1>1. ASSUME Quiet
      PROVE  Rest
  BY <1>1, <1>t DEF Quiet, captureVars, CallsTyped
<1>2. ASSUME NEW l \in Logs, Publish(l)
      PROVE  Rest
  <2>1. /\ site' = [site EXCEPT ![l] = @ + 1]
        /\ UNCHANGED <<rendering, pending, cache, captures, warm, call, floors>>
    BY <1>2 DEF Publish
  <2>2. site' \in [Logs -> Nat]
    BY <1>t, <2>1
  <2> QED BY <1>t, <2>1, <2>2 DEF CallsTyped
<1>3. ASSUME NEW c \in Calls, Begin(c)
      PROVE  Rest
  <2>1. /\ floors' = [floors EXCEPT ![c] = AcceptedRefreshes(c)]
        /\ UNCHANGED <<warm, site>>
        /\ \/ BeginsHit(c) \/ BeginsShared(c) \/ BeginsRefused(c)
           \/ BeginsQueued(c)
    BY <1>3, BeginEffect
  <2>2. floors' \in [Calls -> SUBSET Calls]
    BY <2>1, <1>t DEF AcceptedRefreshes
  <2>3. CASE ~BeginsQueued(c)
    <3>1. /\ UNCHANGED <<rendering, pending, captures>>
          /\ call' \in [Calls -> CallState] /\ cache' \in [Keys -> Nat]
      BY <2>1, <2>3, <1>t DEF BeginsHit, BeginsShared, BeginsRefused, Moves,
                              Evicts
    <3> QED BY <2>1, <2>2, <3>1, <1>t
  <2>4. CASE BeginsQueued(c)
    <3>1. /\ call' \in [Calls -> CallState] /\ cache' \in [Keys -> Nat]
          /\ rendering' = TRUE /\ captures' = Accepted(c)
          /\ pending' = Append(pending, c) \/ pending' = <<>>
      BY <2>4 DEF BeginsQueued, Evicts
    <3>2. Append(pending, c) \in Seq(Calls) /\ <<>> \in Seq(Calls)
      BY <1>t, AppendProperties, EmptySeq
    <3>3. captures' \in [Keys -> Calls \cup {NoCall}]
      BY <3>1, <1>t DEF Accepted
    <3> QED BY <2>1, <2>2, <3>1, <3>2, <3>3, <1>t
  <2> QED BY <2>3, <2>4
<1>4. ASSUME NEW c \in Calls, SharedDone(c)
      PROVE  Rest
  BY <1>4, <1>t, SharedDoneEffect DEF Moves
<1>5. ASSUME NEW c \in Calls, RenderTimeout(c)
      PROVE  Rest
  <2>1. /\ call[c].pc = "queued" /\ Moves(c, "settled")
        /\ pending' = Removed(pending, c)
        /\ UNCHANGED <<rendering, cache, captures, warm, site, floors>>
    BY <1>5, RenderTimeoutEffect
  <2>2. PICK at \in 1..Len(pending) : pending[at] = c
    BY <2>1, Typed DEF RenderInv, RenderSlotSound
  <2>3. pending' \in Seq(Calls)
    BY <2>1, <2>2, <1>t, RemovedQueue DEF RenderInv
  <2> QED BY <2>1, <2>3, <1>t DEF Moves
<1>6. ASSUME NEW c \in Calls, RunJob(c)
      PROVE  Rest
  <2>1. /\ UNCHANGED <<rendering, pending, captures, site, floors>>
        /\ Moves(c, "ending") \/ Moves(c, "prepare")
        /\ UNCHANGED warm \/ warm' = NoPage
        /\ UNCHANGED cache \/ Evicts
    BY <1>6, RunJobEffect
  <2> QED BY <2>1, <1>t DEF Moves, Evicts
<1>7. ASSUME NEW c \in Calls, Attempt(c)
      PROVE  Rest
  BY <1>7, <1>t, AttemptEffect DEF Moves
<1>8. ASSUME NEW c \in Calls, Prepare(c)
      PROVE  Rest
  BY <1>8, <1>t, PrepareEffect DEF Moves
<1>9. ASSUME NEW c \in Calls, Load(c)
      PROVE  Rest
  BY <1>9, <1>t, LoadEffect DEF Moves
<1>10. ASSUME NEW c \in Calls, Loaded(c)
       PROVE  Rest
  BY <1>10, <1>t, LoadedEffect DEF Moves
<1>11. ASSUME NEW c \in Calls, Shoot(c)
       PROVE  Rest
  <2>1. /\ UNCHANGED <<rendering, pending, captures, site, floors>>
        /\ Moves(c, "ending") \/ Moves(c, "attempt")
        /\ \/ /\ cache' = [cache EXCEPT ![call[c].key] = call[c].page.version]
              /\ warm' = call[c].page
           \/ UNCHANGED <<cache, warm>>
    BY <1>11, ShootEffect
  <2>2. call[c].page \in Page /\ call[c].page.version \in Nat
    BY Typed DEF Page
  <2> QED BY <2>1, <2>2, <1>t DEF Moves
<1>12. ASSUME NEW c \in Calls, Expire(c)
       PROVE  Rest
  BY <1>12, <1>t, ExpireEffect DEF Moves
<1>13. ASSUME NEW c \in Calls, End(c)
       PROVE  Rest
  <2>1. /\ call' \in [Calls -> CallState] /\ rendering' \in BOOLEAN
        /\ UNCHANGED <<cache, captures, warm, site, floors>>
        /\ \/ pending' = <<>>
           \/ pending # <<>> /\ pending' = Tail(pending)
    BY <1>13, EndEffect
  <2>2. pending' \in Seq(Calls)
    BY <2>1, <1>t, EmptySeq, HeadTailProperties
  <2> QED BY <2>1, <2>2, <1>t
<1>14. ASSUME NEW c \in Calls, Clear(c)
       PROVE  Rest
  <2>1. /\ Moves(c, "done")
        /\ captures' = [k \in Keys |-> IF captures[k] = c THEN NoCall
                                                          ELSE captures[k]]
        /\ UNCHANGED <<rendering, pending, cache, warm, site, floors>>
    BY <1>14, ClearEffect
  <2>2. captures' \in [Keys -> Calls \cup {NoCall}]
    BY <2>1, <1>t
  <2> QED BY <2>1, <2>2, <1>t DEF Moves
<1> HIDE DEF Rest
<1>15. Rest
  BY <1>1, <1>2, <1>3, <1>4, <1>5, <1>6, <1>7, <1>8, <1>9, <1>10, <1>11, <1>12,
     <1>13, <1>14, StepCases
<1> QED BY <1>15, <1>l DEF TypeOK, Rest

-----------------------------------------------------------------------------
(* Which step can have changed a call, the render queue, the registrations. *)

\* A call is moved by its own steps, and by the end of the job before it.
HandedOn(d) ==
  /\ call[d].pc = "queued" /\ call'[d] = [call[d] EXCEPT !.pc = "picked"]
  /\ floors'[d] = floors[d]

LEMMA OwnStep ==
  ASSUME TypeOK, RenderInv, SharedInv, NavigationInv, [Next]_vars, NEW d \in Calls
  PROVE  \/ call'[d] = call[d] /\ floors'[d] = floors[d]
         \/ HandedOn(d)
         \/ Begin(d) \/ SharedDone(d) \/ RenderTimeout(d) \/ RunJob(d)
         \/ Attempt(d) \/ Prepare(d) \/ Load(d) \/ Loaded(d) \/ Shoot(d)
         \/ Expire(d) \/ End(d) \/ Clear(d)
<1>1. CASE Quiet \/ \E l \in Logs : Publish(l)
  BY <1>1 DEF Quiet, captureVars, Publish
<1>2. ASSUME NEW c \in Calls, c # d,
             \/ Begin(c) \/ SharedDone(c) \/ RenderTimeout(c) \/ RunJob(c)
             \/ Attempt(c) \/ Prepare(c) \/ Load(c) \/ Loaded(c) \/ Shoot(c)
             \/ Expire(c) \/ Clear(c)
      PROVE  call'[d] = call[d] /\ floors'[d] = floors[d]
  <2>1. CASE Begin(c)
    <3>1. call'[d] = call[d] /\ floors' = [floors EXCEPT ![c] = AcceptedRefreshes(c)]
      BY <1>2, <2>1, BeginEffect
      DEF BeginsHit, BeginsShared, BeginsRefused, BeginsQueued, Moves
    <3> QED BY <1>2, <3>1, Typed
  <2>2. CASE ~Begin(c)
    <3>1. floors' = floors /\ \E pc : Moves(c, pc)
      BY <1>2, <2>2, SharedDoneEffect, RenderTimeoutEffect, RunJobEffect,
         AttemptEffect, PrepareEffect, LoadEffect, LoadedEffect, ShootEffect,
         ExpireEffect, ClearEffect
    <3> QED BY <1>2, <3>1 DEF Moves
  <2> QED BY <2>1, <2>2
<1>3. ASSUME NEW c \in Calls, c # d, End(c)
      PROVE  (call'[d] = call[d] /\ floors'[d] = floors[d]) \/ HandedOn(d)
  <2>1. /\ floors' = floors
        /\ \/ \A x \in Calls : x # c => call'[x] = call[x]
           \/ \E n \in Calls :
                /\ call[n].pc = "queued"
                /\ call'[n] = [call[n] EXCEPT !.pc = "picked"]
                /\ \A x \in Calls : x # c /\ x # n => call'[x] = call[x]
    BY <1>3, EndEffect
  <2>2. ASSUME NEW n \in Calls, call[n].pc = "queued",
               call'[n] = [call[n] EXCEPT !.pc = "picked"],
               \A x \in Calls : x # c /\ x # n => call'[x] = call[x]
        PROVE  (call'[d] = call[d] /\ floors'[d] = floors[d]) \/ HandedOn(d)
    <3>1. CASE d = n
      BY <2>1, <2>2, <3>1 DEF HandedOn
    <3>2. CASE d # n
      BY <1>3, <2>1, <2>2, <3>2
    <3> QED BY <3>1, <3>2
  <2> QED BY <1>3, <2>1, <2>2
<1> QED BY <1>1, <1>2, <1>3, StepCases

\* The render queue is changed by a call that is accepted, by one that gives
\* up waiting, and by the end of a job; other steps keep who runs and who waits.
RenderSame ==
  /\ UNCHANGED <<rendering, pending>>
  /\ \A d \in Calls : /\ Rendering(d)' <=> Rendering(d)
                      /\ call'[d].pc = "queued" <=> call[d].pc = "queued"

LEMMA RenderCases ==
  ASSUME TypeOK, RenderInv, SharedInv, NavigationInv, [Next]_vars
  PROVE  \/ RenderSame
         \/ \E c \in Calls : \/ Begin(c) /\ BeginsQueued(c)
                             \/ RenderTimeout(c) \/ End(c)
<1>1. ASSUME NEW c \in Calls, NEW pc, Moves(c, pc), UNCHANGED <<rendering, pending>>,
             call[c].pc # "queued", pc # "queued",
             pc \in {"picked", "attempt", "prepare", "navigate", "shoot", "ending"}
               <=> Rendering(c)
      PROVE  RenderSame
  BY <1>1 DEF RenderSame, Rendering, Moves
<1>2. CASE Quiet \/ \E l \in Logs : Publish(l)
  BY <1>2 DEF Quiet, captureVars, Publish, RenderSame, Rendering
<1>3. ASSUME NEW c \in Calls, Begin(c), ~BeginsQueued(c)
      PROVE  RenderSame
  <2>1. /\ call[c].pc = "idle" /\ UNCHANGED <<rendering, pending>>
        /\ Moves(c, "done") \/ Moves(c, "shared")
    BY <1>3, BeginEffect DEF BeginsHit, BeginsShared, BeginsRefused
  <2> QED BY <1>1, <2>1 DEF Rendering
<1>4. ASSUME NEW c \in Calls, SharedDone(c) \/ Clear(c)
      PROVE  RenderSame
  <2>1. /\ call[c].pc \in {"shared", "settled"} /\ Moves(c, "done")
        /\ UNCHANGED <<rendering, pending>>
    BY <1>4, SharedDoneEffect, ClearEffect
  <2> QED BY <1>1, <2>1 DEF Rendering
<1>5. ASSUME NEW c \in Calls,
             \/ RunJob(c) \/ Attempt(c) \/ Prepare(c) \/ Load(c) \/ Loaded(c)
             \/ Shoot(c) \/ Expire(c)
      PROVE  RenderSame
  <2>1. /\ UNCHANGED <<rendering, pending>>
        /\ call[c].pc \in {"picked"} \cup Running
        /\ \E pc \in Running \cup {"ending"} : Moves(c, pc)
    BY <1>5, RunJobEffect, AttemptEffect, PrepareEffect, LoadEffect,
       LoadedEffect, ShootEffect, ExpireEffect DEF Running
  <2> QED BY <1>1, <2>1 DEF Rendering, Running
<1> QED BY <1>2, <1>3, <1>4, <1>5, StepCases

\* A call is registered when it is accepted and struck off when it is done.
LEMMA CaptureCases ==
  ASSUME TypeOK, RenderInv, SharedInv, NavigationInv, [Next]_vars
  PROVE  \/ captures' = captures
         \/ \E c \in Calls : Begin(c) /\ BeginsQueued(c)
         \/ \E c \in Calls : Clear(c)
<1>1. CASE Quiet \/ \E l \in Logs : Publish(l)
  BY <1>1 DEF Quiet, captureVars, Publish
<1>2. ASSUME NEW c \in Calls, Begin(c), ~BeginsQueued(c)
      PROVE  captures' = captures
  BY <1>2, BeginEffect DEF BeginsHit, BeginsShared, BeginsRefused
<1>3. ASSUME NEW c \in Calls,
             \/ SharedDone(c) \/ RenderTimeout(c) \/ RunJob(c) \/ Attempt(c)
             \/ Prepare(c) \/ Load(c) \/ Loaded(c) \/ Shoot(c) \/ Expire(c)
             \/ End(c)
      PROVE  captures' = captures
  BY <1>3, SharedDoneEffect, RenderTimeoutEffect, RunJobEffect, AttemptEffect,
     PrepareEffect, LoadEffect, LoadedEffect, ShootEffect, ExpireEffect,
     EndEffect
<1> QED BY <1>1, <1>2, <1>3, StepCases

\* A call that begins is accepted by the render queue in one case only.
LEMMA BeginsOnly ==
  ASSUME TypeOK, RenderInv, SharedInv, NavigationInv, [Next]_vars,
         NEW d \in Calls, call[d].pc = "idle", call'[d].pc # "idle"
  PROVE  Begin(d)
  BY OwnStep, SharedDoneEffect, RenderTimeoutEffect, RunJobEffect,
     AttemptEffect, PrepareEffect, LoadEffect, LoadedEffect, ShootEffect,
     ExpireEffect, EndEffect, ClearEffect DEF HandedOn, Running

-----------------------------------------------------------------------------
(* The render queue.                                                       *)

LEMMA RenderFrom ==
  ASSUME pending' \in Seq(Calls), Distinct(pending'),
         rendering' <=> \E c \in Calls : Rendering(c)',
         \A c, d \in Calls : Rendering(c)' /\ Rendering(d)' => c = d,
         pending' # <<>> => rendering',
         \A c \in Calls : call'[c].pc = "queued" <=> c \in Entries(pending')
  PROVE  RenderInv'
<1>1. DOMAIN pending' = 1..Len(pending')
  BY LenProperties
<1>2. \A c \in Calls : call'[c].pc = "queued" <=> \E i \in DOMAIN pending' :
                                                    pending'[i] = c
  BY <1>1 DEF Entries
<1> QED BY <1>2 DEF RenderInv, RenderSlotSound, Distinct

LEMMA RenderFacts ==
  ASSUME TypeOK, RenderInv
  PROVE  /\ pending \in Seq(Calls) /\ Distinct(pending)
         /\ rendering <=> \E c \in Calls : Rendering(c)
         /\ \A c, d \in Calls : Rendering(c) /\ Rendering(d) => c = d
         /\ pending # <<>> => rendering
         /\ \A c \in Calls : call[c].pc = "queued" <=> c \in Entries(pending)
  BY Typed DEF RenderInv, RenderSlotSound, Entries

LEMMA RenderInit == Init => RenderInv
<1> SUFFICES ASSUME Init
             PROVE  RenderInv
  OBVIOUS
<1>1. TypeOK
  BY TypeInit
<1>2. /\ rendering = FALSE /\ pending = <<>> /\ Len(pending) = 0
      /\ DOMAIN pending = {}
  BY EmptySeq DEF Init
<1>3. \A c \in Calls : call[c].pc \in {"idle", "done"}
  BY DEF Init, NewCall
<1> QED BY <1>2, <1>3 DEF RenderInv, RenderSlotSound, Rendering, Distinct

LEMMA RenderStep ==
  ASSUME TypeOK, TypeOK', RenderInv, SharedInv, NavigationInv, [Next]_vars
  PROVE  RenderInv'
<1>t. /\ pending \in Seq(Calls) /\ Distinct(pending)
      /\ rendering <=> \E c \in Calls : Rendering(c)
      /\ \A c, d \in Calls : Rendering(c) /\ Rendering(d) => c = d
      /\ pending # <<>> => rendering
      /\ \A c \in Calls : call[c].pc = "queued" <=> c \in Entries(pending)
      /\ pending' \in Seq(Calls)
  BY RenderFacts DEF TypeOK
<1>1. CASE RenderSame
  BY <1>1, <1>t, RenderFrom DEF RenderSame
<1>2. ASSUME NEW c \in Calls, Begin(c), BeginsQueued(c)
      PROVE  RenderInv'
  <2>1. /\ call[c].pc = "idle" /\ rendering' = TRUE
        /\ \A d \in Calls : d # c => call'[d] = call[d]
    BY <1>2, BeginEffect DEF BeginsQueued
  <2>2. CASE /\ rendering /\ call'[c].pc = "queued"
             /\ pending' = Append(pending, c)
    <3>1. c \notin Entries(pending)
      BY <1>t, <2>1
    <3>2. /\ Distinct(pending') /\ Entries(pending') = Entries(pending) \cup {c}
      BY <1>t, <2>2, <3>1, AppendEntries
    <3>3. \A d \in Calls : Rendering(d)' <=> Rendering(d)
      BY <2>1, <2>2 DEF Rendering
    <3>4. \A d \in Calls : call'[d].pc = "queued" <=> d \in Entries(pending')
      BY <1>t, <2>1, <2>2, <3>2
    <3> QED BY <1>t, <2>1, <2>2, <3>2, <3>3, <3>4, RenderFrom
  <2>3. CASE /\ ~rendering /\ call'[c].pc = "picked"
             /\ pending = <<>> /\ pending' = <<>>
    <3>1. \A d \in Calls : Rendering(d)' <=> d = c
      BY <1>t, <2>1, <2>3 DEF Rendering
    <3>2. \A d \in Calls : call'[d].pc = "queued" <=> d \in Entries(pending')
      BY <1>t, <2>1, <2>3
    <3> QED BY <1>t, <2>1, <2>3, <3>1, <3>2, RenderFrom
  <2> QED BY <1>2, <2>2, <2>3 DEF BeginsQueued
<1>3. ASSUME NEW c \in Calls, RenderTimeout(c)
      PROVE  RenderInv'
  <2>1. /\ call[c].pc = "queued" /\ Moves(c, "settled") /\ rendering' = rendering
        /\ pending' = Removed(pending, c)
    BY <1>3, RenderTimeoutEffect
  <2>2. PICK at \in 1..Len(pending) : pending[at] = c
    BY <1>t, <2>1 DEF Entries
  <2>3. /\ Distinct(pending') /\ Entries(pending') = Entries(pending) \ {c}
    BY <1>t, <2>1, <2>2, RemovedEntries
  <2>4. rendering
    <3>1. Len(<<>>) = 0 /\ Len(pending) \in Nat
      BY <1>t, LenProperties, EmptySeq
    <3>2. pending # <<>>
      BY <2>2, <3>1
    <3> QED BY <1>t, <3>2
  <2>5. \A d \in Calls : Rendering(d)' <=> Rendering(d)
    BY <2>1 DEF Rendering, Moves
  <2>6. \A d \in Calls : call'[d].pc = "queued" <=> d \in Entries(pending')
    BY <1>t, <2>1, <2>3 DEF Moves
  <2> QED BY <1>t, <2>1, <2>3, <2>4, <2>5, <2>6, RenderFrom
<1>4. ASSUME NEW c \in Calls, End(c)
      PROVE  RenderInv'
  <2>1. call[c].pc = "ending" /\ call'[c].pc = "settled" /\ Rendering(c)
    BY <1>4, EndEffect DEF Rendering
  <2>2. \A d \in Calls : d # c => ~Rendering(d)
    BY <1>t, <2>1
  <2>3. CASE /\ pending = <<>> /\ pending' = <<>> /\ rendering' = FALSE
             /\ \A d \in Calls : d # c => call'[d] = call[d]
    <3>1. \A d \in Calls : ~Rendering(d)'
      BY <2>1, <2>2, <2>3 DEF Rendering
    <3>2. \A d \in Calls : call'[d].pc = "queued" <=> d \in Entries(pending')
      BY <1>t, <2>1, <2>3
    <3>3. Distinct(pending')
      BY <1>t, <2>3
    <3> QED BY <1>t, <2>3, <3>1, <3>2, <3>3, RenderFrom
  <2>4. ASSUME pending # <<>>, pending' = Tail(pending), rendering' = TRUE,
               NEW n \in Calls, n = Head(pending), n # c, call[n].pc = "queued",
               call'[n] = [call[n] EXCEPT !.pc = "picked"],
               \A d \in Calls : d # c /\ d # n => call'[d] = call[d]
        PROVE  RenderInv'
    <3>1. /\ Distinct(pending') /\ Entries(pending') = Entries(pending) \ {n}
      BY <1>t, <2>4, TailEntries
    <3>2. call'[n].pc = "picked"
      BY <2>4, Typed DEF CallState
    <3>3. \A d \in Calls : Rendering(d)' <=> d = n
      BY <2>1, <2>2, <2>4, <3>2 DEF Rendering
    <3>4. \A d \in Calls : call'[d].pc = "queued" <=> d \in Entries(pending')
      BY <1>t, <2>1, <2>4, <3>1, <3>2
    <3> QED BY <1>t, <2>4, <3>1, <3>3, <3>4, RenderFrom
  <2> QED BY <1>4, <2>3, <2>4, EndEffect
<1> QED BY <1>1, <1>2, <1>3, <1>4, RenderCases

-----------------------------------------------------------------------------
(* What the limiter does to the requests of the calls.                     *)

\* A request whose promise nobody waits for yet is left alone, none is sent,
\* and none succeeds but by an answer.
Untouched(s) == req[s].st = "idle" => req'[s].st = "idle"
NotSent(s) ==
  /\ req'[s].st = "running" => req[s].st = "running"
  /\ req'[s].out = "ok" => /\ req'[s].st \in {"settling", "done"}
                           /\ req[s].st = "running" \/ req[s].out = "ok"

LEMMA DispatchEffect ==
  ASSUME NEW q \in Seq(Reqs), NEW rq \in [Reqs -> Request], NEW used,
         Dispatch(q, rq, used), NEW s \in Reqs
  PROVE  \/ req'[s] = rq[s]
         \/ s \in Entries(q) /\ req'[s] \in {Rejected, Shifted(rq[s])}
<1>1. DOMAIN q = 1..Len(q)
  BY LenProperties
<1>2. CASE Blocked
  BY <1>1, <1>2 DEF Dispatch, RejectQueued, Entries
<1>3. CASE ~Blocked
  BY <1>1, <1>3 DEF Dispatch, Taken, Entries
<1> QED BY <1>2, <1>3

LEMMA ShiftedEffect ==
  ASSUME NEW s \in Reqs, NEW x \in Request, x.st = "queued", x.out # "ok",
         req'[s] \in {Rejected, Shifted(x)}
  PROVE  req'[s].st # "running" /\ req'[s].out # "ok"
  BY DEF Rejected, Shifted, Fresh, Request

LEMMA RunKeeps ==
  ASSUME LimiterInv, Answered, NEW r \in Reqs, Run(r), NEW s \in Reqs
  PROVE  NotSent(s) /\ (s # r => Untouched(s))
<1>1. /\ req \in [Reqs -> Request] /\ queue \in Seq(Reqs) /\ Distinct(queue)
      /\ req[r].st = "idle" /\ clock \in Nat
      /\ \A x \in Reqs : req[x].st = "queued" <=> x \in Entries(queue)
  BY LimiterFacts DEF Run, QueueFits, Entries
<1>2. CASE req[r].aborted \/ Blocked \/ Full
  BY <1>1, <1>2 DEF Run, NotSent, Untouched, Rejected, Fresh, Answered
<1>3. CASE ~(req[r].aborted \/ Blocked \/ Full)
  <2>1. PICK d : d = IF active >= MaxSlots THEN clock + QueueWait ELSE None
    OBVIOUS
  <2>2. d \in Nat \cup {None}
    <3>1. clock + QueueWait \in Nat
      BY <1>1, QueueAssumption
    <3> QED BY <2>1, <3>1
  <2>3. PICK y : y = [req[r] EXCEPT !.st = "queued", !.deadline = d]
    OBVIOUS
  <2>4. y \in Request /\ y.st = "queued" /\ y.out = req[r].out
    BY <1>1, <2>2, <2>3 DEF Request, Stages
  <2>5. PICK rq : rq = [req EXCEPT ![r] = y]
    OBVIOUS
  <2>6. PICK q : q = Append(queue, r)
    OBVIOUS
  <2>7. Dispatch(q, rq, active)
    BY <1>1, <1>3, <2>1, <2>3, <2>5, <2>6 DEF Run
  <2>8. /\ rq \in [Reqs -> Request] /\ rq[r] = y
        /\ \A x \in Reqs : x # r => rq[x] = req[x]
    BY <1>1, <2>4, <2>5
  <2>9. q \in Seq(Reqs) /\ Entries(q) = Entries(queue) \cup {r}
    <3>1. r \notin Entries(queue)
      BY <1>1
    <3> QED BY <1>1, <2>6, <3>1, AppendEntries
  <2>10. \/ req'[s] = rq[s]
         \/ s \in Entries(q) /\ req'[s] \in {Rejected, Shifted(rq[s])}
    BY <2>7, <2>8, <2>9, DispatchEffect
  <2>11. CASE s \in Entries(q)
    <3>1. rq[s].st = "queued" /\ rq[s].out = req[s].out /\ rq[s] \in Request
      BY <1>1, <2>4, <2>8, <2>9, <2>11
    <3>2. req[s].st \in {"idle", "queued"} /\ req[s].out # "ok"
      BY <1>1, <2>9, <2>11 DEF Answered
    <3>3. req'[s].st # "running" /\ req'[s].out # "ok"
      BY <2>10, <3>1, <3>2, ShiftedEffect
    <3>4. s # r => req[s].st = "queued"
      BY <1>1, <2>9, <2>11
    <3> QED BY <3>3, <3>4 DEF NotSent, Untouched
  <2>12. CASE s \notin Entries(q)
    <3>1. s # r /\ req'[s] = req[s]
      BY <2>8, <2>9, <2>10, <2>12
    <3> QED BY <3>1 DEF NotSent, Untouched, Answered
  <2> QED BY <2>11, <2>12
<1> QED BY <1>2, <1>3

LEMMA SettleKeeps ==
  ASSUME LimiterInv, Answered, NEW r \in Reqs, Settle(r), NEW s \in Reqs
  PROVE  NotSent(s) /\ Untouched(s)
<1>1. /\ req \in [Reqs -> Request] /\ queue \in Seq(Reqs)
      /\ req[r].st = "settling"
      /\ \A x \in Reqs : req[x].st = "queued" <=> x \in Entries(queue)
  BY LimiterFacts DEF Settle, QueueFits, Entries
<1>2. PICK y : y = [req[r] EXCEPT !.st = "done"]
  OBVIOUS
<1>3. y \in Request /\ y.st = "done" /\ y.out = req[r].out
  BY <1>1, <1>2 DEF Request, Stages
<1>4. PICK rq : rq = [req EXCEPT ![r] = y]
  OBVIOUS
<1>5. Dispatch(queue, rq, active - 1)
  BY <1>1, <1>2, <1>4 DEF Settle
<1>6. /\ rq \in [Reqs -> Request] /\ rq[r] = y
      /\ \A x \in Reqs : x # r => rq[x] = req[x]
  BY <1>1, <1>3, <1>4
<1>7. \/ req'[s] = rq[s]
      \/ s \in Entries(queue) /\ req'[s] \in {Rejected, Shifted(rq[s])}
  BY <1>1, <1>5, <1>6, DispatchEffect
<1>8. CASE s \in Entries(queue)
  <2>1. req[s].st = "queued" /\ rq[s] = req[s] /\ req[s].out # "ok"
    BY <1>1, <1>6, <1>8 DEF Answered
  <2>2. req'[s].st # "running" /\ req'[s].out # "ok"
    BY <1>6, <1>7, <2>1, ShiftedEffect
  <2> QED BY <2>1, <2>2 DEF NotSent, Untouched
<1>9. CASE s \notin Entries(queue)
  <2>1. req'[s] = rq[s]
    BY <1>7, <1>9
  <2> QED BY <1>1, <1>3, <1>6, <2>1 DEF NotSent, Untouched, Answered
<1> QED BY <1>8, <1>9

LEMMA ThrottledKeeps ==
  ASSUME LimiterInv, Answered, NEW r \in Reqs, Throttled(r), NEW s \in Reqs
  PROVE  NotSent(s) /\ Untouched(s)
<1>1. /\ req \in [Reqs -> Request] /\ DOMAIN queue = 1..Len(queue)
      /\ req[r].st = "running"
      /\ \A x \in Reqs : req[x].st = "queued" <=> x \in Entries(queue)
  BY LimiterFacts, LenProperties DEF Throttled, QueueFits, Entries
<1>2. PICK rq : rq = [req EXCEPT ![r] = Ended("refused")]
  OBVIOUS
<1>3. req' = RejectQueued(rq, queue)
  BY <1>2 DEF Throttled, OpenCircuit
<1>4. /\ Rejected.st = "done" /\ Rejected.out = "refused"
      /\ Ended("refused").st = "settling" /\ Ended("refused").out = "refused"
  BY DEF Rejected, Ended, Fresh
<1>5. req'[s] = IF s \in Entries(queue) THEN Rejected ELSE rq[s]
  BY <1>1, <1>3 DEF RejectQueued, Entries
<1> QED BY <1>1, <1>2, <1>4, <1>5 DEF NotSent, Untouched, Answered

LEMMA AnswerKeeps ==
  ASSUME LimiterInv, Answered, NEW r \in Reqs, Answer(r), NEW s \in Reqs
  PROVE  NotSent(s) /\ Untouched(s)
<1>1. req \in [Reqs -> Request] /\ req[r].st = "running"
  BY LimiterFacts DEF Answer, QueueFits
<1>2. PICK out : req' = [req EXCEPT ![r] = Ended(out)]
  BY DEF Answer
<1>3. Ended(out).st = "settling"
  BY DEF Ended, Fresh
<1> QED BY <1>1, <1>2, <1>3 DEF NotSent, Untouched, Answered

LEMMA LeaveKeeps ==
  ASSUME LimiterInv, Answered, NEW r \in Reqs, QueueTimeout(r) \/ Abort(r),
         NEW s \in Reqs
  PROVE  NotSent(s) /\ Untouched(s)
<1>1. req \in [Reqs -> Request]
  BY LimiterFacts DEF QueueFits
<1>2. Rejected.st = "done" /\ Rejected.out = "refused"
  BY DEF Rejected, Fresh
<1>3. CASE req[r].st = "queued" /\ req' = [req EXCEPT ![r] = Rejected]
  BY <1>1, <1>2, <1>3 DEF NotSent, Untouched, Answered
<1>4. CASE req' = [req EXCEPT ![r].aborted = TRUE]
  <2>1. req'[s].st = req[s].st /\ req'[s].out = req[s].out
    BY <1>1, <1>4 DEF Request
  <2> QED BY <2>1 DEF NotSent, Untouched, Answered
<1> QED BY <1>3, <1>4 DEF QueueTimeout, Abort

\* The microtask of another request.
LEMMA StartKeeps ==
  ASSUME LimiterInv, Answered, NEW r \in Reqs, Start(r), NEW s \in Reqs
  PROVE  /\ Untouched(s)
         /\ req'[s].out = "ok" => /\ req'[s].st \in {"settling", "done"}
                                  /\ req[s].out = "ok"
         /\ s # r => NotSent(s)
<1>1. /\ req \in [Reqs -> Request] /\ req[r].st = "starting"
  BY LimiterFacts DEF Start, QueueFits
<1>2. Ended("refused").st = "settling" /\ Ended("refused").out = "refused"
  BY DEF Ended, Fresh
<1>3. \/ req' = [req EXCEPT ![r] = Ended("refused")]
      \/ req' = [req EXCEPT ![r].st = "running"]
  BY <1>1 DEF Start
<1>4. s # r => req'[s] = req[s]
  BY <1>1, <1>3
<1>5. req[r].out # "ok"
  BY <1>1 DEF Answered
<1>6. req'[r].out # "ok"
  BY <1>1, <1>2, <1>3, <1>5 DEF Request
<1> QED BY <1>1, <1>4, <1>6 DEF NotSent, Untouched, Answered

-----------------------------------------------------------------------------
(* The navigations of the calls.                                           *)

LEMMA NavigationInit == Init => NavigationInv
<1> SUFFICES ASSUME Init
             PROVE  NavigationInv
  OBVIOUS
<1>1. \A r \in Reqs : req[r].out = "none"
  BY DEF Init, Fresh
<1>2. \A c \in Calls : req[c].st = "idle"
  BY CallsAssumption DEF Init, Fresh
<1>3. \A c \in Calls : call[c].pc \in {"idle", "done"} /\ call[c].page = NoPage
  BY DEF Init, NewCall
<1> QED BY <1>1, <1>2, <1>3 DEF NavigationInv, Answered, Navigates

\* What the limiter does leaves the captures with what they have.
LEMMA ServedNavigation ==
  ASSUME NavigationInv, UNCHANGED call,
         \A s \in Reqs : req'[s].out = "ok" => req'[s].st \in {"settling", "done"},
         \A s \in Calls : NotSent(s) /\ (call[s].pc # "navigate" => Untouched(s))
  PROVE  NavigationInv'
<1>1. ASSUME NEW c \in Calls
      PROVE  Navigates(c)'
  <2>1. Navigates(c) /\ NotSent(c) /\ (call[c].pc # "navigate" => Untouched(c))
    BY DEF NavigationInv
  <2>2. CallLog(c)' = CallLog(c)
    BY DEF CallLog
  <2> QED BY <2>1, <2>2 DEF Navigates, NotSent, Untouched
<1> QED BY <1>1 DEF NavigationInv, Answered

\* A call moves, and the limiter does not.
LEMMA MovedNavigation ==
  ASSUME NavigationInv, NEW c \in Calls, UNCHANGED req,
         \A d \in Calls : d # c =>
           \/ call'[d] = call[d]
           \/ /\ call[d].pc = "queued" /\ call'[d].pc = "picked"
              /\ call'[d].page = call[d].page /\ call'[d].key = call[d].key,
         call'[c].key = call[c].key, call[c].pc # "navigate",
         call'[c].pc \notin {"prepare", "navigate", "shoot"}
           => call'[c].page = NoPage,
         call'[c].pc = "shoot" => call'[c].page.log = CallLog(c)
  PROVE  NavigationInv'
<1>1. ASSUME NEW d \in Calls, d # c
      PROVE  Navigates(d)'
  <2>1. Navigates(d)
    BY DEF NavigationInv
  <2>2. CallLog(d)' = CallLog(d)
    BY <1>1 DEF CallLog
  <2> QED BY <1>1, <2>1, <2>2 DEF Navigates
<1>2. Navigates(c)'
  <2>1. Navigates(c) /\ req[c].st = "idle"
    BY DEF NavigationInv, Navigates
  <2>2. CallLog(c)' = CallLog(c)
    BY DEF CallLog
  <2>3. req[c].out # "ok"
    BY <2>1, CallsAssumption DEF NavigationInv, Answered
  <2> QED BY <2>1, <2>2, <2>3 DEF Navigates
<1>3. Answered'
  BY DEF NavigationInv, Answered
<1> QED BY <1>1, <1>2, <1>3 DEF NavigationInv

\* A call that navigates.
LEMMA OwnNavigation ==
  ASSUME NavigationInv, NEW c \in Calls, NEW pc, Moves(c, pc),
         \A s \in Reqs : req'[s].out = "ok" => req'[s].st \in {"settling", "done"},
         \A s \in Calls : s # c => (NotSent(s) /\ Untouched(s)) \/ req'[s] = req[s],
         Navigates(c)'
  PROVE  NavigationInv'
<1>1. ASSUME NEW d \in Calls, d # c
      PROVE  Navigates(d)'
  <2>1. Navigates(d)
    BY DEF NavigationInv
  <2>2. call'[d] = call[d] /\ CallLog(d)' = CallLog(d)
    BY <1>1 DEF CallLog, Moves
  <2> QED BY <1>1, <2>1, <2>2 DEF Navigates, NotSent, Untouched
<1> QED BY <1>1 DEF NavigationInv, Answered

LEMMA NavigationStep ==
  ASSUME TypeOK, LimiterInv, RenderInv, SharedInv, NavigationInv, [Next]_vars
  PROVE  NavigationInv'
<1>t. /\ req \in [Reqs -> Request] /\ Calls \subseteq Reqs /\ Answered
      /\ \A c \in Calls : CallLog(c) \in Logs /\ NoCall \notin Logs
      /\ CallsTyped
  BY Typed, CallsAssumption DEF TypeOK, LimiterTypeOK, NavigationInv
<1>n. NoPage.log = NoCall
  BY DEF NoPage
<1>a. \A c \in Calls : Navigates(c)
  BY DEF NavigationInv
<1>1. CASE Time \/ UNCHANGED vars \/ \E l \in Logs : Publish(l)
  <2>1. UNCHANGED <<call, req>>
    BY <1>1 DEF Time, Tick, vars, captureVars, limiterVars, Publish
  <2> QED BY <2>1 DEF NavigationInv, Answered, Navigates, CallLog
<1>2. ASSUME NEW c \in Calls, Navigate(c)
      PROVE  NavigationInv'
  <2>1. Run(c) /\ UNCHANGED call /\ call[c].pc = "navigate" /\ c \in Reqs
    BY <1>2, <1>t DEF Navigate, captureVars
  <2>2. \A s \in Reqs : NotSent(s) /\ (s # c => Untouched(s))
    BY <1>t, <2>1, RunKeeps
  <2> QED BY <1>t, <2>1, <2>2, ServedNavigation DEF NotSent
<1>3. ASSUME NEW r \in Reqs, OtherRequest(r)
      PROVE  NavigationInv'
  <2>1. r \notin Calls /\ UNCHANGED call
    BY <1>3 DEF OtherRequest, captureVars
  <2>2. CASE Run(r)
    <3>1. \A s \in Reqs : NotSent(s) /\ (s # r => Untouched(s))
      BY <1>t, <2>2, RunKeeps
    <3> QED BY <1>t, <2>1, <3>1, ServedNavigation DEF NotSent
  <2>3. CASE Start(r)
    <3>1. \A s \in Reqs :
            /\ Untouched(s) /\ (s # r => NotSent(s))
            /\ req'[s].out = "ok" => req'[s].st \in {"settling", "done"}
      BY <1>t, <2>3, StartKeeps
    <3> QED BY <1>t, <2>1, <3>1, ServedNavigation
  <2>4. CASE Abort(r)
    <3>1. \A s \in Reqs : NotSent(s) /\ Untouched(s)
      BY <1>t, <2>4, LeaveKeeps
    <3> QED BY <1>t, <2>1, <3>1, ServedNavigation DEF NotSent
  <2> QED BY <1>3, <2>2, <2>3, <2>4 DEF OtherRequest
<1>4. ASSUME NEW r \in Reqs, LimiterCallback(r)
      PROVE  NavigationInv'
  <2>1. UNCHANGED call
    BY <1>4 DEF LimiterCallback, captureVars
  <2>2. \A s \in Reqs : NotSent(s) /\ Untouched(s)
    BY <1>4, <1>t, AnswerKeeps, ThrottledKeeps, SettleKeeps, LeaveKeeps
    DEF LimiterCallback
  <2> QED BY <1>t, <2>1, <2>2, ServedNavigation DEF NotSent
<1>5. ASSUME NEW c \in Calls, Load(c)
      PROVE  NavigationInv'
  <2>1. /\ call[c].pc = "navigate" /\ Moves(c, "navigate")
        /\ \/ /\ req'[c].st = "running"
              /\ call'[c].page = [log |-> CallLog(c),
                                  version |-> site[CallLog(c)]]
           \/ /\ req'[c].st = "settling" /\ req'[c].out = "refused"
              /\ call'[c].page = call[c].page
    BY <1>5, LoadEffect
  <2>2. \A s \in Reqs :
          /\ Untouched(s) /\ (s # c => NotSent(s))
          /\ req'[s].out = "ok" => req'[s].st \in {"settling", "done"}
    BY <1>5, <1>t, StartKeeps DEF Load
  <2>3. CallLog(c)' = CallLog(c)
    BY <2>1 DEF Moves, CallLog
  <2>4. Navigates(c)'
    BY <2>1, <2>3 DEF Navigates, Moves
  <2> QED BY <1>t, <2>1, <2>2, <2>4, OwnNavigation
<1>6. ASSUME NEW c \in Calls, Loaded(c)
      PROVE  NavigationInv'
  <2>1. /\ call[c].pc = "navigate" /\ Renew(c)
        /\ \/ Moves(c, "ending") /\ call'[c].page = NoPage
           \/ Moves(c, "attempt") /\ call'[c].page = NoPage
           \/ /\ Moves(c, "shoot") /\ call'[c].page = call[c].page
              /\ req[c].out = "ok"
    BY <1>6, LoadedEffect
  <2>2. req' = [req EXCEPT ![c] = Fresh] /\ Fresh.st = "idle" /\ Fresh.out = "none"
    BY <2>1 DEF Renew, Fresh
  <2>3. req'[c].st = "idle" /\ req'[c].out = "none"
        /\ \A s \in Reqs : s # c => req'[s] = req[s]
    BY <1>t, <2>2
  <2>4. \A s \in Reqs : req'[s].out = "ok" => req'[s].st \in {"settling", "done"}
    BY <1>t, <2>3 DEF Answered
  <2>5. CASE Moves(c, "ending") /\ call'[c].page = NoPage
    BY <1>t, <2>3, <2>4, <2>5, OwnNavigation DEF Navigates, Moves
  <2>6. CASE Moves(c, "attempt") /\ call'[c].page = NoPage
    BY <1>t, <2>3, <2>4, <2>6, OwnNavigation DEF Navigates, Moves
  <2>7. CASE /\ Moves(c, "shoot") /\ call'[c].page = call[c].page
             /\ req[c].out = "ok"
    <3>1. call[c].page.log = CallLog(c)
      BY <1>a, <2>1, <2>7 DEF Navigates
    <3>2. CallLog(c)' = CallLog(c)
      BY <2>7 DEF Moves, CallLog
    <3>3. Navigates(c)'
      BY <2>3, <2>7, <3>1, <3>2 DEF Navigates, Moves
    <3> QED BY <1>t, <2>3, <2>4, <2>7, <3>3, OwnNavigation
  <2> QED BY <2>1, <2>5, <2>6, <2>7
<1>7. ASSUME NEW c \in Calls, Expire(c)
      PROVE  NavigationInv'
  <2>1. /\ Moves(c, call[c].pc) /\ call'[c].page = call[c].page
        /\ \/ UNCHANGED req
           \/ Abort(c) /\ call[c].pc = "navigate"
    BY <1>7, ExpireEffect DEF Expire, limiterVars
  <2>2. CallLog(c)' = CallLog(c)
    BY <2>1 DEF Moves, CallLog
  <2>3. CASE UNCHANGED req
    <3>1. Navigates(c)'
      BY <1>a, <2>1, <2>2, <2>3 DEF Navigates, Moves
    <3> QED BY <1>t, <2>1, <2>3, <3>1, OwnNavigation DEF Answered
  <2>4. CASE Abort(c) /\ call[c].pc = "navigate"
    <3>1. \A s \in Reqs : NotSent(s) /\ Untouched(s)
      BY <1>t, <2>4, LeaveKeeps
    <3>2. Navigates(c)'
      BY <1>a, <1>t, <2>1, <2>2, <2>4, <3>1 DEF Navigates, Moves, NotSent
    <3> QED BY <1>t, <2>1, <3>1, <3>2, OwnNavigation DEF NotSent
  <2> QED BY <2>1, <2>3, <2>4
<1>8. ASSUME NEW c \in Calls, Begin(c)
      PROVE  NavigationInv'
  <2>1. /\ call[c].pc = "idle" /\ UNCHANGED req /\ call'[c].key = call[c].key
        /\ \A d \in Calls : d # c => call'[d] = call[d]
        /\ call'[c].page = call[c].page /\ call'[c].pc # "shoot"
    BY <1>8, BeginEffect
    DEF BeginsHit, BeginsShared, BeginsRefused, BeginsQueued, Moves, Keeps,
        limiterVars
  <2>2. call[c].page = NoPage
    BY <1>a, <2>1 DEF Navigates
  <2> QED BY <2>1, <2>2, MovedNavigation
<1>9. ASSUME NEW c \in Calls,
             \/ SharedDone(c) \/ RenderTimeout(c) \/ RunJob(c) \/ Attempt(c)
             \/ Prepare(c) \/ Shoot(c) \/ Clear(c)
      PROVE  NavigationInv'
  <2>1. /\ call[c].pc # "navigate" /\ UNCHANGED req
        /\ \A d \in Calls : d # c => call'[d] = call[d]
        /\ call'[c].key = call[c].key
        /\ \/ call'[c].page = NoPage /\ call'[c].pc # "shoot"
           \/ call'[c].pc = "prepare"
           \/ call'[c].pc = "shoot" /\ call'[c].page.log = CallLog(c)
           \/ /\ call'[c].page = call[c].page /\ call'[c].pc # "shoot"
              /\ call[c].pc \in {"shared", "queued", "settled"}
    BY <1>9, SharedDoneEffect, RenderTimeoutEffect, RunJobEffect, AttemptEffect,
       PrepareEffect, ShootEffect, ClearEffect DEF Moves, limiterVars
  <2>2. call[c].pc \in {"shared", "queued", "settled"} => call[c].page = NoPage
    BY <1>a DEF Navigates
  <2> QED BY <2>1, <2>2, MovedNavigation
<1>10. ASSUME NEW c \in Calls, End(c)
       PROVE  NavigationInv'
  <2>1. /\ call[c].pc = "ending" /\ call'[c].pc = "settled" /\ UNCHANGED req
        /\ call'[c].key = call[c].key /\ call'[c].page = call[c].page
    BY <1>10, EndEffect DEF limiterVars
  <2>2. call[c].page = NoPage
    BY <1>a, <2>1 DEF Navigates
  <2>3. ASSUME NEW d \in Calls, d # c
        PROVE  \/ call'[d] = call[d]
               \/ /\ call[d].pc = "queued" /\ call'[d].pc = "picked"
                  /\ call'[d].page = call[d].page /\ call'[d].key = call[d].key
    <3>1. CASE HandedOn(d)
      BY <3>1, <1>t DEF HandedOn, CallsTyped, CallState
    <3>2. CASE ~HandedOn(d)
      <4>1. End(d) => d = c
        BY <1>10, <2>3, EndEffect, RenderFacts DEF Rendering
      <4> QED BY <1>10, <2>3, <3>2, <4>1, EndEffect DEF HandedOn
    <3> QED BY <3>1, <3>2
  <2> QED BY <2>1, <2>2, <2>3, MovedNavigation
<1> QED BY <1>1, <1>2, <1>3, <1>4, <1>5, <1>6, <1>7, <1>8, <1>9, <1>10
        DEF Next, CallStep

-----------------------------------------------------------------------------
(* What a call has recorded.                                               *)

LEMMA CallsInit == Init => CallsInv
<1> SUFFICES ASSUME Init
             PROVE  CallsInv
  OBVIOUS
<1>1. TypeOK /\ clock \in Nat /\ TimeoutMs \in Nat
  BY TypeInit, Typed
<1>2. \A l \in Logs : site[l] = 1
  BY DEF Init
<1>3. \A c \in Calls :
        /\ call[c].pc \in {"idle", "done"} /\ call[c].deadline = 0
        /\ call[c].seen = 0 /\ ~call[c].opened /\ ~call[c].ok
  BY DEF Init, NewCall
<1>4. ASSUME NEW c \in Calls
      PROVE  Recorded(c)
  <2>1. CallLog(c) \in Logs
    BY <1>1, Typed
  <2>2. ~Admitted(c) /\ ~Refreshes(c)
    BY <1>3 DEF Admitted, Refreshes
  <2>3. 0 <= clock + TimeoutMs /\ 0 <= site[CallLog(c)]
    BY <1>1, <1>2, <2>1
  <2> QED BY <1>3, <2>2, <2>3 DEF Recorded, Waiting, Running
<1> QED BY <1>2, <1>4 DEF CallsInv

LEMMA IdleCall ==
  ASSUME TypeOK, CallsInv, NEW c \in Calls, call[c].pc = "idle"
  PROVE  /\ ~Admitted(c) /\ call[c].deadline = 0 /\ call[c].seen = 0
         /\ call[c].opened = FALSE /\ call[c].ok = FALSE
<1>1. Recorded(c) /\ call[c].deadline \in Nat /\ call[c].seen \in Nat
      /\ call[c].opened \in BOOLEAN /\ call[c].ok \in BOOLEAN
  BY Typed DEF CallsInv, CallState
<1>2. ~Admitted(c) /\ call[c].opened = FALSE /\ call[c].ok = FALSE
  BY <1>1 DEF Recorded, Waiting, Running, Over
<1> QED BY <1>1, <1>2 DEF Recorded, Refreshes, Admitted

LEMMA CallsStep ==
  ASSUME TypeOK, TypeOK', CallsInv, RenderInv, SharedInv, NavigationInv,
         [Next]_vars
  PROVE  CallsInv'
<1>t. /\ clock \in Nat /\ TimeoutMs \in Nat \ {0} /\ site \in [Logs -> Nat]
      /\ clock' \in Nat /\ clock' >= clock /\ site' \in [Logs -> Nat]
      /\ \A l \in Logs : site'[l] >= site[l] /\ site[l] >= 1
  BY Typed, FrameStep DEF TypeOK, CallsInv
<1>1. \A l \in Logs : site'[l] >= 1
  BY <1>t
<1>2. ASSUME NEW c \in Calls
      PROVE  Recorded(c)'
  <2>1. Recorded(c) /\ Frame(c)
    BY FrameStep DEF CallsInv
  <2>2. /\ call[c].deadline \in Nat /\ call[c].seen \in Nat
        /\ CallLog(c) \in Logs /\ CallLog(c)' = CallLog(c)
        /\ call'[c] \in CallState
        /\ call[c].refresh \in BOOLEAN /\ call'[c].refresh = call[c].refresh
    BY <2>1, Typed DEF Frame, CallLog, TypeOK, CallState
  <2>3. CASE call[c].pc # "idle" \/ call'[c].pc = "idle"
    <3>1. call'[c].deadline = call[c].deadline /\ call'[c].seen = call[c].seen
      BY <2>1, <2>3 DEF Frame
    <3>2. (Admitted(c)' <=> Admitted(c)) /\ (Refreshes(c)' <=> Refreshes(c))
      BY <2>2, <3>1 DEF Admitted, Refreshes
    <3>3. Admitted(c) => call'[c].pc \in Waiting \cup Running \cup Over
      BY <2>1 DEF Recorded, Frame, Follows, Waiting, Running, Over
    <3>4. call'[c].pc \in Waiting \cup Running \cup {"ending", "settled"}
            => Admitted(c)
      BY <2>1, <2>3, <2>2 DEF Recorded, Frame, Follows, Waiting, Running,
                              CallState, Steps, TypeOK
    <3>5. /\ call[c].deadline <= clock' + TimeoutMs
          /\ call[c].seen <= site'[CallLog(c)]
      <4>1. PICK dl \in Nat : dl = call[c].deadline
        BY <2>2
      <4>2. PICK n \in Nat : n = call[c].seen
        BY <2>2
      <4>3. dl <= clock + TimeoutMs /\ n <= site[CallLog(c)]
        BY <2>1, <4>1, <4>2 DEF Recorded
      <4>4. dl <= clock' + TimeoutMs
        <5>1. PICK tm \in Nat : tm = TimeoutMs
          BY <1>t
        <5>2. PICK t \in Nat : t = clock'
          BY <1>t
        <5>3. dl <= clock + tm /\ clock <= t /\ clock \in Nat
          BY <1>t, <4>3, <5>1, <5>2
        <5>4. dl <= t + tm
          BY <5>3
        <5> QED BY <5>1, <5>2, <5>4
      <4>5. n <= site'[CallLog(c)]
        BY <1>t, <2>2, <4>3
      <4> QED BY <4>1, <4>2, <4>4, <4>5
    <3>6. call[c].seen > 0 <=> Refreshes(c)
      BY <2>1 DEF Recorded
    <3>7. call'[c].opened => Admitted(c) /\ call'[c].pc \in Running \cup Over
      BY <2>1 DEF Recorded, Frame, Follows, Waiting, Running, Over
    <3>8. call'[c].ok => call'[c].pc \in Over
      BY <2>1 DEF Recorded, Frame, Follows, Waiting, Running, Over
    <3> QED BY <2>2, <3>1, <3>2, <3>3, <3>4, <3>5, <3>6, <3>7, <3>8 DEF Recorded
  <2>4. CASE call[c].pc = "idle" /\ call'[c].pc # "idle"
    <3>1. Begin(c)
      BY <2>4, BeginsOnly
    <3>2. /\ UNCHANGED <<clock, site>>
          /\ BeginsHit(c) \/ BeginsShared(c) \/ BeginsRefused(c) \/ BeginsQueued(c)
      BY <3>1, BeginEffect
    <3>3. /\ call[c].deadline = 0 /\ call[c].seen = 0
          /\ call[c].opened = FALSE /\ call[c].ok = FALSE
      BY <2>4, IdleCall
    <3>4. CASE ~BeginsQueued(c)
      <4>1. /\ call'[c].deadline = 0 /\ call'[c].seen = 0
            /\ call'[c].opened = FALSE
            /\ call'[c].pc \in {"shared", "done"}
            /\ call'[c].ok => call'[c].pc = "done"
        BY <3>2, <3>3, <3>4 DEF BeginsHit, BeginsShared, BeginsRefused, Moves,
                                Keeps
      <4> QED BY <1>t, <2>2, <3>2, <4>1
              DEF Recorded, Admitted, Refreshes, Waiting, Running, Over
    <3>5. CASE BeginsQueued(c)
      <4>1. /\ call'[c].deadline = clock + TimeoutMs
            /\ call'[c].seen = IF call[c].refresh THEN site[CallLog(c)] ELSE 0
            /\ call'[c].opened = FALSE /\ call'[c].ok = FALSE
            /\ call'[c].pc \in Waiting
        BY <3>3, <3>5 DEF BeginsQueued, Keeps, Waiting
      <4>2. call'[c].deadline > 0
        BY <1>t, <4>1
      <4>3. call'[c].seen > 0 <=> call[c].refresh
        BY <1>t, <2>2, <4>1
      <4>4. /\ call'[c].deadline <= clock' + TimeoutMs
            /\ call'[c].seen <= site'[CallLog(c)]
        BY <1>t, <2>2, <3>2, <4>1
      <4> QED BY <2>2, <4>1, <4>2, <4>3, <4>4
              DEF Recorded, Admitted, Refreshes, Waiting, Over
    <3> QED BY <3>4, <3>5
  <2> QED BY <2>3, <2>4
<1> QED BY <1>1, <1>2 DEF CallsInv

-----------------------------------------------------------------------------
(* Who came after whom.                                                    *)

LEMMA CapturesInit ==
  ASSUME Init
  PROVE  /\ OrderInv /\ CaptureInv /\ SharedInv /\ PendingInv /\ CleanInv
         /\ ImageInv
<1>1. /\ \A c \in Calls : floors[c] = {}
      /\ \A k \in Keys : captures[k] = NoCall
  BY DEF Init
<1>2. \A c \in Calls :
        /\ call[c].pc \in {"idle", "done"} /\ call[c].deadline = 0
        /\ ~call[c].ok
  BY DEF Init, NewCall
<1>3. \A c \in Calls : ~Refreshes(c)
  BY <1>2 DEF Refreshes, Admitted
<1>4. OrderInv /\ CaptureInv
  BY <1>1 DEF OrderInv, CaptureInv
<1>5. SharedInv /\ ImageInv
  BY <1>2 DEF SharedInv, ImageInv
<1>6. PendingInv /\ CleanInv
  BY <1>3 DEF PendingInv, CleanInv, Ran
<1> QED BY <1>4, <1>5, <1>6

\* The other invariants the steps of the captures are shown under.
Context ==
  /\ TypeOK /\ LimiterInv /\ CallsInv /\ RenderInv /\ NavigationInv /\ SharedInv
  /\ [Next]_vars

\* A call that has begun keeps what it is and whom it came after.
LEMMA Begun ==
  ASSUME Context, NEW c \in Calls, call[c].pc # "idle"
  PROVE  /\ call'[c].pc # "idle" /\ floors'[c] = floors[c]
         /\ CallLog(c)' = CallLog(c) /\ call'[c].key = call[c].key
         /\ call'[c].refresh = call[c].refresh
         /\ call'[c].deadline = call[c].deadline /\ call'[c].seen = call[c].seen
         /\ (Admitted(c)' <=> Admitted(c)) /\ (Refreshes(c)' <=> Refreshes(c))
         /\ Late(c) => Late(c)'
<1>1. Frame(c) /\ clock' \in Nat /\ clock' >= clock
  BY FrameStep DEF Context
<1>2. clock \in Nat /\ call[c].deadline \in Nat /\ call[c] \in CallState
  BY Typed DEF Context
<1>3. /\ call'[c].pc # "idle" /\ floors'[c] = floors[c]
      /\ call'[c].key = call[c].key /\ call'[c].refresh = call[c].refresh
      /\ call'[c].deadline = call[c].deadline /\ call'[c].seen = call[c].seen
  BY <1>1, <1>2 DEF Frame, Follows, Running, CallState, Steps
<1>4. Late(c) => Late(c)'
  BY <1>1, <1>2, <1>3 DEF Late
<1> QED BY <1>3, <1>4 DEF CallLog, Admitted, Refreshes

LEMMA AcceptedCall ==
  ASSUME Context, NEW c \in Calls, Admitted(c)
  PROVE  call[c].pc \in Waiting \cup Running \cup Over /\ call[c].pc # "idle"
  BY DEF Context, CallsInv, Recorded, Waiting, Running, Over

\* A call is accepted in the step it begins.
LEMMA AcceptedOnly ==
  ASSUME Context, NEW c \in Calls, Admitted(c)', ~Admitted(c)
  PROVE  Begin(c) /\ BeginsQueued(c) /\ call[c].pc = "idle"
<1>1. call[c].pc = "idle"
  BY Begun
<1>2. call[c].deadline = 0
  BY <1>1, IdleCall DEF Context
<1>3. call'[c].pc # "idle"
  <2>1. call'[c].pc = "idle" => call'[c].deadline = call[c].deadline
    BY FrameStep DEF Context, Frame
  <2> QED BY <1>2, <2>1 DEF Admitted
<1>4. Begin(c)
  BY <1>1, <1>3, BeginsOnly DEF Context
<1>5. BeginsHit(c) \/ BeginsShared(c) \/ BeginsRefused(c) => call'[c].deadline = 0
  BY <1>2 DEF BeginsHit, BeginsShared, BeginsRefused, Moves
<1> QED BY <1>1, <1>4, <1>5, BeginEffect DEF Context, Admitted

\* The refreshes a call comes after when it is accepted or finds an image.
LEMMA Accepts ==
  ASSUME Context, NEW c \in Calls, call[c].pc = "idle",
         NEW r \in AcceptedRefreshes(c)
  PROVE  /\ r \in Calls /\ r # c /\ Refreshes(r) /\ CallLog(r) = CallLog(c)
         /\ call[r].pc # "idle"
<1>1. r \in Calls /\ call[r].seen > 0 /\ CallLog(r) = CallLog(c)
  BY DEF AcceptedRefreshes
<1>2. Refreshes(r)
  BY <1>1 DEF Context, CallsInv, Recorded
<1>3. ~Admitted(c)
  BY IdleCall DEF Context
<1>4. call[r].pc # "idle"
  BY <1>1, <1>2, AcceptedCall DEF Refreshes
<1> QED BY <1>1, <1>2, <1>3, <1>4 DEF Refreshes

LEMMA RefreshAccepted ==
  ASSUME Context, NEW c \in Calls, NEW r \in Calls, Refreshes(r),
         CallLog(r) = CallLog(c)
  PROVE  r \in AcceptedRefreshes(c)
  BY DEF Context, CallsInv, Recorded, AcceptedRefreshes, Refreshes

LEMMA CaptureStep ==
  ASSUME Context, CaptureInv
  PROVE  CaptureInv'
<1>t. /\ captures \in [Keys -> Calls \cup {NoCall}]
      /\ floors \in [Calls -> SUBSET Calls]
      /\ LogOf \in [Keys -> Logs] /\ NoCall \notin Calls
      /\ \A c \in Calls : call[c].key \in Keys
  BY Typed, KeysAssumption DEF Context
<1>1. ASSUME NEW c \in Calls, Begin(c), BeginsQueued(c), NEW k \in Keys,
             captures'[k] # NoCall
      PROVE  \E d \in Calls : d = captures'[k] /\ Registered(k, d)'
  <2>1. /\ call[c].pc = "idle" /\ captures' = Accepted(c)
        /\ \A d \in Calls : d # c => call'[d] = call[d]
        /\ call'[c].key = call[c].key /\ call'[c].refresh = call[c].refresh
        /\ call'[c].deadline = clock + TimeoutMs
        /\ call'[c].pc \in Waiting
        /\ floors' = [floors EXCEPT ![c] = AcceptedRefreshes(c)]
    BY <1>1, BeginEffect DEF Context, BeginsQueued, Waiting
  <2>2. \A d \in Calls : /\ CallLog(d)' = CallLog(d)
                         /\ d # c => (Refreshes(d)' <=> Refreshes(d))
                                     /\ (Admitted(d)' <=> Admitted(d))
    BY <2>1 DEF CallLog, Refreshes, Admitted
  <2>3. ~Admitted(c)
    BY <2>1, IdleCall DEF Context
  <2>4. CASE k = call[c].key
    <3>1. captures'[k] = c
      BY <2>1, <2>4 DEF Accepted
    <3>2. Admitted(c)'
      <4>1. clock + TimeoutMs > 0
        BY Typed DEF Context
      <4> QED BY <2>1, <4>1 DEF Admitted
    <3>3. call'[c].pc # "done"
      BY <2>1 DEF Waiting
    <3>4. ASSUME NEW r \in Calls, Refreshes(r)', CallLog(r)' = LogOf[k], r # c
          PROVE  r \in floors'[c]
      <4>1. Refreshes(r) /\ CallLog(r) = CallLog(c)
        BY <2>2, <2>4, <3>4 DEF CallLog
      <4>2. r \in AcceptedRefreshes(c)
        BY <4>1, RefreshAccepted
      <4> QED BY <1>t, <2>1, <4>2
    <3>5. Registered(k, c)'
      BY <2>1, <2>4, <3>2, <3>3, <3>4 DEF Registered
    <3> QED BY <3>1, <3>5
  <2>5. CASE k # call[c].key
    <3>1. captures'[k] = captures[k] /\ ~(call[c].refresh /\ LogOf[k] = CallLog(c))
      BY <1>1, <2>1, <2>5 DEF Accepted
    <3>2. PICK d \in Calls : d = captures[k]
      BY <1>1, <1>t, <3>1
    <3>3. Registered(k, d)
      BY <1>1, <3>1, <3>2 DEF CaptureInv
    <3>4. d # c
      BY <2>3, <3>3 DEF Registered
    <3>5. call'[d] = call[d] /\ floors'[d] = floors[d] /\ Admitted(d)'
      BY <1>t, <2>1, <2>2, <3>3, <3>4 DEF Registered
    <3>6. ASSUME NEW r \in Calls, Refreshes(r)', CallLog(r)' = LogOf[k]
          PROVE  r = d \/ r \in floors'[d]
      <4>1. r # c
        BY <2>1, <2>2, <3>1, <3>6 DEF Refreshes
      <4>2. Refreshes(r) /\ CallLog(r) = LogOf[k]
        BY <2>2, <3>6, <4>1
      <4> QED BY <3>3, <3>5, <4>2 DEF Registered
    <3>7. Registered(k, d)'
      BY <3>3, <3>5, <3>6 DEF Registered
    <3> QED BY <3>1, <3>2, <3>7
  <2> QED BY <2>4, <2>5
<1>2. ASSUME NEW d \in Calls, NEW k \in Keys, Registered(k, d),
             call'[d].pc # "done",
             \A r \in Calls : Refreshes(r)' => Refreshes(r)
      PROVE  Registered(k, d)'
  <2>1. call[d].pc # "idle" /\ Admitted(d)
    BY <1>2, AcceptedCall DEF Registered
  <2>2. /\ floors'[d] = floors[d] /\ Admitted(d)' /\ call'[d].key = call[d].key
    BY <2>1, Begun
  <2>3. ASSUME NEW r \in Calls, Refreshes(r)', CallLog(r)' = LogOf[k]
        PROVE  r = d \/ r \in floors'[d]
    <3>1. Refreshes(r) /\ call[r].pc # "idle"
      BY <1>2, <2>3, AcceptedCall DEF Refreshes
    <3>2. CallLog(r) = LogOf[k]
      BY <2>3, <3>1, Begun
    <3> QED BY <1>2, <2>2, <3>1, <3>2 DEF Registered
  <2> QED BY <1>2, <2>2, <2>3 DEF Registered
<1>3. ASSUME ~\E c \in Calls : Begin(c) /\ BeginsQueued(c)
      PROVE  \A r \in Calls : Refreshes(r)' => Refreshes(r)
  <2>1. ASSUME NEW r \in Calls, Refreshes(r)'
        PROVE  Refreshes(r)
    <3>1. Admitted(r)
      BY <1>3, <2>1, AcceptedOnly DEF Refreshes
    <3>2. call[r].pc # "idle"
      BY <3>1, AcceptedCall
    <3> QED BY <2>1, <3>2, Begun
  <2> QED BY <2>1
<1>4. ASSUME NEW c \in Calls, Clear(c), NEW k \in Keys, captures'[k] # NoCall
      PROVE  \E d \in Calls : d = captures'[k] /\ Registered(k, d)'
  <2>1. /\ call[c].pc = "settled" /\ Moves(c, "done")
        /\ captures' = [j \in Keys |-> IF captures[j] = c THEN NoCall
                                                          ELSE captures[j]]
    BY <1>4, ClearEffect DEF Context
  <2>2. PICK d \in Calls : d = captures[k] /\ captures'[k] = d /\ d # c
    BY <1>4, <1>t, <2>1
  <2>3. Registered(k, d)
    BY <1>t, <2>2 DEF CaptureInv
  <2>4. call'[d].pc # "done"
    BY <2>1, <2>2, <2>3 DEF Moves, Registered
  <2>5. \A r \in Calls : Refreshes(r)' => Refreshes(r)
    BY <2>1 DEF Moves, Refreshes, Admitted
  <2> QED BY <1>2, <2>2, <2>3, <2>4, <2>5
<1>5. ASSUME captures' = captures, ~\E c \in Calls : Begin(c) /\ BeginsQueued(c),
             ~\E c \in Calls : Clear(c),
             NEW k \in Keys, captures'[k] # NoCall
      PROVE  \E d \in Calls : d = captures'[k] /\ Registered(k, d)'
  <2>1. PICK d \in Calls : d = captures[k] /\ captures'[k] = d
    BY <1>5, <1>t
  <2>2. Registered(k, d)
    BY <1>t, <2>1 DEF CaptureInv
  <2>3. call[d].pc \in Waiting \cup Running \cup {"ending", "settled"}
    BY <2>2, AcceptedCall DEF Registered, Over
  <2>4. call'[d].pc # "done"
    <3>1. SUFFICES ASSUME call'[d].pc = "done"
                   PROVE  FALSE
      OBVIOUS
    <3>2. call[d].pc = "settled"
      <4>1. Follows(call[d].pc, call'[d].pc)
        BY FrameStep DEF Context, Frame
      <4> QED BY <2>3, <3>1, <4>1 DEF Follows, Waiting, Running
    <3>3. ~Clear(d)
      BY <1>5
    <3>4. call'[d] # call[d] /\ ~HandedOn(d)
      BY <3>1, <3>2 DEF HandedOn
    <3> QED BY <3>2, <3>3, <3>4, OwnStep, BeginEffect, SharedDoneEffect,
               RenderTimeoutEffect, RunJobEffect, AttemptEffect, PrepareEffect,
               LoadEffect, LoadedEffect, ShootEffect, ExpireEffect, EndEffect
            DEF Context, Running
  <2>5. \A r \in Calls : Refreshes(r)' => Refreshes(r)
    BY <1>3, <1>5
  <2> QED BY <1>2, <2>1, <2>2, <2>4, <2>5
<1>6. ASSUME NEW k \in Keys, captures'[k] # NoCall
      PROVE  \E d \in Calls : d = captures'[k] /\ Registered(k, d)'
  BY <1>1, <1>4, <1>5, <1>6, CaptureCases DEF Context
<1>7. ASSUME NEW k \in Keys, captures'[k] # NoCall
      PROVE  Registered(k, captures[k])'
  <2>1. PICK d \in Calls : d = captures'[k] /\ Registered(k, d)'
    BY <1>6, <1>7
  <2> QED BY <2>1 DEF Registered
<1> QED BY <1>7 DEF CaptureInv

LEMMA SharedStep ==
  ASSUME Context, CaptureInv
  PROVE  SharedInv'
<1>t. /\ captures \in [Keys -> Calls \cup {NoCall}]
      /\ floors \in [Calls -> SUBSET Calls] /\ SharedInv
      /\ \A c \in Calls : call[c].key \in Keys
  BY Typed DEF Context
<1> DEFINE Shares(c, d) == /\ d \in Calls /\ Admitted(d)
                           /\ floors[c] \subseteq floors[d] \cup {d}
<1>1. ASSUME NEW c \in Calls, call'[c].pc = "shared", call[c].pc = "idle"
      PROVE  \E d \in Calls : d = call'[c].owner /\ Shares(c, d)'
  <2>1. Begin(c)
    BY <1>1, BeginsOnly DEF Context
  <2>2. /\ BeginsShared(c) /\ floors' = [floors EXCEPT ![c] = AcceptedRefreshes(c)]
        /\ \A d \in Calls : d # c => call'[d] = call[d]
    <3>1. /\ floors' = [floors EXCEPT ![c] = AcceptedRefreshes(c)]
          /\ BeginsHit(c) \/ BeginsShared(c) \/ BeginsRefused(c) \/ BeginsQueued(c)
      BY <2>1, BeginEffect DEF Context
    <3>2. BeginsShared(c)
      BY <1>1, <3>1 DEF BeginsHit, BeginsRefused, BeginsQueued, Moves
    <3> QED BY <3>1, <3>2 DEF BeginsShared, Moves
  <2>3. PICK d \in Calls : d = captures[call[c].key] /\ d = call'[c].owner
    BY <1>t, <2>2 DEF BeginsShared, Shareable
  <2>4. Registered(call[c].key, d)
    BY <1>t, <2>2, <2>3 DEF CaptureInv, BeginsShared, Shareable
  <2>5. d # c /\ call[d].pc # "idle" /\ Admitted(d)
    BY <1>1, <2>4, AcceptedCall DEF Registered
  <2>6. Admitted(d)' /\ floors'[d] = floors[d] /\ floors'[c] = AcceptedRefreshes(c)
    BY <1>t, <2>2, <2>5, Begun
  <2>7. \A r \in AcceptedRefreshes(c) : r = d \/ r \in floors[d]
    BY <1>1, <2>4, Accepts DEF Registered, CallLog
  <2>8. Shares(c, d)'
    BY <2>6, <2>7
  <2> QED BY <2>3, <2>8
<1>2. ASSUME NEW c \in Calls, call'[c].pc = "shared", call[c].pc # "idle"
      PROVE  \E d \in Calls : d = call'[c].owner /\ Shares(c, d)'
  <2>1. call[c].pc = "shared" /\ call'[c] = call[c]
    <3>1. Frame(c) /\ call[c].pc \in Steps
      BY FrameStep, Typed DEF Context, CallState
    <3> QED BY <1>2, <3>1 DEF Frame, Follows, Running, Steps
  <2>2. PICK d \in Calls : d = call[c].owner /\ Shares(c, d)
    BY <1>t, <2>1 DEF SharedInv
  <2>3. /\ floors'[c] = floors[c] /\ floors'[d] = floors[d] /\ Admitted(d)'
    BY <1>2, <2>2, AcceptedCall, Begun
  <2>4. Shares(c, d)'
    BY <2>2, <2>3
  <2> QED BY <2>1, <2>2, <2>4
<1> QED BY <1>1, <1>2 DEF SharedInv

\* A refresh that waits is covered by one that is registered.
LEMMA PendingStep ==
  ASSUME Context, OrderInv, CaptureInv, PendingInv
  PROVE  PendingInv'
<1>t. /\ captures \in [Keys -> Calls \cup {NoCall}] /\ LogOf \in [Keys -> Logs]
      /\ NoCall \notin Calls
      /\ \A c \in Calls : call[c].key \in Keys
  BY Typed, KeysAssumption DEF Context
<1>g. ASSUME NEW k \in Keys, captures[k] # NoCall
      PROVE  /\ captures[k] \in Calls /\ call[captures[k]].pc # "idle"
             /\ Registered(k, captures[k])
  <2>1. PICK d \in Calls : d = captures[k]
    BY <1>g, <1>t
  <2>2. Registered(k, d)
    BY <1>g, <2>1 DEF CaptureInv
  <2> QED BY <2>1, <2>2, AcceptedCall DEF Registered
<1>1. ASSUME NEW r \in Calls, Refreshes(r)', call'[r].pc \in Waiting, ~Late(r)',
             call[r].pc = "idle"
      PROVE  RefreshPending(r)'
  <2>1. ~Admitted(r)
    BY <1>1, IdleCall DEF Context
  <2>2. Begin(r) /\ BeginsQueued(r)
    BY <1>1, <2>1, AcceptedOnly DEF Refreshes
  <2>3. PICK k \in Keys : k = call[r].key
    BY <1>t
  <2>4. captures'[k] = r /\ call'[r].key = k
    BY <2>2, <2>3 DEF BeginsQueued, Accepted
  <2>5. /\ LogOf[k] = CallLog(r)' /\ captures'[k] # NoCall
        /\ call'[captures'[k]].refresh
    BY <1>1, <1>t, <2>4 DEF CallLog, Refreshes
  <2> QED BY <2>5 DEF RefreshPending
<1>2. ASSUME NEW r \in Calls, Refreshes(r)', call'[r].pc \in Waiting, ~Late(r)',
             call[r].pc # "idle"
      PROVE  RefreshPending(r)'
  <2>1. /\ Refreshes(r) /\ ~Late(r) /\ CallLog(r)' = CallLog(r)
    BY <1>2, Begun
  <2>2. call[r].pc \in Waiting
    <3>1. Follows(call[r].pc, call'[r].pc)
      BY FrameStep DEF Context, Frame
    <3>2. call[r].pc \in Waiting \cup Running \cup Over
      BY <2>1, AcceptedCall DEF Refreshes
    <3> QED BY <1>2, <3>1, <3>2 DEF Follows, Waiting, Running, Over
  <2>3. PICK k \in Keys : /\ LogOf[k] = CallLog(r) /\ captures[k] # NoCall
                          /\ call[captures[k]].refresh
    BY <2>1, <2>2 DEF PendingInv, RefreshPending
  <2>4. PICK d \in Calls : d = captures[k]
    BY <2>3, <1>g
  <2>5. Registered(k, d) /\ call[d].pc # "idle"
    BY <2>3, <2>4, <1>g
  <2>6. call'[d].refresh
    BY <2>3, <2>4, <2>5, Begun
  <2>7. CASE captures'[k] = d
    BY <1>t, <2>1, <2>3, <2>6, <2>7 DEF RefreshPending
  <2>8. ASSUME NEW c \in Calls, Begin(c), BeginsQueued(c), captures'[k] # d
        PROVE  RefreshPending(r)'
    <3>1. /\ captures' = Accepted(c) /\ ~Shareable(c) /\ call'[c].key = call[c].key
          /\ call'[c].refresh = call[c].refresh
      BY <2>8 DEF BeginsQueued
    <3>2. k = call[c].key \/ (call[c].refresh /\ LogOf[k] = CallLog(c))
      BY <2>4, <2>8, <3>1 DEF Accepted
    <3>3. call[c].refresh
      BY <2>3, <3>1, <3>2 DEF Shareable
    <3>4. PICK j \in Keys : j = call[c].key
      BY <1>t
    <3>5. captures'[j] = c
      BY <3>1, <3>4 DEF Accepted
    <3>6. LogOf[j] = CallLog(r)
      BY <2>3, <3>2, <3>4 DEF CallLog
    <3>7. /\ LogOf[j] = CallLog(r)' /\ captures'[j] # NoCall
          /\ call'[captures'[j]].refresh
      BY <1>t, <2>1, <3>1, <3>3, <3>5, <3>6
    <3> QED BY <3>7 DEF RefreshPending
  <2>9. ASSUME NEW c \in Calls, Clear(c), captures'[k] # d
        PROVE  FALSE
    <3>1. /\ call[c].pc = "settled" 
          /\ captures' = [x \in Keys |-> IF captures[x] = c THEN NoCall
                                                            ELSE captures[x]]
      BY <2>9, ClearEffect DEF Context
    <3>2. d = c
      BY <2>4, <2>9, <3>1
    <3>3. r = c \/ r \in floors[c]
      BY <2>1, <2>3, <2>5, <3>2 DEF Registered
    <3>4. r # c
      BY <2>2, <3>1 DEF Waiting
    <3>5. After(c, r) /\ Admitted(c)
      BY <2>5, <3>2, <3>3, <3>4 DEF OrderInv, Registered
    <3>6. Late(r)
      BY <2>2, <3>1, <3>5 DEF After
    <3> QED BY <2>1, <3>6
  <2>10. CASE captures' = captures
    BY <2>4, <2>7, <2>10
  <2> QED BY <2>7, <2>8, <2>9, <2>10, CaptureCases DEF Context
<1> QED BY <1>1, <1>2 DEF PendingInv

\* A refresh ahead in the render queue stays ahead.
LEMMA BehindStep ==
  ASSUME Context, NEW c \in Calls, NEW r \in Calls, r # c, Behind(c, r),
         call[c].pc # "idle", call[r].pc # "idle", call'[c].pc # "settled"
  PROVE  Behind(c, r)'
<1>t. /\ pending \in Seq(Calls) /\ Distinct(pending) /\ Len(pending) \in Nat
      /\ DOMAIN pending = 1..Len(pending)
      /\ \A i, j \in 1..Len(pending) :
           pending[i] = r => call[c].pc = "queued" /\ (pending[j] = c => i < j)
  BY Typed, RenderFacts DEF Context, Behind
<1>p. pending' \in Seq(Calls) /\ DOMAIN pending' = 1..Len(pending')
      /\ Len(pending') \in Nat
  <2>1. pending' \in Seq(Calls)
    BY TypeStep DEF Context, TypeOK
  <2> QED BY <2>1, LenProperties
<1>1. CASE RenderSame
  BY <1>1, <1>t DEF RenderSame, Behind
<1>2. ASSUME NEW d \in Calls, Begin(d), BeginsQueued(d)
      PROVE  Behind(c, r)'
  <2>1. /\ call[d].pc = "idle" /\ d # c /\ d # r
        /\ call'[c] = call[c]
    BY <1>2, BeginEffect DEF Context, BeginsQueued
  <2>2. CASE pending' = Append(pending, d)
    <3>1. /\ Len(pending') = Len(pending) + 1
          /\ pending'[Len(pending) + 1] = d
          /\ \A i \in 1..Len(pending) : pending'[i] = pending[i]
      BY <1>t, <2>2, AppendProperties
    <3>2. ASSUME NEW i \in 1..Len(pending'), pending'[i] # d
          PROVE  i \in 1..Len(pending) /\ pending'[i] = pending[i]
      <4>1. i \in 1..Len(pending)
        BY <1>t, <3>1, <3>2
      <4> QED BY <3>1, <4>1
    <3> QED BY <1>t, <1>p, <2>1, <3>2 DEF Behind
  <2>3. CASE pending' = <<>>
    BY <1>p, <2>3, EmptySeq DEF Behind
  <2> QED BY <1>2, <2>2, <2>3 DEF BeginsQueued
<1>3. ASSUME NEW d \in Calls, RenderTimeout(d)
      PROVE  Behind(c, r)'
  <2>1. /\ call[d].pc = "queued" /\ Moves(d, "settled")
        /\ pending' = Removed(pending, d)
    BY <1>3, RenderTimeoutEffect DEF Context
  <2>2. PICK at \in 1..Len(pending) : pending[at] = d
    BY <2>1, RenderFacts DEF Context, Entries
  <2>3. /\ Len(pending') = Len(pending) - 1
        /\ \A i \in 1..(Len(pending) - 1) :
             pending'[i] = IF i < at THEN pending[i] ELSE pending[i + 1]
    BY <1>t, <2>1, <2>2, RemovedQueue
  <2>4. call'[c] = call[c]
    BY <2>1 DEF Moves
  <2>5. ASSUME NEW i \in 1..Len(pending'), NEW j \in 1..Len(pending'),
               pending'[i] = r
        PROVE  call'[c].pc = "queued" /\ (pending'[j] = c => i < j)
    <3>0. ASSUME NEW x \in 1..Len(pending')
          PROVE  \E k \in 1..Len(pending) :
                   k = (IF x < at THEN x ELSE x + 1) /\ pending'[x] = pending[k]
      <4>1. x \in 1..(Len(pending) - 1)
        BY <2>3
      <4>2. pending'[x] = IF x < at THEN pending[x] ELSE pending[x + 1]
        BY <2>3, <4>1
      <4>3. x \in 1..Len(pending) /\ x + 1 \in 1..Len(pending)
        BY <1>t, <4>1
      <4> QED BY <4>2, <4>3
    <3>1. PICK k \in 1..Len(pending) :
            k = (IF i < at THEN i ELSE i + 1) /\ pending'[i] = pending[k]
      BY <3>0
    <3>2. PICK l \in 1..Len(pending) :
            l = (IF j < at THEN j ELSE j + 1) /\ pending'[j] = pending[l]
      BY <3>0
    <3>3. call[c].pc = "queued" /\ (pending[l] = c => k < l)
      BY <1>t, <2>5, <3>1
    <3>4. k < l => i < j
      BY <3>1, <3>2, <1>t, <1>p
    <3> QED BY <2>4, <3>2, <3>3, <3>4
  <2> QED BY <1>p, <2>5 DEF Behind
<1>4. ASSUME NEW d \in Calls, End(d)
      PROVE  Behind(c, r)'
  <2>1. call'[d].pc = "settled" /\ d # c
    BY <1>4, EndEffect DEF Context
  <2>2. CASE pending' = <<>>
    BY <1>p, <2>2, EmptySeq DEF Behind
  <2>3. ASSUME pending # <<>>, pending' = Tail(pending),
               NEW n \in Calls, n = Head(pending),
               \A x \in Calls : x # d /\ x # n => call'[x] = call[x]
        PROVE  Behind(c, r)'
    <3>1. /\ n = pending[1] /\ 1 \in 1..Len(pending)
          /\ Len(pending') = Len(pending) - 1
          /\ \A i \in 1..(Len(pending) - 1) : pending'[i] = pending[i + 1]
      BY <1>t, <2>3, TailEntries
    <3>2. ASSUME NEW i \in 1..Len(pending'), NEW j \in 1..Len(pending'),
                 pending'[i] = r
          PROVE  call'[c].pc = "queued" /\ (pending'[j] = c => i < j)
      <4>1. /\ i \in 1..(Len(pending) - 1) /\ j \in 1..(Len(pending) - 1)
            /\ i + 1 \in 1..Len(pending) /\ j + 1 \in 1..Len(pending)
        BY <1>t, <3>1
      <4>2. pending[i + 1] = r /\ pending'[j] = pending[j + 1]
        BY <3>1, <3>2, <4>1
      <4>3. n # c
        <5>1. pending[1] = c => i + 1 < 1
          BY <1>t, <3>1, <4>1, <4>2
        <5>2. ~(i + 1 < 1)
          BY <4>1
        <5> QED BY <3>1, <5>1, <5>2
      <4>4. call'[c] = call[c]
        BY <2>1, <2>3, <4>3
      <4>5. call[c].pc = "queued" /\ (pending[j + 1] = c => i + 1 < j + 1)
        BY <1>t, <4>1, <4>2
      <4> QED BY <4>1, <4>2, <4>4, <4>5
    <3> QED BY <1>p, <3>2 DEF Behind
  <2> QED BY <1>4, <2>2, <2>3, EndEffect DEF Context
<1> QED BY <1>1, <1>2, <1>3, <1>4, RenderCases DEF Context

\* A refresh that still waits when a later call of its log is over is late.
LEMMA LateBefore ==
  ASSUME Context, NEW c \in Calls, NEW r \in Calls, After(c, r), Admitted(c),
         call'[c].pc \in {"settled", "done"}, call'[r].pc \in Waiting
  PROVE  Late(r)'
<1>1. /\ r # c /\ Refreshes(r) /\ Admitted(r) /\ call[r].deadline <= call[c].deadline
  BY DEF After, Refreshes
<1>2. /\ call[c].pc \in Waiting \cup Running \cup Over
      /\ call[r].pc \in Waiting \cup Running \cup Over
      /\ call[r].pc # "idle"
  BY <1>1, AcceptedCall
<1>3. Frame(c) /\ Frame(r)
  BY FrameStep DEF Context
<1>4. call[r].pc \in Waiting
  BY <1>2, <1>3 DEF Frame, Follows, Waiting, Running, Over
<1>5. Late(r)
  <2>1. CASE call[c].pc \in {"settled", "done"}
    BY <1>4, <2>1 DEF After
  <2>2. CASE call[c].pc = "queued"
    <3>1. Late(c)
      BY <1>3, <2>2 DEF Frame, Follows
    <3>2. /\ clock \in Nat /\ call[c].deadline \in Nat
          /\ call[r].deadline \in Nat
      BY Typed DEF Context
    <3> QED BY <1>1, <3>1, <3>2 DEF Late
  <2>3. CASE call[c].pc = "ending"
    <3>1. Rendering(c) /\ Behind(c, r)
      BY <2>3 DEF Rendering, After
    <3>2. ~Rendering(r)
      BY <1>1, <3>1, RenderFacts DEF Context
    <3>3. call[r].pc = "queued"
      BY <1>4, <3>2 DEF Waiting, Rendering
    <3>4. \E i \in DOMAIN pending : pending[i] = r
      BY <3>3 DEF Context, RenderInv, RenderSlotSound
    <3> QED BY <2>3, <3>1, <3>4 DEF Behind
  <2>4. ~(call[c].pc = "picked" \/ call[c].pc \in Running)
    BY <1>3 DEF Frame, Follows, Running
  <2> QED BY <1>2, <2>1, <2>2, <2>3, <2>4 DEF Waiting, Over
<1> QED BY <1>2, <1>5, Begun

LEMMA OrderStep ==
  ASSUME Context, OrderInv
  PROVE  OrderInv'
<1>t. /\ floors \in [Calls -> SUBSET Calls] /\ clock \in Nat
      /\ TimeoutMs \in Nat \ {0} /\ site \in [Logs -> Nat]
  BY Typed DEF Context
<1>1. ASSUME NEW c \in Calls, call[c].pc # "idle", NEW r \in floors'[c]
      PROVE  After(c, r)'
  <2>1. /\ floors'[c] = floors[c] /\ CallLog(c)' = CallLog(c)
        /\ call'[c].deadline = call[c].deadline /\ call'[c].seen = call[c].seen
        /\ (Admitted(c)' <=> Admitted(c)) /\ call'[c].pc # "idle"
    BY <1>1, Begun
  <2>2. r \in Calls /\ After(c, r)
    BY <1>1, <1>t, <2>1 DEF OrderInv
  <2>3. Refreshes(r) /\ call[r].pc # "idle" /\ r # c
    BY <2>2, AcceptedCall DEF After, Refreshes
  <2>4. /\ Refreshes(r)' /\ CallLog(r)' = CallLog(r)
        /\ call'[r].deadline = call[r].deadline /\ call'[r].seen = call[r].seen
    BY <2>2, <2>3, Begun
  <2>5. ASSUME Admitted(c),
               call'[c].pc \in {"ending"} \cup Waiting \cup Running
        PROVE  Behind(c, r)'
    <3>1. /\ Follows(call[c].pc, call'[c].pc)
          /\ call[c].pc \in Waiting \cup Running \cup Over
      BY <2>5, AcceptedCall, FrameStep DEF Context, Frame
    <3>2. call[c].pc \in {"ending"} \cup Waiting \cup Running
      BY <2>5, <3>1 DEF Follows, Waiting, Running, Over
    <3>3. call'[c].pc # "settled"
      BY <2>5 DEF Waiting, Running
    <3> QED BY <1>1, <2>2, <2>3, <2>5, <3>2, <3>3, BehindStep DEF After
  <2>6. ASSUME Admitted(c), call'[c].pc \in {"settled", "done"},
               call'[r].pc \in Waiting
        PROVE  Late(r)'
    BY <2>2, <2>6, LateBefore
  <2>7. Admitted(c) =>
          /\ call'[r].deadline <= call'[c].deadline
          /\ call'[c].seen > 0 => call'[r].seen <= call'[c].seen
    BY <2>1, <2>2, <2>4 DEF After
  <2>8. CallLog(r)' = CallLog(c)'
    BY <2>1, <2>2, <2>4 DEF After
  <2> QED BY <2>1, <2>3, <2>4, <2>5, <2>6, <2>7, <2>8 DEF After
<1>2. ASSUME NEW c \in Calls, call[c].pc = "idle", call'[c].pc = "idle",
             NEW r \in floors'[c]
      PROVE  After(c, r)'
  <2>1. /\ floors'[c] = floors[c] /\ call'[c].deadline = call[c].deadline
        /\ CallLog(c)' = CallLog(c)
    BY <1>2, FrameStep DEF Context, Frame, CallLog
  <2>2. ~Admitted(c) /\ ~Admitted(c)'
    BY <1>2, <2>1, IdleCall DEF Context, Admitted
  <2>3. r \in Calls /\ After(c, r)
    BY <1>2, <1>t, <2>1 DEF OrderInv
  <2>4. Refreshes(r) /\ call[r].pc # "idle"
    BY <2>3, AcceptedCall DEF After, Refreshes
  <2>5. Refreshes(r)' /\ CallLog(r)' = CallLog(r)
    BY <2>3, <2>4, Begun
  <2> QED BY <2>1, <2>2, <2>3, <2>5 DEF After
<1>3. ASSUME NEW c \in Calls, call[c].pc = "idle", call'[c].pc # "idle",
             NEW r \in floors'[c]
      PROVE  After(c, r)'
  <2>1. Begin(c)
    BY <1>3, BeginsOnly DEF Context
  <2>2. /\ floors' = [floors EXCEPT ![c] = AcceptedRefreshes(c)]
        /\ BeginsHit(c) \/ BeginsShared(c) \/ BeginsRefused(c) \/ BeginsQueued(c)
    BY <2>1, BeginEffect DEF Context
  <2>3. r \in AcceptedRefreshes(c)
    BY <1>t, <1>3, <2>2
  <2>4. /\ r \in Calls /\ r # c /\ Refreshes(r) /\ CallLog(r) = CallLog(c)
        /\ call[r].pc # "idle"
    BY <1>3, <2>3, Accepts
  <2>5. /\ Refreshes(r)' /\ CallLog(r)' = CallLog(r)
        /\ call'[r].deadline = call[r].deadline /\ call'[r].seen = call[r].seen
    BY <2>4, Begun
  <2>6. CallLog(c)' = CallLog(c)
    BY FrameStep DEF Context, Frame, CallLog
  <2>7. CASE ~Admitted(c)'
    BY <2>4, <2>5, <2>6, <2>7 DEF After
  <2>8. CASE Admitted(c)'
    <3>1. BeginsQueued(c)
      BY <1>3, <2>8, AcceptedOnly, IdleCall DEF Context
    <3>2. Recorded(r) /\ CallLog(c) \in Logs
      BY <2>4, Typed DEF Context, CallsInv
    <3>3. call[r].deadline <= call'[c].deadline
      BY <3>1, <3>2 DEF Recorded, BeginsQueued
    <3>4. call'[c].seen > 0 => call[r].seen <= call'[c].seen
      BY <2>4, <3>1, <3>2 DEF Recorded, BeginsQueued
    <3>5. Behind(c, r)'
      <4>1. /\ pending \in Seq(Calls) /\ DOMAIN pending = 1..Len(pending)
            /\ Len(pending) \in Nat /\ c \notin Entries(pending)
        BY <1>3, Typed, RenderFacts DEF Context
      <4>2. CASE call'[c].pc = "queued" /\ pending' = Append(pending, c)
        <5>1. /\ Len(pending') = Len(pending) + 1
              /\ pending'[Len(pending) + 1] = c
              /\ \A i \in 1..Len(pending) : pending'[i] = pending[i]
              /\ DOMAIN pending' = 1..Len(pending')
          BY <4>1, <4>2, AppendProperties
        <5>2. ASSUME NEW i \in DOMAIN pending', NEW j \in DOMAIN pending',
                     pending'[i] = r, pending'[j] = c
              PROVE  i < j
          <6>1. i \in 1..Len(pending)
            BY <2>4, <4>1, <5>1, <5>2
          <6>2. j = Len(pending) + 1
            <7>1. ASSUME j \in 1..Len(pending)
                  PROVE  FALSE
              BY <4>1, <5>1, <5>2, <7>1 DEF Entries
            <7> QED BY <4>1, <5>1, <7>1
          <6> QED BY <4>1, <6>1, <6>2
        <5> QED BY <4>2, <5>2 DEF Behind
      <4>3. CASE pending' = <<>>
        BY <4>3, EmptySeq DEF Behind
      <4> QED BY <3>1, <4>2, <4>3 DEF BeginsQueued
    <3>6. call'[c].pc \in Waiting
      BY <3>1 DEF BeginsQueued, Waiting
    <3>7. call'[c].pc \notin {"settled", "done"}
      BY <3>6 DEF Waiting
    <3> QED BY <2>4, <2>5, <2>6, <3>3, <3>4, <3>5, <3>7 DEF After
  <2> QED BY <2>7, <2>8
<1>4. ASSUME NEW c \in Calls, NEW r \in floors'[c]
      PROVE  After(c, r)'
  BY <1>1, <1>2, <1>3, <1>4
<1> QED BY <1>4 DEF OrderInv

-----------------------------------------------------------------------------
(* What may still be shown of a log.                                       *)

\* A page is dropped, kept, taken warm, or loaded as the log is served now.
LEMMA PageStep ==
  ASSUME Context, NEW d \in Calls
  PROVE  \/ call'[d].page = NoPage
         \/ /\ call'[d].page = call[d].page
            /\ call[d].pc = "prepare" /\ call[d].refresh
                 => call'[d].pc = "prepare"
         \/ call'[d].page = warm /\ call'[d].pc = "prepare"
         \/ call'[d].page.log = CallLog(d)
            /\ call'[d].page.version = site[CallLog(d)]
<1>1. CASE call'[d] = call[d]
  BY <1>1
<1>2. CASE HandedOn(d)
  <2>1. call[d] \in CallState /\ call[d].pc = "queued"
    BY <1>2, Typed DEF Context, HandedOn
  <2>2. call'[d].page = call[d].page
    BY <1>2, <2>1 DEF HandedOn, CallState
  <2> QED BY <2>1, <2>2
<1>3. CASE Begin(d)
  <2>1. call[d].pc = "idle" /\ call'[d].page = call[d].page
    BY <1>3, BeginEffect
    DEF Context, BeginsHit, BeginsShared, BeginsRefused, BeginsQueued
  <2> QED BY <2>1
<1>4. CASE SharedDone(d) \/ RenderTimeout(d) \/ End(d) \/ Clear(d)
  <2>1. /\ call[d].pc \in {"shared", "queued", "ending", "settled"}
        /\ call'[d].page = call[d].page
    BY <1>4, SharedDoneEffect, RenderTimeoutEffect, EndEffect, ClearEffect
    DEF Context
  <2> QED BY <2>1
<1>5. CASE RunJob(d) \/ Attempt(d)
  BY <1>5, RunJobEffect, AttemptEffect DEF Context, Moves
<1>6. CASE Prepare(d)
  BY <1>6, PrepareEffect DEF Context
<1>7. CASE Load(d)
  <2>1. /\ call[d].pc = "navigate"
        /\ \/ call'[d].page = [log |-> CallLog(d), version |-> site[CallLog(d)]]
           \/ call'[d].page = call[d].page
    BY <1>7, LoadEffect DEF Context
  <2> QED BY <2>1
<1>8. CASE Loaded(d) \/ Shoot(d) \/ Expire(d)
  BY <1>8, LoadedEffect, ShootEffect, ExpireEffect DEF Context, Moves
<1> QED BY <1>1, <1>2, <1>3, <1>4, <1>5, <1>6, <1>7, <1>8, OwnStep DEF Context

\* The warm page and the cache get what a screenshot was taken of.
LEMMA StoreStep ==
  ASSUME Context
  PROVE  /\ \/ warm' \in {warm, NoPage}
            \/ \E c \in Calls : call[c].pc = "shoot" /\ warm' = call[c].page
         /\ \A k \in Keys :
              \/ cache'[k] \in {0, cache[k]}
              \/ \E c \in Calls : /\ call[c].pc = "shoot" /\ k = call[c].key
                                  /\ cache'[k] = call[c].page.version
<1>t. cache \in [Keys -> Nat]
  BY Typed DEF Context
<1>1. CASE UNCHANGED <<warm, cache>>
  BY <1>1
<1>2. CASE Quiet \/ \E l \in Logs : Publish(l)
  BY <1>1, <1>2 DEF Quiet, captureVars, Publish
<1>3. ASSUME NEW c \in Calls,
             \/ SharedDone(c) \/ RenderTimeout(c) \/ Prepare(c) \/ Load(c)
             \/ Loaded(c) \/ Expire(c) \/ End(c) \/ Clear(c)
      PROVE  UNCHANGED <<warm, cache>>
  BY <1>3, SharedDoneEffect, RenderTimeoutEffect, PrepareEffect, LoadEffect,
     LoadedEffect, ExpireEffect, EndEffect, ClearEffect DEF Context
<1>4. ASSUME NEW c \in Calls, Begin(c) \/ RunJob(c) \/ Attempt(c)
      PROVE  /\ warm' \in {warm, NoPage}
             /\ \A k \in Keys : cache'[k] \in {0, cache[k]}
  BY <1>4, BeginEffect, RunJobEffect, AttemptEffect
  DEF Context, BeginsHit, BeginsShared, BeginsRefused, BeginsQueued, Evicts
<1>5. ASSUME NEW c \in Calls, Shoot(c)
      PROVE  /\ \/ warm' = warm
                \/ call[c].pc = "shoot" /\ warm' = call[c].page
             /\ \A k \in Keys :
                  \/ cache'[k] = cache[k]
                  \/ /\ call[c].pc = "shoot" /\ k = call[c].key
                     /\ cache'[k] = call[c].page.version
  <2>1. /\ call[c].pc = "shoot"
        /\ \/ /\ cache' = [cache EXCEPT ![call[c].key] = call[c].page.version]
              /\ warm' = call[c].page
           \/ UNCHANGED <<cache, warm>>
    BY <1>5, ShootEffect DEF Context
  <2> QED BY <1>t, <2>1
<1> QED BY <1>1, <1>2, <1>3, <1>4, <1>5, StepCases DEF Context

LEMMA RanFrom ==
  ASSUME Context, NEW r \in Calls, Ran(r)'
  PROVE  /\ Refreshes(r) /\ call[r].pc # "idle"
         /\ \/ Ran(r)
            \/ /\ RunJob(r) /\ Moves(r, "prepare") /\ warm' = NoPage
               /\ \A k \in Keys : LogOf[k] = CallLog(r) => cache'[k] = 0
<1>1. Refreshes(r)' /\ call'[r].pc \in Running \cup Over
  BY DEF Ran
<1>2. Admitted(r)
  <2>1. ASSUME ~Admitted(r)
        PROVE  FALSE
    <3>1. BeginsQueued(r)
      BY <1>1, <2>1, AcceptedOnly DEF Refreshes
    <3> QED BY <1>1, <3>1 DEF BeginsQueued, Running, Over
  <2> QED BY <2>1
<1>3. /\ call[r].pc \in Waiting \cup Running \cup Over /\ call[r].pc # "idle"
      /\ Refreshes(r) /\ (Late(r) => Late(r)')
  BY <1>1, <1>2, AcceptedCall, Begun
<1>4. Frame(r) /\ Recorded(r)
  BY FrameStep DEF Context, CallsInv
<1>5. CASE call[r].pc \in Running
  BY <1>3, <1>5 DEF Ran
<1>6. CASE call[r].pc \in Over
  <2>1. call'[r].pc \in Over /\ call'[r].opened = call[r].opened
    BY <1>4, <1>6 DEF Frame, Follows, Over
  <2>2. call'[r].opened \/ ~Late(r)'
    BY <2>1 DEF Ran, Over, Running
  <2> QED BY <1>3, <1>6, <2>1, <2>2 DEF Ran
<1>7. CASE call[r].pc \in Waiting
  <2>1. ~call'[r].opened
    BY <1>4, <1>7 DEF Frame, Recorded, Waiting, Running, Over
  <2>2. call'[r].pc \in Over => ~Late(r)
    BY <1>3, <2>1 DEF Ran, Over, Running
  <2>3. call[r].pc = "picked"
    <3>1. call[r].pc # "queued"
      BY <1>1, <1>4, <2>2 DEF Frame, Follows, Running, Over
    <3> QED BY <1>7, <3>1 DEF Waiting
  <2>4. call'[r] # call[r] /\ ~HandedOn(r)
    BY <1>1, <2>3 DEF HandedOn, Running, Over
  <2>5. RunJob(r)
    BY <2>3, <2>4, OwnStep, BeginEffect, SharedDoneEffect,
       RenderTimeoutEffect, AttemptEffect, PrepareEffect, LoadEffect,
       LoadedEffect, ShootEffect, ExpireEffect, EndEffect, ClearEffect
    DEF Context, Running
  <2>6. ~Hit(r)
    BY <1>3 DEF Hit, ReadsCache, Refreshes
  <2>7. \/ Late(r) /\ Moves(r, "ending")
        \/ /\ Moves(r, "prepare") /\ warm' = NoPage
           /\ \A k \in Keys : LogOf[k] = CallLog(r) => cache'[k] = 0
    BY <1>3, <2>5, <2>6, RunJobEffect DEF Context, Refreshes
  <2> QED BY <1>3, <2>2, <2>5, <2>7 DEF Moves, Over
<1> QED BY <1>3, <1>5, <1>6, <1>7

LEMMA CleanStep ==
  ASSUME Context, CleanInv
  PROVE  CleanInv'
<1>t. /\ warm \in Page /\ NoPage.log = NoCall /\ NoCall \notin Logs
      /\ site \in [Logs -> Nat] /\ LogOf \in [Keys -> Logs]
      /\ \A c \in Calls : /\ CallLog(c) \in Logs /\ call[c].page \in Page
                          /\ call[c].seen \in Nat
      /\ \A c \in Calls : Navigates(c)
  BY Typed, CallsAssumption, KeysAssumption DEF Context, NoPage, NavigationInv
<1>1. ASSUME NEW r \in Calls, Ran(r), Refreshes(r), call[r].pc # "idle"
      PROVE  Clean(r)'
  <2>1. PICK n \in Nat : n = call[r].seen
    BY <1>t
  <2>2. PICK l \in Logs : l = CallLog(r)
    BY <1>t
  <2>3. call'[r].seen = n /\ CallLog(r)' = l
    BY <1>1, <2>1, <2>2, Begun
  <2>4. /\ \A k \in Keys : LogOf[k] = l => cache[k] = 0 \/ cache[k] >= n
        /\ warm.log = l => warm.version >= n
        /\ \A d \in Calls :
             (d = r => call[d].pc # "prepare") /\ call[d].page.log = l
               => call[d].page.version >= n
    BY <1>1, <2>1, <2>2 DEF CleanInv, Clean
  <2>5. ASSUME NEW c \in Calls, call[c].pc = "shoot", CallLog(c) = l
        PROVE  call[c].page.version >= n
    BY <1>t, <2>4, <2>5 DEF Navigates
  <2>6. ASSUME NEW k \in Keys, LogOf[k] = l
        PROVE  cache'[k] = 0 \/ cache'[k] >= n
    BY <2>4, <2>5, <2>6, StoreStep DEF CallLog
  <2>7. ASSUME warm'.log = l
        PROVE  warm'.version >= n
    <3>1. CASE warm' \in {warm, NoPage}
      BY <1>t, <2>4, <2>7, <3>1
    <3>2. ASSUME NEW c \in Calls, call[c].pc = "shoot", warm' = call[c].page
          PROVE  warm'.version >= n
      BY <1>t, <2>5, <2>7, <3>2 DEF Navigates
    <3> QED BY <3>1, <3>2, StoreStep
  <2>8. ASSUME NEW d \in Calls, d = r => call'[d].pc # "prepare",
               call'[d].page.log = l
        PROVE  call'[d].page.version >= n
    <3>1. CASE call'[d].page = NoPage
      BY <1>t, <2>8, <3>1
    <3>2. CASE /\ call'[d].page = call[d].page
               /\ call[d].pc = "prepare" /\ call[d].refresh
                    => call'[d].pc = "prepare"
      BY <1>1, <2>4, <2>8, <3>2 DEF Refreshes
    <3>3. CASE call'[d].page = warm /\ call'[d].pc = "prepare"
      BY <2>4, <2>8, <3>3
    <3>4. CASE call'[d].page.log = CallLog(d)
               /\ call'[d].page.version = site[CallLog(d)]
      <4>1. n <= site[l]
        BY <2>1, <2>2 DEF Context, CallsInv, Recorded
      <4> QED BY <1>t, <2>8, <3>4, <4>1
    <3> QED BY <3>1, <3>2, <3>3, <3>4, PageStep
  <2> QED BY <2>3, <2>6, <2>7, <2>8 DEF Clean
<1>2. ASSUME NEW r \in Calls, RunJob(r), Moves(r, "prepare"), warm' = NoPage,
             \A k \in Keys : LogOf[k] = CallLog(r) => cache'[k] = 0,
             call[r].pc # "idle"
      PROVE  Clean(r)'
  <2>1. call[r].pc = "picked" /\ Rendering(r)
    BY <1>2, RunJobEffect DEF Context, Rendering
  <2>2. CallLog(r)' = CallLog(r) /\ call'[r].pc = "prepare"
    BY <1>2 DEF Moves, CallLog
  <2>3. ASSUME NEW d \in Calls, d # r
        PROVE  call'[d].page.log # CallLog(r)
    <3>1. call'[d] = call[d]
      BY <1>2, <2>3 DEF Moves
    <3>2. ~Rendering(d)
      BY <2>1, <2>3, RenderFacts DEF Context
    <3>3. call[d].page = NoPage
      BY <1>t, <3>2 DEF Navigates, Rendering
    <3> QED BY <1>t, <3>1, <3>3
  <2> QED BY <1>2, <1>t, <2>2, <2>3 DEF Clean
<1>3. ASSUME NEW r \in Calls, Ran(r)'
      PROVE  Clean(r)'
  BY <1>1, <1>2, <1>3, RanFrom
<1> QED BY <1>3 DEF CleanInv

-----------------------------------------------------------------------------
(* What a caller is shown.                                                 *)

LEMMA MissedStays ==
  ASSUME Context, NEW r \in Calls, Missed(r), Refreshes(r)
  PROVE  Missed(r)'
<1>1. call[r].pc # "idle" /\ Late(r) /\ ~call[r].opened
      /\ call[r].pc \in Waiting \cup Over
  BY AcceptedCall DEF Missed, Refreshes
<1>2. Late(r)' /\ Frame(r)
  BY <1>1, Begun, FrameStep DEF Context
<1>3. ~call'[r].opened
  BY <1>1, <1>2 DEF Frame, Waiting, Over
<1>4. call'[r].pc \in Waiting \cup Over
  BY <1>1, <1>2 DEF Frame, Follows, Waiting, Over
<1> QED BY <1>2, <1>3, <1>4 DEF Missed

\* An image taken from the cache is as new as every refresh of its log.
LEMMA HitIsFresh ==
  ASSUME Context, PendingInv, CleanInv, NEW c \in Calls, Hit(c),
         NEW r \in Calls, Refreshes(r), CallLog(r) = CallLog(c)
  PROVE  cache[call[c].key] >= call[r].seen \/ Missed(r)
<1>1. /\ ~RefreshPending(r) /\ cache[call[c].key] > 0
      /\ call[c].key \in Keys /\ LogOf[call[c].key] = CallLog(r)
  BY Typed DEF Context, Hit, ReadsCache, RefreshPending, CallLog
<1>2. call[r].pc \in Waiting \cup Running \cup Over /\ Recorded(r)
  BY AcceptedCall DEF Refreshes, Context, CallsInv
<1>3. CASE call[r].pc \in Waiting
  <2>1. Late(r)
    BY <1>1, <1>3 DEF PendingInv
  <2>2. ~call[r].opened
    BY <1>2, <1>3 DEF Recorded, Waiting, Running, Over
  <2> QED BY <1>3, <2>1, <2>2 DEF Missed
<1>4. CASE Ran(r)
  <2>1. cache[call[c].key] = 0 \/ cache[call[c].key] >= call[r].seen
    BY <1>1, <1>4 DEF CleanInv, Clean
  <2> QED BY <1>1, <2>1
<1>5. CASE call[r].pc \in Over /\ ~call[r].opened /\ Late(r)
  BY <1>5 DEF Missed
<1> QED BY <1>2, <1>3, <1>4, <1>5 DEF Ran

LEMMA ImageStep ==
  ASSUME Context, OrderInv, PendingInv, CleanInv, ImageInv
  PROVE  ImageInv'
<1>t. /\ floors \in [Calls -> SUBSET Calls]
      /\ \A c \in Calls : /\ call[c].seen \in Nat /\ CallLog(c) \in Logs
                          /\ call[c] \in CallState
                          /\ Recorded(c) /\ Frame(c) /\ Navigates(c)
  BY Typed, FrameStep DEF Context, CallsInv, NavigationInv
<1>a. ASSUME NEW c \in Calls, NEW r \in floors[c]
      PROVE  /\ r \in Calls /\ After(c, r) /\ r # c /\ Refreshes(r)
             /\ CallLog(r) = CallLog(c) /\ call'[r].seen = call[r].seen
             /\ Missed(r) => Missed(r)'
  <2>1. r \in Calls /\ After(c, r) /\ r # c /\ Refreshes(r)
        /\ CallLog(r) = CallLog(c)
    BY <1>a, <1>t DEF OrderInv, After
  <2>2. call'[r].seen = call[r].seen
    BY <2>1, AcceptedCall, Begun DEF Refreshes
  <2> QED BY <2>1, <2>2, MissedStays
<1>1. ASSUME NEW c \in Calls, call[c].ok
      PROVE  Fresher(c)'
  <2>1. Fresher(c) /\ call[c].pc \in Over /\ call[c].pc # "idle"
    BY <1>1, <1>t DEF ImageInv, Recorded, Over
  <2>2. call'[c].version = call[c].version
    BY <1>t, <2>1 DEF Frame
  <2>3. floors'[c] = floors[c] /\ call'[c].seen = call[c].seen
    BY <2>1, Begun
  <2> QED BY <1>a, <2>1, <2>2, <2>3 DEF Fresher
<1>2. ASSUME NEW c \in Calls, Begin(c), call'[c].ok, ~call[c].ok
      PROVE  Fresher(c)'
  <2>1. /\ call[c].pc = "idle"
        /\ floors' = [floors EXCEPT ![c] = AcceptedRefreshes(c)]
        /\ BeginsHit(c)
    BY <1>2, BeginEffect
    DEF Context, BeginsShared, BeginsRefused, BeginsQueued, Keeps
  <2>2. call'[c].seen = 0
    BY <2>1, IdleCall DEF Context, BeginsHit, Moves
  <2>3. ASSUME NEW r \in floors'[c]
        PROVE  call'[c].version >= call'[r].seen \/ Missed(r)'
    <3>1. r \in AcceptedRefreshes(c)
      BY <1>t, <2>1, <2>3
    <3>2. /\ r \in Calls /\ Refreshes(r) /\ CallLog(r) = CallLog(c)
          /\ call[r].pc # "idle"
      BY <2>1, <3>1, Accepts
    <3>3. call'[r].seen = call[r].seen
      BY <3>2, Begun
    <3>4. cache[call[c].key] >= call[r].seen \/ Missed(r)
      BY <2>1, <3>2, HitIsFresh DEF BeginsHit
    <3> QED BY <2>1, <3>2, <3>3, <3>4, MissedStays DEF BeginsHit
  <2> QED BY <2>2, <2>3 DEF Fresher
<1>3. ASSUME NEW c \in Calls, SharedDone(c), call'[c].ok
      PROVE  Fresher(c)'
  <2>1. PICK d \in Calls :
          /\ d = call[c].owner /\ call'[c].ok = call[d].ok
          /\ call'[c].version = call[d].version
    BY <1>3, SharedDoneEffect DEF Context
  <2>2. call[c].pc = "shared"
    BY <1>3, SharedDoneEffect DEF Context
  <2>3. floors[c] \subseteq floors[d] \cup {d} /\ Fresher(d)
    BY <1>3, <2>1, <2>2 DEF Context, SharedInv, ImageInv
  <2>4. call[c].seen = 0
    BY <1>t, <2>2 DEF Recorded, Refreshes, Waiting, Running, Over
  <2>5. floors'[c] = floors[c] /\ call'[c].seen = 0
    BY <2>2, <2>4, Begun
  <2>6. ASSUME NEW r \in floors[c]
        PROVE  call[d].version >= call[r].seen \/ Missed(r)
    <3>1. CASE r \in floors[d]
      BY <2>3, <3>1 DEF Fresher
    <3>2. CASE r = d
      <4>1. call[d].seen > 0
        BY <1>a, <1>t, <3>2 DEF Recorded
      <4> QED BY <2>3, <3>2, <4>1 DEF Fresher
    <3> QED BY <2>3, <3>1, <3>2
  <2> QED BY <1>a, <2>1, <2>5, <2>6 DEF Fresher
<1>4. ASSUME NEW c \in Calls, RunJob(c), call'[c].ok, ~call[c].ok
      PROVE  Fresher(c)'
  <2>1. /\ call[c].pc = "picked" /\ Hit(c)
        /\ call'[c].version = cache[call[c].key]
    BY <1>4, RunJobEffect DEF Context, Keeps
  <2>2. call[c].seen = 0
    BY <1>t, <2>1 DEF Recorded, Refreshes, Hit, ReadsCache
  <2>3. floors'[c] = floors[c] /\ call'[c].seen = 0
    BY <2>1, <2>2, Begun
  <2>4. ASSUME NEW r \in floors[c]
        PROVE  call'[c].version >= call[r].seen \/ Missed(r)
    BY <1>a, <2>1, <2>4, HitIsFresh
  <2> QED BY <1>a, <2>3, <2>4 DEF Fresher
<1>5. ASSUME NEW c \in Calls, Shoot(c), call'[c].ok, ~call[c].ok
      PROVE  Fresher(c)'
  <2>1. call[c].pc = "shoot" /\ call'[c].version = call[c].page.version
    BY <1>5, ShootEffect DEF Context, Keeps
  <2>2. call[c].page.log = CallLog(c) /\ Rendering(c)
    BY <1>t, <2>1 DEF Navigates, Rendering
  <2>3. floors'[c] = floors[c] /\ call'[c].seen = call[c].seen
    BY <2>1, Begun
  <2>4. call[c].seen > 0 => call[c].page.version >= call[c].seen
    <3>1. SUFFICES ASSUME call[c].seen > 0
                   PROVE  call[c].page.version >= call[c].seen
      OBVIOUS
    <3>2. Ran(c)
      BY <1>t, <2>1, <3>1 DEF Ran, Recorded, Running
    <3> QED BY <2>1, <2>2, <3>2 DEF CleanInv, Clean
  <2>5. ASSUME NEW r \in floors[c]
        PROVE  call[c].page.version >= call[r].seen \/ Missed(r)
    <3>1. /\ r \in Calls /\ r # c /\ Refreshes(r) /\ CallLog(r) = CallLog(c)
          /\ After(c, r)
      BY <1>a
    <3>2. ~Rendering(r)
      BY <2>2, <3>1, RenderFacts DEF Context
    <3>3. call[r].pc # "queued"
      <4>1. Behind(c, r)
        BY <1>t, <2>1, <3>1 DEF After, Recorded, Running
      <4> QED BY <2>1, <3>1, <4>1
              DEF Behind, Context, RenderInv, RenderSlotSound
    <3>4. call[r].pc \in Over
      BY <3>1, <3>2, <3>3, AcceptedCall
      DEF Refreshes, Waiting, Running, Over, Rendering
    <3>5. CASE Ran(r)
      BY <2>1, <2>2, <3>1, <3>5 DEF CleanInv, Clean
    <3>6. CASE ~Ran(r)
      BY <3>1, <3>4, <3>6 DEF Ran, Missed
    <3> QED BY <3>5, <3>6
  <2> QED BY <1>a, <2>1, <2>3, <2>4, <2>5 DEF Fresher
<1>6. ASSUME NEW c \in Calls, call'[c].ok, ~call[c].ok
      PROVE  Begin(c) \/ SharedDone(c) \/ RunJob(c) \/ Shoot(c)
  <2>1. ~HandedOn(c)
    BY <1>6, <1>t DEF HandedOn, CallState
  <2> QED BY <1>6, <2>1, OwnStep, RenderTimeoutEffect, AttemptEffect,
             PrepareEffect, LoadEffect, LoadedEffect, ExpireEffect, EndEffect,
             ClearEffect DEF Context, Keeps
<1> QED BY <1>1, <1>2, <1>3, <1>4, <1>5, <1>6 DEF ImageInv

-----------------------------------------------------------------------------
(* The theorems.                                                           *)

LEMMA CapturesInvInit == Init => LimiterInv /\ CapturesInv
  BY TypeInit, LimiterInvInit, RenderInit, NavigationInit, CallsInit,
     CapturesInit DEF CapturesInv

LEMMA CapturesInvStep ==
  ASSUME LimiterInv, CapturesInv, [Next]_vars
  PROVE  LimiterInv' /\ CapturesInv'
<1>1. Context
  BY DEF Context, CapturesInv
<1>2. TypeOK' /\ LimiterInv'
  BY TypeStep, LimiterInvStep DEF CapturesInv
<1>3. CallsInv' /\ RenderInv' /\ NavigationInv'
  BY <1>2, CallsStep, RenderStep, NavigationStep DEF CapturesInv
<1>4. OrderInv' /\ CaptureInv' /\ SharedInv' /\ PendingInv'
  BY <1>1, OrderStep, CaptureStep, SharedStep, PendingStep DEF CapturesInv
<1>5. CleanInv' /\ ImageInv'
  BY <1>1, CleanStep, ImageStep DEF CapturesInv
<1> QED BY <1>2, <1>3, <1>4, <1>5 DEF CapturesInv

\* The limiter's and the captures' invariants hold together: the captures use
\* the limiter through its interface, and its callbacks leave them alone.
THEOREM CapturesInductive == Spec => [](LimiterInv /\ CapturesInv)
  BY CapturesInvInit, CapturesInvStep, PTL DEF Spec

\* Every variable of captureRaidLog and of the limiter keeps its type; a waiting
\* call is spliced out of the render queue only while it is in it.
THEOREM CapturesTyped == Spec => []TypeOK
<1>1. CapturesInv => TypeOK
  BY DEF CapturesInv
<1> QED BY <1>1, CapturesInductive, PTL

\* Whatever way a render or a request ends (finished, failed, timed out while
\* it waited, aborted, answered 429), the browser and the slots of the limiter
\* are handed on: none is lost and none is spent twice.
THEOREM SlotsKept == Spec => []NoSlotLost
<1>1. LimiterInv /\ CapturesInv => NoSlotLost
  BY DEF LimiterInv, CapturesInv, RenderInv, NoSlotLost
<1> QED BY <1>1, CapturesInductive, PTL

\* No caller is shown an image older than a refresh that was accepted before it
\* began, whether the image comes from the cache, a shared capture, the warm
\* page or a load of its own, for any number of calls, views and logs.
THEOREM ImagesFresh == Spec => []NoImageOlderThanRefresh
<1>1. CapturesInv => NoImageOlderThanRefresh
  BY DEF CapturesInv, ImageInv, Fresher, Missed, NoImageOlderThanRefresh
<1> QED BY <1>1, CapturesInductive, PTL
=============================================================================

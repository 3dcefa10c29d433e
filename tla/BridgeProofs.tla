---------------------------- MODULE BridgeProofs ----------------------------
(***************************************************************************)
(* Theorems about Bridge (and UartLink), for any number of messages, any   *)
(* lengths and any number of faults.                                       *)
(***************************************************************************)
EXTENDS Bridge, SequenceTheorems, WellFoundedInduction, TLAPS

(* A queue or a line q in which z stands for what no message made: its     *)
(* genuine entries, and that they are in the order R.                      *)
Entries(q, z) == {q[i] : i \in 1 .. Len(q)} \ {z}
Chain(q, z, R) ==
  \A i, j \in 1 .. Len(q) : i < j /\ q[i] # z /\ q[j] # z => <<q[i], q[j]>> \in R

(* p is what is left of q.                                                 *)
Part(p, q, z) ==
  /\ Entries(p, z) \subseteq Entries(q, z)
  /\ \A R : Chain(q, z, R) => Chain(p, z, R)

LEMMA PartBy ==
  ASSUME NEW p, NEW q, NEW z, NEW e, Len(p) \in Nat, Len(q) \in Nat,
         \A k \in 1 .. Len(p) : \/ p[k] = z
                                \/ e[k] \in 1 .. Len(q) /\ p[k] = q[e[k]],
         \A i, j \in 1 .. Len(p) : i < j => e[i] < e[j]
  PROVE  Part(p, q, z)
<1>1. Entries(p, z) \subseteq Entries(q, z)
  BY DEF Entries
<1>2. ASSUME NEW R, Chain(q, z, R), NEW i \in 1 .. Len(p), NEW j \in 1 .. Len(p),
             i < j, p[i] # z, p[j] # z
      PROVE  <<p[i], p[j]>> \in R
  <2>1. /\ e[i] \in 1 .. Len(q) /\ p[i] = q[e[i]]
        /\ e[j] \in 1 .. Len(q) /\ p[j] = q[e[j]]
        /\ e[i] < e[j]
    BY <1>2
  <2> QED BY <1>2, <2>1 DEF Chain
<1> QED BY <1>1, <1>2 DEF Part, Chain

LEMMA PartSame == \A q, z : Part(q, q, z)
BY DEF Part

LEMMA PartEmpty == \A q, z : Part(<<>>, q, z)
<1>1. Len(<<>>) = 0
  OBVIOUS
<1> QED BY <1>1 DEF Part, Entries, Chain

LEMMA PartSubSeq ==
  ASSUME NEW S, NEW q \in Seq(S), NEW z, NEW i \in Int, i >= 1
  PROVE  SubSeq(q, i, Len(q)) \in Seq(S) /\ Part(SubSeq(q, i, Len(q)), q, z)
<1> DEFINE p == SubSeq(q, i, Len(q))
           e == [k \in 1 .. Len(p) |-> k + i - 1]
<1>1. Len(q) \in Nat /\ \A k \in i .. Len(q) : q[k] \in S
  BY LenProperties
<1>2. /\ p \in Seq(S) /\ Len(p) = IF i <= Len(q) THEN Len(q) - i + 1 ELSE 0
      /\ \A k \in 1 .. Len(q) - i + 1 : p[k] = q[i + k - 1]
  BY <1>1, SubSeqProperties
<1> HIDE DEF p
<1>3. \A k \in 1 .. Len(p) : e[k] \in 1 .. Len(q) /\ p[k] = q[e[k]]
  <2> SUFFICES ASSUME NEW k \in 1 .. Len(p)
               PROVE  e[k] \in 1 .. Len(q) /\ p[k] = q[e[k]]
    OBVIOUS
  <2>1. k \in 1 .. Len(q) - i + 1 /\ e[k] = i + k - 1
    BY <1>1, <1>2
  <2> QED BY <1>1, <1>2, <2>1
<1>4. \A k, l \in 1 .. Len(p) : k < l => e[k] < e[l]
  BY <1>1, <1>2
<1>5. Len(p) \in Nat
  BY <1>1, <1>2
<1> HIDE DEF e
<1>6. Part(p, q, z)
  BY <1>1, <1>3, <1>4, <1>5, PartBy
<1> QED BY <1>2, <1>6 DEF p

LEMMA PartTail ==
  ASSUME NEW S, NEW q \in Seq(S), NEW z, q # <<>>
  PROVE  Tail(q) \in Seq(S) /\ Part(Tail(q), q, z)
<1>1. 2 \in Int /\ 2 >= 1 /\ Tail(q) = SubSeq(q, 2, Len(q))
  BY TailIsSubSeq
<1>2. SubSeq(q, 2, Len(q)) \in Seq(S) /\ Part(SubSeq(q, 2, Len(q)), q, z)
  BY <1>1, PartSubSeq
<1> QED BY <1>1, <1>2

LEMMA WithoutProperties ==
  ASSUME NEW S, NEW q \in Seq(S), NEW i \in 1 .. Len(q)
  PROVE  /\ Without(q, i) \in Seq(S) /\ Len(Without(q, i)) = Len(q) - 1
         /\ \A k \in 1 .. Len(q) - 1 :
              Without(q, i)[k] = IF k < i THEN q[k] ELSE q[k + 1]
<1> DEFINE a == SubSeq(q, 1, i - 1)
           b == SubSeq(q, i + 1, Len(q))
           n == Len(q)
<1>1. n \in Nat /\ \A k \in 1 .. n : q[k] \in S
  BY LenProperties
<1>2. /\ a \in Seq(S) /\ Len(a) = i - 1
      /\ \A k \in 1 .. i - 1 : a[k] = q[k]
  <2>1. \A k \in 1 .. i - 1 : q[k] \in S
    BY <1>1
  <2>2. /\ a \in Seq(S) /\ Len(a) = IF 1 <= i - 1 THEN (i - 1) - 1 + 1 ELSE 0
        /\ \A k \in 1 .. (i - 1) - 1 + 1 : a[k] = q[1 + k - 1]
    BY <2>1, SubSeqProperties
  <2> HIDE DEF a
  <2>3. \A k \in 1 .. i - 1 : k \in 1 .. (i - 1) - 1 + 1 /\ 1 + k - 1 = k
    OBVIOUS
  <2> QED BY <2>2, <2>3
<1>3. /\ b \in Seq(S) /\ Len(b) = n - i
      /\ \A k \in 1 .. n - i : b[k] = q[i + k]
  <2>1. \A k \in i + 1 .. n : q[k] \in S
    BY <1>1
  <2>2. /\ b \in Seq(S) /\ Len(b) = IF i + 1 <= n THEN n - (i + 1) + 1 ELSE 0
        /\ \A k \in 1 .. n - (i + 1) + 1 : b[k] = q[(i + 1) + k - 1]
    BY <1>1, <2>1, SubSeqProperties
  <2> HIDE DEF b
  <2>3. \A k \in 1 .. n - i : k \in 1 .. n - (i + 1) + 1 /\ (i + 1) + k - 1 = i + k
    BY <1>1
  <2> QED BY <1>1, <2>2, <2>3
<1> HIDE DEF a, b
<1>4. /\ a \o b \in Seq(S) /\ Len(a \o b) = (i - 1) + (n - i)
      /\ \A k \in 1 .. (i - 1) + (n - i) :
           (a \o b)[k] = IF k <= i - 1 THEN a[k] ELSE b[k - (i - 1)]
  <2>1. /\ a \o b \in Seq(S) /\ Len(a \o b) = Len(a) + Len(b)
        /\ \A k \in 1 .. Len(a) + Len(b) :
             (a \o b)[k] = IF k <= Len(a) THEN a[k] ELSE b[k - Len(a)]
    BY <1>2, <1>3, ConcatProperties
  <2> QED BY <1>2, <1>3, <2>1
<1>5. ASSUME NEW k \in 1 .. n - 1
      PROVE  (a \o b)[k] = IF k < i THEN q[k] ELSE q[k + 1]
  <2>1. k \in 1 .. (i - 1) + (n - i)
    BY <1>1
  <2>2. CASE k < i
    <3>1. k <= i - 1 /\ k \in 1 .. i - 1
      BY <1>1, <2>2
    <3> QED BY <1>2, <1>4, <2>1, <2>2, <3>1
  <2>3. CASE ~(k < i)
    <3>1. ~(k <= i - 1) /\ k - (i - 1) \in 1 .. n - i /\ i + (k - (i - 1)) = k + 1
      BY <1>1, <2>3
    <3> QED BY <1>3, <1>4, <2>1, <2>3, <3>1
  <2> QED BY <2>2, <2>3
<1>6. Without(q, i) = a \o b
  BY DEF Without, a, b
<1> QED BY <1>1, <1>4, <1>5, <1>6

LEMMA PartWithout ==
  ASSUME NEW S, NEW q \in Seq(S), NEW z, NEW i \in 1 .. Len(q)
  PROVE  Without(q, i) \in Seq(S) /\ Part(Without(q, i), q, z)
<1> DEFINE p == Without(q, i)
           e == [k \in 1 .. Len(p) |-> IF k < i THEN k ELSE k + 1]
<1>1. /\ Len(q) \in Nat /\ p \in Seq(S) /\ Len(p) = Len(q) - 1
      /\ \A k \in 1 .. Len(q) - 1 : p[k] = IF k < i THEN q[k] ELSE q[k + 1]
  BY WithoutProperties, LenProperties
<1> HIDE DEF p
<1>2. \A k \in 1 .. Len(p) : e[k] \in 1 .. Len(q) /\ p[k] = q[e[k]]
  BY <1>1
<1>3. \A k, l \in 1 .. Len(p) : k < l => e[k] < e[l]
  BY <1>1
<1>4. Len(p) \in Nat
  BY <1>1
<1> HIDE DEF e
<1>5. Part(p, q, z)
  BY <1>1, <1>2, <1>3, <1>4, PartBy
<1> QED BY <1>1, <1>5 DEF p

LEMMA PartChanged ==
  ASSUME NEW S, NEW q \in Seq(S), NEW z \in S, NEW i \in 1 .. Len(q)
  PROVE  [q EXCEPT ![i] = z] \in Seq(S) /\ Part([q EXCEPT ![i] = z], q, z)
<1> DEFINE p == [q EXCEPT ![i] = z]
           e == [k \in 1 .. Len(p) |-> k]
<1>1. /\ Len(q) \in Nat /\ p \in Seq(S) /\ Len(p) = Len(q)
      /\ \A k \in 1 .. Len(q) : p[k] = IF k = i THEN z ELSE q[k]
  BY ExceptSeq, LenProperties
<1> HIDE DEF p
<1>2. \A k \in 1 .. Len(p) : p[k] = z \/ (e[k] \in 1 .. Len(q) /\ p[k] = q[e[k]])
  BY <1>1
<1>3. \A k, l \in 1 .. Len(p) : k < l => e[k] < e[l]
  BY <1>1
<1>4. Len(p) \in Nat
  BY <1>1
<1> HIDE DEF e
<1>5. Part(p, q, z)
  BY <1>1, <1>2, <1>3, <1>4, PartBy
<1> QED BY <1>1, <1>5 DEF p

LEMMA PartAdded ==
  ASSUME NEW S, NEW q \in Seq(S), NEW z \in S
  PROVE  Append(q, z) \in Seq(S) /\ Part(Append(q, z), q, z)
<1> DEFINE p == Append(q, z)
           e == [k \in 1 .. Len(p) |-> k]
<1>1. /\ Len(q) \in Nat /\ p \in Seq(S) /\ Len(p) = Len(q) + 1
      /\ (\A k \in 1 .. Len(q) : p[k] = q[k]) /\ p[Len(q) + 1] = z
  BY AppendProperties, LenProperties
<1> HIDE DEF p
<1>2. \A k \in 1 .. Len(p) : p[k] = z \/ (e[k] \in 1 .. Len(q) /\ p[k] = q[e[k]])
  BY <1>1
<1>3. \A k, l \in 1 .. Len(p) : k < l => e[k] < e[l]
  BY <1>1
<1>4. Len(p) \in Nat
  BY <1>1
<1> HIDE DEF e
<1>5. Part(p, q, z)
  BY <1>1, <1>2, <1>3, <1>4, PartBy
<1> QED BY <1>1, <1>5 DEF p

LEMMA EntriesOf ==
  ASSUME NEW S, NEW q \in Seq(S), NEW z
  PROVE  Entries(q, z) \subseteq S
BY LenProperties DEF Entries

LEMMA HeadOfChain ==
  ASSUME NEW S, NEW q \in Seq(S), NEW z, NEW R, q # <<>>, Chain(q, z, R)
  PROVE  /\ Head(q) # z => Head(q) \in Entries(q, z)
         /\ Head(q) # z => \A b \in Entries(Tail(q), z) : <<Head(q), b>> \in R
         /\ Entries(q, z) \ {Head(q)} \subseteq Entries(Tail(q), z)
<1>1. /\ Len(q) \in Nat /\ Len(q) > 0 /\ Head(q) = q[1]
      /\ Len(Tail(q)) = Len(q) - 1
      /\ \A i \in 1 .. Len(Tail(q)) : Tail(q)[i] = q[i + 1]
  BY HeadTailProperties, LenProperties
<1>2. 1 \in 1 .. Len(q) /\ \A i \in 1 .. Len(Tail(q)) : i + 1 \in 1 .. Len(q) /\ 1 < i + 1
  BY <1>1
<1>3. Head(q) # z => Head(q) \in Entries(q, z)
  BY <1>1, <1>2 DEF Entries
<1>4. ASSUME Head(q) # z, NEW b \in Entries(Tail(q), z)
      PROVE  <<Head(q), b>> \in R
  <2>1. PICK i \in 1 .. Len(Tail(q)) : b = Tail(q)[i] /\ b # z
    BY DEF Entries
  <2> QED BY <1>1, <1>2, <1>4, <2>1 DEF Chain
<1>5. ASSUME NEW b \in Entries(q, z), b # Head(q)
      PROVE  b \in Entries(Tail(q), z)
  <2>1. PICK i \in 1 .. Len(q) : b = q[i] /\ b # z
    BY DEF Entries
  <2>2. i - 1 \in 1 .. Len(Tail(q)) /\ (i - 1) + 1 = i
    BY <1>1, <1>5, <2>1
  <2> QED BY <1>1, <2>1, <2>2 DEF Entries
<1> QED BY <1>3, <1>4, <1>5

LEMMA AppendEntries ==
  ASSUME NEW S, NEW q \in Seq(S), NEW z, NEW x \in S, x # z
  PROVE  Entries(Append(q, x), z) = Entries(q, z) \cup {x}
<1> DEFINE p == Append(q, x)
<1>1. /\ Len(q) \in Nat /\ Len(p) = Len(q) + 1
      /\ (\A k \in 1 .. Len(q) : p[k] = q[k]) /\ p[Len(q) + 1] = x
  BY AppendProperties, LenProperties
<1> HIDE DEF p
<1>2. \A k \in 1 .. Len(p) : (k \in 1 .. Len(q) /\ p[k] = q[k]) \/ (k = Len(q) + 1 /\ p[k] = x)
  BY <1>1
<1>3. Len(q) + 1 \in 1 .. Len(p) /\ \A k \in 1 .. Len(q) : k \in 1 .. Len(p)
  BY <1>1
<1>4. Entries(p, z) = Entries(q, z) \cup {x}
  BY <1>1, <1>2, <1>3 DEF Entries
<1> QED BY <1>4 DEF p

LEMMA AppendToChain ==
  ASSUME NEW S, NEW q \in Seq(S), NEW z, NEW R, NEW x \in S, Chain(q, z, R),
         \A b \in Entries(q, z) : <<b, x>> \in R
  PROVE  Chain(Append(q, x), z, R)
<1> DEFINE p == Append(q, x)
<1>1. /\ Len(q) \in Nat /\ Len(p) = Len(q) + 1
      /\ (\A k \in 1 .. Len(q) : p[k] = q[k]) /\ p[Len(q) + 1] = x
  BY AppendProperties, LenProperties
<1> HIDE DEF p
<1> SUFFICES ASSUME NEW i \in 1 .. Len(p), NEW j \in 1 .. Len(p), i < j, p[i] # z, p[j] # z
             PROVE  <<p[i], p[j]>> \in R
  BY DEF Chain, p
<1>2. i \in 1 .. Len(q) /\ p[i] = q[i]
  BY <1>1
<1>3. CASE j = Len(q) + 1
  BY <1>1, <1>2, <1>3 DEF Entries
<1>4. CASE j # Len(q) + 1
  <2>1. j \in 1 .. Len(q) /\ p[j] = q[j]
    BY <1>1, <1>4
  <2> QED BY <1>2, <2>1 DEF Chain
<1> QED BY <1>3, <1>4

LEMMA ConcatOfChains ==
  ASSUME NEW S, NEW p \in Seq(S), NEW q \in Seq(S), NEW z, NEW R,
         Chain(p, z, R), Chain(q, z, R),
         \A a \in Entries(p, z), b \in Entries(q, z) : <<a, b>> \in R
  PROVE  /\ p \o q \in Seq(S) /\ Chain(p \o q, z, R)
         /\ Entries(p \o q, z) = Entries(p, z) \cup Entries(q, z)
<1> DEFINE r == p \o q
           m == Len(p)
           n == Len(q)
<1>1. /\ m \in Nat /\ n \in Nat /\ r \in Seq(S) /\ Len(r) = m + n
      /\ \A k \in 1 .. m + n : r[k] = IF k <= m THEN p[k] ELSE q[k - m]
  BY ConcatProperties, LenProperties
<1> HIDE DEF r
<1>2. \A k \in 1 .. Len(r) : \/ k \in 1 .. m /\ r[k] = p[k]
                             \/ k > m /\ k - m \in 1 .. n /\ r[k] = q[k - m]
  BY <1>1
<1>3. /\ \A k \in 1 .. m : k \in 1 .. Len(r) /\ r[k] = p[k]
      /\ \A k \in 1 .. n : m + k \in 1 .. Len(r) /\ r[m + k] = q[k]
  <2>1. \A k \in 1 .. n : m + k \in 1 .. Len(r) /\ ~(m + k <= m) /\ (m + k) - m = k
    BY <1>1
  <2> QED BY <1>1, <2>1
<1>4. Entries(r, z) = Entries(p, z) \cup Entries(q, z)
  <2>1. Entries(r, z) \subseteq Entries(p, z) \cup Entries(q, z)
    BY <1>2 DEF Entries
  <2>2. Entries(p, z) \subseteq Entries(r, z) /\ Entries(q, z) \subseteq Entries(r, z)
    BY <1>3 DEF Entries
  <2> QED BY <2>1, <2>2
<1>5. Chain(r, z, R)
  <2> SUFFICES ASSUME NEW i \in 1 .. Len(r), NEW j \in 1 .. Len(r), i < j, r[i] # z, r[j] # z
               PROVE  <<r[i], r[j]>> \in R
    BY DEF Chain
  <2>1. CASE i \in 1 .. m /\ r[i] = p[i] /\ j \in 1 .. m /\ r[j] = p[j]
    BY <2>1 DEF Chain
  <2>2. CASE i \in 1 .. m /\ r[i] = p[i] /\ j - m \in 1 .. n /\ r[j] = q[j - m]
    BY <2>2 DEF Entries
  <2>3. CASE i - m \in 1 .. n /\ r[i] = q[i - m] /\ j - m \in 1 .. n /\ r[j] = q[j - m]
    <3>1. i - m < j - m
      BY <1>1
    <3> QED BY <2>3, <3>1 DEF Chain
  <2>4. ~(i > m /\ j \in 1 .. m)
    BY <1>1
  <2> QED BY <1>2, <2>1, <2>2, <2>3, <2>4
<1> QED BY <1>1, <1>4, <1>5 DEF r
-----------------------------------------------------------------------------
(* The inductive invariant.  What is on the way is in order, from the far  *)
(* board F over the line L and what is left of the sender's message T to   *)
(* the near board N; s has left last, and r arrived last.                  *)
ByteOrder == {e \in Bytes \X Bytes : \/ e[1].of < e[2].of
                                     \/ e[1].of = e[2].of /\ e[1].at < e[2].at}
MessageOrder == {e \in Messages \X Messages : e[1] < e[2]}

OnTheLine(L, T) == Entries(L, Noise) \cup Entries(T, Noise)
Pending(F, L, T, N) ==
  Entries(F, Garbage) \cup {b.of : b \in OnTheLine(L, T)} \cup Entries(N, Garbage)

Ordered(F, L, T, N) ==
  /\ Chain(F, Garbage, MessageOrder) /\ Chain(N, Garbage, MessageOrder)
  /\ Chain(L, Noise, ByteOrder) /\ Chain(T, Noise, ByteOrder)
  /\ \A a \in Entries(L, Noise), b \in Entries(T, Noise) : <<a, b>> \in ByteOrder
Between(F, L, T, N) ==
  /\ \A b \in OnTheLine(L, T) : b.at <= Length[b.of]
  /\ \A m \in Entries(F, Garbage), b \in OnTheLine(L, T) : m < b.of
  /\ \A b \in OnTheLine(L, T), n \in Entries(N, Garbage) : b.of < n
  /\ \A m \in Entries(F, Garbage), n \in Entries(N, Garbage) : m < n
OrderOk(F, L, T, N, s, r) ==
  /\ Ordered(F, L, T, N)
  /\ Between(F, L, T, N)
  /\ \A m \in Pending(F, L, T, N) : s < m /\ m <= r

Types(F, L, T, N) ==
  /\ T \in Seq(Bytes) /\ L \in Seq(Bytes)
  /\ N \in Seq(Messages) /\ F \in Seq(Messages \cup {Garbage})

Scalars ==
  /\ rx \in {AtLength} \cup 1 .. MaxLength
  /\ received \in 0 .. MaxMessages /\ shown \in 0 .. MaxMessages
  /\ faults \in 0 .. MaxFaults

IInv ==
  /\ Types(far, line, tx, near) /\ Scalars
  /\ OrderOk(far, line, tx, near, shown, received)
  /\ shown <= received

(* What a step does to the messages on the way: what LossyLink allows.     *)
OnTheWay == Pending(far, line, tx, near)
Arrives == /\ received' = received + 1 /\ shown' = shown
           /\ OnTheWay' = OnTheWay \cup {received + 1}
Loses == OnTheWay' \subseteq OnTheWay /\ received' = received /\ shown' = shown
Leaves == /\ shown' \in OnTheWay /\ \A m \in OnTheWay : shown' <= m
          /\ OnTheWay' = OnTheWay \ {shown'} /\ received' = received

LEMMA Numbers ==
  /\ MaxMessages \in Nat /\ Messages = 1 .. MaxMessages
  /\ \A m \in Messages : Length[m] \in 1 .. MaxLength
  /\ MaxLength \in Nat /\ Garbage \notin Messages
  /\ \A b \in Bytes : b # Noise => b.of \in Messages /\ b.at \in 0 .. MaxLength
  /\ Noise \in Bytes /\ Noise.of = Garbage
<1>1. MaxMessages \in Nat /\ Messages = 1 .. MaxMessages /\ MaxLength \in Nat
  BY LengthAssumption, LenProperties DEF MaxMessages, Messages
<1>2. \A m \in Messages : Length[m] \in 1 .. MaxLength
  BY LengthAssumption DEF Messages
<1>3. Garbage \notin Messages
  BY <1>1 DEF Garbage
<1>4. \A b \in Bytes : b # Noise => b.of \in Messages /\ b.at \in 0 .. MaxLength
  BY DEF Bytes
<1>5. Noise \in Bytes /\ Noise.of = Garbage
  BY DEF Bytes, Noise, Garbage
<1> QED BY <1>1, <1>2, <1>3, <1>4, <1>5

LEMMA ByteOrderIs ==
  \A a, b \in Bytes :
    <<a, b>> \in ByteOrder <=> a.of < b.of \/ (a.of = b.of /\ a.at < b.at)
BY DEF ByteOrder

LEMMA MessageOrderIs ==
  \A m, n \in Messages : <<m, n>> \in MessageOrder <=> m < n
BY DEF MessageOrder

LEMMA OnTheLineTypes ==
  ASSUME NEW F, NEW L, NEW T, NEW N, Types(F, L, T, N)
  PROVE  /\ \A b \in OnTheLine(L, T) : b \in Bytes /\ b # Noise /\ b.of \in Messages
         /\ Entries(F, Garbage) \subseteq Messages /\ Entries(N, Garbage) \subseteq Messages
<1>1. Entries(L, Noise) \subseteq Bytes /\ Entries(T, Noise) \subseteq Bytes
  BY EntriesOf DEF Types
<1>2. \A b \in OnTheLine(L, T) : b # Noise
  BY DEF OnTheLine, Entries
<1>3. Entries(F, Garbage) \subseteq Messages \cup {Garbage} /\ Garbage \notin Entries(F, Garbage)
  BY EntriesOf DEF Types, Entries
<1>4. Entries(N, Garbage) \subseteq Messages
  BY EntriesOf DEF Types
<1> QED BY <1>1, <1>2, <1>3, <1>4, Numbers DEF OnTheLine

LEMMA PendingIs ==
  ASSUME NEW F, NEW L, NEW T, NEW N, Types(F, L, T, N)
  PROVE  Genuine(F) \cup ({(L \o T)[k].of : k \in DOMAIN (L \o T)} \ {Garbage}) \cup Genuine(N)
           = Pending(F, L, T, N)
<1> DEFINE q == L \o T
<1>1. /\ F \in Seq(Messages \cup {Garbage}) /\ N \in Seq(Messages)
      /\ L \in Seq(Bytes) /\ T \in Seq(Bytes)
  BY DEF Types
<1>2. Genuine(F) = Entries(F, Garbage) /\ Genuine(N) = Entries(N, Garbage)
  BY <1>1, LenProperties DEF Genuine, Entries
<1>3. /\ q \in Seq(Bytes)
      /\ Entries(q, Noise) = Entries(L, Noise) \cup Entries(T, Noise)
  <2> DEFINE All == Bytes \X Bytes
  <2>1. Chain(L, Noise, All) /\ Chain(T, Noise, All)
    BY <1>1 DEF Chain
  <2>2. \A a \in Entries(L, Noise), b \in Entries(T, Noise) : <<a, b>> \in All
    BY <1>1, EntriesOf
  <2> HIDE DEF All
  <2> QED BY <1>1, <2>1, <2>2, ConcatOfChains
<1> HIDE DEF q
<1>4. \A k \in 1 .. Len(q) : q[k] \in Bytes
  BY <1>3
<1>5. {q[k].of : k \in DOMAIN q} \ {Garbage} = {b.of : b \in Entries(q, Noise)}
  <2>1. DOMAIN q = 1 .. Len(q)
    BY <1>3, LenProperties
  <2>2. \A k \in 1 .. Len(q) : q[k].of # Garbage <=> q[k] # Noise
    BY <1>4, Numbers
  <2> QED BY <2>1, <2>2 DEF Entries
<1> QED BY <1>2, <1>3, <1>5 DEF Pending, OnTheLine, q
-----------------------------------------------------------------------------
(* Messages or bytes are lost, anywhere.                                   *)
LEMMA OrderLose ==
  ASSUME NEW F, NEW L, NEW T, NEW N, NEW s, NEW r, OrderOk(F, L, T, N, s, r),
         NEW f, NEW l, NEW t, NEW n,
         Part(f, F, Garbage), Part(l, L, Noise), Part(t, T, Noise), Part(n, N, Garbage)
  PROVE  /\ OrderOk(f, l, t, n, s, r)
         /\ Pending(f, l, t, n) \subseteq Pending(F, L, T, N)
<1>1. /\ Entries(f, Garbage) \subseteq Entries(F, Garbage)
      /\ Entries(l, Noise) \subseteq Entries(L, Noise)
      /\ Entries(t, Noise) \subseteq Entries(T, Noise)
      /\ Entries(n, Garbage) \subseteq Entries(N, Garbage)
  BY DEF Part
<1>2. OnTheLine(l, t) \subseteq OnTheLine(L, T)
  BY <1>1 DEF OnTheLine
<1>3. Pending(f, l, t, n) \subseteq Pending(F, L, T, N)
  BY <1>1, <1>2 DEF Pending
<1>4. Ordered(f, l, t, n)
  BY <1>1 DEF OrderOk, Ordered, Part
<1>5. Between(f, l, t, n)
  BY <1>1, <1>2 DEF OrderOk, Between
<1> QED BY <1>3, <1>4, <1>5 DEF OrderOk

LEMMA OrderReceive ==
  ASSUME NEW F, NEW L, NEW T, NEW N, NEW s, NEW r \in Nat, OrderOk(F, L, T, N, s, r),
         Types(F, L, T, N), r + 1 \in Messages, s \in Nat, s <= r
  PROVE  /\ Types(F, L, T, Append(N, r + 1))
         /\ OrderOk(F, L, T, Append(N, r + 1), s, r + 1)
         /\ Pending(F, L, T, Append(N, r + 1)) = Pending(F, L, T, N) \cup {r + 1}
<1> DEFINE n == Append(N, r + 1)
<1>1. /\ Chain(N, Garbage, MessageOrder) /\ N \in Seq(Messages)
      /\ \A m \in Entries(N, Garbage) : m \in Messages /\ m <= r
  BY OnTheLineTypes DEF OrderOk, Ordered, Pending, Types
<1>2. \A m \in Entries(N, Garbage) : <<m, r + 1>> \in MessageOrder
  BY <1>1, Numbers, MessageOrderIs
<1>3. /\ n \in Seq(Messages) /\ Chain(n, Garbage, MessageOrder)
      /\ Entries(n, Garbage) = Entries(N, Garbage) \cup {r + 1}
  <2> DEFINE x == r + 1
  <2>1. /\ x \in Messages /\ x # Garbage
        /\ \A m \in Entries(N, Garbage) : <<m, x>> \in MessageOrder
    BY <1>2, Numbers
  <2> HIDE DEF x
  <2>2. Append(N, x) \in Seq(Messages)
    BY <1>1, <2>1, AppendProperties
  <2>3. Chain(Append(N, x), Garbage, MessageOrder)
    BY <1>1, <2>1, AppendToChain
  <2>4. Entries(Append(N, x), Garbage) = Entries(N, Garbage) \cup {x}
    BY <1>1, <2>1, AppendEntries
  <2> QED BY <2>2, <2>3, <2>4 DEF x
<1> HIDE DEF n
<1>5. Pending(F, L, T, n) = Pending(F, L, T, N) \cup {r + 1}
  BY <1>3 DEF Pending
<1>6. \A m \in Pending(F, L, T, N) : m \in Nat /\ s < m /\ m <= r
  <2>1. Pending(F, L, T, N) \subseteq Messages
    BY OnTheLineTypes DEF Pending
  <2> QED BY <2>1, Numbers DEF OrderOk
<1>7. Ordered(F, L, T, n)
  BY <1>3 DEF OrderOk, Ordered
<1>8. Between(F, L, T, n)
  <2>1. \A m \in Entries(F, Garbage) : m < r + 1
    BY <1>6 DEF Pending
  <2>2. \A b \in OnTheLine(L, T) : b.of < r + 1
    BY <1>6 DEF Pending
  <2> QED BY <1>3, <2>1, <2>2 DEF OrderOk, Between
<1>9. \A m \in Pending(F, L, T, n) : s < m /\ m <= r + 1
  BY <1>5, <1>6
<1> QED BY <1>3, <1>5, <1>7, <1>8, <1>9 DEF OrderOk, Types, n

LEMMA FrameProperties ==
  ASSUME NEW m \in Messages
  PROVE  /\ Head(Frame(m)) = [of |-> m, at |-> 0] /\ Head(Frame(m)) \in Bytes
         /\ Tail(Frame(m)) \in Seq(Bytes) /\ Len(Tail(Frame(m))) = Length[m]
         /\ \A k \in 1 .. Length[m] : Tail(Frame(m))[k] = [of |-> m, at |-> k]
<1>1. Length[m] \in 1 .. MaxLength /\ MaxLength \in Nat
  BY Numbers
<1>2. \A k \in 0 .. Length[m] : [of |-> m, at |-> k] \in Bytes
  BY <1>1 DEF Bytes
<1>3. /\ Frame(m) \in Seq(Bytes) /\ Len(Frame(m)) = Length[m] + 1
      /\ \A k \in 1 .. Length[m] + 1 : Frame(m)[k] = [of |-> m, at |-> k - 1]
  <2>1. \A k \in 1 .. Length[m] + 1 : [of |-> m, at |-> k - 1] \in Bytes
    BY <1>1, <1>2
  <2> DEFINE g == Frame(m)
  <2>2. /\ g \in [1 .. Length[m] + 1 -> Bytes]
        /\ \A k \in 1 .. Length[m] + 1 : g[k] = [of |-> m, at |-> k - 1]
    BY <2>1 DEF Frame
  <2>3. Length[m] + 1 \in Nat
    BY <1>1
  <2> HIDE DEF g
  <2>4. g \in Seq(Bytes) /\ Len(g) = Length[m] + 1
    BY <2>2, <2>3
  <2> QED BY <2>2, <2>4 DEF g
<1>4. Frame(m) # <<>> /\ Head(Frame(m)) = Frame(m)[1]
  BY <1>1, <1>3
<1>5. /\ Tail(Frame(m)) \in Seq(Bytes) /\ Len(Tail(Frame(m))) = Length[m]
      /\ \A k \in 1 .. Length[m] : Tail(Frame(m))[k] = Frame(m)[k + 1]
  BY <1>1, <1>3, <1>4, HeadTailProperties
<1>6. Head(Frame(m)) = [of |-> m, at |-> 0] /\ Head(Frame(m)) \in Bytes
  <2>1. 1 \in 1 .. Length[m] + 1 /\ 1 - 1 = 0 /\ 0 \in 0 .. Length[m]
    BY <1>1
  <2> QED BY <1>2, <1>3, <1>4, <2>1
<1>7. \A k \in 1 .. Length[m] : Tail(Frame(m))[k] = [of |-> m, at |-> k]
  <2>1. \A k \in 1 .. Length[m] : k + 1 \in 1 .. Length[m] + 1 /\ (k + 1) - 1 = k
    BY <1>1
  <2> QED BY <1>3, <1>5, <2>1
<1> QED BY <1>5, <1>6, <1>7

(* The length of message m and the rest of its frame.                      *)
IsFrame(m, x, t) ==
  /\ m \in Messages
  /\ x \in Bytes /\ x = [of |-> m, at |-> 0]
  /\ t \in Seq(Bytes) /\ Len(t) = Length[m]
  /\ \A k \in 1 .. Length[m] : t[k] = [of |-> m, at |-> k]

LEMMA OrderTransmit ==
  ASSUME NEW F, NEW L, NEW N, NEW s, NEW r, OrderOk(F, L, <<>>, N, s, r),
         Types(F, L, <<>>, N), N # <<>>,
         NEW m, NEW x, NEW t, IsFrame(m, x, t), m = Head(N)
  PROVE  /\ Types(F, Append(L, x), t, Tail(N))
         /\ OrderOk(F, Append(L, x), t, Tail(N), s, r)
         /\ Pending(F, Append(L, x), t, Tail(N)) = Pending(F, L, <<>>, N)
<1> DEFINE n == Tail(N)
           l == Append(L, x)
<1>0. /\ m \in Messages
      /\ x \in Bytes /\ x = [of |-> m, at |-> 0]
      /\ t \in Seq(Bytes) /\ Len(t) = Length[m]
      /\ \A k \in 1 .. Length[m] : t[k] = [of |-> m, at |-> k]
  BY DEF IsFrame
<1> USE <1>0
<1>1. N \in Seq(Messages) /\ L \in Seq(Bytes) /\ n \in Seq(Messages)
  BY HeadTailProperties DEF Types
<1>2. x.of = m /\ x.at = 0 /\ \A k \in 1 .. Length[m] : t[k].of = m /\ t[k].at = k
  <2>1. \A k : [of |-> m, at |-> k].of = m /\ [of |-> m, at |-> k].at = k
    OBVIOUS
  <2>2. x.of = m /\ x.at = 0
    BY <2>1
  <2>3. ASSUME NEW k \in 1 .. Length[m]
        PROVE  t[k].of = m /\ t[k].at = k
    <3>1. t[k] = [of |-> m, at |-> k]
      OBVIOUS
    <3> QED BY <2>1, <3>1
  <2> QED BY <2>2, <2>3
<1>3. m # Garbage /\ Length[m] \in Nat /\ Length[m] > 0
  BY <1>1, Numbers
<1>4. /\ m \in Entries(N, Garbage)
      /\ \A k \in Entries(n, Garbage) : <<m, k>> \in MessageOrder
      /\ Entries(N, Garbage) \ {m} \subseteq Entries(n, Garbage)
      /\ Part(n, N, Garbage)
  BY <1>1, <1>3, HeadOfChain, PartTail DEF OrderOk, Ordered
<1>5. \A b \in Entries(L, Noise) : b \in Bytes /\ b.of < m
  <2>1. Entries(L, Noise) \subseteq OnTheLine(L, <<>>)
    BY DEF OnTheLine
  <2> QED BY <1>4, <2>1, OnTheLineTypes DEF OrderOk, Between
<1> HIDE DEF n
<1>7. x # Noise
  BY <1>2, <1>3 DEF Noise, Garbage
<1>8. /\ l \in Seq(Bytes) /\ Chain(l, Noise, ByteOrder)
      /\ Entries(l, Noise) = Entries(L, Noise) \cup {x}
  <2>1. \A b \in Entries(L, Noise) : <<b, x>> \in ByteOrder
    BY <1>2, <1>5, ByteOrderIs
  <2>2. Chain(L, Noise, ByteOrder)
    BY DEF OrderOk, Ordered
  <2>3. l \in Seq(Bytes)
    BY <1>1, AppendProperties
  <2>4. Chain(l, Noise, ByteOrder)
    BY <1>1, <2>1, <2>2, AppendToChain
  <2>5. Entries(l, Noise) = Entries(L, Noise) \cup {x}
    BY <1>1, <1>7, AppendEntries
  <2> QED BY <2>3, <2>4, <2>5
<1>9. \A k \in 1 .. Len(t) : t[k] \in Bytes /\ t[k].of = m /\ t[k].at = k
  BY <1>2
<1>10. \A b \in Entries(t, Noise) : b \in Bytes /\ b.of = m /\ b.at \in 1 .. Length[m]
  BY <1>9 DEF Entries
<1>11. Chain(t, Noise, ByteOrder)
  <2> SUFFICES ASSUME NEW i \in 1 .. Len(t), NEW j \in 1 .. Len(t), i < j
               PROVE  <<t[i], t[j]>> \in ByteOrder
    BY DEF Chain
  <2>1. /\ t[i] \in Bytes /\ t[i].of = m /\ t[i].at = i
        /\ t[j] \in Bytes /\ t[j].of = m /\ t[j].at = j
    BY <1>9
  <2> QED BY <2>1, ByteOrderIs
<1>12. \A a \in Entries(l, Noise), b \in Entries(t, Noise) : <<a, b>> \in ByteOrder
  <2> SUFFICES ASSUME NEW a \in Entries(l, Noise), NEW b \in Entries(t, Noise)
               PROVE  <<a, b>> \in ByteOrder
    OBVIOUS
  <2>1. b \in Bytes /\ b.of = m /\ b.at \in 1 .. Length[m]
    BY <1>10
  <2>2. a \in Bytes /\ (a.of < m \/ (a.of = m /\ a.at = 0))
    BY <1>2, <1>5, <1>8
  <2> QED BY <1>3, <2>1, <2>2, ByteOrderIs
<1>13. Entries(<<>>, Noise) = {} /\ OnTheLine(L, <<>>) = Entries(L, Noise)
  <2>1. Len(<<>>) = 0
    OBVIOUS
  <2>2. Entries(<<>>, Noise) = {}
    BY <2>1 DEF Entries
  <2> QED BY <2>2 DEF OnTheLine
<1>14. \A b \in OnTheLine(l, t) :
         b \in OnTheLine(L, <<>>) \/ (b.of = m /\ b.at \in 0 .. Length[m])
  BY <1>2, <1>3, <1>8, <1>10, <1>13 DEF OnTheLine
<1>15. OnTheLine(L, <<>>) \subseteq OnTheLine(l, t) /\ x \in OnTheLine(l, t) /\ x.of = m
  BY <1>2, <1>8, <1>13 DEF OnTheLine
<1>16. Pending(F, l, t, n) = Pending(F, L, <<>>, N)
  <2>1. {b.of : b \in OnTheLine(l, t)} = {b.of : b \in OnTheLine(L, <<>>)} \cup {m}
    BY <1>14, <1>15
  <2>2. Entries(N, Garbage) = Entries(n, Garbage) \cup {m}
    BY <1>4 DEF Part
  <2> QED BY <2>1, <2>2 DEF Pending
<1>17. Ordered(F, l, t, n)
  BY <1>4, <1>8, <1>11, <1>12 DEF OrderOk, Ordered, Part
<1>18. Between(F, l, t, n)
  <2>1. \A k \in Entries(n, Garbage) : k \in Entries(N, Garbage) /\ m < k
    <3>1. Entries(n, Garbage) \subseteq Entries(N, Garbage) /\ Entries(N, Garbage) \subseteq Messages
      BY <1>4, OnTheLineTypes DEF Part
    <3> QED BY <1>1, <1>4, <3>1, MessageOrderIs DEF n
  <2>2. \A b \in OnTheLine(l, t) : b.at <= Length[b.of]
    BY <1>3, <1>14 DEF OrderOk, Between
  <2>3. \A k \in Entries(F, Garbage), b \in OnTheLine(l, t) : k < b.of
    BY <1>4, <1>14 DEF OrderOk, Between
  <2>4. \A b \in OnTheLine(l, t), k \in Entries(n, Garbage) : b.of < k
    BY <1>14, <2>1 DEF OrderOk, Between
  <2>5. \A j \in Entries(F, Garbage), k \in Entries(n, Garbage) : j < k
    BY <2>1 DEF OrderOk, Between
  <2> QED BY <2>2, <2>3, <2>4, <2>5 DEF Between
<1>19. OrderOk(F, l, t, n, s, r)
  BY <1>16, <1>17, <1>18 DEF OrderOk
<1>20. Types(F, l, t, n)
  BY <1>1, <1>8 DEF Types, n
<1> QED BY <1>16, <1>19, <1>20 DEF n

LEMMA OrderRest ==
  ASSUME NEW F, NEW L, NEW T, NEW N, NEW s, NEW r, OrderOk(F, L, T, N, s, r),
         Types(F, L, T, N)
  PROVE  /\ Types(F, L \o T, <<>>, N)
         /\ OrderOk(F, L \o T, <<>>, N, s, r)
         /\ Pending(F, L \o T, <<>>, N) = Pending(F, L, T, N)
<1> DEFINE l == L \o T
<1>1. /\ L \in Seq(Bytes) /\ T \in Seq(Bytes)
      /\ Chain(L, Noise, ByteOrder) /\ Chain(T, Noise, ByteOrder)
      /\ \A a \in Entries(L, Noise), b \in Entries(T, Noise) : <<a, b>> \in ByteOrder
  BY DEF OrderOk, Ordered, Types
<1>2. /\ l \in Seq(Bytes) /\ Chain(l, Noise, ByteOrder)
      /\ Entries(l, Noise) = Entries(L, Noise) \cup Entries(T, Noise)
  BY <1>1, ConcatOfChains
<1> HIDE DEF l
<1>3. Len(<<>>) = 0 /\ <<>> \in Seq(Bytes)
  OBVIOUS
<1>4. Entries(<<>>, Noise) = {} /\ Chain(<<>>, Noise, ByteOrder)
  BY <1>3 DEF Entries, Chain
<1>5. OnTheLine(l, <<>>) = OnTheLine(L, T)
  BY <1>2, <1>4 DEF OnTheLine
<1>6. Pending(F, l, <<>>, N) = Pending(F, L, T, N)
  BY <1>5 DEF Pending
<1>7. Ordered(F, l, <<>>, N)
  BY <1>2, <1>4 DEF OrderOk, Ordered
<1>8. Between(F, l, <<>>, N)
  BY <1>5 DEF OrderOk, Between
<1>9. OrderOk(F, l, <<>>, N, s, r)
  BY <1>6, <1>7, <1>8 DEF OrderOk
<1> QED BY <1>2, <1>3, <1>6, <1>9 DEF Types, l

StartsWith(L, k, m) ==
  m \in Messages /\ k \in 1 .. Len(L) /\ SubSeq(L, 1, k) = Tail(Frame(m))

(* The far board decodes message m, whose bytes are the first on the line. *)
LEMMA OrderAccept ==
  ASSUME NEW F, NEW L, NEW T, NEW N, NEW s, NEW r, OrderOk(F, L, T, N, s, r),
         Types(F, L, T, N), NEW m, NEW k, StartsWith(L, k, m)
  PROVE  /\ Types(Append(F, m), SubSeq(L, k + 1, Len(L)), T, N)
         /\ OrderOk(Append(F, m), SubSeq(L, k + 1, Len(L)), T, N, s, r)
         /\ Pending(Append(F, m), SubSeq(L, k + 1, Len(L)), T, N)
              \subseteq Pending(F, L, T, N)
         /\ \A b \in OnTheLine(SubSeq(L, k + 1, Len(L)), T) : m < b.of
<1> DEFINE l == SubSeq(L, k + 1, Len(L))
           f == Append(F, m)
<1>0. m \in Messages /\ k \in 1 .. Len(L) /\ SubSeq(L, 1, k) = Tail(Frame(m))
  BY DEF StartsWith
<1> USE <1>0
<1>1. L \in Seq(Bytes) /\ T \in Seq(Bytes) /\ Len(L) \in Nat
  BY LenProperties DEF Types
<1>2. k = Length[m] /\ \A i \in 1 .. k : L[i] = [of |-> m, at |-> i]
  <2> DEFINE p == SubSeq(L, 1, k)
  <2>1. \A i \in 1 .. k : L[i] \in Bytes
    BY <1>1
  <2>2. Len(p) = k /\ \A i \in 1 .. k : p[i] = L[i]
    <3>1. /\ Len(p) = IF 1 <= k THEN k - 1 + 1 ELSE 0
          /\ \A i \in 1 .. k - 1 + 1 : p[i] = L[1 + i - 1]
      BY <1>1, <2>1, SubSeqProperties
    <3> HIDE DEF p
    <3>2. /\ (IF 1 <= k THEN k - 1 + 1 ELSE 0) = k /\ k - 1 + 1 = k
          /\ \A i \in 1 .. k : 1 + i - 1 = i
      OBVIOUS
    <3> QED BY <3>1, <3>2
  <2>3. p = Tail(Frame(m))
    OBVIOUS
  <2> HIDE DEF p
  <2> QED BY <2>2, <2>3, FrameProperties
<1>3. /\ l \in Seq(Bytes) /\ Part(l, L, Noise) /\ Len(l) \in Nat /\ Len(l) = Len(L) - k
      /\ \A i \in 1 .. Len(l) : l[i] = L[k + i]
  <2>1. k + 1 \in Int /\ k + 1 >= 1
    OBVIOUS
  <2>2. l \in Seq(Bytes) /\ Part(l, L, Noise)
    BY <1>1, <2>1, PartSubSeq
  <2>3. \A i \in k + 1 .. Len(L) : L[i] \in Bytes
    BY <1>1
  <2>4. /\ Len(l) = IF k + 1 <= Len(L) THEN Len(L) - (k + 1) + 1 ELSE 0
        /\ \A i \in 1 .. Len(L) - (k + 1) + 1 : l[i] = L[(k + 1) + i - 1]
    BY <1>1, <2>1, <2>3, SubSeqProperties
  <2>5. Len(l) = Len(L) - k /\ Len(l) \in Nat
    BY <1>1, <2>4
  <2>6. \A i \in 1 .. Len(l) : i \in 1 .. Len(L) - (k + 1) + 1 /\ (k + 1) + i - 1 = k + i
    BY <1>1, <2>5
  <2> QED BY <2>2, <2>4, <2>5, <2>6
<1> DEFINE x == [of |-> m, at |-> Length[m]]
<1>4. Length[m] \in 1 .. MaxLength /\ MaxLength \in Nat /\ m # Garbage
  BY Numbers
<1>5. x \in Bytes /\ x # Noise /\ L[k] = x /\ x \in Entries(L, Noise)
  <2>1. L[k] = x
    BY <1>2
  <2>2. L[k] \in Bytes
    BY <1>1
  <2>3. x # Noise
    BY <1>4 DEF Noise, Garbage
  <2> QED BY <2>1, <2>2, <2>3 DEF Entries
<1>6. x.of = m /\ x.at = Length[m]
  OBVIOUS
<1> HIDE DEF x
<1>7. x \in OnTheLine(L, T)
  BY <1>5 DEF OnTheLine
<1>8. \A b \in OnTheLine(l, T) : b \in OnTheLine(L, T) /\ b \in Bytes /\ <<x, b>> \in ByteOrder
  <2>1. ASSUME NEW b \in Entries(l, Noise)
        PROVE  <<x, b>> \in ByteOrder
    <3>1. PICK i \in 1 .. Len(l) : b = l[i] /\ b # Noise
      BY DEF Entries
    <3>2. k + i \in 1 .. Len(L) /\ k < k + i /\ b = L[k + i]
      BY <1>1, <1>3, <3>1
    <3> QED BY <1>5, <3>1, <3>2 DEF OrderOk, Ordered, Chain
  <2>2. \A b \in Entries(T, Noise) : <<x, b>> \in ByteOrder
    BY <1>5 DEF OrderOk, Ordered
  <2>3. OnTheLine(l, T) \subseteq OnTheLine(L, T)
    BY <1>3 DEF OnTheLine, Part
  <2>4. \A b \in OnTheLine(L, T) : b \in Bytes
    BY OnTheLineTypes
  <2> QED BY <2>1, <2>2, <2>3, <2>4 DEF OnTheLine
<1>9. \A b \in OnTheLine(l, T) : m < b.of
  <2> SUFFICES ASSUME NEW b \in OnTheLine(l, T)
               PROVE  m < b.of
    OBVIOUS
  <2>1. b \in Bytes /\ (x.of < b.of \/ (x.of = b.of /\ x.at < b.at))
    BY <1>5, <1>8, ByteOrderIs
  <2>2. b.at <= Length[b.of]
    BY <1>8 DEF OrderOk, Between
  <2>3. b # Noise /\ b.of \in Messages /\ b.at \in 0 .. MaxLength
    BY <1>8, OnTheLineTypes, Numbers
  <2>4. ~(x.of = b.of /\ x.at < b.at)
    BY <1>4, <1>6, <2>2, <2>3
  <2> QED BY <1>6, <2>1, <2>4
<1>10. /\ f \in Seq(Messages \cup {Garbage}) /\ Chain(f, Garbage, MessageOrder)
       /\ Entries(f, Garbage) = Entries(F, Garbage) \cup {m}
  <2>1. F \in Seq(Messages \cup {Garbage}) /\ Chain(F, Garbage, MessageOrder) /\ m \in Messages \cup {Garbage}
    BY DEF Types, OrderOk, Ordered
  <2>2. \A a \in Entries(F, Garbage) : a \in Messages /\ a < m
    BY <1>6, <1>7, OnTheLineTypes DEF OrderOk, Between
  <2>3. \A a \in Entries(F, Garbage) : <<a, m>> \in MessageOrder
    BY <2>2, MessageOrderIs
  <2>4. f \in Seq(Messages \cup {Garbage})
    BY <2>1, AppendProperties
  <2>5. Chain(f, Garbage, MessageOrder)
    BY <2>1, <2>3, AppendToChain
  <2>6. Entries(f, Garbage) = Entries(F, Garbage) \cup {m}
    BY <1>4, <2>1, AppendEntries
  <2> QED BY <2>4, <2>5, <2>6
<1>11. Ordered(f, l, T, N)
  BY <1>3, <1>10 DEF OrderOk, Ordered, Part
<1>12. Between(f, l, T, N)
  <2>1. \A n \in Entries(N, Garbage) : m < n
    BY <1>6, <1>7 DEF OrderOk, Between
  <2> QED BY <1>8, <1>9, <1>10, <2>1 DEF OrderOk, Between
<1>14. Pending(f, l, T, N) \subseteq Pending(F, L, T, N)
  <2>1. {b.of : b \in OnTheLine(l, T)} \subseteq {b.of : b \in OnTheLine(L, T)}
    BY <1>8
  <2>2. m \in {b.of : b \in OnTheLine(L, T)}
    BY <1>6, <1>7
  <2> QED BY <1>10, <2>1, <2>2 DEF Pending
<1>15. OrderOk(f, l, T, N, s, r)
  BY <1>11, <1>12, <1>14 DEF OrderOk
<1> QED BY <1>3, <1>9, <1>10, <1>14, <1>15 DEF Types

LEMMA OrderLeave ==
  ASSUME NEW F, NEW L, NEW T, NEW N, NEW s, NEW r, OrderOk(F, L, T, N, s, r),
         Types(F, L, T, N), F # <<>>, Head(F) # Garbage
  PROVE  /\ OrderOk(Tail(F), L, T, N, Head(F), r)
         /\ Head(F) \in Pending(F, L, T, N)
         /\ \A m \in Pending(F, L, T, N) : Head(F) <= m
         /\ Pending(Tail(F), L, T, N) = Pending(F, L, T, N) \ {Head(F)}
<1> DEFINE h == Head(F)
           f == Tail(F)
<1>1. F \in Seq(Messages \cup {Garbage}) /\ h \in Messages /\ Chain(F, Garbage, MessageOrder)
  BY HeadTailProperties DEF Types, OrderOk, Ordered
<1>2. /\ h \in Entries(F, Garbage)
      /\ \A b \in Entries(f, Garbage) : <<h, b>> \in MessageOrder
      /\ Entries(F, Garbage) \ {h} \subseteq Entries(f, Garbage)
      /\ f \in Seq(Messages \cup {Garbage}) /\ Part(f, F, Garbage)
  BY <1>1, HeadOfChain, PartTail
<1>3. OrderOk(f, L, T, N, s, r) /\ Pending(f, L, T, N) \subseteq Pending(F, L, T, N)
  BY <1>2, OrderLose, PartSame
<1> HIDE DEF h, f
<1>4. h \in Nat
  BY <1>1, Numbers
<1>5. \A m \in Pending(f, L, T, N) : h < m
  <2>1. \A m \in Entries(f, Garbage) : h < m
    <3>1. Entries(f, Garbage) \subseteq Messages
      BY <1>2, OnTheLineTypes DEF Part
    <3> QED BY <1>1, <1>2, <3>1, MessageOrderIs
  <2>2. \A b \in OnTheLine(L, T) : h < b.of
    BY <1>2 DEF OrderOk, Between
  <2>3. \A n \in Entries(N, Garbage) : h < n
    BY <1>2 DEF OrderOk, Between
  <2> QED BY <2>1, <2>2, <2>3 DEF Pending
<1>6. Pending(F, L, T, N) = Pending(f, L, T, N) \cup {h}
  BY <1>2 DEF Pending, Part
<1>7. h \notin Pending(f, L, T, N)
  BY <1>4, <1>5
<1>8. \A m \in Pending(F, L, T, N) : h <= m
  <2>1. Pending(F, L, T, N) \subseteq Messages
    BY OnTheLineTypes DEF Pending
  <2> QED BY <1>4, <1>5, <1>6, <2>1, Numbers
<1>9. OrderOk(f, L, T, N, h, r)
  BY <1>3, <1>5 DEF OrderOk
<1> QED BY <1>6, <1>7, <1>8, <1>9 DEF h, f
-----------------------------------------------------------------------------
LEMMA InvariantInit == Init => IInv /\ OnTheWay = {}
<1> SUFFICES ASSUME Init
             PROVE  IInv /\ OnTheWay = {}
  OBVIOUS
<1>1. far = <<>> /\ line = <<>> /\ tx = <<>> /\ near = <<>>
  BY DEF Init
<1>2. Len(<<>>) = 0 /\ \A S : <<>> \in Seq(S)
  OBVIOUS
<1>3. \A z : Entries(<<>>, z) = {}
  BY <1>2 DEF Entries
<1>4. \A z, R : Chain(<<>>, z, R)
  BY <1>2 DEF Chain
<1>5. OnTheLine(<<>>, <<>>) = {} /\ Pending(<<>>, <<>>, <<>>, <<>>) = {}
  BY <1>3 DEF OnTheLine, Pending
<1>6. Ordered(<<>>, <<>>, <<>>, <<>>) /\ Between(<<>>, <<>>, <<>>, <<>>)
  BY <1>3, <1>4, <1>5 DEF Ordered, Between
<1>7. Scalars /\ shown <= received
  BY Numbers, BoundAssumption DEF Init, Scalars
<1> QED BY <1>1, <1>2, <1>5, <1>6, <1>7 DEF IInv, OnTheWay, Types, OrderOk

(* A step that only loses.                                                 *)
LEMMA LosesOk ==
  ASSUME IInv, Types(far', line', tx', near'), Scalars',
         Part(far', far, Garbage), Part(line', line, Noise),
         Part(tx', tx, Noise), Part(near', near, Garbage),
         received' = received, shown' = shown
  PROVE  IInv' /\ Loses
<1>1. /\ OrderOk(far', line', tx', near', shown, received)
      /\ Pending(far', line', tx', near') \subseteq Pending(far, line, tx, near)
  BY OrderLose DEF IInv
<1> QED BY <1>1 DEF IInv, Loses, OnTheWay

LEMMA StepOk ==
  ASSUME IInv, [Next]_vars
  PROVE  IInv' /\ (Arrives \/ Loses \/ Leaves)
<1>1. /\ tx \in Seq(Bytes) /\ line \in Seq(Bytes)
      /\ near \in Seq(Messages) /\ far \in Seq(Messages \cup {Garbage})
      /\ Types(far, line, tx, near) /\ Scalars /\ shown <= received
      /\ OrderOk(far, line, tx, near, shown, received)
  BY DEF IInv, Types
<1>2. <<>> \in Seq(Bytes) /\ <<>> \in Seq(Messages) /\ <<>> \in Seq(Messages \cup {Garbage})
  OBVIOUS
<1>3. Noise \in Bytes /\ AtLength \in {AtLength} \cup 1 .. MaxLength
  BY Numbers
<1>4. CASE Receive
  <2>1. /\ received + 1 \in Messages /\ received \in Nat /\ shown \in Nat
        /\ received + 1 \in 0 .. MaxMessages
    BY <1>1, <1>4, Numbers DEF Receive, Scalars
  <2>2. /\ near' = Append(near, received + 1) /\ received' = received + 1
        /\ UNCHANGED <<tx, line, rx, far, shown, faults>>
    BY <1>4 DEF Receive, uart
  <2>3. /\ Types(far, line, tx, Append(near, received + 1))
        /\ OrderOk(far, line, tx, Append(near, received + 1), shown, received + 1)
        /\ Pending(far, line, tx, Append(near, received + 1)) =
             Pending(far, line, tx, near) \cup {received + 1}
    <3>1. /\ Types(far, line, tx, near) /\ shown <= received
          /\ OrderOk(far, line, tx, near, shown, received)
      BY <1>1
    <3> QED BY <2>1, <3>1, OrderReceive
  <2>4. Scalars' /\ shown' <= received'
    BY <1>1, <2>1, <2>2 DEF Scalars
  <2>5. Arrives
    BY <2>2, <2>3 DEF Arrives, OnTheWay
  <2> QED BY <2>2, <2>3, <2>4, <2>5 DEF IInv
<1>5. CASE Transmit
  <2> DEFINE m == Head(near)
             x == Head(Frame(m))
             t == Tail(Frame(m))
             l == Append(line, x)
  <2>1. /\ near # <<>> /\ tx = <<>> /\ line' = l /\ tx' = t
        /\ near' = Tail(near) /\ UNCHANGED <<rx, received, far, shown, faults>>
    BY <1>5 DEF Transmit, WriteLength, SenderIdle
  <2>2. m \in Messages
    BY <1>1, <2>1, HeadTailProperties
  <2>3. /\ x = [of |-> m, at |-> 0] /\ x \in Bytes
        /\ t \in Seq(Bytes) /\ Len(t) = Length[m]
        /\ \A k \in 1 .. Length[m] : t[k] = [of |-> m, at |-> k]
    BY <2>2, FrameProperties
  <2>4. Types(far, line, <<>>, near) /\ OrderOk(far, line, <<>>, near, shown, received)
    BY <1>1, <2>1
  <2>5. m = Head(near) /\ l = Append(line, x) /\ IsFrame(m, x, t)
    BY <2>2, <2>3 DEF IsFrame
  <2> HIDE DEF m, x, t, l
  <2>6. /\ Types(far, l, t, Tail(near))
        /\ OrderOk(far, l, t, Tail(near), shown, received)
        /\ Pending(far, l, t, Tail(near)) = Pending(far, line, <<>>, near)
    BY <2>1, <2>4, <2>5, OrderTransmit
  <2>7. Scalars' /\ shown' <= received'
    BY <1>1, <2>1 DEF Scalars
  <2>8. Loses
    BY <2>1, <2>6 DEF Loses, OnTheWay
  <2> QED BY <2>1, <2>6, <2>7, <2>8 DEF IInv
<1>6. CASE TransmitRest
  <2>1. /\ line' = line \o tx /\ tx' = <<>>
        /\ UNCHANGED <<rx, received, near, far, shown, faults>>
    BY <1>6 DEF TransmitRest, WriteMessage
  <2>2. /\ Types(far, line \o tx, <<>>, near)
        /\ OrderOk(far, line \o tx, <<>>, near, shown, received)
        /\ Pending(far, line \o tx, <<>>, near) = Pending(far, line, tx, near)
    BY <1>1, OrderRest
  <2>3. Scalars' /\ shown' <= received'
    BY <1>1, <2>1 DEF Scalars
  <2>4. Loses
    BY <2>1, <2>2 DEF Loses, OnTheWay
  <2> QED BY <2>1, <2>2, <2>3, <2>4 DEF IInv
<1>7. CASE Wait
  <2>1. /\ line # <<>> /\ line' = Tail(line) /\ rx' \in Read(Head(line))
        /\ UNCHANGED <<tx, received, near, far, shown, faults>>
    BY <1>7 DEF Wait, ReadLength
  <2>2. Tail(line) \in Seq(Bytes) /\ Part(Tail(line), line, Noise) /\ Head(line) \in Bytes
    BY <1>1, <2>1, PartTail, HeadTailProperties
  <2>3. rx' \in {AtLength} \cup 1 .. MaxLength
    <3>1. CASE IsLength(Head(line))
      <4>1. Length[Head(line).of] \in 1 .. MaxLength
        BY <2>2, <3>1, Numbers DEF IsLength
      <4> QED BY <2>1, <3>1, <4>1 DEF Read
    <3>2. CASE ~IsLength(Head(line))
      BY <2>1, <3>2 DEF Read
    <3> QED BY <3>1, <3>2
  <2>4. Types(far', line', tx', near') /\ Scalars'
    BY <1>1, <2>1, <2>2, <2>3 DEF Types, Scalars
  <2>5. /\ Part(far', far, Garbage) /\ Part(line', line, Noise)
        /\ Part(tx', tx, Noise) /\ Part(near', near, Garbage)
    BY <2>1, <2>2, PartSame
  <2> QED BY <2>1, <2>4, <2>5, LosesOk
<1>8. CASE Accept
  <2>1. PICK result \in {<<>>, <<Garbage>>} \cup {<<m>> : m \in Messages} :
          /\ rx # AtLength /\ Len(line) >= rx
          /\ result \in Decoded(SubSeq(line, 1, rx))
          /\ line' = SubSeq(line, rx + 1, Len(line)) /\ rx' = AtLength
          /\ far' = far \o result
          /\ UNCHANGED <<tx, received, near, shown, faults>>
    BY <1>8 DEF Accept, ReadMessage
  <2>2. rx \in 1 .. MaxLength /\ MaxLength \in Nat /\ Len(line) \in Nat
    BY <1>1, <2>1, Numbers, LenProperties DEF Scalars
  <2>3. rx \in 1 .. Len(line) /\ rx + 1 \in Int /\ rx + 1 >= 1
    BY <2>1, <2>2
  <2>4. Scalars' /\ shown' <= received'
    BY <1>1, <2>1 DEF Scalars
  <2>5. line' \in Seq(Bytes) /\ Part(line', line, Noise)
    BY <1>1, <2>1, <2>3, PartSubSeq
  <2>6. CASE result = <<>> \/ result = <<Garbage>>
    <3>1. far' \in Seq(Messages \cup {Garbage}) /\ Part(far', far, Garbage)
      <4>1. CASE result = <<>>
        <5>1. far' = far
          BY <1>1, <2>1, <4>1, ConcatEmptySeq
        <5> QED BY <1>1, <5>1, PartSame
      <4>2. CASE result = <<Garbage>>
        <5>1. Garbage \in Messages \cup {Garbage}
          OBVIOUS
        <5>2. far' = Append(far, Garbage)
          BY <1>1, <2>1, <4>2, <5>1, AppendIsConcat
        <5> QED BY <1>1, <5>1, <5>2, PartAdded
      <4> QED BY <2>6, <4>1, <4>2
    <3>2. Types(far', line', tx', near')
      BY <1>1, <2>1, <2>5, <3>1 DEF Types
    <3>3. Part(tx', tx, Noise) /\ Part(near', near, Garbage)
      BY <2>1, PartSame
    <3> QED BY <2>1, <2>4, <2>5, <3>1, <3>2, <3>3, LosesOk
  <2>7. ASSUME NEW m \in Messages, result = <<m>>
        PROVE  IInv' /\ Loses
    <3>1. SubSeq(line, 1, rx) = Tail(Frame(m))
      <4> DEFINE b == SubSeq(line, 1, rx)
      <4>1. <<m>> # <<>> /\ <<m>> # <<Garbage>>
        BY Numbers
      <4> HIDE DEF b
      <4>2. Decoded(b) = IF Head(b).of # Garbage /\ b = Tail(Frame(Head(b).of))
                         THEN {<<Head(b).of>>} ELSE {<<>>, <<Garbage>>}
        BY DEF Decoded
      <4>3. <<m>> \in Decoded(b)
        BY <2>1, <2>7 DEF b
      <4>4. <<m>> = <<Head(b).of>> /\ b = Tail(Frame(Head(b).of))
        BY <4>1, <4>2, <4>3
      <4>5. m = Head(b).of
        BY <4>4
      <4> QED BY <4>4, <4>5 DEF b
    <3>2. far' = Append(far, m)
      <4>1. m \in Messages \cup {Garbage}
        OBVIOUS
      <4> QED BY <1>1, <2>1, <2>7, <4>1, AppendIsConcat
    <3>3. /\ Types(far', line', tx, near)
          /\ OrderOk(far', line', tx, near, shown, received)
          /\ Pending(far', line', tx, near) \subseteq Pending(far, line, tx, near)
      <4>1. StartsWith(line, rx, m)
        BY <2>3, <3>1 DEF StartsWith
      <4> QED BY <1>1, <2>1, <3>2, <4>1, OrderAccept
    <3> QED BY <2>1, <2>4, <3>3 DEF IInv, Loses, OnTheWay
  <2> QED BY <2>1, <2>6, <2>7
<1>9. ASSUME ReadTimesOut, UNCHANGED <<received, near, far, shown>>, faults' \in 0 .. MaxFaults
      PROVE  IInv' /\ Loses
  <2>1. line' = <<>> /\ rx' = AtLength /\ tx' = tx
    BY <1>9 DEF ReadTimesOut
  <2>2. Types(far', line', tx', near') /\ Scalars'
    BY <1>1, <1>2, <1>3, <1>9, <2>1 DEF Types, Scalars
  <2>3. /\ Part(far', far, Garbage) /\ Part(line', line, Noise)
        /\ Part(tx', tx, Noise) /\ Part(near', near, Garbage)
    BY <1>9, <2>1, PartSame, PartEmpty
  <2> QED BY <1>9, <2>2, <2>3, LosesOk
<1>10. CASE GiveUp
  BY <1>1, <1>9, <1>10 DEF GiveUp, Scalars
<1>11. CASE Leave
  <2>1. /\ far # <<>> /\ far' = Tail(far)
        /\ shown' = IF Head(far) = Garbage THEN shown ELSE Head(far)
        /\ UNCHANGED <<tx, line, rx, received, near, faults>>
    BY <1>11 DEF Leave, uart
  <2>2. Tail(far) \in Seq(Messages \cup {Garbage}) /\ Part(Tail(far), far, Garbage)
    BY <1>1, <2>1, PartTail
  <2>3. Types(far', line', tx', near')
    BY <1>1, <2>1, <2>2 DEF Types
  <2>4. CASE Head(far) = Garbage
    <3>1. shown' = shown
      BY <2>1, <2>4
    <3>2. Scalars'
      BY <1>1, <2>1, <3>1 DEF Scalars
    <3>3. /\ Part(far', far, Garbage) /\ Part(line', line, Noise)
          /\ Part(tx', tx, Noise) /\ Part(near', near, Garbage)
      BY <2>1, <2>2, PartSame
    <3> QED BY <2>1, <2>3, <3>1, <3>2, <3>3, LosesOk
  <2>5. CASE Head(far) # Garbage
    <3>1. /\ OrderOk(Tail(far), line, tx, near, Head(far), received)
          /\ Head(far) \in OnTheWay
          /\ \A m \in OnTheWay : Head(far) <= m
          /\ Pending(Tail(far), line, tx, near) = OnTheWay \ {Head(far)}
      BY <1>1, <2>1, <2>5, OrderLeave DEF OnTheWay
    <3>2. shown' = Head(far)
      BY <2>1, <2>5
    <3>3. Leaves
      BY <2>1, <3>1, <3>2 DEF Leaves, OnTheWay
    <3>4. Head(far) \in Messages /\ Head(far) <= received
      <4>1. Head(far) \in Messages \cup {Garbage}
        BY <1>1, <2>1, HeadTailProperties
      <4> QED BY <1>1, <2>5, <3>1, <4>1 DEF OrderOk, OnTheWay
    <3>5. Scalars' /\ shown' <= received'
      BY <1>1, <2>1, <3>2, <3>4, Numbers DEF Scalars
    <3> QED BY <2>1, <2>3, <3>1, <3>2, <3>3, <3>5 DEF IInv
  <2> QED BY <2>4, <2>5
<1>12. CASE Drop
  <2>1. UNCHANGED <<tx, line, rx, received, shown, faults>>
    BY <1>12 DEF Drop, uart
  <2>2. /\ near' \in Seq(Messages) /\ Part(near', near, Garbage)
        /\ far' \in Seq(Messages \cup {Garbage}) /\ Part(far', far, Garbage)
    <3>1. DOMAIN near = 1 .. Len(near) /\ DOMAIN far = 1 .. Len(far)
      BY <1>1, LenProperties
    <3>2. CASE \E i \in DOMAIN near : near' = Without(near, i) /\ UNCHANGED far
      BY <1>1, <3>1, <3>2, PartWithout, PartSame
    <3>3. CASE \E i \in DOMAIN far : far' = Without(far, i) /\ UNCHANGED near
      BY <1>1, <3>1, <3>3, PartWithout, PartSame
    <3> QED BY <1>12, <3>2, <3>3 DEF Drop
  <2>3. Types(far', line', tx', near') /\ Scalars'
    BY <1>1, <2>1, <2>2 DEF Types, Scalars
  <2>4. Part(line', line, Noise) /\ Part(tx', tx, Noise)
    BY <2>1, PartSame
  <2> QED BY <2>1, <2>2, <2>3, <2>4, LosesOk
<1>13. Fault => faults' \in 0 .. MaxFaults
  BY <1>1, BoundAssumption DEF Fault, Scalars
<1>14. CASE Disturb
  <2>1. Fault /\ UNCHANGED <<tx, rx, received, near, far, shown>>
    BY <1>14 DEF Disturb
  <2>2. line' \in Seq(Bytes) /\ Part(line', line, Noise)
    <3>1. DOMAIN line = 1 .. Len(line)
      BY <1>1, LenProperties
    <3>2. CASE \E i \in DOMAIN line : line' = Without(line, i)
      BY <1>1, <3>1, <3>2, PartWithout
    <3>3. CASE \E i \in DOMAIN line : line' = [line EXCEPT ![i] = Noise]
      <4>1. PICK i \in 1 .. Len(line) : line' = [line EXCEPT ![i] = Noise]
        BY <3>1, <3>3
      <4>2. /\ [line EXCEPT ![i] = Noise] \in Seq(Bytes)
            /\ Part([line EXCEPT ![i] = Noise], line, Noise)
        BY <1>1, <1>3, PartChanged
      <4> QED BY <4>1, <4>2
    <3>4. CASE line' = Append(line, Noise)
      BY <1>1, <1>3, <3>4, PartAdded
    <3> QED BY <1>14, <3>2, <3>3, <3>4 DEF Disturb
  <2>3. Types(far', line', tx', near') /\ Scalars'
    BY <1>1, <1>13, <2>1, <2>2 DEF Types, Scalars
  <2>4. Part(far', far, Garbage) /\ Part(tx', tx, Noise) /\ Part(near', near, Garbage)
    BY <2>1, PartSame
  <2> QED BY <2>1, <2>2, <2>3, <2>4, LosesOk
<1>15. CASE Stall
  BY <1>9, <1>13, <1>15 DEF Stall
<1>16. CASE ResetNear
  <2>1. /\ Fault /\ tx' = <<>> /\ near' = <<>>
        /\ UNCHANGED <<line, rx, received, far, shown>>
    BY <1>16 DEF ResetNear
  <2>2. Types(far', line', tx', near') /\ Scalars'
    BY <1>1, <1>2, <1>13, <2>1 DEF Types, Scalars
  <2>3. /\ Part(far', far, Garbage) /\ Part(line', line, Noise)
        /\ Part(tx', tx, Noise) /\ Part(near', near, Garbage)
    BY <2>1, PartSame, PartEmpty
  <2> QED BY <2>1, <2>2, <2>3, LosesOk
<1>17. CASE ResetFar
  <2>1. /\ Fault /\ line' = <<>> /\ rx' = AtLength /\ far' = <<>>
        /\ UNCHANGED <<tx, received, near, shown>>
    BY <1>17 DEF ResetFar
  <2>2. Types(far', line', tx', near') /\ Scalars'
    BY <1>1, <1>2, <1>3, <1>13, <2>1 DEF Types, Scalars
  <2>3. /\ Part(far', far, Garbage) /\ Part(line', line, Noise)
        /\ Part(tx', tx, Noise) /\ Part(near', near, Garbage)
    BY <2>1, PartSame, PartEmpty
  <2> QED BY <2>1, <2>2, <2>3, LosesOk
<1>18. CASE UNCHANGED vars
  <2>1. UNCHANGED <<tx, line, rx, received, near, far, shown, faults>>
    BY <1>18 DEF vars, uart
  <2>2. Types(far', line', tx', near') /\ Scalars'
    BY <1>1, <2>1 DEF Types, Scalars
  <2>3. /\ Part(far', far, Garbage) /\ Part(line', line, Noise)
        /\ Part(tx', tx, Noise) /\ Part(near', near, Garbage)
    BY <2>1, PartSame
  <2> QED BY <2>1, <2>2, <2>3, LosesOk
<1> QED BY <1>4, <1>5, <1>6, <1>7, <1>8, <1>10, <1>11, <1>12, <1>14, <1>15, <1>16,
           <1>17, <1>18 DEF Next
-----------------------------------------------------------------------------
(* Receiver in step.  S is the stream of bytes still to be read and r what *)
(* the receiver waits for; the first byte is the one it expects, each byte *)
(* is followed by the next of its frame, and the last one ends a frame.    *)
Starts(b, r) == IF r = AtLength THEN b.at = 0 ELSE b.at = 1 /\ r = Length[b.of]
Goes(a, b) == IF Last(a) THEN b.at = 0 ELSE b.of = a.of /\ b.at = a.at + 1
InStep(S, r) ==
  /\ \A k \in 1 .. Len(S) : S[k] # Noise
  /\ 1 \in 1 .. Len(S) => Starts(S[1], r)
  /\ \A k \in 1 .. Len(S) : k # 1 => Goes(S[k - 1], S[k])
  /\ IF S = <<>> THEN r = AtLength ELSE Last(S[Len(S)])

MessagesOf(S) == {S[k].of : k \in DOMAIN S} \ {Garbage}

LEMMA NextByte ==
  ASSUME NEW a \in Bytes, NEW b \in Bytes
  PROVE  b = [a EXCEPT !.at = @ + 1] <=> b.of = a.of /\ b.at = a.at + 1
<1>1. a = [of |-> a.of, at |-> a.at] /\ b = [of |-> b.of, at |-> b.at]
  BY DEF Bytes, Noise
<1>2. [a EXCEPT !.at = @ + 1] = [of |-> a.of, at |-> a.at + 1]
  BY <1>1
<1> QED BY <1>1, <1>2

LEMMA AlignedIs ==
  line \in Seq(Bytes) /\ tx \in Seq(Bytes) => (Aligned <=> InStep(Stream, rx))
<1> SUFFICES ASSUME line \in Seq(Bytes), tx \in Seq(Bytes)
             PROVE  Aligned <=> InStep(Stream, rx)
  OBVIOUS
<1>1. Stream \in Seq(Bytes)
  BY ConcatProperties DEF Stream
<1>2. DOMAIN Stream = 1 .. Len(Stream) /\ Len(Stream) \in Nat
  BY <1>1, LenProperties
<1>3. \A k \in 1 .. Len(Stream) : Stream[k] \in Bytes
  BY <1>1
<1>4. ASSUME NEW k \in 1 .. Len(Stream)
      PROVE  Follows(k) <=> IF k = 1 THEN Starts(Stream[k], rx)
                                     ELSE Goes(Stream[k - 1], Stream[k])
  <2>1. CASE k = 1
    BY <2>1 DEF Follows, Starts
  <2>2. CASE k # 1
    <3>1. k - 1 \in 1 .. Len(Stream)
      BY <1>2, <2>2
    <3>2. Stream[k] \in Bytes /\ Stream[k - 1] \in Bytes
      BY <1>3, <3>1
    <3>3. Stream[k] = [Stream[k - 1] EXCEPT !.at = @ + 1]
            <=> Stream[k].of = Stream[k - 1].of /\ Stream[k].at = Stream[k - 1].at + 1
      BY <3>2, NextByte
    <3> QED BY <2>2, <3>3 DEF Follows, Goes
  <2> QED BY <2>1, <2>2
<1>5. (\A k \in DOMAIN Stream : Follows(k)) <=>
        /\ 1 \in 1 .. Len(Stream) => Starts(Stream[1], rx)
        /\ \A k \in 1 .. Len(Stream) : k # 1 => Goes(Stream[k - 1], Stream[k])
  BY <1>2, <1>4
<1> QED BY <1>2, <1>5 DEF Aligned, InStep

(* The receiver reads the length of a frame.                               *)
LEMMA InStepTail ==
  ASSUME NEW S \in Seq(Bytes), S # <<>>, InStep(S, AtLength)
  PROVE  /\ IsLength(Head(S))
         /\ InStep(Tail(S), Length[Head(S).of])
         /\ MessagesOf(Tail(S)) = MessagesOf(S)
<1> DEFINE t == Tail(S)
           h == Head(S)
<1>1. /\ Len(S) \in Nat /\ 1 \in 1 .. Len(S) /\ h = S[1]
      /\ t \in Seq(Bytes) /\ Len(t) = Len(S) - 1 /\ Len(t) \in Nat
      /\ \A k \in 1 .. Len(t) : t[k] = S[k + 1] /\ k + 1 \in 1 .. Len(S)
  BY HeadTailProperties, EmptySeq, LenProperties
<1> HIDE DEF t, h
<1>2. \A k \in 1 .. Len(S) : S[k] \in Bytes /\ S[k].of \in Messages /\ S[k] # Noise
  <2>1. \A k \in 1 .. Len(S) : S[k] \in Bytes
    OBVIOUS
  <2> QED BY <2>1, Numbers DEF InStep
<1>3. h.at = 0 /\ h # Noise /\ h.of \in Messages /\ Length[h.of] \in 1 .. MaxLength
  BY <1>1, <1>2, Numbers DEF InStep, Starts
<1>4. ~Last(h) /\ MaxLength \in Nat
  BY <1>3, Numbers DEF Last
<1>5. Len(S) # 1
  BY <1>1, <1>4 DEF InStep
<1>6. 2 \in 1 .. Len(S) /\ 1 \in 1 .. Len(t) /\ t[1] = S[2] /\ t # <<>> /\ 2 # 1 /\ 2 - 1 = 1
  <2>1. 2 \in 1 .. Len(S) /\ 1 \in 1 .. Len(t) /\ 1 + 1 = 2
    BY <1>1, <1>5
  <2>2. Len(<<>>) = 0
    OBVIOUS
  <2> QED BY <1>1, <2>1, <2>2
<1>7. t[1].of = h.of /\ t[1].at = h.at + 1
  <2>1. Goes(S[2 - 1], S[2])
    BY <1>6 DEF InStep
  <2> QED BY <1>1, <1>4, <1>6, <2>1 DEF Goes
<1>8. Starts(t[1], Length[h.of])
  BY <1>3, <1>4, <1>7 DEF Starts, AtLength
<1>9. ASSUME NEW k \in 1 .. Len(t), k # 1
      PROVE  Goes(t[k - 1], t[k])
  <2>1. /\ k + 1 \in 1 .. Len(S) /\ k + 1 # 1 /\ (k + 1) - 1 = k
        /\ k - 1 \in 1 .. Len(t) /\ (k - 1) + 1 = k
    BY <1>1, <1>9
  <2>2. Goes(S[(k + 1) - 1], S[k + 1])
    BY <2>1 DEF InStep
  <2>3. t[k] = S[k + 1] /\ t[k - 1] = S[k]
    <3>1. t[k - 1] = S[(k - 1) + 1]
      BY <1>1, <2>1
    <3> QED BY <1>1, <2>1, <3>1
  <2> QED BY <2>1, <2>2, <2>3
<1>10. Last(t[Len(t)])
  <2>1. Len(t) \in 1 .. Len(t) /\ Len(t) + 1 = Len(S)
    BY <1>1, <1>6
  <2>2. Last(S[Len(S)])
    BY <1>1 DEF InStep
  <2> QED BY <1>1, <2>1, <2>2
<1>11. InStep(t, Length[h.of])
  BY <1>1, <1>2, <1>6, <1>8, <1>9, <1>10 DEF InStep
<1>12. MessagesOf(t) = MessagesOf(S)
  <2>1. DOMAIN S = 1 .. Len(S) /\ DOMAIN t = 1 .. Len(t)
    BY <1>1, LenProperties
  <2>2. \A k \in DOMAIN S : \E j \in DOMAIN t : S[k].of = t[j].of
    <3> SUFFICES ASSUME NEW k \in 1 .. Len(S)
                 PROVE  \E j \in 1 .. Len(t) : S[k].of = t[j].of
      BY <2>1
    <3>1. CASE k = 1
      BY <1>1, <1>6, <1>7, <3>1
    <3>2. CASE k # 1
      <4>1. k - 1 \in 1 .. Len(t) /\ (k - 1) + 1 = k
        BY <1>1, <3>2
      <4> QED BY <1>1, <4>1
    <3> QED BY <3>1, <3>2
  <2>3. \A j \in DOMAIN t : \E k \in DOMAIN S : t[j].of = S[k].of
    BY <1>1, <2>1
  <2> QED BY <2>2, <2>3 DEF MessagesOf
<1> QED BY <1>3, <1>11, <1>12 DEF IsLength, t, h

(* The sender writes the next frame.                                       *)
LEMMA InStepAppend ==
  ASSUME NEW S \in Seq(Bytes), NEW r, InStep(S, r),
         NEW m, NEW x, NEW t, IsFrame(m, x, t)
  PROVE  /\ InStep(Append(S, x) \o t, r)
         /\ MessagesOf(Append(S, x) \o t) = MessagesOf(S) \cup {m}
<1> DEFINE n == Len(S)
           p == Append(S, x) \o t
<1>1. /\ m \in Messages /\ m # Garbage /\ x \in Bytes /\ x = [of |-> m, at |-> 0]
      /\ t \in Seq(Bytes) /\ Len(t) = Length[m] /\ Length[m] \in 1 .. MaxLength
      /\ MaxLength \in Nat
      /\ \A k \in 1 .. Length[m] : t[k] = [of |-> m, at |-> k]
  BY Numbers DEF IsFrame
<1>2. /\ n \in Nat /\ p \in Seq(Bytes) /\ Len(p) = n + 1 + Length[m]
      /\ \A k \in 1 .. n : p[k] = S[k]
      /\ p[n + 1] = x
      /\ \A k \in 1 .. Length[m] : p[n + 1 + k] = t[k]
  <2> DEFINE q == Append(S, x)
  <2>1. /\ q \in Seq(Bytes) /\ Len(q) = n + 1 /\ n \in Nat
        /\ \A k \in 1 .. n : q[k] = S[k]
        /\ q[n + 1] = x
    BY <1>1, AppendProperties, LenProperties
  <2> HIDE DEF q
  <2>2. /\ q \o t \in Seq(Bytes) /\ Len(q \o t) = n + 1 + Length[m]
        /\ \A k \in 1 .. n + 1 + Length[m] :
             (q \o t)[k] = IF k <= n + 1 THEN q[k] ELSE t[k - (n + 1)]
    <3>1. /\ q \o t \in Seq(Bytes) /\ Len(q \o t) = Len(q) + Len(t)
          /\ \A k \in 1 .. Len(q) + Len(t) :
               (q \o t)[k] = IF k <= Len(q) THEN q[k] ELSE t[k - Len(q)]
      BY <1>1, <2>1, ConcatProperties
    <3>2. Len(q) + Len(t) = n + 1 + Length[m]
      BY <1>1, <2>1
    <3> QED BY <2>1, <3>1, <3>2
  <2>3. \A k \in 1 .. n : (q \o t)[k] = S[k]
    BY <1>1, <2>1, <2>2
  <2>4. (q \o t)[n + 1] = x
    BY <1>1, <2>1, <2>2
  <2>5. \A k \in 1 .. Length[m] : (q \o t)[n + 1 + k] = t[k]
    <3>1. \A k \in 1 .. Length[m] : /\ n + 1 + k \in 1 .. n + 1 + Length[m]
                                    /\ ~(n + 1 + k <= n + 1) /\ (n + 1 + k) - (n + 1) = k
      BY <1>1, <2>1
    <3> QED BY <2>2, <3>1
  <2> QED BY <2>1, <2>2, <2>3, <2>4, <2>5 DEF q
<1> HIDE DEF p
<1>3. \A k \in 0 .. Length[m] :
        p[n + 1 + k] \in Bytes /\ p[n + 1 + k].of = m /\ p[n + 1 + k].at = k
  <2>1. /\ x.of = m /\ x.at = 0
        /\ \A k : [of |-> m, at |-> k].of = m /\ [of |-> m, at |-> k].at = k
    BY <1>1
  <2>2. p[n + 1].of = m /\ p[n + 1].at = 0 /\ p[n + 1] \in Bytes /\ n + 1 + 0 = n + 1
    BY <1>1, <1>2, <2>1
  <2>3. \A k \in 1 .. Length[m] :
          p[n + 1 + k].of = m /\ p[n + 1 + k].at = k /\ p[n + 1 + k] \in Bytes
    <3> SUFFICES ASSUME NEW k \in 1 .. Length[m]
                 PROVE  /\ p[n + 1 + k].of = m /\ p[n + 1 + k].at = k
                        /\ p[n + 1 + k] \in Bytes
      OBVIOUS
    <3>1. k \in 1 .. Len(t) /\ p[n + 1 + k] = t[k] /\ t[k] = [of |-> m, at |-> k]
      BY <1>1, <1>2
    <3>2. t[k] \in Bytes
      BY <1>1, <3>1
    <3> QED BY <2>1, <3>1, <3>2
  <2>4. \A k \in 0 .. Length[m] : k = 0 \/ k \in 1 .. Length[m]
    BY <1>1
  <2> QED BY <2>2, <2>3, <2>4
<1>4. \A k \in 1 .. Len(p) : \/ k \in 1 .. n /\ p[k] = S[k]
                             \/ k - (n + 1) \in 0 .. Length[m] /\ n + 1 + (k - (n + 1)) = k
  BY <1>1, <1>2
<1>5. \A k \in 1 .. Len(p) : \/ k \in 1 .. n /\ p[k] = S[k]
                             \/ /\ k - (n + 1) \in 0 .. Length[m]
                                /\ p[k].of = m /\ p[k].at = k - (n + 1)
  BY <1>3, <1>4
<1>6. \A k \in 1 .. Len(p) : p[k] # Noise
  <2>1. Noise.of # m
    BY <1>1, Numbers
  <2> QED BY <1>5, <2>1 DEF InStep
<1>7. 1 \in 1 .. Len(p) => Starts(p[1], r)
  <2>1. CASE 1 \in 1 .. n
    BY <1>2, <2>1 DEF InStep
  <2>2. CASE 1 \notin 1 .. n
    <3>1. n = 0 /\ n + 1 = 1
      BY <1>2, <2>2
    <3>2. r = AtLength
      BY <3>1, EmptySeq DEF InStep
    <3>3. p[1].at = 0
      BY <1>1, <1>2, <3>1
    <3> QED BY <3>2, <3>3 DEF Starts
  <2> QED BY <2>1, <2>2
<1>8. ASSUME NEW k \in 1 .. Len(p), k # 1
      PROVE  Goes(p[k - 1], p[k])
  <2>1. CASE k \in 1 .. n
    <3>1. k - 1 \in 1 .. n
      BY <1>2, <1>8, <2>1
    <3>2. Goes(S[k - 1], S[k])
      BY <1>8, <2>1 DEF InStep
    <3> QED BY <1>2, <2>1, <3>1, <3>2
  <2>2. CASE k = n + 1
    <3>1. n \in 1 .. n /\ k - 1 = n /\ n # 0
      BY <1>2, <1>8, <2>2
    <3>2. Last(S[n])
      BY <3>1, EmptySeq DEF InStep
    <3>3. p[k].at = 0 /\ p[k - 1] = S[n]
      BY <1>1, <1>2, <2>2, <3>1
    <3> QED BY <3>2, <3>3 DEF Goes
  <2>3. CASE k > n + 1
    <3> DEFINE j == k - (n + 1)
    <3>1. /\ j \in 1 .. Length[m] /\ j \in 0 .. Length[m] /\ n + 1 + j = k
          /\ j - 1 \in 0 .. Length[m] /\ n + 1 + (j - 1) = k - 1 /\ j - 1 # Length[m]
          /\ (j - 1) + 1 = j
      <4>1. Length[m] \in Nat /\ n \in Nat /\ Len(p) = n + 1 + Length[m]
        BY <1>1, <1>2
      <4>2. j \in Nat /\ 1 <= j /\ j <= Length[m]
        BY <2>3, <4>1
      <4> QED BY <2>3, <4>1, <4>2
    <3> HIDE DEF j
    <3>2. p[k].of = m /\ p[k].at = j /\ p[k - 1].of = m /\ p[k - 1].at = j - 1
      <4>1. p[n + 1 + j].of = m /\ p[n + 1 + j].at = j
        BY <1>3, <3>1
      <4>2. p[n + 1 + (j - 1)].of = m /\ p[n + 1 + (j - 1)].at = j - 1
        BY <1>3, <3>1
      <4> QED BY <3>1, <4>1, <4>2
    <3> QED BY <3>1, <3>2 DEF Goes, Last
  <2> QED BY <1>2, <2>1, <2>2, <2>3
<1>9. p # <<>> /\ Last(p[Len(p)])
  <2>1. Length[m] \in 0 .. Length[m] /\ Len(p) # 0
    BY <1>1, <1>2
  <2>2. p[Len(p)].of = m /\ p[Len(p)].at = Length[m]
    BY <1>2, <1>3, <2>1
  <2>3. Len(<<>>) = 0
    OBVIOUS
  <2> QED BY <2>1, <2>2, <2>3 DEF Last
<1>10. InStep(p, r)
  BY <1>6, <1>7, <1>8, <1>9 DEF InStep
<1>11. MessagesOf(p) = MessagesOf(S) \cup {m}
  <2>1. DOMAIN S = 1 .. n /\ DOMAIN p = 1 .. Len(p)
    BY <1>2, LenProperties
  <2>2. \A k \in 1 .. Len(p) : p[k].of = m \/ (k \in 1 .. n /\ p[k] = S[k])
    BY <1>5
  <2>3. \A k \in 1 .. n : k \in 1 .. Len(p) /\ p[k] = S[k]
    BY <1>1, <1>2
  <2>4. n + 1 \in 1 .. Len(p) /\ p[n + 1].of = m
    BY <1>1, <1>2
  <2> QED BY <1>1, <2>1, <2>2, <2>3, <2>4 DEF MessagesOf
<1> QED BY <1>10, <1>11 DEF p

(* The bytes before the receiver are those of one message, from the first  *)
(* on: by least counterexample.                                            *)
LEMMA FrameStart ==
  ASSUME NEW S \in Seq(Bytes), NEW r \in 1 .. MaxLength, InStep(S, r)
  PROVE  /\ 1 \in 1 .. Len(S) /\ S[1].of \in Messages /\ r = Length[S[1].of]
         /\ \A k \in 1 .. Len(S) : k <= r => S[k].of = S[1].of /\ S[k].at = k
<1> DEFINE Bad == {k \in 1 .. Len(S) : k <= r /\ ~(S[k].of = S[1].of /\ S[k].at = k)}
<1>1. Len(S) \in Nat /\ MaxLength \in Nat /\ r \in Nat /\ r # AtLength
  BY LenProperties, Numbers DEF AtLength
<1>2. 1 \in 1 .. Len(S)
  <2>1. S # <<>>
    BY <1>1 DEF InStep
  <2> QED BY <1>1, <2>1, EmptySeq
<1>3. S[1].of \in Messages
  <2>1. S[1] \in Bytes /\ S[1] # Noise
    BY <1>2 DEF InStep
  <2> QED BY <2>1, Numbers
<1>4. S[1].at = 1 /\ r = Length[S[1].of]
  BY <1>1, <1>2 DEF InStep, Starts
<1>5. Bad = {}
  <2> SUFFICES ASSUME Bad # {}
               PROVE  FALSE
    OBVIOUS
  <2>1. Bad \subseteq Nat
    BY <1>1
  <2>2. PICK k \in Bad : \A j \in Bad : ~(<<j, k>> \in OpToRel(<, Nat))
    BY <2>1, NatLessThanWellFounded, WFMin
  <2>3. k \in 1 .. Len(S) /\ k <= r /\ k # 1 /\ ~(S[k].of = S[1].of /\ S[k].at = k)
    BY <1>4
  <2>4. k - 1 \in 1 .. Len(S) /\ k - 1 < r /\ k - 1 < k /\ k - 1 \in Nat /\ (k - 1) + 1 = k /\ k \in Nat
    BY <1>1, <2>3
  <2>5. k - 1 \notin Bad
    BY <2>2, <2>4 DEF OpToRel
  <2>6. S[k - 1].of = S[1].of /\ S[k - 1].at = k - 1
    <3>1. k - 1 <= r
      BY <1>1, <2>4
    <3> QED BY <2>4, <2>5, <3>1
  <2>7. ~Last(S[k - 1])
    <3>1. k - 1 # r
      BY <1>1, <2>4
    <3> QED BY <1>4, <2>6, <3>1 DEF Last
  <2>8. S[k].of = S[k - 1].of /\ S[k].at = S[k - 1].at + 1
    BY <2>3, <2>7 DEF InStep, Goes
  <2> QED BY <2>3, <2>4, <2>6, <2>8
<1> QED BY <1>2, <1>3, <1>4, <1>5

LEMMA SubSeqIs ==
  ASSUME NEW S, NEW q \in Seq(S), NEW r \in Nat, r <= Len(q)
  PROVE  /\ SubSeq(q, r + 1, Len(q)) \in Seq(S)
         /\ Len(SubSeq(q, r + 1, Len(q))) = Len(q) - r
         /\ \A k \in 1 .. Len(q) - r : /\ SubSeq(q, r + 1, Len(q))[k] = q[k + r]
                                       /\ k + r \in 1 .. Len(q)
<1>1. Len(q) \in Nat
  BY LenProperties
<1>2. r + 1 \in Int
  OBVIOUS
<1>3. \A k \in r + 1 .. Len(q) : q[k] \in S
  BY <1>1
<1>4. /\ SubSeq(q, r + 1, Len(q)) \in Seq(S)
      /\ Len(SubSeq(q, r + 1, Len(q))) =
           IF r + 1 <= Len(q) THEN Len(q) - (r + 1) + 1 ELSE 0
      /\ \A k \in 1 .. Len(q) - (r + 1) + 1 :
           SubSeq(q, r + 1, Len(q))[k] = q[(r + 1) + k - 1]
  BY <1>1, <1>2, <1>3, SubSeqProperties
<1>5. (IF r + 1 <= Len(q) THEN Len(q) - (r + 1) + 1 ELSE 0) = Len(q) - r
  BY <1>1
<1>6. \A k \in 1 .. Len(q) - r :
        /\ (r + 1) + k - 1 = k + r /\ k + r \in 1 .. Len(q)
        /\ k \in 1 .. Len(q) - (r + 1) + 1
  <2> SUFFICES ASSUME NEW k \in 1 .. Len(q) - r
               PROVE  /\ (r + 1) + k - 1 = k + r /\ k + r \in 1 .. Len(q)
                      /\ k \in 1 .. Len(q) - (r + 1) + 1
    OBVIOUS
  <2>1. k \in Nat /\ 1 <= k /\ k <= Len(q) - r
    BY <1>1
  <2> QED BY <1>1, <2>1
<1> QED BY <1>4, <1>5, <1>6

(* Reading the first r bytes of the line p is reading them of the stream.  *)
LEMMA SubSeqOfConcat ==
  ASSUME NEW S, NEW p \in Seq(S), NEW q \in Seq(S), NEW r \in Nat, r <= Len(p)
  PROVE  SubSeq(p, r + 1, Len(p)) \o q = SubSeq(p \o q, r + 1, Len(p \o q))
<1> DEFINE a == SubSeq(p, r + 1, Len(p))
           s == p \o q
           b == SubSeq(s, r + 1, Len(s))
<1>1. /\ s \in Seq(S) /\ Len(s) = Len(p) + Len(q)
      /\ Len(p) \in Nat /\ Len(q) \in Nat
      /\ \A k \in 1 .. Len(p) + Len(q) :
           s[k] = IF k <= Len(p) THEN p[k] ELSE q[k - Len(p)]
  BY ConcatProperties, LenProperties
<1>2. /\ a \in Seq(S) /\ Len(a) = Len(p) - r
      /\ \A k \in 1 .. Len(p) - r : a[k] = p[k + r]
  BY SubSeqIs
<1> HIDE DEF s
<1>3. r <= Len(s)
  BY <1>1
<1>4. /\ b \in Seq(S) /\ Len(b) = Len(s) - r
      /\ \A k \in 1 .. Len(s) - r : b[k] = s[k + r]
  BY <1>1, <1>3, SubSeqIs
<1> HIDE DEF a, b
<1>5. /\ a \o q \in Seq(S) /\ Len(a \o q) = Len(a) + Len(q)
      /\ \A k \in 1 .. Len(a) + Len(q) :
           (a \o q)[k] = IF k <= Len(a) THEN a[k] ELSE q[k - Len(a)]
  BY <1>2, ConcatProperties
<1>6. Len(a \o q) = Len(b)
  BY <1>1, <1>2, <1>4, <1>5
<1>7. ASSUME NEW k \in 1 .. Len(a \o q)
      PROVE  (a \o q)[k] = b[k]
  <2>1. k \in 1 .. Len(a) + Len(q) /\ k \in 1 .. Len(s) - r /\ k + r \in 1 .. Len(p) + Len(q)
    BY <1>1, <1>2, <1>4, <1>5
  <2>2. b[k] = IF k + r <= Len(p) THEN p[k + r] ELSE q[k + r - Len(p)]
    BY <1>1, <1>4, <2>1
  <2>3. CASE k <= Len(a)
    <3>1. k \in 1 .. Len(p) - r /\ k + r <= Len(p)
      BY <1>1, <1>2, <2>1, <2>3
    <3> QED BY <1>2, <1>5, <2>1, <2>2, <2>3, <3>1
  <2>4. CASE ~(k <= Len(a))
    <3>1. k - Len(a) = k + r - Len(p) /\ ~(k + r <= Len(p))
      BY <1>1, <1>2, <2>1, <2>4
    <3> QED BY <1>5, <2>1, <2>2, <2>4, <3>1
  <2> QED BY <2>3, <2>4
<1>8. a \o q = b
  BY <1>4, <1>5, <1>6, <1>7, SeqEqual
<1> QED BY <1>8 DEF a, b, s

LEMMA TailOfConcat ==
  ASSUME NEW S, NEW p \in Seq(S), NEW q \in Seq(S), p # <<>>
  PROVE  Tail(p) \o q = Tail(p \o q) /\ p \o q # <<>> /\ Head(p \o q) = Head(p)
<1>1. /\ p \o q \in Seq(S) /\ Len(p \o q) = Len(p) + Len(q)
      /\ Len(p) \in Nat /\ Len(q) \in Nat /\ Len(p) # 0
      /\ 1 \in 1 .. Len(p) + Len(q)
      /\ (p \o q)[1] = p[1]
  <2>1. /\ p \o q \in Seq(S) /\ Len(p \o q) = Len(p) + Len(q)
        /\ \A k \in 1 .. Len(p) + Len(q) :
             (p \o q)[k] = IF k <= Len(p) THEN p[k] ELSE q[k - Len(p)]
    BY ConcatProperties
  <2>2. Len(p) \in Nat /\ Len(q) \in Nat /\ Len(p) # 0
    BY LenProperties, EmptySeq
  <2> QED BY <2>1, <2>2
<1>2. p \o q # <<>>
  <2>1. Len(<<>>) = 0
    OBVIOUS
  <2> QED BY <1>1, <2>1
<1>3. \A s \in Seq(S) : s # <<>> => Tail(s) = SubSeq(s, 1 + 1, Len(s)) /\ Head(s) = s[1]
  <2> SUFFICES ASSUME NEW s \in Seq(S), s # <<>>
               PROVE  Tail(s) = SubSeq(s, 1 + 1, Len(s)) /\ Head(s) = s[1]
    OBVIOUS
  <2>1. /\ Len(s) \in Nat /\ Len(s) # 0
        /\ Tail(s) \in Seq(S) /\ Len(Tail(s)) = Len(s) - 1 /\ Head(s) = s[1]
        /\ \A k \in 1 .. Len(Tail(s)) : Tail(s)[k] = s[k + 1]
    BY HeadTailProperties, LenProperties, EmptySeq
  <2>2. 1 \in Nat /\ 1 <= Len(s)
    BY <2>1
  <2>3. /\ SubSeq(s, 1 + 1, Len(s)) \in Seq(S)
        /\ Len(SubSeq(s, 1 + 1, Len(s))) = Len(s) - 1
        /\ \A k \in 1 .. Len(s) - 1 : SubSeq(s, 1 + 1, Len(s))[k] = s[k + 1]
    BY <2>2, SubSeqIs
  <2>4. Tail(s) = SubSeq(s, 1 + 1, Len(s))
    BY <2>1, <2>3, SeqEqual
  <2> QED BY <2>1, <2>4
<1>4. 1 \in Nat /\ 1 <= Len(p)
  BY <1>1
<1> QED BY <1>1, <1>2, <1>3, <1>4, SubSeqOfConcat

(* The receiver reads what follows the length.                             *)
LEMMA InStepRest ==
  ASSUME NEW S \in Seq(Bytes), NEW r \in 1 .. MaxLength, InStep(S, r), r <= Len(S),
         Chain(S, Noise, ByteOrder), \A k \in 1 .. Len(S) : S[k].at <= Length[S[k].of]
  PROVE  /\ InStep(SubSeq(S, r + 1, Len(S)), AtLength)
         /\ S[1].of \in MessagesOf(S)
         /\ \A n \in MessagesOf(S) : S[1].of <= n
         /\ MessagesOf(SubSeq(S, r + 1, Len(S))) = MessagesOf(S) \ {S[1].of}
<1> DEFINE q == SubSeq(S, r + 1, Len(S))
           m == S[1].of
<1>1. /\ 1 \in 1 .. Len(S) /\ m \in Messages /\ r = Length[m]
      /\ \A k \in 1 .. Len(S) : k <= r => S[k].of = m /\ S[k].at = k
  BY FrameStart
<1>2. Len(S) \in Nat /\ MaxLength \in Nat /\ r \in Nat /\ m \in Nat /\ DOMAIN S = 1 .. Len(S)
  BY <1>1, LenProperties, Numbers
<1>3. /\ q \in Seq(Bytes) /\ Len(q) = Len(S) - r
      /\ \A k \in 1 .. Len(S) - r : q[k] = S[k + r] /\ k + r \in 1 .. Len(S)
  BY <1>2, SubSeqIs
<1> HIDE DEF q, m
<1>4. r \in 1 .. Len(S) /\ S[r].of = m /\ S[r].at = r /\ Last(S[r])
  BY <1>1, <1>2 DEF Last
<1>5. \A k \in 1 .. Len(S) : S[k] \in Bytes /\ S[k] # Noise /\ S[k].of \in Messages /\ S[k].at \in Nat
  <2>1. \A k \in 1 .. Len(S) : S[k] \in Bytes /\ S[k] # Noise
    BY DEF InStep
  <2> QED BY <2>1, Numbers
<1>6. ASSUME NEW k \in 1 .. Len(S), k > r
      PROVE  m < S[k].of
  <2>1. <<S[r], S[k]>> \in ByteOrder
    BY <1>2, <1>4, <1>5, <1>6 DEF Chain
  <2>2. m < S[k].of \/ (m = S[k].of /\ r < S[k].at)
    BY <1>4, <1>5, <2>1, ByteOrderIs
  <2>3. S[k].at <= Length[S[k].of] /\ S[k].at \in Nat
    BY <1>5
  <2> QED BY <1>1, <1>2, <2>2, <2>3
<1>7. \A k \in 1 .. Len(q) : q[k] # Noise
  BY <1>3, <1>5
<1>8. ASSUME NEW k \in 1 .. Len(q)
      PROVE  /\ k = 1 => q[k].at = 0
             /\ k # 1 => Goes(q[k - 1], q[k])
  <2>1. /\ k + r \in 1 .. Len(S) /\ k + r # 1 /\ q[k] = S[k + r]
    BY <1>2, <1>3, <1>4
  <2>2. Goes(S[k + r - 1], S[k + r])
    BY <2>1 DEF InStep
  <2>3. CASE k = 1
    <3>1. k + r - 1 = r
      BY <1>2, <2>3
    <3> QED BY <1>4, <2>1, <2>2, <2>3, <3>1 DEF Goes
  <2>4. CASE k # 1
    <3>1. k - 1 \in 1 .. Len(S) - r /\ (k - 1) + r = k + r - 1
      BY <1>2, <1>3, <2>4
    <3> QED BY <1>3, <2>1, <2>2, <2>4, <3>1
  <2> QED BY <2>3, <2>4
<1>9. q # <<>> => Last(q[Len(q)])
  <2> SUFFICES ASSUME q # <<>>
               PROVE  Last(q[Len(q)])
    OBVIOUS
  <2>1. Len(q) # 0 /\ Len(q) \in Nat
    BY <1>3, EmptySeq, LenProperties
  <2>2. Len(q) \in 1 .. Len(S) - r /\ Len(q) + r = Len(S)
    <3>1. Len(q) = Len(S) - r
      BY <1>3
    <3>2. \A a, b, c \in Nat : c # 0 /\ c = a - b => c \in 1 .. a - b /\ c + b = a
      OBVIOUS
    <3>3. Len(S) \in Nat /\ r \in Nat
      BY <1>2
    <3> QED BY <2>1, <3>1, <3>2, <3>3, Zenon
  <2>3. S # <<>>
    BY <1>2, <1>4, EmptySeq
  <2>4. Last(S[Len(S)])
    BY <2>3 DEF InStep
  <2> QED BY <1>3, <2>2, <2>4
<1>10. InStep(q, AtLength)
  BY <1>7, <1>8, <1>9 DEF InStep, Starts
<1>11. m \in MessagesOf(S)
  BY <1>1, <1>2, Numbers DEF MessagesOf, m
<1>12. \A k \in 1 .. Len(S) : S[k].of = m \/ m < S[k].of
  BY <1>1, <1>2, <1>6
<1>13. \A n \in MessagesOf(S) : m <= n
  <2> SUFFICES ASSUME NEW k \in 1 .. Len(S)
               PROVE  m <= S[k].of
    BY <1>2 DEF MessagesOf
  <2> QED BY <1>2, <1>5, <1>12, Numbers
<1>14. MessagesOf(q) = MessagesOf(S) \ {m}
  <2>1. DOMAIN q = 1 .. Len(S) - r
    BY <1>3, LenProperties
  <2>2. \A k \in DOMAIN q : q[k].of \in {S[j].of : j \in DOMAIN S} /\ q[k].of # m
    <3> SUFFICES ASSUME NEW k \in 1 .. Len(S) - r
                 PROVE  q[k].of \in {S[j].of : j \in DOMAIN S} /\ q[k].of # m
      BY <2>1
    <3>1. q[k] = S[k + r] /\ k + r \in 1 .. Len(S) /\ k + r > r
      BY <1>2, <1>3
    <3>2. m < S[k + r].of /\ S[k + r].of \in Nat
      BY <1>5, <1>6, <3>1, Numbers
    <3>3. S[k + r].of \in {S[j].of : j \in DOMAIN S}
      BY <1>2, <3>1
    <3>4. S[k + r].of # m
      BY <1>2, <3>2, Numbers
    <3> QED BY <3>1, <3>3, <3>4
  <2>3. \A j \in DOMAIN S : S[j].of # m => \E k \in DOMAIN q : q[k].of = S[j].of
    <3> SUFFICES ASSUME NEW j \in 1 .. Len(S), S[j].of # m
                 PROVE  \E k \in 1 .. Len(S) - r : q[k].of = S[j].of
      BY <1>2, <2>1
    <3>1. ~(j <= r)
      BY <1>1
    <3>2. j - r \in 1 .. Len(S) - r /\ (j - r) + r = j
      BY <1>2, <3>1
    <3> QED BY <1>3, <3>2
  <2> QED BY <2>2, <2>3 DEF MessagesOf
<1> QED BY <1>10, <1>11, <1>13, <1>14 DEF q, m

LEMMA StreamOk ==
  ASSUME NEW F, NEW L, NEW T, NEW N, NEW s, NEW r, OrderOk(F, L, T, N, s, r),
         Types(F, L, T, N)
  PROVE  /\ L \o T \in Seq(Bytes) /\ Chain(L \o T, Noise, ByteOrder)
         /\ \A k \in 1 .. Len(L \o T) :
              (L \o T)[k] # Noise => (L \o T)[k].at <= Length[(L \o T)[k].of]
<1> DEFINE q == L \o T
<1>1. /\ L \in Seq(Bytes) /\ T \in Seq(Bytes)
      /\ Chain(L, Noise, ByteOrder) /\ Chain(T, Noise, ByteOrder)
      /\ \A a \in Entries(L, Noise), b \in Entries(T, Noise) : <<a, b>> \in ByteOrder
  BY DEF OrderOk, Ordered, Types
<1>2. /\ q \in Seq(Bytes) /\ Chain(q, Noise, ByteOrder)
      /\ Entries(q, Noise) = Entries(L, Noise) \cup Entries(T, Noise)
  BY <1>1, ConcatOfChains
<1> HIDE DEF q
<1>3. ASSUME NEW k \in 1 .. Len(q), q[k] # Noise
      PROVE  q[k].at <= Length[q[k].of]
  <2>1. q[k] \in OnTheLine(L, T)
    BY <1>2, <1>3 DEF OnTheLine, Entries
  <2> QED BY <2>1 DEF OrderOk, Between
<1> QED BY <1>2, <1>3 DEF q

LEMMA FirstIsWithout ==
  ASSUME NEW S, NEW q \in Seq(S), q # <<>>
  PROVE  Tail(q) = Without(q, 1) /\ 1 \in DOMAIN q
<1>1. /\ Len(q) \in Nat /\ Len(q) # 0 /\ 1 \in 1 .. Len(q) /\ DOMAIN q = 1 .. Len(q)
      /\ Tail(q) \in Seq(S) /\ Len(Tail(q)) = Len(q) - 1
      /\ \A k \in 1 .. Len(Tail(q)) : Tail(q)[k] = q[k + 1]
  <2>1. Len(q) \in Nat /\ Len(q) # 0 /\ DOMAIN q = 1 .. Len(q)
    BY LenProperties, EmptySeq
  <2> QED BY <2>1, HeadTailProperties
<1>2. /\ Without(q, 1) \in Seq(S) /\ Len(Without(q, 1)) = Len(q) - 1
      /\ \A k \in 1 .. Len(q) - 1 : Without(q, 1)[k] = IF k < 1 THEN q[k] ELSE q[k + 1]
  BY <1>1, WithoutProperties, Zenon
<1>3. \A k \in 1 .. Len(q) - 1 : Tail(q)[k] = Without(q, 1)[k]
  BY <1>1, <1>2
<1> QED BY <1>1, <1>2, <1>3, SeqEqual

(* What StaysInStep says of a step.                                        *)
Kept ==
  OnWire' = OnWire /\ far' \in {far} \cup {Without(far, i) : i \in DOMAIN far}
Sent == Transmit /\ OnWire' = OnWire \cup {Head(near)} /\ far' = far
Given == \E m \in OnWire : /\ \A k \in OnWire : m <= k
                           /\ OnWire' = OnWire \ {m} /\ far' = Append(far, m)

LEMMA StepInStep ==
  ASSUME IInv, IInv', [Next]_vars, InStep(Stream, rx), faults' = faults
  PROVE  InStep(Stream, rx)' /\ (Kept \/ Sent \/ Given)
<1>1. /\ tx \in Seq(Bytes) /\ line \in Seq(Bytes)
      /\ near \in Seq(Messages) /\ far \in Seq(Messages \cup {Garbage})
      /\ Types(far, line, tx, near) /\ Scalars
      /\ OrderOk(far, line, tx, near, shown, received)
  BY DEF IInv, Types
<1>2. /\ Stream \in Seq(Bytes) /\ Chain(Stream, Noise, ByteOrder)
      /\ \A k \in 1 .. Len(Stream) : Stream[k] # Noise => Stream[k].at <= Length[Stream[k].of]
  BY <1>1, StreamOk DEF Stream
<1>3. OnWire = MessagesOf(Stream) /\ OnWire' = MessagesOf(Stream')
  BY DEF OnWire, MessagesOf
<1>4. faults \in Nat /\ ~Fault
  BY <1>1, BoundAssumption DEF Scalars, Fault
<1>5. ASSUME UNCHANGED uart, far' \in {far} \cup {Without(far, i) : i \in DOMAIN far}
      PROVE  InStep(Stream, rx)' /\ Kept
  <2>1. Stream' = Stream /\ rx' = rx
    BY <1>5 DEF uart, Stream
  <2> QED BY <1>3, <1>5, <2>1 DEF Kept
<1>6. CASE Receive
  BY <1>5, <1>6 DEF Receive
<1>7. CASE Transmit
  <2> DEFINE m == Head(near)
             x == Head(Frame(m))
             t == Tail(Frame(m))
  <2>1. /\ near # <<>> /\ tx = <<>> /\ line' = Append(line, x) /\ tx' = t
        /\ rx' = rx /\ far' = far
    BY <1>7 DEF Transmit, WriteLength, SenderIdle
  <2>2. m \in Messages
    BY <1>1, <2>1, HeadTailProperties
  <2>3. IsFrame(m, x, t)
    BY <2>2, FrameProperties DEF IsFrame
  <2> HIDE DEF m, x, t
  <2>4. Stream = line
    BY <1>1, <2>1, ConcatEmptySeq DEF Stream
  <2>5. Stream' = Append(Stream, x) \o t
    BY <2>1, <2>4 DEF Stream
  <2>6. /\ InStep(Append(Stream, x) \o t, rx)
        /\ MessagesOf(Append(Stream, x) \o t) = MessagesOf(Stream) \cup {m}
    BY <1>2, <2>3, InStepAppend
  <2> QED BY <1>3, <1>7, <2>1, <2>5, <2>6 DEF Sent, m
<1>8. CASE TransmitRest
  <2>1. line' = line \o tx /\ tx' = <<>> /\ rx' = rx /\ far' = far
    BY <1>8 DEF TransmitRest, WriteMessage
  <2>2. line \o tx \in Seq(Bytes)
    BY <1>1, ConcatProperties
  <2>3. Stream' = Stream
    BY <2>1, <2>2, ConcatEmptySeq DEF Stream
  <2> QED BY <1>3, <2>1, <2>3 DEF Kept
<1>9. CASE Wait
  <2>1. /\ rx = AtLength /\ line # <<>> /\ line' = Tail(line) /\ tx' = tx
        /\ rx' \in Read(Head(line)) /\ far' = far
    BY <1>9 DEF Wait, ReadLength
  <2>2. Stream' = Tail(Stream) /\ Stream # <<>> /\ Head(Stream) = Head(line)
    BY <1>1, <2>1, TailOfConcat DEF Stream
  <2>3. /\ IsLength(Head(Stream)) /\ InStep(Tail(Stream), Length[Head(Stream).of])
        /\ MessagesOf(Tail(Stream)) = MessagesOf(Stream)
    BY <1>2, <2>1, <2>2, InStepTail
  <2>4. rx' = Length[Head(Stream).of]
    BY <2>1, <2>2, <2>3 DEF Read
  <2> QED BY <1>3, <2>1, <2>2, <2>3, <2>4 DEF Kept
<1>10. ASSUME rx # AtLength
       PROVE  /\ rx \in 1 .. MaxLength /\ rx \in Nat
              /\ 1 \in 1 .. Len(Stream) /\ Stream[1].of \in Messages
              /\ rx = Length[Stream[1].of]
              /\ \A k \in 1 .. Len(Stream) :
                   k <= rx => Stream[k].of = Stream[1].of /\ Stream[k].at = k
  <2>1. rx \in 1 .. MaxLength
    BY <1>1, <1>10 DEF Scalars
  <2>2. rx \in Nat
    BY <2>1, Numbers
  <2> QED BY <1>2, <2>1, <2>2, FrameStart
<1>11. CASE Accept
  <2>1. PICK result :
          /\ rx # AtLength /\ Len(line) >= rx
          /\ result \in Decoded(SubSeq(line, 1, rx))
          /\ line' = SubSeq(line, rx + 1, Len(line)) /\ rx' = AtLength
          /\ far' = far \o result /\ tx' = tx
    BY <1>11 DEF Accept, ReadMessage
  <2> DEFINE m == Stream[1].of
  <2>2. /\ rx \in 1 .. MaxLength /\ rx \in Nat /\ m \in Messages /\ rx = Length[m]
        /\ \A k \in 1 .. Len(Stream) : k <= rx => Stream[k].of = m /\ Stream[k].at = k
    BY <1>10, <2>1
  <2>3. /\ Len(line) \in Nat /\ rx <= Len(line) /\ Len(Stream) \in Nat
        /\ Len(line) <= Len(Stream)
        /\ \A k \in 1 .. rx : k \in 1 .. Len(Stream) /\ Stream[k] = line[k] /\ line[k] \in Bytes
    <3>1. /\ Len(line) \in Nat /\ Len(tx) \in Nat /\ Len(Stream) = Len(line) + Len(tx)
          /\ \A k \in 1 .. Len(line) + Len(tx) :
               Stream[k] = IF k <= Len(line) THEN line[k] ELSE tx[k - Len(line)]
      BY <1>1, ConcatProperties, LenProperties DEF Stream
    <3>2. rx <= Len(line)
      BY <2>1, <2>2, <3>1
    <3>3. ASSUME NEW k \in 1 .. rx
          PROVE  k \in 1 .. Len(Stream) /\ Stream[k] = line[k] /\ line[k] \in Bytes
      <4>1. k \in 1 .. Len(line) /\ k \in 1 .. Len(line) + Len(tx) /\ k <= Len(line)
        BY <2>2, <3>1, <3>2
      <4> QED BY <1>1, <3>1, <4>1
    <3> QED BY <3>1, <3>2, <3>3
  <2> HIDE DEF m
  <2>4. SubSeq(line, 1, rx) = Tail(Frame(m))
    <3> DEFINE a == SubSeq(line, 1, rx)
               b == Tail(Frame(m))
    <3>1. /\ b \in Seq(Bytes) /\ Len(b) = rx
          /\ \A k \in 1 .. rx : b[k] = [of |-> m, at |-> k]
      BY <2>2, FrameProperties
    <3>2. \A k \in 1 .. rx : line[k] \in Bytes
      BY <2>3
    <3>3. /\ a \in Seq(Bytes) /\ Len(a) = IF 1 <= rx THEN rx - 1 + 1 ELSE 0
          /\ \A k \in 1 .. rx - 1 + 1 : a[k] = line[1 + k - 1]
      BY <2>2, <3>2, SubSeqProperties
    <3> HIDE DEF a, b
    <3>4. /\ (IF 1 <= rx THEN rx - 1 + 1 ELSE 0) = rx /\ rx - 1 + 1 = rx
          /\ \A k \in 1 .. rx : 1 + k - 1 = k
      BY <2>2, Numbers
    <3>5. ASSUME NEW k \in 1 .. rx
          PROVE  a[k] = b[k]
      <4>1. a[k] = line[k] /\ Stream[k] = line[k] /\ line[k] \in Bytes
        BY <2>3, <3>3, <3>4
      <4>2. line[k].of = m /\ line[k].at = k
        <5>1. k \in 1 .. Len(Stream) /\ k <= rx
          BY <2>2, <2>3
        <5> QED BY <2>2, <4>1, <5>1
      <4>3. line[k] = [of |-> m, at |-> k]
        BY <4>1, <4>2 DEF Bytes, Noise
      <4> QED BY <3>1, <4>1, <4>3
    <3>6. a = b
      BY <3>1, <3>3, <3>4, <3>5, SeqEqual
    <3> QED BY <3>6 DEF a, b
  <2>5. result = <<m>>
    <3>1. Head(SubSeq(line, 1, rx)).of = m
      <4>1. Tail(Frame(m)) \in Seq(Bytes) /\ Len(Tail(Frame(m))) = rx
            /\ Tail(Frame(m))[1] = [of |-> m, at |-> 1] /\ rx # 0
        BY <2>2, FrameProperties, Numbers
      <4> DEFINE b == Tail(Frame(m))
      <4>2. b # <<>> /\ b[1].of = m
        BY <4>1
      <4> HIDE DEF b
      <4>3. Head(b) = b[1]
        BY <4>1, <4>2, HeadTailProperties DEF b
      <4> QED BY <2>4, <4>2, <4>3 DEF b
    <3>2. m # Garbage
      BY <2>2, Numbers
    <3> QED BY <2>1, <2>4, <3>1, <3>2 DEF Decoded
  <2>6. far' = Append(far, m)
    <3>1. m \in Messages \cup {Garbage}
      BY <2>2
    <3> QED BY <1>1, <2>1, <2>5, <3>1, AppendIsConcat
  <2>7. Stream' = SubSeq(Stream, rx + 1, Len(Stream))
    BY <1>1, <2>1, <2>2, <2>3, SubSeqOfConcat DEF Stream
  <2>8. /\ InStep(SubSeq(Stream, rx + 1, Len(Stream)), AtLength)
        /\ m \in MessagesOf(Stream)
        /\ \A n \in MessagesOf(Stream) : m <= n
        /\ MessagesOf(SubSeq(Stream, rx + 1, Len(Stream))) = MessagesOf(Stream) \ {m}
    <3>1. \A k \in 1 .. Len(Stream) : Stream[k].at <= Length[Stream[k].of]
      BY <1>2 DEF InStep
    <3>2. rx <= Len(Stream)
      BY <2>2, <2>3
    <3> QED BY <1>2, <2>2, <3>1, <3>2, InStepRest DEF m
  <2> QED BY <1>3, <2>1, <2>6, <2>7, <2>8 DEF Given
<1>12. CASE GiveUp
  <2>1. tx = <<>> /\ rx # AtLength /\ Len(line) < rx
    BY <1>12 DEF GiveUp, SenderIdle, ReadTimesOut
  <2>2. Stream = line
    BY <1>1, <2>1, ConcatEmptySeq DEF Stream
  <2>3. /\ rx \in Nat /\ 1 \in 1 .. Len(Stream) /\ rx = Length[Stream[1].of]
        /\ \A k \in 1 .. Len(Stream) :
             k <= rx => Stream[k].of = Stream[1].of /\ Stream[k].at = k
    BY <1>10, <2>1
  <2>4. Len(Stream) \in Nat
    BY <1>2, LenProperties
  <2>5. Len(Stream) \in 1 .. Len(Stream) /\ Len(Stream) <= rx /\ Len(Stream) # rx /\ Stream # <<>>
    BY <2>1, <2>2, <2>3, <2>4, EmptySeq
  <2>6. Last(Stream[Len(Stream)])
    BY <2>5 DEF InStep
  <2>7. Length[Stream[1].of] = Len(Stream)
    BY <2>3, <2>5, <2>6 DEF Last
  <2> QED BY <2>3, <2>5, <2>7
<1>13. CASE Leave
  <2>1. far # <<>> /\ far' = Tail(far) /\ UNCHANGED uart
    BY <1>13 DEF Leave
  <2>2. far' = Without(far, 1) /\ 1 \in DOMAIN far
    BY <1>1, <2>1, FirstIsWithout
  <2> QED BY <1>5, <2>1, <2>2
<1>14. CASE Drop
  BY <1>5, <1>14 DEF Drop
<1>15. CASE UNCHANGED vars
  BY <1>5, <1>15 DEF vars
<1> QED BY <1>4, <1>6, <1>7, <1>8, <1>9, <1>11, <1>12, <1>13, <1>14, <1>15
        DEF Next, Disturb, Stall, ResetNear, ResetFar

-----------------------------------------------------------------------------
(* What is on the wire and in the boards are bytes, messages and lengths   *)
(* that recv_over_uart can wait for, whatever faults happen.               *)
THEOREM TypeCorrect == Spec => []TypeOK
<1>1. Init => IInv
  BY InvariantInit
<1>2. IInv /\ [Next]_vars => IInv'
  BY StepOk
<1>3. IInv => TypeOK
  BY DEF IInv, TypeOK, Types, Scalars
<1> QED BY <1>1, <1>2, <1>3, PTL DEF Spec

(* The two boards are a lossy link (EndToEnd): whatever the line loses,    *)
(* changes or adds, and whenever a board resets, messages of the near side *)
(* leave the far one (twai_tx_task) in their order and at most once.       *)
THEOREM ImplementsLossyLink == Spec => EndToEnd
<1>1. Init => IInv /\ OnTheWay = {}
  BY InvariantInit
<1>2. IInv /\ [Next]_vars => IInv' /\ (Arrives \/ Loses \/ Leaves)
  BY StepOk
<1>3. IInv => Genuine(far) \cup OnWire \cup Genuine(near) = OnTheWay
  BY PendingIs DEF IInv, OnWire, Stream, OnTheWay
<1>4. IInv' => (Genuine(far) \cup OnWire \cup Genuine(near))' = OnTheWay'
  BY PendingIs DEF IInv, OnWire, Stream, OnTheWay
<1>5. Init => Link!Init
  BY <1>1, <1>3 DEF Init, Link!Init
<1>6. IInv /\ [Next]_vars => [Link!Next]_(Link!vars)
  BY <1>2, <1>3, <1>4
     DEF Arrives, Loses, Leaves, Link!Next, Link!Arrive, Link!Lose, Link!Leave
<1> QED BY <1>1, <1>2, <1>5, <1>6, PTL DEF Spec, EndToEnd, Link!Spec

(* As long as nothing disturbs it a receiver in step stays so: every       *)
(* message is read whole, once and in its turn (recv_over_uart), for any   *)
(* lengths of messages and whatever is sent.                               *)
THEOREM ReceiverStaysInStep == Spec => StaysInStep
<1>1. Init => IInv
  BY InvariantInit
<1>2. IInv /\ [Next]_vars => IInv'
  BY StepOk
<1>3. IInv => (Aligned <=> InStep(Stream, rx))
  BY AlignedIs DEF IInv, Types
<1>4. IInv' => (Aligned' <=> InStep(Stream, rx)')
  BY <1>3, PTL
<1>5. IInv /\ IInv' /\ [Next]_vars =>
        (Aligned /\ faults' = faults => Aligned' /\ (Kept \/ Sent \/ Given))
  BY <1>3, <1>4, StepInStep
<1>6. IInv /\ IInv' /\ [Next]_vars =>
        [Aligned /\ faults' = faults =>
           /\ Aligned'
           /\ \/ OnWire' = OnWire /\ far' \in {far} \cup {Without(far, i) : i \in DOMAIN far}
              \/ Transmit /\ OnWire' = OnWire \cup {Head(near)} /\ far' = far
              \/ \E m \in OnWire : /\ \A k \in OnWire : m <= k
                                  /\ OnWire' = OnWire \ {m} /\ far' = Append(far, m)]_vars
  BY <1>5 DEF Kept, Sent, Given
<1> QED BY <1>1, <1>2, <1>6, PTL DEF Spec, StaysInStep

(* Without a fault the receiver is in step, and only what was sent is in   *)
(* the far board.                                                          *)
Undisturbed ==
  faults = 0 => InStep(Stream, rx) /\ \A i \in 1 .. Len(far) : far[i] # Garbage

LEMMA UndisturbedInit ==
  ASSUME Init
  PROVE  Undisturbed
<1>1. /\ line = <<>> /\ tx = <<>> /\ far = <<>> /\ rx = AtLength
      /\ Len(<<>>) = 0 /\ Stream = <<>> \o <<>>
  BY DEF Init, Stream
<1>2. \A S : <<>> \in Seq(S)
  OBVIOUS
<1>3. <<>> \o <<>> = <<>>
  OBVIOUS
<1> QED BY <1>1, <1>2, <1>3 DEF Undisturbed, InStep

LEMMA UndisturbedStep ==
  ASSUME IInv, IInv', Undisturbed, [Next]_vars
  PROVE  Undisturbed'
<1> SUFFICES ASSUME faults' = 0
             PROVE  /\ InStep(Stream, rx)'
                    /\ \A i \in 1 .. Len(far') : far'[i] # Garbage
  BY DEF Undisturbed
<1>1. faults \in Nat /\ faults' \in {faults, faults + 1}
  <2>1. faults \in Nat
    BY BoundAssumption DEF IInv, Scalars
  <2>2. UNCHANGED faults \/ Fault
    BY DEF Next, Receive, Transmit, TransmitRest, Wait, Accept, GiveUp, Leave,
           Drop, Disturb, Stall, ResetNear, ResetFar, vars
  <2> QED BY <2>1, <2>2 DEF Fault
<1>2. faults = 0 /\ faults' = faults
  BY <1>1
<1>3. InStep(Stream, rx)' /\ (Kept \/ Sent \/ Given)
  BY <1>2, StepInStep DEF Undisturbed
<1>4. /\ far \in Seq(Messages \cup {Garbage}) /\ Len(far) \in Nat
      /\ DOMAIN far = 1 .. Len(far) /\ \A i \in 1 .. Len(far) : far[i] # Garbage
  BY <1>2 DEF IInv, Types, Undisturbed
<1>5. CASE far' = far
  BY <1>3, <1>4, <1>5
<1>6. ASSUME NEW i \in 1 .. Len(far), far' = Without(far, i)
      PROVE  \A k \in 1 .. Len(far') : far'[k] # Garbage
  <2>1. /\ Len(far') = Len(far) - 1
        /\ \A k \in 1 .. Len(far) - 1 : far'[k] = IF k < i THEN far[k] ELSE far[k + 1]
    BY <1>4, <1>6, WithoutProperties, Zenon
  <2> SUFFICES ASSUME NEW k \in 1 .. Len(far')
               PROVE  far'[k] # Garbage
    OBVIOUS
  <2>2. /\ k \in 1 .. Len(far) - 1
        /\ k \in 1 .. Len(far) /\ k + 1 \in 1 .. Len(far)
    BY <1>4, <2>1
  <2>3. far'[k] = far[k] \/ far'[k] = far[k + 1]
    BY <2>1, <2>2
  <2> QED BY <1>4, <2>2, <2>3
<1>7. ASSUME NEW m \in OnWire, far' = Append(far, m)
      PROVE  \A k \in 1 .. Len(far') : far'[k] # Garbage
  <2>1. m # Garbage /\ m \in Messages
    <3>1. line \in Seq(Bytes) /\ tx \in Seq(Bytes)
      BY DEF IInv, Types
    <3>2. Stream \in Seq(Bytes)
      BY <3>1, ConcatProperties DEF Stream
    <3>3. DOMAIN Stream = 1 .. Len(Stream) /\ \A k \in 1 .. Len(Stream) : Stream[k] \in Bytes
      BY <3>2, LenProperties
    <3> QED BY <3>3, Numbers DEF OnWire
  <2>2. /\ Len(far') = Len(far) + 1 /\ far'[Len(far) + 1] = m
        /\ \A k \in 1 .. Len(far) : far'[k] = far[k]
    BY <1>4, <1>7, <2>1, AppendProperties
  <2> QED BY <1>4, <2>1, <2>2
<1> QED BY <1>3, <1>4, <1>5, <1>6, <1>7 DEF Kept, Sent, Given

(* Nothing that nobody has sent leaves the far board (recv_over_uart)      *)
(* before the first fault, for messages of any lengths: the framing alone  *)
(* never takes the bytes of one message, or of two, for another.           *)
THEOREM NoGarbageUndisturbed == Spec => []GarbageNeedsFault
<1>1. Init => IInv /\ Undisturbed
  BY InvariantInit, UndisturbedInit
<1>2. IInv /\ [Next]_vars => IInv'
  BY StepOk
<1>3. IInv /\ IInv' /\ Undisturbed /\ [Next]_vars => Undisturbed'
  BY UndisturbedStep
<1>4. IInv /\ Undisturbed => GarbageNeedsFault
  BY DEF IInv, Types, Undisturbed, GarbageNeedsFault
<1> QED BY <1>1, <1>2, <1>3, <1>4, PTL DEF Spec
=============================================================================

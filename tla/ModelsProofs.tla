---------------------------- MODULE ModelsProofs ----------------------------
(***************************************************************************)
(* Theorems about Models, for any properties, lights, values on the buses  *)
(* and in the hands of the user, any number of go() tasks and any windows. *)
(***************************************************************************)
EXTENDS Models, SequenceTheorems, TLAPS

(* The operations with the values they can carry.                          *)
Data == UNION {[F -> Nat] : F \in SUBSET Settable}
Value(p) == [Fields(p) -> Nat]
LockOps == [do : {"lock", "unlock"}, m : ModelNames]
WindowOps == [do : {"disable"}, m : ModelNames, ms : 0 .. UserWindow]
PatchOps == [do : {"patch"}, p : Props, data : Data]
ValueOps(p) == [do : {"apply", "notify", "write"}, p : {p}, v : Value(p)]
SleepOps == [do : {"sleep"}, ms : Nat]
Ops == LockOps \cup WindowOps \cup PatchOps \cup SleepOps
         \cup UNION {ValueOps(p) : p \in Props}

(* A task that has s yet to do holds the lock of m: it gives it back       *)
(* before it takes it.                                                     *)
Holds(s, m) ==
  \E j \in 1 .. Len(s) : /\ s[j].do = "unlock" /\ s[j].m = m
                         /\ \A i \in 1 .. j - 1 : ~(s[i].do = "lock" /\ s[i].m = m)

(* What the code sees to when it does o before s.                          *)
Ok(o, s) ==
  /\ o.do = "lock" =>
       /\ Holds(s, o.m)
       /\ \A m \in ModelNames : m # o.m /\ Holds(s, m) => m = "car" /\ o.m = "display"
  /\ o.do = "unlock" => ~Holds(s, o.m)
  /\ o.do = "disable" => Holds(s, o.m)
  /\ o.do \in {"patch", "apply", "write"} => Holds(s, ModelOf(o.p))
  /\ o.do \in {"patch", "apply"} /\ o.p = "528" => ~Holds(s, "display")
  /\ o.do = "notify" => ~Holds(s, "car") /\ ~Holds(s, "display")

Rest(s, k) == SubSeq(s, k + 1, Len(s))
Good(s) == \A k \in 1 .. Len(s) : Ok(s[k], Rest(s, k))
-----------------------------------------------------------------------------
LEMMA ModelNamesOnly == \A p : ModelOf(p) \in ModelNames
BY DEF ModelOf, ModelNames

LEMMA OpDo ==
  ASSUME NEW o \in Ops
  PROVE  o.do \in {"lock", "unlock", "disable", "patch", "apply",
                   "notify", "write", "sleep"}
BY DEF Ops, LockOps, WindowOps, PatchOps, ValueOps, SleepOps

LEMMA LockShape ==
  ASSUME NEW o \in Ops, o.do \in {"lock", "unlock"}
  PROVE  o.m \in ModelNames
BY DEF Ops, LockOps, WindowOps, PatchOps, ValueOps, SleepOps

LEMMA WindowShape ==
  ASSUME NEW o \in Ops, o.do = "disable"
  PROVE  o.m \in ModelNames /\ o.ms \in 0 .. UserWindow
BY DEF Ops, LockOps, WindowOps, PatchOps, ValueOps, SleepOps

LEMMA PatchShape ==
  ASSUME NEW o \in Ops, o.do = "patch"
  PROVE  o.p \in Props /\ o.data \in Data
BY DEF Ops, LockOps, WindowOps, PatchOps, ValueOps, SleepOps

LEMMA ValueShape ==
  ASSUME NEW o \in Ops, o.do \in {"apply", "notify", "write"}
  PROVE  o.p \in Props /\ o.v \in Value(o.p)
BY DEF Ops, LockOps, WindowOps, PatchOps, ValueOps, SleepOps

LEMMA SleepShape ==
  ASSUME NEW o \in Ops, o.do = "sleep"
  PROVE  o.ms \in Nat
BY DEF Ops, LockOps, WindowOps, PatchOps, ValueOps, SleepOps

LEMMA Made ==
  /\ \A m \in ModelNames : Lock(m) \in Ops /\ Unlock(m) \in Ops
  /\ \A m \in ModelNames, ms \in 0 .. UserWindow : [do |-> "disable", m |-> m, ms |-> ms] \in Ops
  /\ \A p \in Props, d \in Data : [do |-> "patch", p |-> p, data |-> d] \in Ops
  /\ \A p \in Props : \A v \in Value(p) :
       /\ [do |-> "apply", p |-> p, v |-> v] \in Ops
       /\ [do |-> "notify", p |-> p, v |-> v] \in Ops
       /\ Write(p, v) \in Ops
  /\ \A ms \in Nat : Sleep(ms) \in Ops
<1>1. \A m \in ModelNames : Lock(m) \in Ops /\ Unlock(m) \in Ops
  BY DEF Ops, LockOps, Lock, Unlock
<1>2. \A m \in ModelNames, ms \in 0 .. UserWindow : [do |-> "disable", m |-> m, ms |-> ms] \in Ops
  BY DEF Ops, WindowOps
<1>3. \A p \in Props, d \in Data : [do |-> "patch", p |-> p, data |-> d] \in Ops
  BY DEF Ops, PatchOps
<1>4. ASSUME NEW p \in Props, NEW v \in Value(p)
      PROVE  /\ [do |-> "apply", p |-> p, v |-> v] \in Ops
             /\ [do |-> "notify", p |-> p, v |-> v] \in Ops
             /\ Write(p, v) \in Ops
  <2>1. /\ [do |-> "apply", p |-> p, v |-> v] \in ValueOps(p)
        /\ [do |-> "notify", p |-> p, v |-> v] \in ValueOps(p)
        /\ Write(p, v) \in ValueOps(p)
    BY DEF ValueOps, Write
  <2> QED BY <2>1 DEF Ops
<1>5. \A ms \in Nat : Sleep(ms) \in Ops
  BY DEF Ops, SleepOps, Sleep
<1> QED BY <1>1, <1>2, <1>3, <1>4, <1>5
-----------------------------------------------------------------------------
(* One operation more.                                                     *)
LEMMA ConsProperties ==
  ASSUME NEW o \in Ops, NEW s \in Seq(Ops)
  PROVE  /\ <<o>> \o s \in Seq(Ops) /\ <<o>> \o s # <<>>
         /\ Len(<<o>> \o s) = Len(s) + 1 /\ Len(s) \in Nat
         /\ (<<o>> \o s)[1] = o
         /\ \A i \in 1 .. Len(s) : (<<o>> \o s)[i + 1] = s[i]
         /\ Head(<<o>> \o s) = o /\ Tail(<<o>> \o s) = s
<1>1. <<o>> \in Seq(Ops) /\ Len(<<o>>) = 1 /\ <<o>>[1] = o
  OBVIOUS
<1>2. Len(s) \in Nat
  BY LenProperties
<1> DEFINE q == <<o>> \o s
<1>3. /\ q \in Seq(Ops) /\ Len(q) = Len(s) + 1
      /\ \A i \in 1 .. 1 + Len(s) : q[i] = IF i <= 1 THEN o ELSE s[i - 1]
  BY <1>1, <1>2, ConcatProperties
<1> HIDE DEF q
<1>4. q[1] = o /\ \A i \in 1 .. Len(s) : q[i + 1] = s[i]
  BY <1>2, <1>3
<1>5. q # <<>>
  BY <1>2, <1>3
<1>6. Head(q) = o
  BY <1>3, <1>4, <1>5
<1>7. Tail(q) = s
  <2>1. /\ Tail(q) \in Seq(Ops) /\ Len(Tail(q)) = Len(q) - 1
        /\ \A i \in 1 .. Len(Tail(q)) : Tail(q)[i] = q[i + 1]
    BY <1>3, <1>5, HeadTailProperties
  <2>2. Len(Tail(q)) = Len(s)
    BY <1>2, <1>3, <2>1
  <2> QED BY <1>4, <2>1, <2>2, SeqEqual
<1> QED BY <1>2, <1>3, <1>4, <1>5, <1>6, <1>7 DEF q

LEMMA HeadAndTail ==
  ASSUME NEW s \in Seq(Ops), s # <<>>
  PROVE  /\ Head(s) \in Ops /\ Tail(s) \in Seq(Ops)
         /\ s = <<Head(s)>> \o Tail(s)
<1>1. /\ Head(s) \in Ops /\ Tail(s) \in Seq(Ops) /\ Len(Tail(s)) = Len(s) - 1
      /\ \A i \in 1 .. Len(Tail(s)) : Tail(s)[i] = s[i + 1]
  BY HeadTailProperties
<1>2. Len(s) \in Nat /\ Len(s) > 0 /\ Head(s) = s[1]
  BY LenProperties
<1> DEFINE q == <<Head(s)>> \o Tail(s)
<1>3. /\ q \in Seq(Ops) /\ Len(q) = Len(s) /\ q[1] = s[1]
      /\ \A i \in 1 .. Len(Tail(s)) : q[i + 1] = Tail(s)[i]
  BY <1>1, <1>2, ConsProperties
<1> HIDE DEF q
<1>4. \A i \in 1 .. Len(s) : q[i] = s[i]
  <2> SUFFICES ASSUME NEW i \in 1 .. Len(s), i # 1
               PROVE  q[i] = s[i]
    BY <1>3
  <2>1. i - 1 \in 1 .. Len(Tail(s)) /\ (i - 1) + 1 = i
    BY <1>1, <1>2
  <2> QED BY <1>1, <1>3, <2>1
<1>5. q = s
  BY <1>3, <1>4, SeqEqual
<1> QED BY <1>1, <1>5 DEF q

LEMMA HoldsEmpty == \A m : ~Holds(<<>>, m)
BY Len(<<>>) = 0 DEF Holds

LEMMA HoldsCons ==
  ASSUME NEW o \in Ops, NEW s \in Seq(Ops), NEW m \in ModelNames
  PROVE  Holds(<<o>> \o s, m) <=>
           \/ o.do = "unlock" /\ o.m = m
           \/ ~(o.do = "lock" /\ o.m = m) /\ Holds(s, m)
<1> DEFINE q == <<o>> \o s
<1>1. /\ Len(q) = Len(s) + 1 /\ Len(s) \in Nat /\ q[1] = o
      /\ \A i \in 1 .. Len(s) : q[i + 1] = s[i]
  BY ConsProperties
<1> HIDE DEF q
<1>2. CASE o.do = "unlock" /\ o.m = m
  <2>1. 1 \in 1 .. Len(q) /\ 1 .. 1 - 1 = {}
    BY <1>1
  <2>2. Holds(q, m)
    BY <1>1, <1>2, <2>1 DEF Holds
  <2> QED BY <1>2, <2>2 DEF q
<1>3. ASSUME o.do = "lock", o.m = m
      PROVE  ~Holds(q, m)
  <2> SUFFICES ASSUME NEW j \in 1 .. Len(q), q[j].do = "unlock",
                      \A i \in 1 .. j - 1 : ~(q[i].do = "lock" /\ q[i].m = m)
               PROVE  FALSE
    BY DEF Holds
  <2>1. j # 1
    BY <1>1, <1>3
  <2>2. 1 \in 1 .. j - 1
    BY <1>1, <2>1
  <2> QED BY <1>1, <1>3, <2>2
<1>4. ASSUME ~(o.do = "unlock" /\ o.m = m), Holds(q, m)
      PROVE  Holds(s, m)
  <2>1. PICK j \in 1 .. Len(q) :
               /\ q[j].do = "unlock" /\ q[j].m = m
               /\ \A i \in 1 .. j - 1 : ~(q[i].do = "lock" /\ q[i].m = m)
    BY <1>4 DEF Holds
  <2>2. j # 1
    BY <1>1, <1>4, <2>1
  <2>3. j - 1 \in 1 .. Len(s) /\ (j - 1) + 1 = j
    BY <1>1, <2>2
  <2>4. s[j - 1].do = "unlock" /\ s[j - 1].m = m
    BY <1>1, <2>1, <2>3
  <2>5. ASSUME NEW i \in 1 .. (j - 1) - 1
        PROVE  ~(s[i].do = "lock" /\ s[i].m = m)
    <3>1. i \in 1 .. Len(s) /\ i + 1 \in 1 .. j - 1
      BY <1>1, <2>3
    <3> QED BY <1>1, <2>1, <3>1
  <2> QED BY <2>3, <2>4, <2>5 DEF Holds
<1>5. ASSUME ~(o.do = "lock" /\ o.m = m), Holds(s, m)
      PROVE  Holds(q, m)
  <2>1. PICK j \in 1 .. Len(s) :
               /\ s[j].do = "unlock" /\ s[j].m = m
               /\ \A i \in 1 .. j - 1 : ~(s[i].do = "lock" /\ s[i].m = m)
    BY <1>5 DEF Holds
  <2>2. j + 1 \in 1 .. Len(q) /\ q[j + 1].do = "unlock" /\ q[j + 1].m = m
    BY <1>1, <2>1
  <2>3. ASSUME NEW i \in 1 .. (j + 1) - 1
        PROVE  ~(q[i].do = "lock" /\ q[i].m = m)
    <3>1. CASE i = 1
      BY <1>1, <1>5, <3>1
    <3>2. CASE i # 1
      <4>1. i - 1 \in 1 .. Len(s) /\ i - 1 \in 1 .. j - 1 /\ (i - 1) + 1 = i
        BY <1>1, <3>2
      <4> QED BY <1>1, <2>1, <4>1
    <3> QED BY <3>1, <3>2
  <2> QED BY <2>2, <2>3 DEF Holds
<1> QED BY <1>2, <1>3, <1>4, <1>5 DEF q

LEMMA GoodEmpty == Good(<<>>)
BY Len(<<>>) = 0 DEF Good

LEMMA RestCons ==
  ASSUME NEW o \in Ops, NEW s \in Seq(Ops)
  PROVE  \A k \in 0 .. Len(s) :
           Rest(<<o>> \o s, k + 1) = IF k = 0 THEN s ELSE Rest(s, k)
<1> DEFINE q == <<o>> \o s
<1>1. /\ q \in Seq(Ops) /\ Len(q) = Len(s) + 1 /\ Len(s) \in Nat /\ q[1] = o
      /\ \A i \in 1 .. Len(s) : q[i + 1] = s[i]
  BY ConsProperties
<1> HIDE DEF q
<1>2. ASSUME NEW k \in 0 .. Len(s)
      PROVE  Rest(q, k + 1) = IF k = 0 THEN s ELSE Rest(s, k)
  <2> DEFINE a == SubSeq(q, k + 2, Len(s) + 1)
             b == SubSeq(s, k + 1, Len(s))
  <2>1. /\ Len(a) = Len(s) - k /\ a \in Seq(Ops)
        /\ \A i \in 1 .. Len(s) - k : a[i] = q[k + 1 + i]
    BY <1>1
  <2>2. /\ Len(b) = Len(s) - k /\ b \in Seq(Ops)
        /\ \A i \in 1 .. Len(s) - k : b[i] = s[k + i]
    BY <1>1
  <2>3. \A i \in 1 .. Len(s) - k : q[k + 1 + i] = s[k + i]
    <3> SUFFICES ASSUME NEW i \in 1 .. Len(s) - k
                 PROVE  q[k + 1 + i] = s[k + i]
      OBVIOUS
    <3>1. k + i \in 1 .. Len(s) /\ (k + i) + 1 = k + 1 + i
      BY <1>1
    <3> QED BY <1>1, <3>1
  <2> HIDE DEF a, b
  <2>4. a = b
    BY <2>1, <2>2, <2>3, SeqEqual
  <2>5. k = 0 => b = s
    BY <1>1, <2>2, SeqEqual
  <2>6. Rest(q, k + 1) = a /\ Rest(s, k) = b
    BY <1>1 DEF Rest, a, b
  <2> QED BY <2>4, <2>5, <2>6
<1> QED BY <1>2 DEF q

LEMMA GoodCons ==
  ASSUME NEW o \in Ops, NEW s \in Seq(Ops)
  PROVE  Good(<<o>> \o s) <=> Ok(o, s) /\ Good(s)
<1> DEFINE q == <<o>> \o s
<1>1. /\ q \in Seq(Ops) /\ Len(q) = Len(s) + 1 /\ Len(s) \in Nat /\ q[1] = o
      /\ \A i \in 1 .. Len(s) : q[i + 1] = s[i]
  BY ConsProperties
<1>2. \A k \in 0 .. Len(s) : Rest(q, k + 1) = IF k = 0 THEN s ELSE Rest(s, k)
  BY RestCons
<1> HIDE DEF q
<1>3. ASSUME Good(q)
      PROVE  Ok(o, s) /\ Good(s)
  <2>1. Ok(o, s)
    <3>1. 1 \in 1 .. Len(q) /\ 0 \in 0 .. Len(s) /\ 0 + 1 = 1
      BY <1>1
    <3>2. Ok(q[1], Rest(q, 1))
      BY <1>3, <3>1 DEF Good
    <3> QED BY <1>1, <1>2, <3>1, <3>2
  <2>2. ASSUME NEW k \in 1 .. Len(s)
        PROVE  Ok(s[k], Rest(s, k))
    <3>1. k + 1 \in 1 .. Len(q) /\ k \in 0 .. Len(s) /\ k # 0
      BY <1>1
    <3>2. Ok(q[k + 1], Rest(q, k + 1))
      BY <1>3, <3>1 DEF Good
    <3> QED BY <1>1, <1>2, <3>1, <3>2
  <2> QED BY <2>1, <2>2 DEF Good
<1>4. ASSUME Ok(o, s), Good(s)
      PROVE  Good(q)
  <2> SUFFICES ASSUME NEW k \in 1 .. Len(q)
               PROVE  Ok(q[k], Rest(q, k))
    BY DEF Good
  <2>1. k - 1 \in 0 .. Len(s) /\ (k - 1) + 1 = k
    BY <1>1
  <2>2. Rest(q, k) = IF k - 1 = 0 THEN s ELSE Rest(s, k - 1)
    BY <1>2, <2>1
  <2>3. CASE k = 1
    BY <1>1, <1>4, <2>2, <2>3
  <2>4. CASE k # 1
    <3>1. k - 1 \in 1 .. Len(s) /\ k - 1 # 0
      BY <2>1, <2>4
    <3>2. Ok(s[k - 1], Rest(s, k - 1))
      BY <1>4, <3>1 DEF Good
    <3> QED BY <1>1, <2>1, <2>2, <3>1, <3>2
  <2> QED BY <2>3, <2>4
<1> QED BY <1>3, <1>4 DEF q
-----------------------------------------------------------------------------
(* A part of a function that leaves the locks as they are, whoever calls   *)
(* it: with neither lock held, or, when it takes the display's lock only,  *)
(* with the car's.                                                         *)
Free(s, m) == ~Holds(s, "display") /\ (m = "car" => ~Holds(s, "car"))
Neutral(a, m) ==
  /\ a \in Seq(Ops)
  /\ \A s \in Seq(Ops) : Good(s) /\ Free(s, m) =>
       /\ Good(a \o s)
       /\ \A k \in ModelNames : Holds(a \o s, k) <=> Holds(s, k)

LEMMA NeutralEmpty == \A m : Neutral(<<>>, m)
<1>1. <<>> \in Seq(Ops) /\ \A s \in Seq(Ops) : <<>> \o s = s
  BY ConcatEmptySeq
<1> QED BY <1>1 DEF Neutral

LEMMA NeutralConcat ==
  ASSUME NEW a, NEW b, NEW m, Neutral(a, m), Neutral(b, m), m \in ModelNames
  PROVE  Neutral(a \o b, m)
<1>1. a \in Seq(Ops) /\ b \in Seq(Ops) /\ a \o b \in Seq(Ops)
  BY ConcatProperties DEF Neutral
<1> SUFFICES ASSUME NEW s \in Seq(Ops), Good(s), Free(s, m)
             PROVE  /\ Good((a \o b) \o s)
                    /\ \A k \in ModelNames : Holds((a \o b) \o s, k) <=> Holds(s, k)
  BY <1>1 DEF Neutral
<1>2. (a \o b) \o s = a \o (b \o s) /\ b \o s \in Seq(Ops)
  BY <1>1, ConcatAssociative, ConcatProperties
<1>3. Good(b \o s) /\ \A k \in ModelNames : Holds(b \o s, k) <=> Holds(s, k)
  BY DEF Neutral
<1>4. Free(b \o s, m)
  BY <1>3 DEF Free, ModelNames
<1> QED BY <1>2, <1>3, <1>4 DEF Neutral

LEMMA NeutralWider ==
  ASSUME NEW a, Neutral(a, "display")
  PROVE  Neutral(a, "car")
BY DEF Neutral, Free

LEMMA GuardedIs ==
  ASSUME NEW m \in ModelNames, NEW o \in Ops, NEW s \in Seq(Ops)
  PROVE  Guarded(m, o) \o s = <<Lock(m)>> \o (<<o>> \o (<<Unlock(m)>> \o s))
<1>1. /\ <<Lock(m)>> \in Seq(Ops) /\ <<o>> \in Seq(Ops) /\ <<Unlock(m)>> \in Seq(Ops)
      /\ <<o>> \o <<Unlock(m)>> \in Seq(Ops)
  BY Made
<1>2. Guarded(m, o) = <<Lock(m)>> \o (<<o>> \o <<Unlock(m)>>)
  BY Made DEF Guarded
<1>3. (<<o>> \o <<Unlock(m)>>) \o s = <<o>> \o (<<Unlock(m)>> \o s)
  BY <1>1, ConcatAssociative
<1>4. (<<Lock(m)>> \o (<<o>> \o <<Unlock(m)>>)) \o s = <<Lock(m)>> \o ((<<o>> \o <<Unlock(m)>>) \o s)
  BY <1>1, ConcatAssociative
<1> QED BY <1>2, <1>3, <1>4

LEMMA NeutralGuarded ==
  ASSUME NEW m \in ModelNames, NEW o \in Ops,
         \/ o.do = "disable" /\ o.m = m
         \/ o.do \in {"patch", "apply", "write"} /\ ModelOf(o.p) = m
  PROVE  Neutral(Guarded(m, o), m)
<1>1. Lock(m) \in Ops /\ Unlock(m) \in Ops
  BY Made
<1>2. /\ Lock(m).do = "lock" /\ Lock(m).m = m
      /\ Unlock(m).do = "unlock" /\ Unlock(m).m = m
  BY DEF Lock, Unlock
<1>3. Guarded(m, o) \in Seq(Ops)
  BY <1>1 DEF Guarded
<1> SUFFICES ASSUME NEW s \in Seq(Ops), Good(s), Free(s, m)
             PROVE  /\ Good(Guarded(m, o) \o s)
                    /\ \A k \in ModelNames : Holds(Guarded(m, o) \o s, k) <=> Holds(s, k)
  BY <1>3 DEF Neutral
<1> DEFINE s1 == <<Unlock(m)>> \o s
           s2 == <<o>> \o s1
           s3 == <<Lock(m)>> \o s2
<1>4. Guarded(m, o) \o s = s3
  BY GuardedIs
<1>5. s1 \in Seq(Ops) /\ s2 \in Seq(Ops) /\ s3 \in Seq(Ops)
  BY <1>1, ConsProperties
<1>6. ~Holds(s, m)
  BY DEF Free, ModelNames
<1>7. /\ \A k \in ModelNames : Holds(s1, k) <=> k = m \/ Holds(s, k)
      /\ Good(s1) <=> Ok(Unlock(m), s) /\ Good(s)
  BY <1>1, <1>2, HoldsCons, GoodCons
<1>8. o.do # "lock" /\ o.do # "unlock"
  OBVIOUS
<1>9. /\ \A k \in ModelNames : Holds(s2, k) <=> Holds(s1, k)
      /\ Good(s2) <=> Ok(o, s1) /\ Good(s1)
  <2> HIDE DEF s1
  <2> QED BY <1>5, <1>8, HoldsCons, GoodCons
<1>10. /\ \A k \in ModelNames : Holds(s3, k) <=> k # m /\ Holds(s2, k)
       /\ Good(s3) <=> Ok(Lock(m), s2) /\ Good(s2)
  <2> HIDE DEF s2
  <2> QED BY <1>1, <1>2, <1>5, HoldsCons, GoodCons
<1> HIDE DEF s1, s2, s3
<1>11. Ok(Unlock(m), s)
  BY <1>2, <1>6 DEF Ok
<1>12. Ok(o, s1)
  <2>1. "display" \in ModelNames /\ (ModelOf("528") = "car")
    BY DEF ModelNames, ModelOf
  <2>2. ~Holds(s, "display")
    BY DEF Free
  <2> QED BY <1>7, <1>8, <2>1, <2>2 DEF Ok
<1>13. Ok(Lock(m), s2)
  <2>1. Holds(s2, m)
    BY <1>7, <1>9
  <2>2. \A k \in ModelNames : k # m /\ Holds(s2, k) => k = "car" /\ m = "display"
    BY <1>7, <1>9 DEF Free, ModelNames
  <2> QED BY <1>2, <2>1, <2>2 DEF Ok
<1>14. \A k \in ModelNames : Holds(s3, k) <=> Holds(s, k)
  BY <1>6, <1>7, <1>9, <1>10
<1> QED BY <1>4, <1>7, <1>9, <1>10, <1>11, <1>12, <1>13, <1>14

LEMMA NeutralDisable ==
  ASSUME NEW m \in ModelNames, NEW ms \in 0 .. UserWindow
  PROVE  Neutral(DisableUpdatesFor(m, ms), m)
<1> DEFINE o == [do |-> "disable", m |-> m, ms |-> ms]
<1>1. o \in Ops /\ o.do = "disable" /\ o.m = m
  BY Made
<1> HIDE DEF o
<1>2. Neutral(Guarded(m, o), m)
  BY <1>1, NeutralGuarded
<1> QED BY <1>2 DEF DisableUpdatesFor, o

LEMMA NeutralPatch ==
  ASSUME NEW p, NEW data \in Data, ModelOf(p) = "display"
  PROVE  Neutral(UpdateMasked(p, data), "display")
<1>1. CASE p \notin Props
  BY <1>1, NeutralEmpty DEF UpdateMasked
<1>2. CASE p \in Props
  <2> DEFINE o == [do |-> "patch", p |-> p, data |-> data]
  <2>1. o \in Ops /\ o.do = "patch" /\ o.p = p
    BY <1>2, Made
  <2> HIDE DEF o
  <2>2. Neutral(Guarded("display", o), "display")
    BY <2>1, NeutralGuarded DEF ModelNames
  <2> QED BY <1>2, <2>2 DEF UpdateMasked, o
<1> QED BY <1>1, <1>2

LEMMA NeutralSelector ==
  ASSUME NEW n \in Nat
  PROVE  Neutral(SetSelector(n), "display")
<1>1. [f \in {"sel"} |-> n] \in Data
  <2>1. [f \in {"sel"} |-> n] \in [{"sel"} -> Nat] /\ {"sel"} \in SUBSET Settable
    BY DEF Settable
  <2> QED BY <2>1 DEF Data
<1>2. ModelOf("526") = "display"
  BY DEF ModelOf
<1> QED BY <1>1, <1>2, NeutralPatch DEF SetSelector

LEMMA NeutralPress ==
  ASSUME NEW p, NEW new, NEW old
  PROVE  Neutral(ButtonPress(p, new, old), "display")
<1>1. UserWindow \in 0 .. UserWindow /\ "display" \in ModelNames
  BY WindowAssumption DEF ModelNames
<1>2. Neutral(DisableUpdatesFor("display", UserWindow) \o SetSelector(0), "display")
  BY <1>1, NeutralDisable, NeutralSelector, NeutralConcat
<1> QED BY <1>2, NeutralEmpty DEF ButtonPress

LEMMA NeutralUpdateState ==
  ASSUME NEW p \in Props, NEW v \in Value(p)
  PROVE  Neutral(UpdateState(p, v), ModelOf(p))
<1> DEFINE o == [do |-> "apply", p |-> p, v |-> v]
<1>1. o \in Ops /\ o.do = "apply" /\ o.p = p
  BY Made
<1> HIDE DEF o
<1>2. Neutral(Guarded(ModelOf(p), o), ModelOf(p))
  BY <1>1, NeutralGuarded, ModelNamesOnly
<1> QED BY <1>2 DEF UpdateState, o

LEMMA NeutralUpdate ==
  ASSUME NEW p \in Props, NEW v \in Value(p)
  PROVE  Neutral(Update(p, v), "car")
<1> DEFINE o == [do |-> "notify", p |-> p, v |-> v]
           w == Write(p, v)
<1>1. /\ o \in Ops /\ o.do = "notify"
      /\ w \in Ops /\ w.do = "write" /\ w.p = p
  BY Made DEF Write
<1> HIDE DEF o, w
<1>2. Neutral(Guarded(ModelOf(p), w), ModelOf(p))
  BY <1>1, NeutralGuarded, ModelNamesOnly
<1>3. Neutral(Guarded(ModelOf(p), w), "car")
  BY <1>2, ModelNamesOnly, NeutralWider DEF ModelNames
<1>4. Neutral(<<o>>, "car")
  <2> SUFFICES ASSUME NEW s \in Seq(Ops), Good(s), Free(s, "car")
               PROVE  /\ Good(<<o>> \o s)
                      /\ \A k \in ModelNames : Holds(<<o>> \o s, k) <=> Holds(s, k)
    BY <1>1 DEF Neutral
  <2>1. Ok(o, s)
    BY <1>1 DEF Ok, Free
  <2> QED BY <1>1, <2>1, HoldsCons, GoodCons
<1>5. Neutral(<<o>> \o Guarded(ModelOf(p), w), "car")
  BY <1>3, <1>4, NeutralConcat DEF ModelNames
<1> QED BY <1>5 DEF Update, o, w

LEMMA NeutralDebugSet ==
  ASSUME NEW m \in ModelNames, NEW p \in Props, NEW v \in Value(p)
  PROVE  Neutral(DebugSet(m, p, v), "car")
<1>1. Neutral(DisableUpdatesFor(m, DebugWindow), "car")
  <2>1. DebugWindow \in 0 .. UserWindow
    BY WindowAssumption
  <2>2. Neutral(DisableUpdatesFor(m, DebugWindow), m)
    BY <2>1, NeutralDisable
  <2> QED BY <2>2, NeutralWider DEF ModelNames
<1>2. Neutral(IF ModelOf(p) = m THEN Update(p, v) ELSE <<>>, "car")
  BY NeutralUpdate, NeutralEmpty
<1> QED BY <1>1, <1>2, NeutralConcat DEF DebugSet, ModelNames

LEMMA NeutralSleep ==
  ASSUME NEW ms \in Nat
  PROVE  Neutral(<<Sleep(ms)>>, "display")
<1>1. Sleep(ms) \in Ops /\ Sleep(ms).do = "sleep"
  BY Made DEF Sleep
<1> SUFFICES ASSUME NEW s \in Seq(Ops), Good(s), Free(s, "display")
             PROVE  /\ Good(<<Sleep(ms)>> \o s)
                    /\ \A k \in ModelNames : Holds(<<Sleep(ms)>> \o s, k) <=> Holds(s, k)
  BY <1>1 DEF Neutral
<1>2. Ok(Sleep(ms), s)
  BY <1>1 DEF Ok
<1> QED BY <1>1, <1>2, HoldsCons, GoodCons

LEMMA NeutralLight ==
  ASSUME NEW l \in Lights, NEW b \in Nat, NEW off
  PROVE  Neutral(SetLight(l, b, off), "display")
<1> DEFINE A == DisableUpdatesFor("display", UserWindow)
           B == SetSelector(Selector(l))
           C == UpdateMasked(SetBrightnessProp(l), [f \in {l} |-> b])
           D == IF off THEN <<Sleep(Propagation)>> \o SetSelector(0) ELSE <<>>
<1>1. "display" \in ModelNames /\ UserWindow \in 0 .. UserWindow /\ Propagation \in Nat
  BY WindowAssumption DEF ModelNames
<1>2. Neutral(A, "display")
  BY <1>1, NeutralDisable
<1>3. Neutral(B, "display")
  <2>1. Selector(l) \in Nat
    BY ArgumentAssumption DEF Selector
  <2> QED BY <2>1, NeutralSelector
<1>4. Neutral(C, "display")
  <2>1. [f \in {l} |-> b] \in Data
    <3>1. [f \in {l} |-> b] \in [{l} -> Nat] /\ {l} \in SUBSET Settable
      BY DEF Settable
    <3> QED BY <3>1 DEF Data
  <2>2. ModelOf(SetBrightnessProp(l)) = "display"
    BY DEF ModelOf, SetBrightnessProp
  <2> QED BY <2>1, <2>2, NeutralPatch
<1>5. Neutral(D, "display")
  <2>1. Neutral(<<Sleep(Propagation)>> \o SetSelector(0), "display")
    BY <1>1, NeutralSleep, NeutralSelector, NeutralConcat
  <2> QED BY <2>1, NeutralEmpty
<1> HIDE DEF A, B, C, D
<1>6. Neutral(A \o B, "display")
  BY <1>1, <1>2, <1>3, NeutralConcat
<1>7. Neutral((A \o B) \o C, "display")
  BY <1>1, <1>4, <1>6, NeutralConcat
<1>8. Neutral(((A \o B) \o C) \o D, "display")
  BY <1>1, <1>5, <1>7, NeutralConcat
<1> QED BY <1>8 DEF SetLight, A, B, C, D

LEMMA NeutralFridge ==
  ASSUME NEW f \in {"on", "power"}, NEW n \in Nat
  PROVE  Neutral(SetFridge(f, n), "display")
<1>1. [g \in {f} |-> n] \in Data
  <2>1. [g \in {f} |-> n] \in [{f} -> Nat] /\ {f} \in SUBSET Settable
    BY DEF Settable
  <2> QED BY <2>1 DEF Data
<1>2. "display" \in ModelNames /\ UserWindow \in 0 .. UserWindow /\ ModelOf("531") = "display"
  BY WindowAssumption DEF ModelNames, ModelOf
<1>3. Neutral(UpdateMasked("531", [g \in {f} |-> n]), "display")
  BY <1>1, <1>2, NeutralPatch
<1> QED BY <1>2, <1>3, NeutralDisable, NeutralConcat DEF SetFridge

(* What a task begins with.                                                *)
LEMMA NeutralStarts ==
  ASSUME NEW a, NEW m \in ModelNames, Neutral(a, m)
  PROVE  a \in Seq(Ops) /\ Good(a) /\ \A k \in ModelNames : ~Holds(a, k)
<1>1. <<>> \in Seq(Ops) /\ a \in Seq(Ops) /\ a \o <<>> = a
  BY ConcatEmptySeq DEF Neutral
<1>2. Good(<<>>) /\ Free(<<>>, m)
  BY GoodEmpty, HoldsEmpty DEF Free
<1> QED BY <1>1, <1>2, HoldsEmpty DEF Neutral
-----------------------------------------------------------------------------
(* The inductive invariant: what the tasks have yet to do is in order, and *)
(* a lock belongs to the task that has yet to give it back.                *)
JobsOk(J, W) ==
  /\ DOMAIN J = Tasks
  /\ \A t \in Tasks : J[t] \in Seq(Ops) /\ Good(J[t])
  /\ \A t \in Tasks, m \in ModelNames : W[m] = t <=> Holds(J[t], m)

Typed ==
  /\ DOMAIN props = Props /\ DOMAIN told = Props
  /\ \A p \in Props : props[p] \in Value(p) /\ told[p] \in Value(p)
  /\ owner \in [ModelNames -> Tasks \cup {None}]
  /\ left \in [ModelNames -> -1 .. UserWindow]
  /\ want \in [Settable -> Nat \cup {Unset}]
  /\ promised \in [ModelNames -> -1 .. UserWindow]
  /\ lapsed \subseteq Settable /\ missed \subseteq Props

IInv == Typed /\ JobsOk(job, owner)

LEMMA MissedTyped ==
  ASSUME Typed, NEW p \in Props, NEW new, NEW old
  PROVE  Missed(p, new, old) \subseteq Props
BY DEF Missed, Typed

LEMMA TasksAreSome == None \notin Tasks
BY DebuggersAssumption DEF Tasks, Loop, Tcp, None

LEMMA JobsReplace ==
  ASSUME NEW J, NEW W, JobsOk(J, W), NEW t \in Tasks, NEW q \in Seq(Ops), Good(q),
         \A m \in ModelNames : Holds(q, m) <=> Holds(J[t], m)
  PROVE  JobsOk([J EXCEPT ![t] = q], W)
BY DEF JobsOk

LEMMA JobsHead ==
  ASSUME NEW J, NEW W, JobsOk(J, W), NEW t \in Tasks, J[t] # <<>>
  PROVE  /\ Head(J[t]) \in Ops /\ Tail(J[t]) \in Seq(Ops)
         /\ Good(Tail(J[t])) /\ Ok(Head(J[t]), Tail(J[t]))
         /\ \A m \in ModelNames : W[m] = t <=>
              \/ Head(J[t]).do = "unlock" /\ Head(J[t]).m = m
              \/ ~(Head(J[t]).do = "lock" /\ Head(J[t]).m = m) /\ Holds(Tail(J[t]), m)
<1>1. /\ J[t] \in Seq(Ops) /\ Good(J[t])
      /\ \A m \in ModelNames : W[m] = t <=> Holds(J[t], m)
  BY DEF JobsOk
<1> DEFINE o == Head(J[t])
           s == Tail(J[t])
<1>2. o \in Ops /\ s \in Seq(Ops) /\ J[t] = <<o>> \o s
  BY <1>1, HeadAndTail
<1> HIDE DEF o, s
<1>3. Good(s) /\ Ok(o, s)
  BY <1>1, <1>2, GoodCons
<1>4. \A m \in ModelNames : Holds(J[t], m) <=>
        \/ o.do = "unlock" /\ o.m = m
        \/ ~(o.do = "lock" /\ o.m = m) /\ Holds(s, m)
  BY <1>2, HoldsCons
<1> QED BY <1>1, <1>2, <1>3, <1>4 DEF o, s

(* An operation that is no lock is done, and replaced by a.                *)
LEMMA JobsDoneThen ==
  ASSUME NEW J, NEW W, JobsOk(J, W), NEW t \in Tasks, J[t] # <<>>,
         Head(J[t]).do # "lock", Head(J[t]).do # "unlock",
         NEW m, NEW a, Neutral(a, m), Free(Tail(J[t]), m)
  PROVE  JobsOk([J EXCEPT ![t] = a \o Tail(@)], W)
<1>1. /\ Tail(J[t]) \in Seq(Ops) /\ Good(Tail(J[t]))
      /\ \A k \in ModelNames : W[k] = t <=> Holds(Tail(J[t]), k)
  BY JobsHead
<1>2. /\ a \o Tail(J[t]) \in Seq(Ops) /\ Good(a \o Tail(J[t]))
      /\ \A k \in ModelNames : Holds(a \o Tail(J[t]), k) <=> Holds(Tail(J[t]), k)
  BY <1>1, ConcatProperties DEF Neutral
<1>3. \A k \in ModelNames : W[k] = t <=> Holds(J[t], k)
  BY DEF JobsOk
<1> DEFINE q == a \o Tail(J[t])
<1>4. q \in Seq(Ops) /\ Good(q) /\ \A k \in ModelNames : Holds(q, k) <=> Holds(J[t], k)
  BY <1>1, <1>2, <1>3
<1> HIDE DEF q
<1>5. JobsOk([J EXCEPT ![t] = q], W)
  BY <1>4, JobsReplace
<1> QED BY <1>5 DEF q

LEMMA JobsDone ==
  ASSUME NEW J, NEW W, JobsOk(J, W), NEW t \in Tasks, J[t] # <<>>,
         Head(J[t]).do # "lock", Head(J[t]).do # "unlock"
  PROVE  JobsOk([J EXCEPT ![t] = Tail(@)], W)
<1>1. /\ Tail(J[t]) \in Seq(Ops) /\ Good(Tail(J[t]))
      /\ \A k \in ModelNames : W[k] = t <=> Holds(Tail(J[t]), k)
  BY JobsHead
<1>2. \A k \in ModelNames : W[k] = t <=> Holds(J[t], k)
  BY DEF JobsOk
<1> DEFINE q == Tail(J[t])
<1>3. q \in Seq(Ops) /\ Good(q) /\ \A k \in ModelNames : Holds(q, k) <=> Holds(J[t], k)
  BY <1>1, <1>2
<1> HIDE DEF q
<1>4. JobsOk([J EXCEPT ![t] = q], W)
  BY <1>3, JobsReplace
<1> QED BY <1>4 DEF q

LEMMA JobsStart ==
  ASSUME NEW J, NEW W, JobsOk(J, W), NEW t \in Tasks, J[t] = <<>>,
         NEW m \in ModelNames, NEW a, Neutral(a, m)
  PROVE  JobsOk([J EXCEPT ![t] = a], W)
<1>1. a \in Seq(Ops) /\ Good(a) /\ \A k \in ModelNames : ~Holds(a, k)
  BY NeutralStarts
<1> QED BY <1>1, HoldsEmpty, JobsReplace

LEMMA JobsAcquire ==
  ASSUME NEW J, NEW W \in [ModelNames -> Tasks \cup {None}], JobsOk(J, W),
         NEW t \in Tasks, J[t] # <<>>,
         Head(J[t]).do = "lock", W[Head(J[t]).m] = None
  PROVE  JobsOk([J EXCEPT ![t] = Tail(@)], [W EXCEPT ![Head(J[t]).m] = t])
<1> DEFINE n == Head(J[t]).m
           s == Tail(J[t])
<1>1. /\ n \in ModelNames /\ s \in Seq(Ops) /\ Good(s) /\ Holds(s, n)
      /\ \A m \in ModelNames : m # n => (W[m] = t <=> Holds(s, m))
  BY JobsHead, LockShape DEF Ok
<1> HIDE DEF n, s
<1>2. \A u \in Tasks, m \in ModelNames : W[m] = u <=> Holds(J[u], m)
  BY DEF JobsOk
<1>3. W[n] = None
  BY DEF n
<1>4. \A u \in Tasks : ~Holds(J[u], n)
  BY <1>1, <1>2, <1>3, TasksAreSome
<1> DEFINE K == [J EXCEPT ![t] = s]
           V == [W EXCEPT ![n] = t]
<1>5. /\ DOMAIN K = Tasks /\ \A u \in Tasks : K[u] = IF u = t THEN s ELSE J[u]
      /\ \A m \in ModelNames : V[m] = IF m = n THEN t ELSE W[m]
  BY <1>1 DEF JobsOk
<1> HIDE DEF K, V
<1>6. \A u \in Tasks, m \in ModelNames : V[m] = u <=> Holds(K[u], m)
  BY <1>1, <1>2, <1>4, <1>5
<1>7. \A u \in Tasks : K[u] \in Seq(Ops) /\ Good(K[u])
  BY <1>1, <1>5 DEF JobsOk
<1> QED BY <1>5, <1>6, <1>7 DEF JobsOk, K, V, n, s

LEMMA JobsRelease ==
  ASSUME NEW J, NEW W \in [ModelNames -> Tasks \cup {None}], JobsOk(J, W),
         NEW t \in Tasks, J[t] # <<>>, Head(J[t]).do = "unlock"
  PROVE  JobsOk([J EXCEPT ![t] = Tail(@)], [W EXCEPT ![Head(J[t]).m] = None])
<1> DEFINE n == Head(J[t]).m
           s == Tail(J[t])
<1>1. /\ n \in ModelNames /\ s \in Seq(Ops) /\ Good(s) /\ ~Holds(s, n) /\ W[n] = t
      /\ \A m \in ModelNames : m # n => (W[m] = t <=> Holds(s, m))
  BY JobsHead, LockShape DEF Ok
<1> HIDE DEF n, s
<1>2. \A u \in Tasks, m \in ModelNames : W[m] = u <=> Holds(J[u], m)
  BY DEF JobsOk
<1>3. \A u \in Tasks : u # t => ~Holds(J[u], n)
  BY <1>1, <1>2
<1> DEFINE K == [J EXCEPT ![t] = s]
           V == [W EXCEPT ![n] = None]
<1>4. /\ DOMAIN K = Tasks /\ \A u \in Tasks : K[u] = IF u = t THEN s ELSE J[u]
      /\ \A m \in ModelNames : V[m] = IF m = n THEN None ELSE W[m]
  BY <1>1 DEF JobsOk
<1> HIDE DEF K, V
<1>5. \A u \in Tasks, m \in ModelNames : V[m] = u <=> Holds(K[u], m)
  BY <1>1, <1>2, <1>3, <1>4, TasksAreSome
<1>6. \A u \in Tasks : K[u] \in Seq(Ops) /\ Good(K[u])
  BY <1>1, <1>4 DEF JobsOk
<1> QED BY <1>4, <1>5, <1>6 DEF JobsOk, K, V, n, s
-----------------------------------------------------------------------------
(* The operations that HandlePropUpdate adds.                              *)
LEMMA JobsPress ==
  ASSUME NEW J, NEW W, JobsOk(J, W), NEW t \in Tasks, J[t] # <<>>,
         Head(J[t]).do # "lock", Head(J[t]).do # "unlock",
         NEW p, NEW new, NEW old, p = "528" => ~Holds(Tail(J[t]), "display")
  PROVE  JobsOk([J EXCEPT ![t] = ButtonPress(p, new, old) \o Tail(@)], W)
<1>1. CASE p = "528"
  <2>1. Free(Tail(J[t]), "display")
    BY <1>1 DEF Free
  <2> QED BY <2>1, NeutralPress, JobsDoneThen
<1>2. CASE p # "528"
  <2>1. Tail(J[t]) \in Seq(Ops)
    BY JobsHead
  <2>2. ButtonPress(p, new, old) \o Tail(J[t]) = Tail(J[t])
    BY <1>2, <2>1, ConcatEmptySeq DEF ButtonPress
  <2>3. JobsOk([J EXCEPT ![t] = Tail(@)], W)
    BY JobsDone
  <2> QED BY <2>2, <2>3
<1> QED BY <1>1, <1>2

LEMMA JobsApply ==
  ASSUME NEW J, NEW W, JobsOk(J, W), NEW t \in Tasks, J[t] # <<>>,
         Head(J[t]).do = "apply",
         NEW b, Neutral(b, "display"), Head(J[t]).p # "528" => b = <<>>,
         NEW w \in Ops, w.do = "write", w.p = Head(J[t]).p
  PROVE  JobsOk([J EXCEPT ![t] = (b \o <<w>>) \o Tail(@)], W)
<1> DEFINE o == Head(J[t])
           s == Tail(J[t])
<1>1. /\ o \in Ops /\ s \in Seq(Ops) /\ Good(s) /\ Ok(o, s)
      /\ \A k \in ModelNames : W[k] = t <=> Holds(s, k)
  BY JobsHead
<1>2. <<w>> \in Seq(Ops)
  OBVIOUS
<1>3. b \in Seq(Ops)
  BY DEF Neutral
<1>4. Holds(s, ModelOf(o.p)) /\ (o.p = "528" => ~Holds(s, "display"))
  BY <1>1 DEF Ok
<1> HIDE DEF s
<1>5. /\ <<w>> \o s \in Seq(Ops) /\ Good(<<w>> \o s)
      /\ \A k \in ModelNames : Holds(<<w>> \o s, k) <=> Holds(s, k)
  <2>1. Ok(w, s)
    BY <1>4 DEF Ok
  <2> QED BY <1>1, <2>1, ConsProperties, GoodCons, HoldsCons
<1>6. (b \o <<w>>) \o s = b \o (<<w>> \o s)
  BY <1>1, <1>2, <1>3, ConcatAssociative
<1>7. /\ b \o (<<w>> \o s) \in Seq(Ops) /\ Good(b \o (<<w>> \o s))
      /\ \A k \in ModelNames : Holds(b \o (<<w>> \o s), k) <=> Holds(s, k)
  <2>1. CASE o.p = "528"
    <3>1. Free(<<w>> \o s, "display")
      BY <1>4, <1>5, <2>1 DEF Free, ModelNames
    <3> QED BY <1>3, <1>5, <3>1, ConcatProperties DEF Neutral
  <2>2. CASE o.p # "528"
    <3>1. b \o (<<w>> \o s) = <<w>> \o s
      BY <1>3, <1>5, <2>2, ConcatEmptySeq
    <3> QED BY <1>5, <3>1
  <2> QED BY <2>1, <2>2
<1> DEFINE q == (b \o <<w>>) \o s
<1>8. q \in Seq(Ops) /\ Good(q) /\ \A k \in ModelNames : Holds(q, k) <=> Holds(J[t], k)
  BY <1>1, <1>6, <1>7 DEF JobsOk
<1> HIDE DEF q
<1>9. JobsOk([J EXCEPT ![t] = q], W)
  BY <1>8, JobsReplace
<1> QED BY <1>9 DEF q, s

(* A sleep that gets shorter.                                              *)
LEMMA SleepIs ==
  ASSUME NEW J, NEW t \in DOMAIN J, J[t] \in Seq(Ops), J[t] # <<>>,
         Head(J[t]).do = "sleep", Head(J[t]).ms > 0
  PROVE  /\ [J EXCEPT ![t][1].ms = @ - 1]
              = [J EXCEPT ![t] = <<Sleep(Head(J[t]).ms - 1)>> \o Tail(J[t])]
         /\ Head(J[t]).ms \in Nat /\ Sleep(Head(J[t]).ms - 1) \in Ops
<1> DEFINE o == Head(J[t])
           s == Tail(J[t])
           z == [o EXCEPT !.ms = @ - 1]
<1>1. o \in Ops /\ s \in Seq(Ops)
  BY HeadAndTail
<1>2. o \in SleepOps
  <2>1. o.do = "sleep"
    OBVIOUS
  <2> HIDE DEF o
  <2> QED BY <1>1, <2>1 DEF Ops, LockOps, WindowOps, PatchOps, ValueOps, SleepOps
<1>3. z = Sleep(o.ms - 1) /\ o.ms \in Nat
  BY <1>2 DEF SleepOps, Sleep
<1>4. z \in Ops
  BY <1>3, Made
<1>5. o = J[t][1] /\ Len(J[t]) > 0 /\ Len(J[t]) \in Nat
  BY <1>1, LenProperties
<1> DEFINE q == [J[t] EXCEPT ![1] = z]
<1>6. [J EXCEPT ![t][1].ms = @ - 1] = [J EXCEPT ![t] = q]
  BY <1>5
<1> HIDE DEF z, s, q, o
<1>7. q = <<z>> \o s
  <2>1. /\ <<z>> \o s \in Seq(Ops) /\ Len(<<z>> \o s) = Len(s) + 1
        /\ (<<z>> \o s)[1] = z /\ \A i \in 1 .. Len(s) : (<<z>> \o s)[i + 1] = s[i]
    BY <1>1, <1>4, ConsProperties
  <2>2. Len(J[t]) = Len(s) + 1 /\ \A i \in 1 .. Len(s) : J[t][i + 1] = s[i]
    BY <1>1, <1>5, HeadTailProperties DEF s
  <2>3. /\ q \in Seq(Ops) /\ Len(q) = Len(J[t])
        /\ \A i \in 1 .. Len(J[t]) : q[i] = IF i = 1 THEN z ELSE J[t][i]
    BY <1>1, <1>4, <1>5, ExceptSeq DEF q
  <2>4. \A i \in 1 .. Len(q) : q[i] = (<<z>> \o s)[i]
    <3> SUFFICES ASSUME NEW i \in 1 .. Len(q), i # 1
                 PROVE  q[i] = (<<z>> \o s)[i]
      BY <1>5, <2>1, <2>3
    <3>1. i - 1 \in 1 .. Len(s) /\ (i - 1) + 1 = i
      BY <1>5, <2>2, <2>3
    <3> QED BY <2>1, <2>2, <2>3, <3>1
  <2>5. Len(q) = Len(<<z>> \o s)
    BY <2>1, <2>2, <2>3
  <2> QED BY <2>1, <2>3, <2>4, <2>5, SeqEqual
<1>8. z = Sleep(Head(J[t]).ms - 1) /\ Head(J[t]).ms \in Nat
  BY <1>3 DEF o
<1>9. [J EXCEPT ![t][1].ms = @ - 1] = [J EXCEPT ![t] = <<z>> \o Tail(J[t])]
  BY <1>6, <1>7 DEF s
<1> QED BY <1>4, <1>8, <1>9

LEMMA JobsSleep ==
  ASSUME NEW J, NEW W, JobsOk(J, W), NEW t \in Tasks, J[t] # <<>>,
         Head(J[t]).do = "sleep", Head(J[t]).ms > 0
  PROVE  JobsOk([J EXCEPT ![t][1].ms = @ - 1], W)
<1> DEFINE s == Tail(J[t])
           z == Sleep(Head(J[t]).ms - 1)
<1>1. /\ s \in Seq(Ops) /\ Good(s)
      /\ \A k \in ModelNames : W[k] = t <=> Holds(s, k)
  BY JobsHead
<1>2. [J EXCEPT ![t][1].ms = @ - 1] = [J EXCEPT ![t] = <<z>> \o s] /\ z \in Ops
  BY SleepIs DEF JobsOk
<1>3. z.do = "sleep"
  BY DEF Sleep
<1>4. Ok(z, s)
  BY <1>3 DEF Ok
<1> HIDE DEF z, s
<1>5. /\ <<z>> \o s \in Seq(Ops) /\ Good(<<z>> \o s)
      /\ \A k \in ModelNames : Holds(<<z>> \o s, k) <=> Holds(s, k)
  BY <1>1, <1>2, <1>3, <1>4, GoodCons, HoldsCons, ConsProperties
<1>6. \A k \in ModelNames : Holds(<<z>> \o s, k) <=> Holds(J[t], k)
  BY <1>1, <1>5 DEF JobsOk
<1> QED BY <1>2, <1>5, <1>6, JobsReplace
-----------------------------------------------------------------------------
LEMMA InvariantInit == Init => IInv
<1> SUFFICES ASSUME Init
             PROVE  IInv
  OBVIOUS
<1>1. Typed
  <2>1. \A p \in Props : Boot[p] \in Value(p)
    BY ValueAssumption DEF Value
  <2>2. /\ DOMAIN props = Props /\ DOMAIN told = Props
        /\ \A p \in Props : props[p] \in Value(p) /\ told[p] \in Value(p)
    BY <2>1 DEF Init
  <2>3. -1 \in -1 .. UserWindow
    BY WindowAssumption
  <2>4. /\ owner \in [ModelNames -> Tasks \cup {None}]
        /\ left \in [ModelNames -> -1 .. UserWindow]
        /\ promised \in [ModelNames -> -1 .. UserWindow]
    BY <2>3 DEF Init
  <2>5. want \in [Settable -> Nat \cup {Unset}]
    BY DEF Init, Nothing
  <2>6. lapsed = {} /\ missed = {}
    BY DEF Init
  <2> QED BY <2>2, <2>4, <2>5, <2>6 DEF Typed
<1>2. JobsOk(job, owner)
  <2>1. <<>> \in Seq(Ops)
    OBVIOUS
  <2>2. \A t \in Tasks : job[t] = <<>>
    BY DEF Init
  <2>3. \A t \in Tasks, m \in ModelNames : owner[m] # t
    BY TasksAreSome DEF Init
  <2>4. DOMAIN job = Tasks
    BY DEF Init
  <2> QED BY <2>1, <2>2, <2>3, <2>4, GoodEmpty, HoldsEmpty DEF JobsOk
<1> QED BY <1>1, <1>2 DEF IInv

LEMMA InvariantNext == IInv /\ [Next]_vars => IInv'
<1> SUFFICES ASSUME Typed, JobsOk(job, owner), [Next]_vars
             PROVE  Typed' /\ JobsOk(job', owner')
  BY DEF IInv
<1> DEFINE Idle == UNCHANGED <<props, owner, left, told, want, promised, lapsed, missed>>
<1>1. Idle => Typed'
  BY DEF Typed
<1>2. ASSUME NEW t \in Tasks, NEW a, NEW m \in ModelNames, Neutral(a, m), Start(t, a)
      PROVE  Typed' /\ JobsOk(job', owner')
  <2>1. job' = [job EXCEPT ![t] = a] /\ owner' = owner /\ job[t] = <<>> /\ Idle
    BY <1>2 DEF Start
  <2>2. JobsOk([job EXCEPT ![t] = a], owner)
    BY <1>2, <2>1, JobsStart
  <2> QED BY <1>1, <2>1, <2>2
<1>3. Loop \in Tasks /\ Tcp \in Tasks /\ "display" \in ModelNames /\ "car" \in ModelNames
  BY DEF Tasks, ModelNames
<1>4. ASSUME NEW p \in Props, NEW v \in Bus[p], Receive(p, v)
      PROVE  Typed' /\ JobsOk(job', owner')
  <2>1. v \in Value(p)
    BY ValueAssumption DEF Value
  <2>2. Neutral(UpdateState(p, v), ModelOf(p)) /\ ModelOf(p) \in ModelNames
    BY <2>1, NeutralUpdateState, ModelNamesOnly
  <2> QED BY <1>2, <1>3, <1>4, <2>2 DEF Receive
<1>5. ASSUME NEW l \in Lights, NEW b \in Nat, NEW off, UserLight(l, b, off)
      PROVE  Typed' /\ JobsOk(job', owner')
  BY <1>2, <1>3, <1>5, NeutralLight DEF UserLight
<1>6. ASSUME NEW n \in Nat, UserFridgeState(n)
      PROVE  Typed' /\ JobsOk(job', owner')
  BY <1>2, <1>3, <1>6, NeutralFridge DEF UserFridgeState
<1>7. ASSUME NEW n \in Nat, UserFridgePower(n)
      PROVE  Typed' /\ JobsOk(job', owner')
  BY <1>2, <1>3, <1>7, NeutralFridge DEF UserFridgePower
<1>8. ASSUME NEW p \in Props, NEW v \in Debug[p], UserDebug(p, v)
      PROVE  Typed' /\ JobsOk(job', owner')
  <2>1. PICK d \in Debuggers, c \in Debuggers :
          /\ d # c /\ job[d] = <<>> /\ job[c] = <<>>
          /\ job' = [job EXCEPT ![d] = DebugSet("display", p, v),
                                ![c] = DebugSet("car", p, v)]
          /\ Idle
    BY <1>8 DEF UserDebug
  <2>2. v \in Value(p)
    BY ValueAssumption DEF Value
  <2> DEFINE x == DebugSet("display", p, v)
             y == DebugSet("car", p, v)
             K == [job EXCEPT ![d] = x]
  <2>3. Neutral(x, "car") /\ Neutral(y, "car")
    BY <1>3, <2>2, NeutralDebugSet
  <2> HIDE DEF x, y
  <2>4. c \in Tasks /\ d \in Tasks
    BY DEF Tasks
  <2>5. JobsOk(K, owner)
    BY <1>3, <2>1, <2>3, <2>4, JobsStart
  <2>6. K[c] = <<>>
    BY <2>1, <2>4 DEF JobsOk
  <2> HIDE DEF K
  <2>7. JobsOk([K EXCEPT ![c] = y], owner)
    BY <1>3, <2>3, <2>4, <2>5, <2>6, JobsStart
  <2> QED BY <1>1, <2>1, <2>7 DEF K, x, y
<1>9. ASSUME NEW t \in Tasks, Acquire(t)
      PROVE  Typed' /\ JobsOk(job', owner')
  <2>1. /\ job[t] # <<>> /\ Head(job[t]).do = "lock"
        /\ owner[Head(job[t]).m] = None
        /\ owner' = [owner EXCEPT ![Head(job[t]).m] = t]
        /\ job' = [job EXCEPT ![t] = Tail(@)]
        /\ UNCHANGED <<props, left, told, want, promised, lapsed, missed>>
    BY <1>9 DEF Acquire, At, Done
  <2>2. JobsOk(job', owner')
    BY <2>1, JobsAcquire DEF Typed
  <2>3. Head(job[t]).m \in ModelNames
    BY <2>1, JobsHead, LockShape
  <2>4. Typed'
    BY <2>1, <2>3 DEF Typed
  <2> QED BY <2>2, <2>4
<1>10. ASSUME NEW t \in Tasks, Release(t)
       PROVE  Typed' /\ JobsOk(job', owner')
  <2>1. /\ job[t] # <<>> /\ Head(job[t]).do = "unlock"
        /\ owner' = [owner EXCEPT ![Head(job[t]).m] = None]
        /\ job' = [job EXCEPT ![t] = Tail(@)]
        /\ UNCHANGED <<props, left, told, want, promised, lapsed, missed>>
    BY <1>10 DEF Release, At, Done
  <2>2. JobsOk(job', owner')
    BY <2>1, JobsRelease DEF Typed
  <2>3. Typed'
    BY <2>1 DEF Typed
  <2> QED BY <2>2, <2>3
<1>11. ASSUME NEW t \in Tasks, SetWindow(t)
       PROVE  Typed' /\ JobsOk(job', owner')
  <2> DEFINE m == Head(job[t]).m
             ms == Head(job[t]).ms
  <2>1. /\ job[t] # <<>> /\ Head(job[t]).do = "disable"
        /\ left' = [left EXCEPT ![m] = ms]
        /\ promised' = [promised EXCEPT ![m] = IF @ < ms THEN ms ELSE @]
        /\ job' = [job EXCEPT ![t] = Tail(@)]
        /\ UNCHANGED <<props, owner, told, want, lapsed, missed>>
    BY <1>11 DEF SetWindow, At, Done
  <2>2. m \in ModelNames /\ ms \in 0 .. UserWindow
    BY <2>1, JobsHead, WindowShape
  <2>3. JobsOk(job', owner')
    BY <2>1, JobsDone
  <2> HIDE DEF m, ms
  <2>4. Typed'
    BY <2>1, <2>2, WindowAssumption DEF Typed
  <2> QED BY <2>3, <2>4
<1>12. ASSUME NEW t \in Tasks, Patch(t)
       PROVE  Typed' /\ JobsOk(job', owner')
  <2> DEFINE p == Head(job[t]).p
             data == Head(job[t]).data
             new == Masked(p, data)
  <2>1. /\ job[t] # <<>> /\ Head(job[t]).do = "patch"
        /\ props' = [props EXCEPT ![p] = new]
        /\ told' = Told(p, new, Mask(p, data))
        /\ missed' = Missed(p, new, Mask(p, data)) /\ lapsed' = lapsed \ DOMAIN data
        /\ want' = [f \in Settable |->
                      IF f \notin DOMAIN data THEN want[f]
                      ELSE IF t \in Debuggers THEN Unset ELSE data[f]]
        /\ job' = [job EXCEPT ![t] = ButtonPress(p, new, Mask(p, data)) \o Tail(@)]
        /\ UNCHANGED <<owner, left, promised>>
    BY <1>12 DEF Patch, At, DoneThen
  <2>2. p \in Props /\ data \in Data /\ Ok(Head(job[t]), Tail(job[t]))
    BY <2>1, JobsHead, PatchShape
  <2>3. p = "528" => ~Holds(Tail(job[t]), "display")
    BY <2>1, <2>2 DEF Ok
  <2> HIDE DEF p, data
  <2>4. JobsOk(job', owner')
    <3> HIDE DEF new
    <3> QED BY <2>1, <2>3, JobsPress
  <2>5. \A f \in DOMAIN data : data[f] \in Nat
    BY <2>2 DEF Data
  <2>6. new \in Value(p)
    BY <2>2, <2>5 DEF Masked, Value, Typed
  <2> HIDE DEF new
  <2>7. missed' \subseteq Props /\ lapsed' \subseteq Settable
    BY <2>1, <2>2, MissedTyped DEF Typed
  <2>8. Typed'
    BY <2>1, <2>2, <2>5, <2>6, <2>7 DEF Typed, Told
  <2> QED BY <2>4, <2>8
<1>13. ASSUME NEW t \in Tasks, Apply(t)
       PROVE  Typed' /\ JobsOk(job', owner')
  <2> DEFINE p == Head(job[t]).p
             v == Head(job[t]).v
             b == ButtonPress(p, v, props[p])
             w == Write(p, v)
  <2>1. /\ job[t] # <<>> /\ Head(job[t]).do = "apply"
        /\ UNCHANGED <<props, owner, left, want, promised, lapsed>>
    BY <1>13 DEF Apply, At
  <2>2. p \in Props /\ v \in Value(p)
    BY <2>1, JobsHead, ValueShape
  <2>3. \/ job' = [job EXCEPT ![t] = Tail(@)] /\ UNCHANGED <<told, missed>>
        \/ /\ told' = Told(p, v, props[p]) /\ missed' = Missed(p, v, props[p])
           /\ job' = [job EXCEPT ![t] = (b \o <<w>>) \o Tail(@)]
    <3> HIDE DEF b, w
    <3> QED BY <1>13 DEF Apply, Done, DoneThen, b, w
  <2>4. JobsOk([job EXCEPT ![t] = (b \o <<w>>) \o Tail(@)], owner)
    <3>1. Neutral(b, "display") /\ (p # "528" => b = <<>>)
      BY NeutralPress DEF ButtonPress
    <3>2. w \in Ops /\ w.do = "write" /\ w.p = p
      BY <2>2, Made DEF Write
    <3> HIDE DEF b, w
    <3> QED BY <2>1, <3>1, <3>2, JobsApply
  <2>5. JobsOk([job EXCEPT ![t] = Tail(@)], owner)
    BY <2>1, JobsDone
  <2> HIDE DEF b, w, p, v
  <2>6. CASE job' = [job EXCEPT ![t] = Tail(@)] /\ UNCHANGED <<told, missed>>
    <3>1. Idle
      BY <2>1, <2>6
    <3> QED BY <1>1, <2>5, <2>6, <3>1
  <2>7. CASE /\ told' = Told(p, v, props[p]) /\ missed' = Missed(p, v, props[p])
             /\ job' = [job EXCEPT ![t] = (b \o <<w>>) \o Tail(@)]
    <3>1. Typed'
      BY <2>1, <2>2, <2>7, MissedTyped DEF Typed, Told
    <3> QED BY <2>1, <2>4, <2>7, <3>1
  <2> QED BY <2>3, <2>6, <2>7
<1>14. ASSUME NEW t \in Tasks, Notify(t)
       PROVE  Typed' /\ JobsOk(job', owner')
  <2> DEFINE p == Head(job[t]).p
             v == Head(job[t]).v
  <2>1. PICK old \in Reads(t, p) :
          /\ job[t] # <<>> /\ Head(job[t]).do = "notify"
          /\ told' = Told(p, v, old) /\ missed' = Missed(p, v, old)
          /\ job' = [job EXCEPT ![t] = ButtonPress(p, v, old) \o Tail(@)]
          /\ UNCHANGED <<props, owner, left, want, promised, lapsed>>
    BY <1>14 DEF Notify, At, DoneThen
  <2>2. p \in Props /\ v \in Value(p) /\ Ok(Head(job[t]), Tail(job[t]))
    BY <2>1, JobsHead, ValueShape
  <2>3. ~Holds(Tail(job[t]), "display")
    BY <2>1, <2>2 DEF Ok
  <2> HIDE DEF p, v
  <2>4. JobsOk(job', owner')
    BY <2>1, <2>3, JobsPress
  <2>5. Typed'
    BY <2>1, <2>2, MissedTyped DEF Typed, Told
  <2> QED BY <2>4, <2>5
<1>15. ASSUME NEW t \in Tasks, Store(t)
       PROVE  Typed' /\ JobsOk(job', owner')
  <2>1. /\ job[t] # <<>> /\ Head(job[t]).do = "write"
        /\ props' = [props EXCEPT ![Head(job[t]).p] = Head(job[t]).v]
        /\ job' = [job EXCEPT ![t] = Tail(@)]
        /\ want' = [f \in Settable |->
                     IF t \in Debuggers /\ f \in Fields(Head(job[t]).p) THEN Unset ELSE want[f]]
        /\ UNCHANGED <<owner, left, told, promised, lapsed, missed>>
    BY <1>15 DEF Store, At, Done
  <2>2. Head(job[t]).p \in Props /\ Head(job[t]).v \in Value(Head(job[t]).p)
    BY <2>1, JobsHead, ValueShape
  <2>3. JobsOk(job', owner')
    BY <2>1, JobsDone
  <2>4. Typed'
    BY <2>1, <2>2 DEF Typed
  <2> QED BY <2>3, <2>4
<1>16. ASSUME NEW t \in Tasks, WakeUp(t)
       PROVE  Typed' /\ JobsOk(job', owner')
  <2>1. /\ job[t] # <<>> /\ Head(job[t]).do = "sleep"
        /\ job' = [job EXCEPT ![t] = Tail(@)] /\ Idle
    BY <1>16 DEF WakeUp, At, Done
  <2>2. JobsOk(job', owner')
    BY <2>1, JobsDone
  <2> QED BY <1>1, <2>1, <2>2
<1>17. ASSUME Tick
       PROVE  Typed' /\ JobsOk(job', owner')
  <2>1. JobsOk(job', owner')
    <3>1. CASE Asleep(Tcp)
      <4>1. /\ job[Tcp] # <<>> /\ Head(job[Tcp]).do = "sleep" /\ Head(job[Tcp]).ms > 0
            /\ job' = [job EXCEPT ![Tcp][1].ms = @ - 1] /\ owner' = owner
        BY <1>17, <3>1 DEF Tick, Asleep, At
      <4> QED BY <1>3, <4>1, JobsSleep
    <3>2. CASE ~Asleep(Tcp)
      BY <1>17, <3>2 DEF Tick
    <3> QED BY <3>1, <3>2
  <2>2. \A n \in -1 .. UserWindow : Countdown(n) \in -1 .. UserWindow
    BY WindowAssumption DEF Countdown
  <2>3. /\ left' \in [ModelNames -> -1 .. UserWindow]
        /\ promised' \in [ModelNames -> -1 .. UserWindow]
    BY <1>17, <2>2 DEF Tick, Typed
  <2>4. want' \in [Settable -> Nat \cup {Unset}]
    <3>1. Nothing \in [Settable -> Nat \cup {Unset}]
      BY DEF Nothing
    <3>2. want' \in {Nothing, want}
      BY <1>17 DEF Tick
    <3> QED BY <3>1, <3>2 DEF Typed
  <2>5. UNCHANGED <<props, owner, told, missed>>
    BY <1>17 DEF Tick
  <2>6. lapsed' \subseteq Settable
    BY <1>17 DEF Tick, Typed
  <2> QED BY <2>1, <2>3, <2>4, <2>5, <2>6 DEF Typed
<1>18. CASE UNCHANGED vars
  BY <1>1, <1>18 DEF vars
<1>19. ASSUME NEW t \in Tasks, Step(t)
       PROVE  Typed' /\ JobsOk(job', owner')
  BY <1>19, <1>9, <1>10, <1>11, <1>12, <1>13, <1>14, <1>15, <1>16 DEF Step
<1>20. 70 \in Nat /\ {0, 1} \subseteq Nat /\ Brightness \subseteq Nat /\ Powers \subseteq Nat
  BY ArgumentAssumption
<1> HIDE DEF Idle
<1> QED BY <1>4, <1>5, <1>6, <1>7, <1>8, <1>17, <1>18, <1>19, <1>20 DEF Next

LEMMA IInvTyped ==
  ASSUME IInv
  PROVE  TypeOK
<1>1. DOMAIN job = Tasks /\ \A t \in Tasks : job[t] \in Seq(Ops)
  BY DEF IInv, JobsOk
<1>2. \A t \in Tasks : \A i \in DOMAIN job[t] : job[t][i] \in Ops
  BY <1>1
<1>3. \A p \in Props : {props[p], told[p]} \subseteq [Fields(p) -> Nat]
  BY DEF IInv, Typed, Value
<1> QED BY <1>1, <1>2, <1>3, OpDo DEF IInv, Typed, TypeOK

LEMMA IInvLockOrder ==
  ASSUME IInv
  PROVE  LockOrder
<1> SUFFICES ASSUME NEW t \in Tasks, At(t, "lock"), NEW m \in ModelNames, owner[m] = t
             PROVE  m = "car" /\ Head(job[t]).m = "display"
  BY DEF LockOrder
<1>1. JobsOk(job, owner) /\ job[t] # <<>> /\ Head(job[t]).do = "lock"
  BY DEF IInv, At
<1>2. /\ Ok(Head(job[t]), Tail(job[t]))
      /\ Head(job[t]).m # m /\ Holds(Tail(job[t]), m)
  BY <1>1, JobsHead
<1> QED BY <1>1, <1>2 DEF Ok

LEMMA IInvLockedWrites ==
  ASSUME IInv
  PROVE  LockedWrites
<1> SUFFICES ASSUME NEW t \in Tasks, At(t, "write") \/ At(t, "patch")
             PROVE  owner[ModelOf(Head(job[t]).p)] = t
  BY DEF LockedWrites
<1>1. JobsOk(job, owner) /\ job[t] # <<>> /\ Head(job[t]).do \in {"write", "patch"}
  BY DEF IInv, At
<1>2. /\ Ok(Head(job[t]), Tail(job[t]))
      /\ \A m \in ModelNames : Holds(Tail(job[t]), m) => owner[m] = t
  BY <1>1, JobsHead
<1> QED BY <1>1, <1>2, ModelNamesOnly DEF Ok
-----------------------------------------------------------------------------
(* Tasks, locks, windows and values keep to what they can be: the          *)
(* operations of model.h only ever work on a property and a mutex of the   *)
(* models, with values that fit.                                           *)
THEOREM TypeCorrect == Spec => []TypeOK
<1>1. IInv => TypeOK
  BY IInvTyped
<1> QED BY <1>1, InvariantInit, InvariantNext, PTL DEF Spec

(* The locks of the models are taken in one order, car before display, and *)
(* no task takes one twice (LockAbstraction, Lock), so that no number of   *)
(* tasks can wait for one another in a circle.                             *)
THEOREM LocksInOrder == Spec => []LockOrder
<1>1. IInv => LockOrder
  BY IInvLockOrder
<1> QED BY <1>1, InvariantInit, InvariantNext, PTL DEF Spec

(* Every write of a property (UpdateMasked, UpdateState, Update) happens   *)
(* with the lock of its model held by the task that writes.                *)
THEOREM WritesAreLocked == Spec => []LockedWrites
<1>1. IInv => LockedWrites
  BY IInvLockedWrites
<1> QED BY <1>1, InvariantInit, InvariantNext, PTL DEF Spec
=============================================================================

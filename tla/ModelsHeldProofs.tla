-------------------------- MODULE ModelsHeldProofs --------------------------
(***************************************************************************)
(* What the display sends cannot undo what the user sets: theorems about   *)
(* the windows of Models in which messages are ignored, and about what the *)
(* writes that are under way will do.                                      *)
(***************************************************************************)
EXTENDS ModelsProofs

Shields == {o \in Ops : o.do = "disable" /\ o.m = "display"}
Sleeps == {o \in Ops : o.do = "sleep"}
Awake == Ops \ Sleeps
DisplayWrites == {o \in Ops : o.do = "write" /\ ModelOf(o.p) = "display"}

(* The operations that come too late when n units of the display's window  *)
(* are left.                                                               *)
Risky(n) == {o \in Ops : \/ o.do = "patch" /\ n < 0
                         \/ o.do = "sleep" /\ n <= o.ms}

(* The operations of task t.                                               *)
Of(t) ==
  {o \in Ops :
     /\ o.do = "disable" /\ o.m = "display" =>
          o.ms >= DebugWindow /\ (t \in {Loop, Tcp} => o.ms = UserWindow)
     /\ o.do = "patch" => ModelOf(o.p) = "display" /\ DOMAIN o.data \subseteq Fields(o.p)
     /\ o.do = "sleep" => t = Tcp /\ o.ms <= Propagation
     /\ o.do \in {"apply", "notify", "write"} => t # Tcp}

(* Each operation of X in s has one of Y before it.                        *)
Guards(s, Y, X) ==
  \A k \in 1 .. Len(s) : s[k] \in X => \E j \in 1 .. k - 1 : s[j] \in Y

(* No two operations of X are in s.                                        *)
Once(s, X) ==
  \A i, j \in 1 .. Len(s) : s[i] \in X /\ s[j] \in X => i = j

(* What task t may go on with, after a step that opens a window.           *)
Sound(t, s) ==
  /\ s \in Seq(Of(t))
  /\ t = Tcp => Once(s, Sleeps)
  /\ t = Loop => s \in Seq(Ops \ DisplayWrites)

(* What task t may have yet to do when n units of the display's window are *)
(* left: its patches are in time, or it opens a window before them, and a  *)
(* message of the display that is about to be stored found no window.      *)
Calm(t, s, n) ==
  /\ s \in Seq(Of(t))
  /\ t \in {Loop, Tcp} => Guards(s, Shields, Risky(n))
  /\ t = Tcp => Once(s, Sleeps)
  /\ t = Loop /\ s # <<>> =>
       /\ Tail(s) \in Seq(Ops \ DisplayWrites)
       /\ Head(s) \in DisplayWrites => n < 0

WantInTime ==
  \A f \in Settable : want[f] # Unset => left["display"] >= 0 \/ f \in lapsed
AllCalm == \A t \in Tasks : Calm(t, job[t], left["display"])
HeldInv == AllCalm /\ WantInTime /\ UndoneOnlyIfLapsed
-----------------------------------------------------------------------------
(* Sequences of operations, one operation at a time.                       *)
LEMMA OfOps == \A t : Of(t) \subseteq Ops
BY DEF Of

LEMMA SeqSub ==
  ASSUME NEW A, NEW B, A \subseteq B, NEW s \in Seq(A)
  PROVE  s \in Seq(B)
<1>1. Len(s) \in Nat /\ \A i \in 1 .. Len(s) : s[i] \in A /\ s[i] \in B
  OBVIOUS
<1> QED BY <1>1, IsASeq

LEMMA ConsIn ==
  ASSUME NEW A, NEW o \in A, NEW s \in Seq(A)
  PROVE  <<o>> \o s \in Seq(A)
<1>1. <<o>> \in Seq(A)
  OBVIOUS
<1> QED BY <1>1, ConcatProperties

Associate(s, u, v) == (s \o u) \o v = s \o (u \o v)
Regroup(s, u, v, w) == ((s \o u) \o v) \o w = s \o (u \o (v \o w))

LEMMA OpsAssociate == \A s, u, v \in Seq(Ops) : Associate(s, u, v)
BY ConcatAssociative DEF Associate

LEMMA ConcatFour ==
  ASSUME NEW A \in Seq(Ops), NEW B \in Seq(Ops), NEW C \in Seq(Ops), NEW D \in Seq(Ops)
  PROVE  Regroup(A, B, C, D)
<1>1. A \o B \in Seq(Ops) /\ C \o D \in Seq(Ops)
  BY ConcatProperties
<1>2. Associate(A \o B, C, D) /\ Associate(A, B, C \o D)
  BY <1>1, OpsAssociate
<1> QED BY <1>2 DEF Associate, Regroup

LEMMA GuardsNone ==
  ASSUME NEW A, NEW s \in Seq(A), NEW Y, NEW X, A \cap X = {}
  PROVE  Guards(s, Y, X)
<1>1. \A k \in 1 .. Len(s) : s[k] \in A
  OBVIOUS
<1> QED BY <1>1 DEF Guards

LEMMA GuardsCons ==
  ASSUME NEW o \in Ops, NEW s \in Seq(Ops), NEW Y, NEW X
  PROVE  Guards(<<o>> \o s, Y, X) <=> o \notin X /\ (o \in Y \/ Guards(s, Y, X))
<1> DEFINE q == <<o>> \o s
<1>1. /\ Len(q) = Len(s) + 1 /\ Len(s) \in Nat /\ q[1] = o
      /\ \A i \in 1 .. Len(s) : q[i + 1] = s[i]
  BY ConsProperties
<1> HIDE DEF q
<1>2. ASSUME Guards(q, Y, X)
      PROVE  o \notin X
  <2>1. 1 \in 1 .. Len(q) /\ 1 .. 1 - 1 = {}
    BY <1>1
  <2> QED BY <1>1, <1>2, <2>1 DEF Guards
<1>3. ASSUME Guards(q, Y, X), o \notin Y
      PROVE  Guards(s, Y, X)
  <2> SUFFICES ASSUME NEW k \in 1 .. Len(s), s[k] \in X
               PROVE  \E j \in 1 .. k - 1 : s[j] \in Y
    BY DEF Guards
  <2>1. k + 1 \in 1 .. Len(q) /\ q[k + 1] \in X
    BY <1>1
  <2>2. PICK j \in 1 .. (k + 1) - 1 : q[j] \in Y
    BY <1>3, <2>1 DEF Guards
  <2>3. j # 1
    BY <1>1, <1>3, <2>2
  <2>4. j - 1 \in 1 .. k - 1 /\ j - 1 \in 1 .. Len(s) /\ (j - 1) + 1 = j
    BY <1>1, <2>3
  <2> QED BY <1>1, <2>2, <2>4
<1>4. ASSUME o \notin X, o \in Y \/ Guards(s, Y, X)
      PROVE  Guards(q, Y, X)
  <2> SUFFICES ASSUME NEW k \in 1 .. Len(q), q[k] \in X
               PROVE  \E j \in 1 .. k - 1 : q[j] \in Y
    BY DEF Guards
  <2>1. k # 1
    BY <1>1, <1>4
  <2>2. k - 1 \in 1 .. Len(s) /\ (k - 1) + 1 = k /\ 1 \in 1 .. k - 1
    BY <1>1, <2>1
  <2>3. CASE o \in Y
    BY <1>1, <2>2, <2>3
  <2>4. CASE Guards(s, Y, X)
    <3>1. PICK j \in 1 .. (k - 1) - 1 : s[j] \in Y
      BY <1>1, <2>2, <2>4 DEF Guards
    <3>2. j + 1 \in 1 .. k - 1 /\ j \in 1 .. Len(s)
      BY <1>1, <2>2
    <3> QED BY <1>1, <3>1, <3>2
  <2> QED BY <1>4, <2>3, <2>4
<1> QED BY <1>2, <1>3, <1>4 DEF q

LEMMA OnceCons ==
  ASSUME NEW o \in Ops, NEW s \in Seq(Ops), NEW X
  PROVE  Once(<<o>> \o s, X) <=>
           Once(s, X) /\ (o \in X => \A i \in 1 .. Len(s) : s[i] \notin X)
<1> DEFINE q == <<o>> \o s
<1>1. /\ Len(q) = Len(s) + 1 /\ Len(s) \in Nat /\ q[1] = o
      /\ \A i \in 1 .. Len(s) : q[i + 1] = s[i]
  BY ConsProperties
<1> HIDE DEF q
<1>2. ASSUME Once(q, X)
      PROVE  Once(s, X) /\ (o \in X => \A i \in 1 .. Len(s) : s[i] \notin X)
  <2>1. ASSUME NEW i \in 1 .. Len(s), NEW j \in 1 .. Len(s), s[i] \in X, s[j] \in X
        PROVE  i = j
    <3>1. i + 1 \in 1 .. Len(q) /\ j + 1 \in 1 .. Len(q)
      BY <1>1
    <3>2. i + 1 = j + 1
      BY <1>1, <1>2, <2>1, <3>1 DEF Once
    <3> QED BY <3>2
  <2>2. ASSUME o \in X, NEW i \in 1 .. Len(s), s[i] \in X
        PROVE  FALSE
    <3>1. i + 1 \in 1 .. Len(q) /\ 1 \in 1 .. Len(q) /\ i + 1 # 1
      BY <1>1
    <3> QED BY <1>1, <1>2, <2>2, <3>1 DEF Once
  <2> QED BY <2>1, <2>2 DEF Once
<1>3. ASSUME Once(s, X), o \in X => \A i \in 1 .. Len(s) : s[i] \notin X
      PROVE  Once(q, X)
  <2>1. ASSUME NEW i \in 1 .. Len(q), NEW j \in 1 .. Len(q), q[i] \in X, q[j] \in X,
               i # 1, j # 1
        PROVE  i = j
    <3>1. /\ i - 1 \in 1 .. Len(s) /\ (i - 1) + 1 = i
          /\ j - 1 \in 1 .. Len(s) /\ (j - 1) + 1 = j
      BY <1>1, <2>1
    <3>2. i - 1 = j - 1
      BY <1>1, <1>3, <2>1, <3>1 DEF Once
    <3> QED BY <3>1, <3>2
  <2>2. ASSUME NEW i \in 1 .. Len(q), q[i] \in X, q[1] \in X, i # 1
        PROVE  FALSE
    <3>1. i - 1 \in 1 .. Len(s) /\ (i - 1) + 1 = i
      BY <1>1, <2>2
    <3> QED BY <1>1, <1>3, <2>2, <3>1
  <2> QED BY <2>1, <2>2 DEF Once
<1> QED BY <1>2, <1>3 DEF q

LEMMA OnceAwake == ASSUME NEW s \in Seq(Awake) PROVE Once(s, Sleeps)
<1>1. \A i \in 1 .. Len(s) : s[i] \in Awake
  OBVIOUS
<1> QED BY <1>1 DEF Once, Awake

LEMMA EmptyParts ==
  /\ \A A : <<>> \in Seq(A)
  /\ \A Y, X : Guards(<<>>, Y, X)
  /\ \A X : Once(<<>>, X)
<1>1. Len(<<>>) = 0
  OBVIOUS
<1> QED BY <1>1 DEF Guards, Once

(* Nothing is late once the window is as long as those of /debug.          *)
LEMMA NotRisky ==
  ASSUME NEW t, NEW n \in Nat, n >= DebugWindow
  PROVE  Of(t) \cap Risky(n) = {}
<1> SUFFICES ASSUME NEW o \in Of(t), o \in Risky(n) PROVE FALSE
  OBVIOUS
<1>1. o \in Ops /\ (o.do = "sleep" => o.ms <= Propagation /\ o.ms \in Nat)
  BY SleepShape DEF Of
<1> QED BY <1>1, WindowAssumption DEF Risky

LEMMA Opens ==
  ASSUME NEW t, NEW s \in Seq(Of(t)), NEW n \in Nat, n >= DebugWindow
  PROVE  Guards(s, Shields, Risky(n))
BY NotRisky, GuardsNone
-----------------------------------------------------------------------------
LEMMA SoundEmpty == \A t : Sound(t, <<>>)
BY EmptyParts DEF Sound

LEMMA CalmEmpty == \A t, n : Calm(t, <<>>, n)
BY EmptyParts DEF Calm

LEMMA SoundCons ==
  ASSUME NEW t, NEW s, Sound(t, s), NEW o \in Of(t),
         o \notin DisplayWrites, o \notin Sleeps
  PROVE  Sound(t, <<o>> \o s)
<1>1. o \in Ops /\ s \in Seq(Of(t)) /\ s \in Seq(Ops)
  BY OfOps, SeqSub DEF Sound
<1>2. <<o>> \o s \in Seq(Of(t))
  BY <1>1, ConsIn
<1>3. t = Tcp => Once(<<o>> \o s, Sleeps)
  BY <1>1, OnceCons DEF Sound
<1>4. t = Loop => <<o>> \o s \in Seq(Ops \ DisplayWrites)
  BY <1>1, ConsIn DEF Sound
<1> QED BY <1>2, <1>3, <1>4 DEF Sound

LEMMA CalmCons ==
  ASSUME NEW t, NEW s, Sound(t, s), NEW n, Calm(t, s, n), NEW o \in Of(t),
         o \notin Risky(n), o \notin Sleeps, o \in DisplayWrites => n < 0
  PROVE  Calm(t, <<o>> \o s, n)
<1>1. o \in Ops /\ s \in Seq(Of(t)) /\ s \in Seq(Ops)
  BY OfOps, SeqSub DEF Sound
<1>2. <<o>> \o s \in Seq(Of(t))
  BY <1>1, ConsIn
<1>3. t = Tcp => Once(<<o>> \o s, Sleeps)
  BY <1>1, OnceCons DEF Sound
<1>4. Head(<<o>> \o s) = o /\ Tail(<<o>> \o s) = s
  BY <1>1, ConsProperties
<1>5. t \in {Loop, Tcp} => Guards(<<o>> \o s, Shields, Risky(n))
  BY <1>1, GuardsCons DEF Calm
<1> QED BY <1>2, <1>3, <1>4, <1>5 DEF Calm, Sound

LEMMA ShieldCons ==
  ASSUME NEW t, NEW s, Sound(t, s), NEW n, NEW o \in Of(t), o \in Shields
  PROVE  Calm(t, <<o>> \o s, n)
<1>1. o \in Ops /\ s \in Seq(Of(t)) /\ s \in Seq(Ops)
  BY OfOps, SeqSub DEF Sound
<1>2. o \notin Risky(n) /\ o \notin Sleeps /\ o \notin DisplayWrites
  BY DEF Risky, Sleeps, DisplayWrites, Shields
<1>3. <<o>> \o s \in Seq(Of(t))
  BY <1>1, ConsIn
<1>4. t = Tcp => Once(<<o>> \o s, Sleeps)
  BY <1>1, <1>2, OnceCons DEF Sound
<1>5. Head(<<o>> \o s) = o /\ Tail(<<o>> \o s) = s
  BY <1>1, ConsProperties
<1>6. Guards(<<o>> \o s, Shields, Risky(n))
  BY <1>1, <1>2, GuardsCons
<1> QED BY <1>2, <1>3, <1>4, <1>5, <1>6 DEF Calm, Sound

(* An operation is done; it may have opened a window.                      *)
LEMMA CalmTail ==
  ASSUME NEW t, NEW s, NEW n, Calm(t, s, n), s # <<>>,
         NEW l, (Head(s) \notin Shields /\ l = n) \/ (l \in Nat /\ l >= DebugWindow)
  PROVE  Calm(t, Tail(s), l) /\ Sound(t, Tail(s))
<1>1. s \in Seq(Of(t)) /\ s \in Seq(Ops)
  BY OfOps, SeqSub DEF Calm
<1>2. /\ Head(s) \in Ops /\ Tail(s) \in Seq(Of(t)) /\ Tail(s) \in Seq(Ops)
      /\ s = <<Head(s)>> \o Tail(s)
  BY <1>1, HeadAndTail, HeadTailProperties
<1>3. t = Tcp => Once(Tail(s), Sleeps)
  BY <1>2, OnceCons DEF Calm
<1>4. t \in {Loop, Tcp} => Guards(Tail(s), Shields, Risky(l))
  <2>1. CASE Head(s) \notin Shields /\ l = n
    <3> SUFFICES ASSUME t \in {Loop, Tcp} PROVE Guards(Tail(s), Shields, Risky(n))
      BY <2>1
    <3>1. Guards(<<Head(s)>> \o Tail(s), Shields, Risky(n))
      BY <1>2 DEF Calm
    <3>2. Head(s) \in Shields \/ Guards(Tail(s), Shields, Risky(n))
      BY <1>2, <3>1, GuardsCons
    <3> QED BY <2>1, <3>2
  <2>2. CASE l \in Nat /\ l >= DebugWindow
    BY <1>2, <2>2, Opens
  <2> QED BY <2>1, <2>2
<1>5. t = Loop => Tail(s) \in Seq(Ops \ DisplayWrites)
  BY DEF Calm
<1>6. ASSUME t = Loop, Tail(s) # <<>>
      PROVE  /\ Tail(Tail(s)) \in Seq(Ops \ DisplayWrites)
             /\ Head(Tail(s)) \notin DisplayWrites
  BY <1>5, <1>6, HeadTailProperties
<1> QED BY <1>2, <1>3, <1>4, <1>5, <1>6 DEF Calm, Sound

(* Another task opens a window.                                            *)
LEMMA CalmWindow ==
  ASSUME NEW t, NEW s, NEW n, Calm(t, s, n), NEW l \in Nat, l >= DebugWindow,
         t = Loop /\ s # <<>> => Head(s) \notin DisplayWrites
  PROVE  Calm(t, s, l)
BY Opens DEF Calm
-----------------------------------------------------------------------------
(* The functions of the code.                                              *)
LEMMA LocksOf ==
  ASSUME NEW t, NEW m \in ModelNames
  PROVE  /\ Lock(m) \in Of(t) /\ Unlock(m) \in Of(t)
         /\ \A A \in {DisplayWrites, Sleeps, Shields} : Lock(m) \notin A /\ Unlock(m) \notin A
         /\ \A n : Lock(m) \notin Risky(n) /\ Unlock(m) \notin Risky(n)
<1>1. Lock(m) \in Ops /\ Lock(m).do = "lock" /\ Unlock(m) \in Ops /\ Unlock(m).do = "unlock"
  BY Made DEF Lock, Unlock
<1> HIDE DEF Lock, Unlock
<1> QED BY <1>1 DEF Of, DisplayWrites, Sleeps, Shields, Risky

LEMMA SoundGuarded ==
  ASSUME NEW t, NEW s, Sound(t, s), NEW m \in ModelNames, NEW o \in Of(t),
         o \notin DisplayWrites, o \notin Sleeps
  PROVE  Sound(t, Guarded(m, o) \o s)
<1>1. s \in Seq(Ops) /\ o \in Ops
  BY OfOps, SeqSub DEF Sound
<1>2. Guarded(m, o) \o s = <<Lock(m)>> \o (<<o>> \o (<<Unlock(m)>> \o s))
  BY <1>1, GuardedIs
<1>3. Sound(t, <<Unlock(m)>> \o s)
  BY LocksOf, SoundCons
<1>4. Sound(t, <<o>> \o (<<Unlock(m)>> \o s))
  BY <1>3, SoundCons
<1>5. Sound(t, <<Lock(m)>> \o (<<o>> \o (<<Unlock(m)>> \o s)))
  BY <1>4, LocksOf, SoundCons
<1> QED BY <1>2, <1>5

LEMMA CalmGuarded ==
  ASSUME NEW t, NEW s, Sound(t, s), NEW n, NEW m \in ModelNames, NEW o \in Of(t),
         \/ o \in Shields
         \/ Calm(t, s, n) /\ o.do = "apply"
  PROVE  Calm(t, Guarded(m, o) \o s, n)
<1>1. s \in Seq(Ops) /\ o \in Ops
  BY OfOps, SeqSub DEF Sound
<1>2. Guarded(m, o) \o s = <<Lock(m)>> \o (<<o>> \o (<<Unlock(m)>> \o s))
  BY <1>1, GuardedIs
<1>3. Sound(t, <<Unlock(m)>> \o s)
  BY LocksOf, SoundCons
<1>4. o \notin Sleeps /\ o \notin Risky(n) /\ o \notin DisplayWrites
  BY DEF Shields, Sleeps, Risky, DisplayWrites
<1>5. Calm(t, <<o>> \o (<<Unlock(m)>> \o s), n)
  <2>1. CASE o \in Shields
    BY <1>3, <2>1, ShieldCons
  <2>2. CASE Calm(t, s, n) /\ o.do = "apply"
    <3>1. Calm(t, <<Unlock(m)>> \o s, n)
      BY <2>2, LocksOf, CalmCons
    <3> QED BY <1>3, <1>4, <3>1, CalmCons
  <2> QED BY <2>1, <2>2
<1>6. Sound(t, <<o>> \o (<<Unlock(m)>> \o s))
  BY <1>3, <1>4, SoundCons
<1>7. Calm(t, <<Lock(m)>> \o (<<o>> \o (<<Unlock(m)>> \o s)), n)
  BY <1>5, <1>6, LocksOf, CalmCons
<1> QED BY <1>2, <1>7

LEMMA WindowOf ==
  ASSUME NEW t, NEW m \in ModelNames, NEW ms \in DebugWindow .. UserWindow,
         t \in {Loop, Tcp} => ms = UserWindow
  PROVE  LET o == [do |-> "disable", m |-> m, ms |-> ms]
         IN  /\ o \in Of(t) /\ o \notin DisplayWrites /\ o \notin Sleeps
             /\ m = "display" => o \in Shields
<1> DEFINE o == [do |-> "disable", m |-> m, ms |-> ms]
<1>1. o \in Ops
  BY Made, WindowAssumption
<1>2. o.do = "disable" /\ o.m = m /\ o.ms = ms
  OBVIOUS
<1> HIDE DEF o
<1>3. o.ms >= DebugWindow
  BY <1>2
<1>4. /\ o \in Of(t) /\ o \notin DisplayWrites /\ o \notin Sleeps
      /\ m = "display" => o \in Shields
  BY <1>1, <1>2, <1>3, WindowAssumption DEF Of, DisplayWrites, Sleeps, Shields
<1> QED BY <1>4 DEF o

LEMMA SoundDisable ==
  ASSUME NEW t, NEW s, Sound(t, s), NEW m \in ModelNames, NEW ms \in DebugWindow .. UserWindow,
         t \in {Loop, Tcp} => ms = UserWindow
  PROVE  /\ Sound(t, DisableUpdatesFor(m, ms) \o s)
         /\ m = "display" => \A n : Calm(t, DisableUpdatesFor(m, ms) \o s, n)
<1> DEFINE o == [do |-> "disable", m |-> m, ms |-> ms]
<1>1. /\ o \in Of(t) /\ o \notin DisplayWrites /\ o \notin Sleeps
      /\ m = "display" => o \in Shields
  BY WindowOf
<1> HIDE DEF o
<1>2. Sound(t, Guarded(m, o) \o s)
  BY <1>1, SoundGuarded
<1>3. m = "display" => \A n : Calm(t, Guarded(m, o) \o s, n)
  BY <1>1, CalmGuarded
<1> QED BY <1>2, <1>3 DEF DisableUpdatesFor, o

LEMMA SoundPatch ==
  ASSUME NEW t, NEW s, Sound(t, s), NEW p, NEW data \in Data,
         ModelOf(p) = "display", DOMAIN data \subseteq Fields(p)
  PROVE  Sound(t, UpdateMasked(p, data) \o s)
<1>1. CASE p \notin Props
  <2>1. s \in Seq(Ops)
    BY OfOps, SeqSub DEF Sound
  <2>2. <<>> \o s = s
    BY <2>1, ConcatEmptySeq
  <2> QED BY <1>1, <2>2 DEF UpdateMasked
<1>2. CASE p \in Props
  <2> DEFINE o == [do |-> "patch", p |-> p, data |-> data]
  <2>1. o \in Ops /\ o.do = "patch" /\ o.p = p /\ o.data = data
    BY <1>2, Made
  <2> HIDE DEF o
  <2>2. o \in Of(t) /\ o \notin DisplayWrites /\ o \notin Sleeps
    BY <2>1 DEF Of, DisplayWrites, Sleeps
  <2>3. Sound(t, Guarded("display", o) \o s)
    BY <2>2, SoundGuarded DEF ModelNames
  <2> QED BY <1>2, <2>3 DEF UpdateMasked, o
<1> QED BY <1>1, <1>2

LEMMA FieldSet ==
  ASSUME NEW f \in Settable, NEW n \in Nat
  PROVE  [g \in {f} |-> n] \in Data /\ DOMAIN [g \in {f} |-> n] = {f}
<1>1. [g \in {f} |-> n] \in [{f} -> Nat] /\ {f} \in SUBSET Settable
  OBVIOUS
<1> QED BY <1>1 DEF Data

LEMMA SoundSelector ==
  ASSUME NEW t, NEW s, Sound(t, s), NEW n \in Nat
  PROVE  Sound(t, SetSelector(n) \o s)
<1>1. "sel" \in Settable /\ "sel" \in Fields("526") /\ ModelOf("526") = "display"
  BY DEF Settable, Fields, ModelOf
<1> DEFINE d == [f \in {"sel"} |-> n]
<1>2. d \in Data /\ DOMAIN d \subseteq Fields("526")
  BY <1>1, FieldSet
<1> HIDE DEF d
<1>3. Sound(t, UpdateMasked("526", d) \o s)
  BY <1>1, <1>2, SoundPatch
<1> QED BY <1>3 DEF SetSelector, d

LEMMA TypedSelector == ASSUME NEW n \in Nat PROVE SetSelector(n) \in Seq(Ops)
BY NeutralSelector DEF Neutral

LEMMA TypedDisable ==
  ASSUME NEW m \in ModelNames, NEW ms \in DebugWindow .. UserWindow
  PROVE  DisableUpdatesFor(m, ms) \in Seq(Ops)
<1>1. ms \in 0 .. UserWindow
  BY WindowAssumption
<1> QED BY <1>1, NeutralDisable DEF Neutral

LEMMA WindowsFit ==
  /\ UserWindow \in DebugWindow .. UserWindow /\ DebugWindow \in DebugWindow .. UserWindow
  /\ "display" \in ModelNames /\ "car" \in ModelNames
BY WindowAssumption DEF ModelNames

(* The press of a button opens a window before it clears the selector.     *)
LEMMA CalmPress ==
  ASSUME NEW t, NEW s, NEW n, Calm(t, s, n), NEW p, p = "528" => Sound(t, s),
         NEW new, NEW old
  PROVE  Calm(t, ButtonPress(p, new, old) \o s, n)
<1> DEFINE A == DisableUpdatesFor("display", UserWindow)
           B == SetSelector(0)
<1>1. ButtonPress(p, new, old) = <<>> \/ (ButtonPress(p, new, old) = A \o B /\ p = "528")
  BY DEF ButtonPress
<1>2. s \in Seq(Ops) /\ A \in Seq(Ops) /\ B \in Seq(Ops)
  BY OfOps, SeqSub, TypedSelector, TypedDisable, WindowsFit DEF Calm
<1> SUFFICES ASSUME ButtonPress(p, new, old) = A \o B, p = "528"
             PROVE  Calm(t, (A \o B) \o s, n)
  BY <1>1, <1>2, ConcatEmptySeq
<1>3. Sound(t, B \o s)
  BY SoundSelector
<1> HIDE DEF B
<1>4. Calm(t, A \o (B \o s), n)
  BY <1>3, SoundDisable, WindowsFit
<1> HIDE DEF A
<1>5. (A \o B) \o s = A \o (B \o s)
  BY <1>2, ConcatAssociative
<1> QED BY <1>4, <1>5

(* What each call begins with.                                             *)
LEMMA CalmUpdateState ==
  ASSUME NEW p \in Props, NEW v \in Value(p), NEW n
  PROVE  Calm(Loop, UpdateState(p, v), n)
<1> DEFINE o == [do |-> "apply", p |-> p, v |-> v]
<1>1. o \in Ops /\ o.do = "apply" /\ o.p = p
  BY Made
<1> HIDE DEF o
<1>2. o \in Of(Loop)
  BY <1>1 DEF Of, Loop, Tcp
<1>3. Calm(Loop, Guarded(ModelOf(p), o) \o <<>>, n)
  BY <1>1, <1>2, SoundEmpty, CalmEmpty, CalmGuarded, ModelNamesOnly
<1>4. Guarded(ModelOf(p), o) \in Seq(Ops)
  BY <1>1, Made, ModelNamesOnly DEF Guarded
<1>5. Guarded(ModelOf(p), o) \o <<>> = Guarded(ModelOf(p), o)
  BY <1>4, ConcatEmptySeq
<1> QED BY <1>3, <1>5 DEF UpdateState, o

LEMMA LightField ==
  ASSUME NEW l \in Lights
  PROVE  /\ l \in Settable /\ l \in Fields(SetBrightnessProp(l))
         /\ ModelOf(SetBrightnessProp(l)) = "display" /\ Selector(l) \in Nat
BY ArgumentAssumption DEF Settable, Fields, SetBrightnessProp, ModelOf, Selector

LEMMA AwakeSelector == ASSUME NEW n \in Nat PROVE SetSelector(n) \in Seq(Awake)
<1> DEFINE d == [f \in {"sel"} |-> n]
           o == [do |-> "patch", p |-> "526", data |-> d]
<1>1. Lock("display") \in Awake /\ Unlock("display") \in Awake
  BY LocksOf, OfOps, WindowsFit DEF Awake
<1>2. CASE "526" \in Props
  <2>1. d \in Data
    BY FieldSet DEF Settable
  <2> HIDE DEF d
  <2>2. o \in Ops /\ o.do = "patch"
    BY <1>2, <2>1, Made
  <2> HIDE DEF o
  <2>3. o \in Awake
    BY <2>2 DEF Awake, Sleeps
  <2>4. Guarded("display", o) \in Seq(Awake)
    BY <1>1, <2>3 DEF Guarded
  <2> QED BY <1>2, <2>4 DEF SetSelector, UpdateMasked, ModelOf, o, d
<1>3. CASE "526" \notin Props
  BY <1>3 DEF SetSelector, UpdateMasked
<1> QED BY <1>2, <1>3

LEMMA SoundSleep ==
  Sound(Tcp, <<Sleep(Propagation)>> \o SetSelector(0))
<1> DEFINE o == Sleep(Propagation)
           s == SetSelector(0)
<1>1. o \in Ops /\ o.do = "sleep" /\ o.ms = Propagation /\ Propagation \in Nat
  BY WindowAssumption, Made DEF Sleep
<1>2. s \in Seq(Awake) /\ s \in Seq(Ops)
  BY AwakeSelector, TypedSelector
<1>3. s \o <<>> = s
  BY <1>2, ConcatEmptySeq
<1>4. Sound(Tcp, s)
  BY <1>3, SoundEmpty, SoundSelector
<1> HIDE DEF o, s
<1>5. o \in Of(Tcp) /\ o \in Sleeps
  BY <1>1 DEF Of, Sleeps
<1>6. <<o>> \o s \in Seq(Of(Tcp))
  BY <1>4, <1>5, ConsIn DEF Sound
<1>7. \A i \in 1 .. Len(s) : s[i] \notin Sleeps
  BY <1>2 DEF Awake
<1>8. Once(<<o>> \o s, Sleeps)
  BY <1>1, <1>2, <1>4, <1>7, OnceCons DEF Sound
<1>9. Sound(Tcp, <<o>> \o s)
  BY <1>6, <1>8 DEF Sound, Loop, Tcp
<1> QED BY <1>9 DEF o, s

LEMMA CalmLight ==
  ASSUME NEW l \in Lights, NEW b \in Nat, NEW off, NEW n
  PROVE  Calm(Tcp, SetLight(l, b, off), n)
<1> DEFINE A == DisableUpdatesFor("display", UserWindow)
           B == SetSelector(Selector(l))
           d == [f \in {l} |-> b]
           C == UpdateMasked(SetBrightnessProp(l), d)
           D == IF off THEN <<Sleep(Propagation)>> \o SetSelector(0) ELSE <<>>
<1>1. d \in Data /\ DOMAIN d \subseteq Fields(SetBrightnessProp(l))
  BY LightField, FieldSet
<1> HIDE DEF d
<1>2. A \in Seq(Ops) /\ B \in Seq(Ops) /\ C \in Seq(Ops)
  <2>1. C \in Seq(Ops)
    BY <1>1, LightField, NeutralPatch DEF Neutral
  <2> QED BY <2>1, LightField, TypedSelector, TypedDisable, WindowsFit
<1>3. Sound(Tcp, D)
  BY SoundEmpty, SoundSleep
<1> HIDE DEF D
<1>4. D \in Seq(Ops)
  BY <1>3, OfOps, SeqSub DEF Sound
<1>5. Sound(Tcp, C \o D)
  BY <1>1, <1>3, LightField, SoundPatch
<1> HIDE DEF C
<1>6. Sound(Tcp, B \o (C \o D))
  BY <1>5, LightField, SoundSelector
<1> HIDE DEF B
<1>7. Calm(Tcp, A \o (B \o (C \o D)), n)
  BY <1>6, SoundDisable, WindowsFit
<1> HIDE DEF A
<1>8. ((A \o B) \o C) \o D = A \o (B \o (C \o D))
  <2>1. Regroup(A, B, C, D)
    BY <1>2, <1>4, ConcatFour
  <2> QED BY <2>1 DEF Regroup
<1> QED BY <1>7, <1>8 DEF SetLight, A, B, C, D, d

LEMMA CalmFridge ==
  ASSUME NEW f \in {"on", "power"}, NEW b \in Nat, NEW n
  PROVE  Calm(Tcp, SetFridge(f, b), n)
<1> DEFINE A == DisableUpdatesFor("display", UserWindow)
           d == [g \in {f} |-> b]
           C == UpdateMasked("531", d)
<1>1. f \in Settable /\ f \in Fields("531") /\ ModelOf("531") = "display"
  BY DEF Settable, Fields, ModelOf
<1>2. d \in Data /\ DOMAIN d \subseteq Fields("531")
  BY <1>1, FieldSet
<1> HIDE DEF d
<1>3. C \in Seq(Ops)
  BY <1>1, <1>2, NeutralPatch DEF Neutral
<1>4. C \o <<>> = C
  BY <1>3, ConcatEmptySeq
<1>5. Sound(Tcp, C)
  BY <1>1, <1>2, <1>4, SoundEmpty, SoundPatch
<1>6. Calm(Tcp, A \o C, n)
  BY <1>5, SoundDisable, WindowsFit
<1> QED BY <1>6 DEF SetFridge, A, C, d

LEMMA CalmDebugSet ==
  ASSUME NEW t \in Debuggers, NEW m \in ModelNames, NEW p \in Props, NEW v \in Value(p),
         NEW n
  PROVE  Calm(t, DebugSet(m, p, v), n)
<1>1. t # Loop /\ t # Tcp
  BY DebuggersAssumption
<1> DEFINE o == [do |-> "notify", p |-> p, v |-> v]
           w == Write(p, v)
           d == [do |-> "disable", m |-> m, ms |-> DebugWindow]
           X == IF ModelOf(p) = m THEN Update(p, v) ELSE <<>>
<1>2. /\ o \in Ops /\ o.do = "notify" /\ o.p = p
      /\ w \in Ops /\ w.do = "write" /\ w.p = p
  BY Made DEF Write
<1>3. d \in Of(t)
  BY <1>1, WindowOf, WindowsFit
<1> HIDE DEF o, w, d
<1>4. o \in Of(t) /\ w \in Of(t)
  BY <1>1, <1>2 DEF Of
<1>5. ASSUME NEW k \in ModelNames, NEW x \in Of(t)
      PROVE  Guarded(k, x) \in Seq(Of(t))
  <2>1. Lock(k) \in Of(t) /\ Unlock(k) \in Of(t)
    BY LocksOf
  <2> QED BY <2>1 DEF Guarded
<1>6. Guarded(ModelOf(p), w) \in Seq(Of(t)) /\ Guarded(m, d) \in Seq(Of(t))
  BY <1>3, <1>4, <1>5, ModelNamesOnly
<1>7. <<o>> \o Guarded(ModelOf(p), w) \in Seq(Of(t))
  BY <1>4, <1>6, ConsIn
<1>8. X \in Seq(Of(t))
  BY <1>7, EmptyParts DEF Update, o, w
<1> HIDE DEF X
<1>9. Guarded(m, d) \o X \in Seq(Of(t))
  BY <1>6, <1>8, ConcatProperties
<1>10. DebugSet(m, p, v) \in Seq(Of(t))
  BY <1>9 DEF DebugSet, DisableUpdatesFor, X, d
<1> QED BY <1>1, <1>10 DEF Calm
-----------------------------------------------------------------------------
LEMMA CalmHead ==
  ASSUME NEW t, NEW s, NEW n, Calm(t, s, n), s # <<>>
  PROVE  /\ Head(s) \in Of(t)
         /\ t \in {Loop, Tcp} => Head(s) \notin Risky(n)
         /\ t = Loop => (Head(s) \in DisplayWrites => n < 0)
<1>1. s \in Seq(Of(t)) /\ s \in Seq(Ops)
  BY OfOps, SeqSub DEF Calm
<1>2. /\ Head(s) \in Of(t) /\ Head(s) \in Ops /\ Tail(s) \in Seq(Ops)
      /\ s = <<Head(s)>> \o Tail(s)
  BY <1>1, HeadAndTail, HeadTailProperties
<1>3. ASSUME t \in {Loop, Tcp}
      PROVE  Head(s) \notin Risky(n)
  <2>1. Guards(<<Head(s)>> \o Tail(s), Shields, Risky(n))
    BY <1>2, <1>3 DEF Calm
  <2> QED BY <1>2, <2>1, GuardsCons
<1> QED BY <1>2, <1>3 DEF Calm

(* A settable field belongs to one property, which is the display's.       *)
LEMMA FieldsApart ==
  /\ \A p, q \in AllProps : p # q => Fields(p) \cap Fields(q) \cap Settable = {}
  /\ \A p \in AllProps : ModelOf(p) = "car" => p = "528"
  /\ Fields("528") \cap Settable = {}
BY ArgumentAssumption DEF AllProps, Fields, Settable, ModelOf, SetBrightnessProp

(* No window is opened while the event loop stores what the display sent.  *)
LEMMA StoresUndisturbed ==
  ASSUME IInv, NEW t \in Tasks, job[t] # <<>>, Head(job[t]) \in Shields,
         job[Loop] # <<>>, Head(job[Loop]) \in DisplayWrites
  PROVE  FALSE
<1>1. Loop \in Tasks /\ JobsOk(job, owner) /\ "display" \in ModelNames
  BY DEF Tasks, IInv, ModelNames
<1>2. /\ Head(job[t]).do = "disable" /\ Head(job[t]).m = "display"
      /\ Head(job[Loop]).do = "write" /\ ModelOf(Head(job[Loop]).p) = "display"
  BY DEF Shields, DisplayWrites
<1>3. owner["display"] = t
  BY <1>1, <1>2, JobsHead DEF Ok
<1>4. owner["display"] = Loop
  BY <1>1, <1>2, JobsHead DEF Ok
<1> QED BY <1>2, <1>3, <1>4

LEMMA HeldInit == Init => HeldInv
<1> SUFFICES ASSUME Init PROVE HeldInv
  OBVIOUS
<1>1. AllCalm
  BY CalmEmpty DEF Init, AllCalm
<1>2. WantInTime
  BY DEF Init, WantInTime, Nothing
<1>3. UndoneOnlyIfLapsed
  BY DEF Init, UndoneOnlyIfLapsed, Nothing
<1> QED BY <1>1, <1>2, <1>3 DEF HeldInv

LEMMA HeldNext == IInv /\ HeldInv /\ [Next]_vars => HeldInv'
<1> SUFFICES ASSUME IInv, HeldInv, [Next]_vars
             PROVE  HeldInv'
  OBVIOUS
<1> DEFINE n == left["display"]
<1>1. /\ DOMAIN job = Tasks /\ JobsOk(job, owner) /\ Typed
      /\ \A t \in Tasks : Calm(t, job[t], n)
      /\ Loop \in Tasks /\ Tcp \in Tasks /\ "display" \in ModelNames
      /\ left \in [ModelNames -> -1 .. UserWindow]
  BY DEF IInv, JobsOk, Typed, HeldInv, AllCalm, Tasks, ModelNames
<1>2. UNCHANGED <<props, want, lapsed>> /\ left'["display"] = n => WantInTime' /\ UndoneOnlyIfLapsed'
  BY DEF HeldInv, WantInTime, UndoneOnlyIfLapsed
<1>3. ASSUME NEW t \in Tasks, NEW q, job' = [job EXCEPT ![t] = q], Calm(t, q, n),
             left'["display"] = n
      PROVE  AllCalm'
  BY <1>1, <1>3 DEF AllCalm
<1>4. ASSUME NEW t \in Tasks, NEW a, Start(t, a), Calm(t, a, n)
      PROVE  HeldInv'
  BY <1>2, <1>3, <1>4 DEF Start, HeldInv
<1>5. ASSUME NEW p \in Props, NEW v \in Bus[p], Receive(p, v)
      PROVE  HeldInv'
  <2>1. v \in Value(p)
    BY ValueAssumption DEF Value
  <2> QED BY <1>1, <1>4, <1>5, <2>1, CalmUpdateState DEF Receive
<1>6. ASSUME NEW l \in Lights, NEW b \in Nat, NEW off, UserLight(l, b, off)
      PROVE  HeldInv'
  BY <1>1, <1>4, <1>6, CalmLight DEF UserLight
<1>7. ASSUME NEW k \in Nat, UserFridgeState(k) \/ UserFridgePower(k)
      PROVE  HeldInv'
  BY <1>1, <1>4, <1>7, CalmFridge DEF UserFridgeState, UserFridgePower
<1>8. ASSUME NEW p \in Props, NEW v \in Debug[p], UserDebug(p, v)
      PROVE  HeldInv'
  <2>1. PICK d \in Debuggers, c \in Debuggers :
          /\ job' = [job EXCEPT ![d] = DebugSet("display", p, v),
                                ![c] = DebugSet("car", p, v)]
          /\ UNCHANGED <<props, left, want, lapsed>>
    BY <1>8 DEF UserDebug
  <2>2. v \in Value(p)
    BY ValueAssumption DEF Value
  <2>3. \A t \in Debuggers : /\ Calm(t, DebugSet("display", p, v), n)
                             /\ Calm(t, DebugSet("car", p, v), n)
    BY <2>2, CalmDebugSet, WindowsFit
  <2>4. c \in Tasks /\ d \in Tasks
    BY DEF Tasks
  <2>5. AllCalm'
    BY <1>1, <2>1, <2>3, <2>4 DEF AllCalm
  <2> QED BY <1>2, <2>1, <2>5 DEF HeldInv
<1>9. ASSUME NEW t \in Tasks, job[t] # <<>>, Head(job[t]) \notin Shields,
             job' = [job EXCEPT ![t] = Tail(@)], left'["display"] = n
      PROVE  AllCalm'
  <2>1. Calm(t, Tail(job[t]), n)
    BY <1>1, <1>9, CalmTail
  <2>2. job' = [job EXCEPT ![t] = Tail(job[t])]
    BY <1>9
  <2> QED BY <1>3, <1>9, <2>1, <2>2
<1>10. ASSUME NEW t \in Tasks, Acquire(t) \/ Release(t) \/ WakeUp(t)
       PROVE  HeldInv'
  <2>1. /\ job[t] # <<>> /\ Head(job[t]).do \in {"lock", "unlock", "sleep"}
        /\ job' = [job EXCEPT ![t] = Tail(@)] /\ UNCHANGED <<props, left, want, lapsed>>
    BY <1>10 DEF Acquire, Release, WakeUp, At, Done
  <2>2. Head(job[t]) \notin Shields
    BY <2>1 DEF Shields
  <2> QED BY <1>2, <1>9, <2>1, <2>2 DEF HeldInv
<1>11. ASSUME NEW t \in Tasks, SetWindow(t)
       PROVE  HeldInv'
  <2> DEFINE m == Head(job[t]).m
             ms == Head(job[t]).ms
  <2>1. /\ job[t] # <<>> /\ Head(job[t]).do = "disable"
        /\ left' = [left EXCEPT ![m] = ms]
        /\ job' = [job EXCEPT ![t] = Tail(@)]
        /\ UNCHANGED <<props, want, lapsed>>
    BY <1>11 DEF SetWindow, At, Done
  <2>2. m \in ModelNames /\ ms \in 0 .. UserWindow /\ Head(job[t]) \in Of(t)
        /\ Head(job[t]) \in Ops
    BY <1>1, <2>1, JobsHead, WindowShape, CalmHead
  <2>3. CASE m = "display"
    <3>1. Head(job[t]) \in Shields /\ ms >= DebugWindow /\ ms \in Nat
      BY <2>1, <2>2, <2>3 DEF Shields, Of
    <3>2. left'["display"] = ms
      BY <1>1, <2>1, <2>3
    <3>3. Calm(t, Tail(job[t]), ms)
      BY <1>1, <2>1, <3>1, CalmTail
    <3>4. ASSUME NEW u \in Tasks
          PROVE  Calm(u, job[u], ms)
      <4>1. u = Loop /\ job[u] # <<>> => Head(job[u]) \notin DisplayWrites
        BY <2>1, <3>1, StoresUndisturbed
      <4> QED BY <1>1, <3>1, <4>1, CalmWindow
    <3> HIDE DEF m, ms
    <3>5. AllCalm'
      BY <1>1, <2>1, <3>2, <3>3, <3>4 DEF AllCalm
    <3>6. WantInTime' /\ UndoneOnlyIfLapsed'
      BY <2>1, <3>1, <3>2 DEF HeldInv, WantInTime, UndoneOnlyIfLapsed
    <3> QED BY <3>5, <3>6 DEF HeldInv
  <2>4. CASE m # "display"
    <3>1. Head(job[t]) \notin Shields
      BY <2>4 DEF Shields
    <3>2. left'["display"] = n
      BY <1>1, <2>1, <2>4
    <3> QED BY <1>2, <1>9, <2>1, <3>1, <3>2 DEF HeldInv
  <2> QED BY <2>3, <2>4
<1>12. ASSUME NEW t \in Tasks, Patch(t)
       PROVE  HeldInv'
  <2> DEFINE o == Head(job[t])
             new == Masked(o.p, o.data)
             b == ButtonPress(o.p, new, Mask(o.p, o.data))
  <2>1. /\ job[t] # <<>> /\ o.do = "patch"
        /\ props' = [props EXCEPT ![o.p] = new]
        /\ want' = [f \in Settable |->
                      IF f \notin DOMAIN o.data THEN want[f]
                      ELSE IF t \in Debuggers THEN Unset ELSE o.data[f]]
        /\ job' = [job EXCEPT ![t] = b \o Tail(@)]
        /\ lapsed' = lapsed \ DOMAIN o.data
        /\ left' = left
    BY <1>12 DEF Patch, At, DoneThen
  <2>2. /\ o \in Of(t) /\ o \in Ops
        /\ t \in {Loop, Tcp} => o \notin Risky(n)
    BY <1>1, <2>1, CalmHead, JobsHead
  <2>3. Calm(t, Tail(job[t]), n)
    <3>1. o \notin Shields
      BY <2>1 DEF Shields
    <3> QED BY <1>1, <2>1, <3>1, CalmTail
  <2> HIDE DEF o
  <2>4. /\ o.p \in Props /\ o.data \in Data
        /\ ModelOf(o.p) = "display" /\ DOMAIN o.data \subseteq Fields(o.p)
    BY <2>1, <2>2, PatchShape DEF Of
  <2>5. t \notin Debuggers => n >= 0
    <3>1. t \notin Debuggers => t \in {Loop, Tcp}
      BY DEF Tasks
    <3> QED BY <1>1, <2>1, <2>2, <3>1 DEF Risky
  <2>6. AllCalm'
    <3>1. o.p # "528"
      BY <2>4 DEF ModelOf
    <3> HIDE DEF new
    <3>2. Calm(t, b \o Tail(job[t]), n)
      BY <2>3, <3>1, CalmPress
    <3> HIDE DEF b
    <3>3. job' = [job EXCEPT ![t] = b \o Tail(job[t])]
      BY <2>1
    <3> QED BY <1>3, <2>1, <3>2, <3>3
  <2>7. WantInTime'
    BY <2>1, <2>5 DEF HeldInv, WantInTime
  <2>8. UndoneOnlyIfLapsed'
    <3>4. /\ props'[o.p] = new
          /\ \A p \in Props \ {o.p} : props'[p] = props[p]
      <4> HIDE DEF new, b
      <4>1. DOMAIN props = Props
        BY <1>1 DEF Typed
      <4>2. props' = [props EXCEPT ![o.p] = new]
        BY <2>1
      <4> QED BY <2>4, <4>1, <4>2
    <3> SUFFICES ASSUME NEW p \in Props, NEW f \in Fields(p) \cap Settable, want'[f] # Unset
                 PROVE  props'[p][f] = want'[f] \/ f \in lapsed'
      BY DEF UndoneOnlyIfLapsed
    <3>1. want[f] # Unset => props[p][f] = want[f] \/ f \in lapsed
      BY DEF HeldInv, UndoneOnlyIfLapsed
    <3>2. CASE f \in DOMAIN o.data
      <4>1. p = o.p
        BY <2>4, <3>2, FieldsApart, PropsAssumption
      <4>2. new[f] = o.data[f]
        BY <3>2, <4>1 DEF Masked
      <4> QED BY <2>1, <3>2, <3>4, <4>1, <4>2
    <3>3. CASE f \notin DOMAIN o.data
      <4>1. CASE p = o.p
        <5>1. new[f] = props[p][f]
          BY <3>3, <4>1 DEF Masked
        <5> QED BY <2>1, <3>1, <3>3, <3>4, <4>1, <5>1
      <4>2. CASE p # o.p
        BY <2>1, <3>1, <3>3, <3>4, <4>2
      <4> QED BY <4>1, <4>2
    <3> QED BY <3>2, <3>3
  <2> QED BY <2>6, <2>7, <2>8 DEF HeldInv
<1>13. ASSUME NEW t \in Tasks, Apply(t)
       PROVE  HeldInv'
  <2> DEFINE o == Head(job[t])
             b == ButtonPress(o.p, o.v, props[o.p])
             w == Write(o.p, o.v)
  <2>1. /\ job[t] # <<>> /\ o.do = "apply" /\ UNCHANGED <<props, left, want, lapsed>>
    BY <1>13 DEF Apply, At
  <2>2. o \in Of(t) /\ o \in Ops /\ o \notin Shields
    <3>1. o \in Of(t) /\ o \in Ops
      BY <1>1, <2>1, CalmHead, JobsHead
    <3>2. o \notin Shields
      <4>1. o.do = "apply"
        BY <2>1
      <4> HIDE DEF o
      <4> QED BY <4>1, Zenon DEF Shields
    <3> HIDE DEF o
    <3> QED BY <3>1, <3>2, Zenon
  <2>3. \/ job' = [job EXCEPT ![t] = Tail(@)]
        \/ /\ job' = [job EXCEPT ![t] = (b \o <<w>>) \o Tail(@)]
           /\ left[ModelOf(o.p)] < 0
    <3> HIDE DEF b, w, o
    <3> QED BY <1>13 DEF Apply, Done, DoneThen, b, w, o, updatesEnabled
  <2>4. CASE job' = [job EXCEPT ![t] = Tail(@)]
    <3> HIDE DEF b, w
    <3> QED BY <1>2, <1>9, <2>1, <2>2, <2>4 DEF HeldInv
  <2>5. CASE /\ job' = [job EXCEPT ![t] = (b \o <<w>>) \o Tail(@)]
             /\ left[ModelOf(o.p)] < 0
    <3>1. Calm(t, Tail(job[t]), n) /\ Sound(t, Tail(job[t]))
      BY <1>1, <2>1, <2>2, CalmTail
    <3> HIDE DEF o
    <3>2. o.p \in Props /\ o.v \in Value(o.p)
      BY <2>1, <2>2, ValueShape
    <3>3. w \in Ops /\ w.do = "write" /\ w.p = o.p
      BY <3>2, Made DEF Write
    <3>4. b \in Seq(Ops) /\ (o.p # "528" => b = <<>>)
      BY NeutralPress DEF ButtonPress, Neutral
    <3> DEFINE s == Tail(job[t])
    <3>5. s \in Seq(Ops)
      BY <1>1, <2>1, JobsHead
    <3> HIDE DEF s, w
    <3>6. w \in Of(t) /\ w \notin Risky(n) /\ w \notin Sleeps
          /\ (w \in DisplayWrites => n < 0)
      BY <2>1, <2>2, <2>5, <3>3 DEF Of, Risky, Sleeps, DisplayWrites
    <3>7. Calm(t, <<w>> \o s, n)
      BY <3>1, <3>6, CalmCons DEF s
    <3>8. o.p = "528" => Sound(t, <<w>> \o s)
      <4>1. o.p = "528" => w \notin DisplayWrites
        BY <3>3 DEF DisplayWrites, ModelOf
      <4> QED BY <3>1, <3>6, <4>1, SoundCons DEF s
    <3>9. Calm(t, b \o (<<w>> \o s), n)
      BY <3>7, <3>8, CalmPress
    <3> HIDE DEF b
    <3>10. (b \o <<w>>) \o s = b \o (<<w>> \o s)
      <4>1. <<w>> \in Seq(Ops)
        BY <3>3
      <4> QED BY <3>4, <3>5, <4>1, ConcatAssociative
    <3>11. job' = [job EXCEPT ![t] = b \o (<<w>> \o s)]
      BY <2>5, <3>10 DEF s
    <3>12. AllCalm'
      BY <1>3, <2>1, <3>9, <3>11
    <3> QED BY <1>2, <2>1, <3>12 DEF HeldInv
  <2> QED BY <2>3, <2>4, <2>5, Zenon
<1>14. ASSUME NEW t \in Tasks, Notify(t)
       PROVE  HeldInv'
  <2> DEFINE o == Head(job[t])
  <2>1. PICK old \in Reads(t, o.p) :
          /\ job[t] # <<>> /\ o.do = "notify"
          /\ job' = [job EXCEPT ![t] = ButtonPress(o.p, o.v, old) \o Tail(@)]
          /\ UNCHANGED <<props, left, want, lapsed>>
    BY <1>14 DEF Notify, At, DoneThen
  <2>2. o \notin Shields
    BY <2>1 DEF Shields
  <2>3. Calm(t, Tail(job[t]), n) /\ Sound(t, Tail(job[t]))
    BY <1>1, <2>1, <2>2, CalmTail
  <2> HIDE DEF o
  <2>4. Calm(t, ButtonPress(o.p, o.v, old) \o Tail(job[t]), n)
    BY <2>3, CalmPress
  <2>5. job' = [job EXCEPT ![t] = ButtonPress(o.p, o.v, old) \o Tail(job[t])]
    BY <2>1
  <2>6. AllCalm'
    BY <1>3, <2>1, <2>4, <2>5
  <2> QED BY <1>2, <2>1, <2>6 DEF HeldInv
<1>15. ASSUME NEW t \in Tasks, Store(t)
       PROVE  HeldInv'
  <2> DEFINE o == Head(job[t])
  <2>1. /\ job[t] # <<>> /\ o.do = "write"
        /\ props' = [props EXCEPT ![o.p] = o.v]
        /\ want' = [f \in Settable |->
                     IF t \in Debuggers /\ f \in Fields(o.p) THEN Unset ELSE want[f]]
        /\ job' = [job EXCEPT ![t] = Tail(@)]
        /\ UNCHANGED <<left, lapsed>>
    BY <1>15 DEF Store, At, Done
  <2>2. /\ o \in Of(t) /\ o \in Ops /\ o \notin Shields
        /\ t = Loop => (o \in DisplayWrites => n < 0)
    BY <1>1, <2>1, CalmHead, JobsHead DEF Shields
  <2>3. AllCalm'
    BY <1>9, <2>1, <2>2
  <2> HIDE DEF o
  <2>4. o.p \in Props /\ t # Tcp
    BY <2>1, <2>2, ValueShape DEF Of
  <2>5. WantInTime'
    BY <2>1 DEF HeldInv, WantInTime
  <2>6. ASSUME NEW p \in Props, NEW f \in Fields(p) \cap Settable, want'[f] # Unset
        PROVE  props'[p][f] = want'[f] \/ f \in lapsed'
    <3>1. want'[f] = want[f] /\ ~(t \in Debuggers /\ f \in Fields(o.p))
      BY <2>1, <2>6
    <3>2. props[p][f] = want[f] \/ f \in lapsed
      BY <2>6, <3>1 DEF HeldInv, UndoneOnlyIfLapsed
    <3>3. CASE p # o.p
      BY <1>1, <2>1, <2>4, <3>1, <3>2, <3>3 DEF Typed
    <3>4. CASE p = o.p
      <4>1. t = Loop
        BY <2>4, <3>1, <3>4 DEF Tasks
      <4>2. ModelOf(o.p) = "display"
        BY <2>4, <2>6, <3>4, FieldsApart, PropsAssumption DEF ModelOf
      <4>3. n < 0
        BY <2>1, <2>2, <4>1, <4>2 DEF DisplayWrites
      <4>4. f \in lapsed
        BY <1>1, <2>6, <3>1, <4>3 DEF HeldInv, WantInTime
      <4> QED BY <2>1, <4>4
    <3> QED BY <3>3, <3>4
  <2> QED BY <2>3, <2>5, <2>6 DEF HeldInv, UndoneOnlyIfLapsed
<1>16. ASSUME Tick
       PROVE  HeldInv'
  <2>1. /\ \A t \in {Loop, Tcp} : job[t] = <<>> \/ Asleep(t)
        /\ left'["display"] = Countdown(n)
        /\ want' \in {Nothing, want}
        /\ lapsed' = IF left'["display"] < 0
                     THEN {f \in Settable : want'[f] # Unset} ELSE lapsed
        /\ job' = IF Asleep(Tcp) THEN [job EXCEPT ![Tcp][1].ms = @ - 1] ELSE job
        /\ props' = props
    BY <1>1, <1>16 DEF Tick
  <2>2. WantInTime' /\ UndoneOnlyIfLapsed'
    <3>1. left'["display"] \in Int
      BY <1>1, <2>1 DEF Countdown
    <3>2. CASE left'["display"] < 0
      BY <2>1, <3>2 DEF WantInTime, UndoneOnlyIfLapsed
    <3>3. CASE left'["display"] >= 0
      <4>1. lapsed' = lapsed /\ props' = props
        BY <2>1, <3>1, <3>3
      <4> QED BY <2>1, <3>3, <4>1 DEF HeldInv, WantInTime, UndoneOnlyIfLapsed, Nothing
    <3> QED BY <3>1, <3>2, <3>3
  <2>3. job[Loop] = <<>>
    <3>1. ASSUME Asleep(Loop)
          PROVE  FALSE
      <4>1. job[Loop] # <<>> /\ Head(job[Loop]).do = "sleep"
        BY <3>1 DEF Asleep, At
      <4>2. Head(job[Loop]) \in Of(Loop)
        BY <1>1, <4>1, CalmHead
      <4> QED BY <4>1, <4>2 DEF Of, Loop, Tcp
    <3> QED BY <2>1, <3>1
  <2>4. \A t \in Tasks \ {Tcp} : Calm(t, job[t], left'["display"])
    <3> SUFFICES ASSUME NEW t \in Tasks \ {Tcp}
                 PROVE  Calm(t, job[t], left'["display"])
      OBVIOUS
    <3>1. CASE t = Loop
      BY <2>3, <3>1, CalmEmpty
    <3>2. CASE t # Loop
      BY <1>1, <3>2 DEF Calm
    <3> QED BY <3>1, <3>2
  <2>5. CASE ~Asleep(Tcp)
    <3>1. job' = job /\ job[Tcp] = <<>>
      BY <2>1, <2>5
    <3>2. AllCalm'
      BY <2>4, <3>1, CalmEmpty DEF AllCalm
    <3> QED BY <2>2, <3>2 DEF HeldInv
  <2>6. CASE Asleep(Tcp)
    <3> DEFINE o == Head(job[Tcp])
               s == Tail(job[Tcp])
               z == Sleep(o.ms - 1)
    <3>1. job[Tcp] # <<>> /\ o.do = "sleep" /\ o.ms > 0 /\ job[Tcp] \in Seq(Ops)
      BY <1>1, <2>6 DEF Asleep, At, JobsOk
    <3>2. /\ [job EXCEPT ![Tcp][1].ms = @ - 1] = [job EXCEPT ![Tcp] = <<z>> \o s]
          /\ o.ms \in Nat /\ z \in Ops
      BY <1>1, <3>1, SleepIs
    <3>3. job' = [job EXCEPT ![Tcp] = <<z>> \o s]
      BY <2>1, <2>6, <3>2
    <3>4. o \in Of(Tcp) /\ o \notin Risky(n) /\ o \notin Shields /\ o \in Ops
      BY <1>1, <3>1, CalmHead, JobsHead DEF Shields
    <3>5. s \in Seq(Of(Tcp)) /\ s \in Seq(Ops) /\ Once(s, Sleeps)
      <4>1. Sound(Tcp, s)
        BY <1>1, <3>1, <3>4, CalmTail
      <4> QED BY <4>1, OfOps, SeqSub DEF Sound
    <3>6. \A i \in 1 .. Len(s) : s[i] \notin Sleeps
      <4>1. job[Tcp] = <<o>> \o s
        BY <3>1, HeadAndTail
      <4>2. Once(job[Tcp], Sleeps) /\ o \in Sleeps
        BY <1>1, <3>1, <3>4 DEF Calm, Sleeps
      <4> HIDE DEF o, s
      <4> QED BY <3>4, <3>5, <4>1, <4>2, OnceCons
    <3>7. z.do = "sleep" /\ z.ms = o.ms - 1
      BY DEF Sleep
    <3> HIDE DEF s, z, o
    <3>8. n > o.ms /\ o.ms <= Propagation /\ left'["display"] = n - 1
      <4>1. n > o.ms
        BY <1>1, <3>1, <3>2, <3>4 DEF Risky
      <4> QED BY <1>1, <2>1, <3>1, <3>2, <3>4, <4>1 DEF Of, Countdown
    <3>9. z \in Of(Tcp) /\ z \notin Risky(n - 1)
      BY <1>1, <3>2, <3>7, <3>8, WindowAssumption DEF Of, Risky
    <3>10. \A i \in 1 .. Len(s) : s[i] \notin Risky(n - 1)
      BY <1>1, <3>1, <3>2, <3>5, <3>6, <3>8 DEF Risky, Sleeps
    <3>11. Calm(Tcp, <<z>> \o s, n - 1)
      <4>1. Guards(s, Shields, Risky(n - 1))
        BY <3>10 DEF Guards
      <4>2. Guards(<<z>> \o s, Shields, Risky(n - 1))
        BY <3>2, <3>5, <3>9, <4>1, GuardsCons
      <4>3. <<z>> \o s \in Seq(Of(Tcp))
        BY <3>5, <3>9, ConsIn
      <4>4. Once(<<z>> \o s, Sleeps)
        BY <3>2, <3>5, <3>6, OnceCons
      <4> QED BY <4>2, <4>3, <4>4 DEF Calm, Loop, Tcp
    <3>12. AllCalm'
      <4>1. job'[Tcp] = <<z>> \o s /\ \A t \in Tasks \ {Tcp} : job'[t] = job[t]
        BY <1>1, <3>3
      <4> QED BY <2>4, <3>8, <3>11, <4>1 DEF AllCalm
    <3> QED BY <2>2, <3>12 DEF HeldInv
  <2> QED BY <2>5, <2>6
<1>17. CASE UNCHANGED vars
  <2>1. AllCalm'
    BY <1>17 DEF vars, HeldInv, AllCalm
  <2> QED BY <1>2, <1>17, <2>1 DEF vars, HeldInv
<1>18. ASSUME NEW t \in Tasks, Step(t)
       PROVE  HeldInv'
  BY <1>18, <1>10, <1>11, <1>12, <1>13, <1>14, <1>15 DEF Step
<1>19. 70 \in Nat /\ {0, 1} \subseteq Nat /\ Brightness \subseteq Nat /\ Powers \subseteq Nat
  BY ArgumentAssumption
<1> HIDE DEF n
<1> QED BY <1>5, <1>6, <1>7, <1>8, <1>16, <1>17, <1>18, <1>19 DEF Next

(* Whatever the display keeps sending, what the user or a button has set   *)
(* in the display's model is undone before the end of the window in one    *)
(* way only: another call of DisableUpdatesFor has asked for less time,    *)
(* and that is over.  For any tasks, calls and windows in the order that   *)
(* the code has.                                                           *)
THEOREM UndoneByLapseOnly == Spec => []UndoneOnlyIfLapsed
<1>1. HeldInv => UndoneOnlyIfLapsed
  BY DEF HeldInv
<1> QED BY <1>1, HeldInit, HeldNext, InvariantInit, InvariantNext, PTL DEF Spec
-----------------------------------------------------------------------------
(* Without /debug no window is cut short.                                  *)
NoDebugging == \A p \in Props : Debug[p] = {}
Quiet == \A d \in Debuggers : job[d] = <<>>
InFull == left["display"] = promised["display"] /\ lapsed = {}
FullInv == Quiet /\ InFull

(* Without /debug, what a step of a task leaves of the jobs.               *)
LEMMA StepQuiet ==
  ASSUME IInv, HeldInv, Quiet, NEW t \in Tasks, Step(t)
  PROVE  /\ t \in {Loop, Tcp} /\ job[t] # <<>> /\ Quiet'
         /\ \A u \in Tasks \ {t} : job'[u] = job[u]
         /\ t = Tcp => job'[t] = Tail(job[t])
<1> DEFINE o == Head(job[t])
<1>1. /\ DOMAIN job = Tasks /\ JobsOk(job, owner)
      /\ Calm(t, job[t], left["display"])
  BY DEF IInv, JobsOk, HeldInv, AllCalm
<1>2. job[t] # <<>>
  BY DEF Step, Acquire, Release, SetWindow, Patch, Apply, Notify, Store, WakeUp, At
<1>3. t \in {Loop, Tcp}
  BY <1>2 DEF Quiet, Tasks
<1>4. o \in Of(t) /\ Tail(job[t]) \in Seq(Ops)
  BY <1>1, <1>2, CalmHead, JobsHead
<1>5. CASE \/ Acquire(t) \/ Release(t) \/ SetWindow(t) \/ Store(t) \/ WakeUp(t)
  <2>1. job' = [job EXCEPT ![t] = Tail(@)]
    BY <1>5 DEF Acquire, Release, SetWindow, Store, WakeUp, Done
  <2> QED BY <1>1, <1>2, <1>3, <2>1, DebuggersAssumption DEF Quiet, Tasks
<1>6. CASE Patch(t)
  <2> DEFINE b == ButtonPress(o.p, Masked(o.p, o.data), Mask(o.p, o.data))
  <2>1. o.do = "patch" /\ job' = [job EXCEPT ![t] = b \o Tail(@)]
    BY <1>6 DEF Patch, At, DoneThen
  <2>2. o.p # "528"
    BY <1>4, <2>1 DEF Of, ModelOf
  <2>3. b = <<>>
    <3> HIDE DEF o
    <3> QED BY <2>2 DEF ButtonPress
  <2> HIDE DEF b
  <2>4. job' = [job EXCEPT ![t] = Tail(job[t])]
    BY <1>4, <2>1, <2>3, ConcatEmptySeq
  <2> QED BY <1>1, <1>2, <1>3, <2>4, DebuggersAssumption DEF Quiet, Tasks
<1>7. CASE Apply(t) \/ Notify(t)
  <2>1. o.do \in {"apply", "notify"}
    BY <1>7 DEF Apply, Notify, At
  <2>5. \A u \in Tasks \ {t} : job'[u] = job[u]
    BY <1>1, <1>7, Zenon DEF Apply, Notify, Done, DoneThen
  <2>2. t # Tcp
    BY <1>4, <2>1 DEF Of
  <2>3. \A d \in Debuggers : d \in Tasks \ {t}
    BY <1>3, DebuggersAssumption DEF Tasks
  <2>4. Quiet'
    BY <1>1, <2>3, <2>5 DEF Quiet
  <2> QED BY <1>2, <1>3, <2>2, <2>4, <2>5
<1> QED BY <1>5, <1>6, <1>7 DEF Step

LEMMA FullNext == NoDebugging /\ IInv /\ HeldInv /\ FullInv /\ [Next]_vars => FullInv'
<1> SUFFICES ASSUME NoDebugging, IInv, HeldInv, FullInv, [Next]_vars
             PROVE  FullInv'
  OBVIOUS
<1>1. /\ DOMAIN job = Tasks /\ JobsOk(job, owner) /\ Typed
      /\ \A t \in Tasks : Calm(t, job[t], left["display"])
      /\ Tcp \in Tasks /\ "display" \in ModelNames
      /\ Debuggers \subseteq Tasks /\ Debuggers \cap {Loop, Tcp} = {}
  BY DebuggersAssumption DEF IInv, JobsOk, HeldInv, AllCalm, Tasks, ModelNames
<1>2. UNCHANGED <<left, promised, lapsed>> => InFull'
  BY DEF FullInv, InFull
<1>3. ASSUME NEW t \in {Loop, Tcp}, NEW a, Start(t, a)
      PROVE  FullInv'
  <2>1. job' = [job EXCEPT ![t] = a] /\ UNCHANGED <<left, promised, lapsed>>
    BY <1>3 DEF Start
  <2>2. Quiet'
    BY <1>1, <2>1 DEF Quiet, FullInv
  <2> QED BY <1>2, <2>1, <2>2 DEF FullInv
<1>4. ASSUME NEW p \in Props, NEW v, Receive(p, v)
      PROVE  FullInv'
  BY <1>3, <1>4 DEF Receive
<1>5. ASSUME NEW l, NEW b, NEW off, UserLight(l, b, off)
      PROVE  FullInv'
  BY <1>3, <1>5 DEF UserLight
<1>6. ASSUME NEW k, UserFridgeState(k) \/ UserFridgePower(k)
      PROVE  FullInv'
  BY <1>3, <1>6 DEF UserFridgeState, UserFridgePower
<1>7. ASSUME NEW t \in Tasks, Step(t)
      PROVE  FullInv'
  <2>1. t \in {Loop, Tcp} /\ job[t] # <<>> /\ Quiet'
    BY <1>1, <1>7, StepQuiet DEF FullInv
  <2>2. CASE SetWindow(t)
    <3> DEFINE o == Head(job[t])
    <3>1. /\ o.do = "disable"
          /\ left' = [left EXCEPT ![o.m] = o.ms]
          /\ promised' = [promised EXCEPT ![o.m] = IF @ < o.ms THEN o.ms ELSE @]
          /\ lapsed' = lapsed
      BY <2>2 DEF SetWindow, At
    <3>2. o \in Of(t)
      BY <1>1, <2>1, CalmHead
    <3> HIDE DEF o
    <3>3. o.m \in ModelNames /\ o.ms \in 0 .. UserWindow
      BY <3>1, <3>2, WindowShape, OfOps
    <3>4. o.m = "display" => o.ms = UserWindow
      BY <2>1, <3>1, <3>2 DEF Of
    <3>5. promised["display"] \in -1 .. UserWindow /\ UserWindow \in Nat
      BY <1>1, WindowAssumption DEF Typed
    <3>6. left'["display"] = promised'["display"]
      BY <1>1, <3>1, <3>3, <3>4, <3>5 DEF FullInv, InFull, Typed
    <3> QED BY <2>1, <3>1, <3>6 DEF FullInv, InFull
  <2>3. CASE Patch(t)
    BY <2>1, <2>3 DEF Patch, FullInv, InFull
  <2>4. CASE ~SetWindow(t) /\ ~Patch(t)
    <3>1. UNCHANGED <<left, promised, lapsed>>
      BY <1>7, <2>4 DEF Step, Acquire, Release, Apply, Notify, Store, WakeUp
    <3> QED BY <1>2, <2>1, <3>1 DEF FullInv
  <2> QED BY <2>2, <2>3, <2>4
<1>8. ASSUME Tick
      PROVE  FullInv'
  <2>1. /\ left'["display"] = Countdown(left["display"])
        /\ promised'["display"] = Countdown(promised["display"])
        /\ want' = IF promised'["display"] < 0 THEN Nothing ELSE want
        /\ lapsed' = IF left'["display"] < 0
                     THEN {f \in Settable : want'[f] # Unset} ELSE lapsed
        /\ job' = IF Asleep(Tcp) THEN [job EXCEPT ![Tcp][1].ms = @ - 1] ELSE job
    BY <1>1, <1>8 DEF Tick
  <2>2. Quiet'
    BY <1>1, <2>1 DEF Quiet, FullInv
  <2>3. left'["display"] = promised'["display"]
    BY <2>1 DEF FullInv, InFull
  <2>4. lapsed' = {}
    BY <2>1, <2>3 DEF FullInv, InFull, Nothing
  <2> QED BY <2>2, <2>3, <2>4 DEF FullInv, InFull
<1>9. CASE UNCHANGED vars
  BY <1>9 DEF vars, FullInv, InFull, Quiet
<1>10. ASSUME NEW p \in Props, NEW v \in Debug[p]
       PROVE  FALSE
  BY <1>10 DEF NoDebugging
<1> QED BY <1>4, <1>5, <1>6, <1>7, <1>8, <1>9, <1>10 DEF Next

LEMMA FullInit == Init => FullInv
<1>1. "display" \in ModelNames /\ Debuggers \subseteq Tasks
  BY DEF ModelNames, Tasks
<1> QED BY <1>1 DEF Init, FullInv, InFull, Quiet

LEMMA HeldInFull == HeldInv /\ FullInv => UserValueHeld
BY DEF HeldInv, FullInv, InFull, UndoneOnlyIfLapsed, UserValueHeld

(* While nobody uses /debug, what the user or a button has set stays until *)
(* the end of the window, also with a second command on the way.           *)
THEOREM UserValueStays == ASSUME NoDebugging PROVE Spec => []UserValueHeld
<1>1. IInv /\ HeldInv /\ FullInv /\ [Next]_vars => FullInv'
  BY FullNext
<1> QED BY <1>1, FullInit, HeldInFull, HeldInit, HeldNext, InvariantInit, InvariantNext, PTL
        DEF Spec
-----------------------------------------------------------------------------
(* The selector that SetLight has set.                                     *)
Selects == {o \in Ops : o.do = "patch" /\ o.p = "526" /\ "sel" \in DOMAIN o.data}
SelectInv == want["sel"] # Unset \/ Guards(job[Tcp], Selects, Sleeps)

LEMMA GuardsAfter ==
  ASSUME NEW m \in ModelNames, NEW o \in Awake, NEW s \in Seq(Ops),
         o \in Selects \/ Guards(s, Selects, Sleeps)
  PROVE  Guards(Guarded(m, o) \o s, Selects, Sleeps)
<1>1. o \in Ops /\ o \notin Sleeps
  BY DEF Awake
<1>2. /\ Lock(m) \in Ops /\ Lock(m) \notin Sleeps
      /\ Unlock(m) \in Ops /\ Unlock(m) \notin Sleeps
  BY Made, LocksOf
<1> DEFINE s1 == <<Unlock(m)>> \o s
           s2 == <<o>> \o s1
<1>3. s1 \in Seq(Ops) /\ (Guards(s, Selects, Sleeps) => Guards(s1, Selects, Sleeps))
  BY <1>2, ConsProperties, GuardsCons
<1> HIDE DEF s1
<1>4. s2 \in Seq(Ops) /\ Guards(s2, Selects, Sleeps)
  BY <1>1, <1>3, ConsProperties, GuardsCons
<1> HIDE DEF s2
<1>5. Guards(<<Lock(m)>> \o s2, Selects, Sleeps)
  BY <1>2, <1>4, GuardsCons
<1> QED BY <1>1, <1>5, GuardedIs DEF s1, s2

LEMMA GuardsSelector ==
  ASSUME "526" \in Props, NEW n \in Nat, NEW s \in Seq(Ops)
  PROVE  Guards(SetSelector(n) \o s, Selects, Sleeps)
<1> DEFINE d == [f \in {"sel"} |-> n]
           o == [do |-> "patch", p |-> "526", data |-> d]
<1>1. d \in Data /\ DOMAIN d = {"sel"}
  BY FieldSet DEF Settable
<1> HIDE DEF d
<1>2. o \in Ops /\ o.do = "patch" /\ o.p = "526" /\ o.data = d
  BY <1>1, Made
<1> HIDE DEF o
<1>3. o \in Selects /\ o \in Awake
  BY <1>1, <1>2 DEF Selects, Awake, Sleeps
<1>4. Guards(Guarded("display", o) \o s, Selects, Sleeps)
  BY <1>3, GuardsAfter, WindowsFit
<1> QED BY <1>4 DEF SetSelector, UpdateMasked, ModelOf, o, d

LEMMA GuardsWindow ==
  ASSUME NEW s \in Seq(Ops), Guards(s, Selects, Sleeps)
  PROVE  Guards(DisableUpdatesFor("display", UserWindow) \o s, Selects, Sleeps)
<1> DEFINE o == [do |-> "disable", m |-> "display", ms |-> UserWindow]
<1>1. o \in Of(Tcp) /\ o \notin Sleeps
  BY WindowOf, WindowsFit
<1> HIDE DEF o
<1>2. o \in Awake
  BY <1>1, OfOps DEF Awake
<1>3. Guards(Guarded("display", o) \o s, Selects, Sleeps)
  BY <1>2, GuardsAfter, WindowsFit
<1> QED BY <1>3 DEF DisableUpdatesFor, o

(* SetLight sets the selector before it sleeps.                            *)
LEMMA GuardsLight ==
  ASSUME "526" \in Props, NEW l \in Lights, NEW b \in Nat, NEW off
  PROVE  Guards(SetLight(l, b, off), Selects, Sleeps)
<1> DEFINE A == DisableUpdatesFor("display", UserWindow)
           B == SetSelector(Selector(l))
           d == [f \in {l} |-> b]
           C == UpdateMasked(SetBrightnessProp(l), d)
           D == IF off THEN <<Sleep(Propagation)>> \o SetSelector(0) ELSE <<>>
<1>1. d \in Data
  BY LightField, FieldSet
<1> HIDE DEF d
<1>2. A \in Seq(Ops) /\ B \in Seq(Ops) /\ C \in Seq(Ops)
  <2>1. C \in Seq(Ops)
    BY <1>1, LightField, NeutralPatch DEF Neutral
  <2> QED BY <2>1, LightField, TypedSelector, TypedDisable, WindowsFit
<1>3. D \in Seq(Ops)
  BY SoundEmpty, SoundSleep, OfOps, SeqSub DEF Sound
<1> HIDE DEF D
<1>4. C \o D \in Seq(Ops) /\ A \o B \in Seq(Ops)
  BY <1>2, <1>3, ConcatProperties
<1> HIDE DEF C
<1>5. B \o (C \o D) \in Seq(Ops) /\ Guards(B \o (C \o D), Selects, Sleeps)
  <2> DEFINE s == C \o D
  <2>1. s \in Seq(Ops)
    BY <1>4
  <2> HIDE DEF s
  <2>2. Guards(B \o s, Selects, Sleeps)
    BY <2>1, LightField, GuardsSelector
  <2>3. B \o s \in Seq(Ops)
    BY <1>2, <2>1, ConcatProperties
  <2> QED BY <2>2, <2>3 DEF s
<1> HIDE DEF B
<1>6. Guards(A \o (B \o (C \o D)), Selects, Sleeps)
  BY <1>5, GuardsWindow
<1> HIDE DEF A
<1>7. ((A \o B) \o C) \o D = A \o (B \o (C \o D))
  <2>1. Regroup(A, B, C, D)
    BY <1>2, <1>3, ConcatFour
  <2> QED BY <2>1 DEF Regroup
<1> QED BY <1>6, <1>7 DEF SetLight, A, B, C, D, d

LEMMA GuardsFridge ==
  ASSUME "531" \in Props, NEW f \in {"on", "power"}, NEW b \in Nat
  PROVE  Guards(SetFridge(f, b), Selects, Sleeps)
<1> DEFINE d == [g \in {f} |-> b]
           o == [do |-> "patch", p |-> "531", data |-> d]
<1>1. d \in Data
  BY FieldSet DEF Settable
<1> HIDE DEF d
<1>2. o \in Ops /\ o.do = "patch"
  BY <1>1, Made
<1> HIDE DEF o
<1>3. o \in Awake
  BY <1>2 DEF Awake, Sleeps
<1>4. Guarded("display", o) \in Seq(Ops)
  BY <1>2, Made, WindowsFit DEF Guarded
<1>5. Guarded("display", o) \o <<>> = Guarded("display", o)
  BY <1>4, ConcatEmptySeq
<1>6. Guards(Guarded("display", o), Selects, Sleeps)
  BY <1>3, <1>5, EmptyParts, GuardsAfter, WindowsFit
<1>7. Guards(DisableUpdatesFor("display", UserWindow) \o Guarded("display", o), Selects, Sleeps)
  BY <1>4, <1>6, GuardsWindow
<1> QED BY <1>7 DEF SetFridge, UpdateMasked, ModelOf, o, d

(* SetLight sleeps once its selector is set.                               *)
LEMMA AsleepWants ==
  ASSUME IInv, SelectInv, Asleep(Tcp)
  PROVE  want["sel"] # Unset
<1> DEFINE o == Head(job[Tcp])
           s == Tail(job[Tcp])
<1>1. job[Tcp] # <<>> /\ o.do = "sleep" /\ Tcp \in Tasks /\ JobsOk(job, owner)
  BY DEF Asleep, At, Tasks, IInv
<1>2. o \in Ops /\ s \in Seq(Ops) /\ job[Tcp] = <<o>> \o s
  BY <1>1, HeadAndTail DEF JobsOk
<1> HIDE DEF o, s
<1>3. o \in Sleeps
  BY <1>1, <1>2 DEF Sleeps
<1>4. ~Guards(job[Tcp], Selects, Sleeps)
  BY <1>2, <1>3, GuardsCons
<1> QED BY <1>4 DEF SelectInv

LEMMA SelectNext ==
  NoDebugging /\ "526" \in Props /\ IInv /\ HeldInv /\ FullInv /\ SelectInv /\ [Next]_vars
    => SelectInv'
<1> SUFFICES ASSUME NoDebugging, "526" \in Props, IInv, HeldInv, FullInv, SelectInv, [Next]_vars
             PROVE  SelectInv'
  OBVIOUS
<1>1. /\ DOMAIN job = Tasks /\ JobsOk(job, owner) /\ Quiet /\ Typed
      /\ \A t \in Tasks : Calm(t, job[t], left["display"])
      /\ Loop \in Tasks /\ Tcp \in Tasks /\ "display" \in ModelNames /\ Loop # Tcp
      /\ promised \in [ModelNames -> -1 .. UserWindow]
      /\ left["display"] = promised["display"]
      /\ Debuggers \subseteq Tasks /\ Debuggers \cap {Loop, Tcp} = {}
  BY DebuggersAssumption
     DEF IInv, JobsOk, Typed, InFull, HeldInv, AllCalm, Tasks, ModelNames, FullInv, Loop, Tcp
<1>2. ASSUME NEW t \in {Loop, Tcp}, NEW a, Start(t, a),
             t = Tcp => Guards(a, Selects, Sleeps)
      PROVE  SelectInv'
  <2>1. job' = [job EXCEPT ![t] = a] /\ want' = want
    BY <1>2 DEF Start
  <2>2. job'[Tcp] = IF t = Tcp THEN a ELSE job[Tcp]
    BY <1>1, <2>1
  <2> QED BY <1>2, <2>1, <2>2 DEF SelectInv
<1>3. ASSUME NEW p \in Props, NEW v, Receive(p, v)
      PROVE  SelectInv'
  BY <1>1, <1>2, <1>3 DEF Receive
<1>4. ASSUME NEW l \in Lights, NEW b \in Nat, NEW off, UserLight(l, b, off)
      PROVE  SelectInv'
  BY <1>1, <1>2, <1>4, GuardsLight DEF UserLight
<1>5. ASSUME NEW k \in Nat, UserFridgeState(k) \/ UserFridgePower(k)
      PROVE  SelectInv'
  BY <1>1, <1>2, <1>5, GuardsFridge DEF UserFridgeState, UserFridgePower
<1>6. ASSUME NEW t \in Tasks, Step(t)
      PROVE  SelectInv'
  <2> DEFINE o == Head(job[t])
  <2>1. /\ t \in {Loop, Tcp} /\ job[t] # <<>>
        /\ \A u \in Tasks \ {t} : job'[u] = job[u]
        /\ t = Tcp => job'[t] = Tail(job[t])
    BY <1>1, <1>6, StepQuiet
  <2>2. o \in Of(t) /\ o \in Ops /\ job[t] = <<o>> \o Tail(job[t]) /\ Tail(job[t]) \in Seq(Ops)
    BY <1>1, <2>1, CalmHead, JobsHead, HeadAndTail DEF JobsOk
  <2>3. /\ want'["sel"] = want["sel"] \/ want'["sel"] # Unset
        /\ o \in Selects => want'["sel"] # Unset
    <3>1. CASE Patch(t)
      <4>1. /\ o.do = "patch"
            /\ want' = [f \in Settable |->
                          IF f \notin DOMAIN o.data THEN want[f]
                          ELSE IF t \in Debuggers THEN Unset ELSE o.data[f]]
        BY <3>1 DEF Patch, At
      <4>2. t \notin Debuggers /\ "sel" \in Settable
        BY <1>1, <2>1 DEF Settable
      <4>3. o.data \in Data
        <5> HIDE DEF o
        <5> QED BY <2>2, <4>1, PatchShape
      <4> HIDE DEF o
      <4>4. \A f \in DOMAIN o.data : o.data[f] \in Nat
        BY <4>3 DEF Data
      <4> QED BY <4>1, <4>2, <4>4 DEF Selects, Unset
    <3>2. CASE ~Patch(t)
      <4>1. o.do # "patch" /\ (want' = want \/ Store(t))
        BY <1>6, <3>2 DEF Step, Acquire, Release, SetWindow, Apply, Notify, Store, WakeUp, At
      <4>2. Store(t) => want'["sel"] = want["sel"]
        BY <1>1, <2>1 DEF Store, Settable
      <4> QED BY <4>1, <4>2 DEF Selects
    <3> QED BY <3>1, <3>2
  <2>4. CASE t = Loop
    <3>1. job'[Tcp] = job[Tcp]
      BY <1>1, <2>1, <2>4
    <3> QED BY <2>1, <2>3, <3>1 DEF SelectInv
  <2>5. CASE t = Tcp /\ o \in Selects
    BY <2>1, <2>3, <2>5 DEF SelectInv
  <2>6. CASE t = Tcp /\ o \notin Selects
    <3> DEFINE s == Tail(job[t])
    <3>1. Guards(job[Tcp], Selects, Sleeps) => Guards(<<o>> \o s, Selects, Sleeps)
      BY <2>2, <2>6
    <3>2. o \in Ops /\ s \in Seq(Ops) /\ job'[Tcp] = s
      BY <2>1, <2>2, <2>6
    <3> HIDE DEF o, s
    <3>3. Guards(job[Tcp], Selects, Sleeps) => Guards(s, Selects, Sleeps)
      BY <2>6, <3>1, <3>2, GuardsCons
    <3> QED BY <2>1, <2>3, <3>2, <3>3 DEF SelectInv
  <2> QED BY <2>1, <2>4, <2>5, <2>6
<1>7. ASSUME Tick
      PROVE  SelectInv'
  <2>1. /\ job[Tcp] = <<>> \/ Asleep(Tcp)
        /\ promised'["display"] = Countdown(left["display"])
        /\ want' = IF promised'["display"] < 0 THEN Nothing ELSE want
        /\ job' = IF Asleep(Tcp) THEN [job EXCEPT ![Tcp][1].ms = @ - 1] ELSE job
    BY <1>1, <1>7 DEF Tick
  <2>3. CASE ~Asleep(Tcp)
    BY <2>1, <2>3, EmptyParts DEF SelectInv
  <2>4. CASE Asleep(Tcp)
    <3> DEFINE o == Head(job[Tcp])
    <3>1. job[Tcp] # <<>> /\ o.do = "sleep" /\ o.ms > 0
      BY <2>4 DEF Asleep, At
    <3>2. o \notin Risky(left["display"]) /\ o \in Ops
      BY <1>1, <3>1, CalmHead, JobsHead
    <3> HIDE DEF o
    <3>3. o.ms \in Nat
      BY <3>1, <3>2, SleepShape
    <3>4. left["display"] > o.ms
      BY <1>1, <3>1, <3>2, <3>3 DEF Risky
    <3>5. want' = want
      BY <1>1, <2>1, <3>1, <3>3, <3>4 DEF Countdown
    <3> QED BY <2>4, <3>5, AsleepWants DEF SelectInv
  <2> QED BY <2>3, <2>4
<1>8. CASE UNCHANGED vars
  BY <1>8 DEF vars, SelectInv
<1>9. ASSUME NEW p \in Props, NEW v \in Debug[p]
      PROVE  FALSE
  BY <1>9 DEF NoDebugging
<1>10. 70 \in Nat /\ {0, 1} \subseteq Nat /\ Brightness \subseteq Nat /\ Powers \subseteq Nat
  BY ArgumentAssumption
<1> QED BY <1>3, <1>4, <1>5, <1>6, <1>7, <1>8, <1>9, <1>10 DEF Next

LEMMA SelectorIsHeld ==
  IInv /\ HeldInv /\ FullInv /\ SelectInv /\ "526" \in Props => SelectorHeld
<1> SUFFICES ASSUME IInv, HeldInv, FullInv, SelectInv, "526" \in Props, Asleep(Tcp)
             PROVE  want["sel"] # Unset /\ props["526"]["sel"] = want["sel"]
  BY DEF SelectorHeld
<1>1. want["sel"] # Unset
  BY AsleepWants
<1>2. "sel" \in Fields("526") \cap Settable
  BY DEF Fields, Settable
<1> QED BY <1>1, <1>2, HeldInFull DEF UserValueHeld

(* While SetLight waits for the selector to reach the car, the display's   *)
(* model shows the selector it has set or the 0 of a button: messages are  *)
(* held off for longer than it waits.  /debug could close that window.     *)
THEOREM SelectorStays ==
  ASSUME NoDebugging, "526" \in Props
  PROVE  Spec => []SelectorHeld
<1>1. Init => SelectInv
  BY EmptyParts DEF Init, SelectInv, Tasks
<1>2. IInv /\ HeldInv /\ FullInv /\ [Next]_vars => FullInv'
  BY FullNext
<1>3. IInv /\ HeldInv /\ FullInv /\ SelectInv /\ [Next]_vars => SelectInv'
  BY SelectNext
<1>4. IInv /\ HeldInv /\ FullInv /\ SelectInv => SelectorHeld
  BY SelectorIsHeld
<1> QED BY <1>1, <1>2, <1>3, <1>4, FullInit, HeldInit, HeldNext, InvariantInit, InvariantNext, PTL
        DEF Spec
-----------------------------------------------------------------------------
(* HandlePropUpdate has seen the present values, or the one under way.     *)
Silent == {o \in Ops : o.do \notin {"apply", "notify", "write"}}
Calls == {o \in Ops : o.do = "notify"}

Some(s, X) == \E i \in 1 .. Len(s) : s[i] \in X

(* The writes of s that HandlePropUpdate has been called for.              *)
Due(s) == {o \in Ops : o.do = "write" /\ Some(s, {o}) /\ ~Some(s, Calls)}

(* Update writes right after its call, and nobody has two values to write. *)
Follows(o, s) ==
  /\ o.do = "notify" => s = Guarded(ModelOf(o.p), Write(o.p, o.v))
  /\ o.do \in {"apply", "write"} => s \in Seq(Silent)

Prepared(s) == \A k \in 1 .. Len(s) : Follows(s[k], Rest(s, k))

(* One task at most has yet to write p, the value that was seen last; if   *)
(* there is none, that value has been written.                             *)
Agrees(p) ==
  /\ \A t \in Tasks : \A o \in Due(job[t]) : o.p = p => o.v = told[p]
  /\ \A t, u \in Tasks : \A o \in Due(job[t]), w \in Due(job[u]) :
       o.p = p /\ w.p = p => t = u
  /\ told[p] = props[p] \/ \E t \in Tasks : \E o \in Due(job[t]) : o.p = p

NotifyInv ==
  /\ \A t \in Tasks : Prepared(job[t])
  /\ \A p \in Props \ missed : Agrees(p)

LEMMA SomeConcat ==
  ASSUME NEW a \in Seq(Ops), NEW s \in Seq(Ops), NEW X
  PROVE  Some(a \o s, X) <=> Some(a, X) \/ Some(s, X)
<1> DEFINE q == a \o s
<1>1. /\ Len(a) \in Nat /\ Len(s) \in Nat /\ Len(q) = Len(a) + Len(s)
      /\ \A i \in 1 .. Len(q) : q[i] = IF i <= Len(a) THEN a[i] ELSE s[i - Len(a)]
  BY ConcatProperties
<1> HIDE DEF q
<1>2. ASSUME NEW i \in 1 .. Len(q), q[i] \in X
      PROVE  Some(a, X) \/ Some(s, X)
  <2>1. CASE i <= Len(a)
    <3>1. i \in 1 .. Len(a) /\ q[i] = a[i]
      BY <1>1, <2>1
    <3> QED BY <1>2, <3>1 DEF Some
  <2>2. CASE ~(i <= Len(a))
    <3>1. i - Len(a) \in 1 .. Len(s) /\ q[i] = s[i - Len(a)]
      BY <1>1, <2>2
    <3> QED BY <1>2, <3>1 DEF Some
  <2> QED BY <2>1, <2>2
<1>3. ASSUME NEW i \in 1 .. Len(a), a[i] \in X
      PROVE  Some(q, X)
  <2>1. i \in 1 .. Len(q) /\ q[i] = a[i]
    BY <1>1
  <2> QED BY <1>3, <2>1 DEF Some
<1>4. ASSUME NEW i \in 1 .. Len(s), s[i] \in X
      PROVE  Some(q, X)
  <2>1. i + Len(a) \in 1 .. Len(q) /\ ~(i + Len(a) <= Len(a)) /\ (i + Len(a)) - Len(a) = i
    BY <1>1
  <2>2. q[i + Len(a)] = s[i]
    BY <1>1, <2>1
  <2> QED BY <1>4, <2>1, <2>2 DEF Some
<1> QED BY <1>2, <1>3, <1>4 DEF Some, q

LEMMA SomeNone ==
  ASSUME NEW A, NEW s \in Seq(A), NEW X, A \cap X = {}
  PROVE  ~Some(s, X)
<1>1. \A i \in 1 .. Len(s) : s[i] \in A
  OBVIOUS
<1> QED BY <1>1 DEF Some

LEMMA SomeOne == ASSUME NEW o, NEW X PROVE Some(<<o>>, X) <=> o \in X
<1>1. Len(<<o>>) = 1 /\ <<o>>[1] = o /\ 1 .. 1 = {1}
  OBVIOUS
<1> QED BY <1>1 DEF Some

(* What is done before and calls or writes nothing.                        *)
LEMMA DueSilent ==
  ASSUME NEW a \in Seq(Silent), NEW s \in Seq(Ops)
  PROVE  a \in Seq(Ops) /\ a \o s \in Seq(Ops) /\ Due(a \o s) = Due(s)
<1>1. a \in Seq(Ops)
  BY SeqSub DEF Silent
<1>2. ~Some(a, Calls) /\ \A o \in Ops : o.do = "write" => ~Some(a, {o})
  <2>1. Silent \cap Calls = {} /\ \A o \in Ops : o.do = "write" => Silent \cap {o} = {}
    BY DEF Silent, Calls
  <2> QED BY <2>1, SomeNone
<1>3. \A X : Some(a \o s, X) <=> Some(a, X) \/ Some(s, X)
  BY <1>1, SomeConcat
<1> QED BY <1>1, <1>2, <1>3, ConcatProperties DEF Due

LEMMA DueNone ==
  ASSUME NEW s \in Seq({o \in Ops : o.do # "write"})
  PROVE  Due(s) = {}
<1>1. \A o \in Ops : o.do = "write" => ~Some(s, {o})
  BY SomeNone
<1> QED BY <1>1 DEF Due

LEMMA DueCons ==
  ASSUME NEW o \in Ops, NEW s \in Seq(Ops)
  PROVE  /\ o \in Silent => Due(<<o>> \o s) = Due(s)
         /\ o.do = "notify" => Due(<<o>> \o s) = {}
         /\ o.do = "apply" /\ s \in Seq(Silent) => Due(<<o>> \o s) = {} /\ Due(s) = {}
         /\ o.do = "write" /\ s \in Seq(Silent) => Due(<<o>> \o s) = {o} /\ Due(s) = {}
<1>1. <<o>> \in Seq(Ops) /\ \A X : Some(<<o>>, X) <=> o \in X
  BY SomeOne
<1>2. \A X : Some(<<o>> \o s, X) <=> o \in X \/ Some(s, X)
  BY <1>1, SomeConcat
<1>3. ASSUME o \in Silent
      PROVE  Due(<<o>> \o s) = Due(s)
  <2>1. <<o>> \in Seq(Silent)
    BY <1>3
  <2> QED BY <2>1, DueSilent
<1>4. o.do = "notify" => Due(<<o>> \o s) = {}
  BY <1>2 DEF Due, Calls
<1>5. ASSUME s \in Seq(Silent)
      PROVE  /\ ~Some(s, Calls) /\ Due(s) = {}
             /\ \A w \in Ops : w.do = "write" => ~Some(s, {w})
  <2>1. Silent \cap Calls = {} /\ \A w \in Ops : w.do = "write" => Silent \cap {w} = {}
    BY DEF Silent, Calls
  <2>2. ~Some(s, Calls) /\ \A w \in Ops : w.do = "write" => ~Some(s, {w})
    BY <1>5, <2>1, SomeNone
  <2> QED BY <2>2 DEF Due
<1>6. o.do = "apply" /\ s \in Seq(Silent) => Due(<<o>> \o s) = {}
  BY <1>2, <1>5 DEF Due
<1>7. o.do = "write" /\ s \in Seq(Silent) => Due(<<o>> \o s) = {o}
  BY <1>2, <1>5 DEF Due, Calls
<1> QED BY <1>3, <1>4, <1>5, <1>6, <1>7

LEMMA PreparedEmpty == Prepared(<<>>) /\ Due(<<>>) = {}
<1>1. Prepared(<<>>)
  BY Len(<<>>) = 0 DEF Prepared
<1> QED BY <1>1, EmptyParts, DueNone

LEMMA PreparedCons ==
  ASSUME NEW o \in Ops, NEW s \in Seq(Ops)
  PROVE  Prepared(<<o>> \o s) <=> Follows(o, s) /\ Prepared(s)
<1> DEFINE q == <<o>> \o s
<1>1. /\ q \in Seq(Ops) /\ Len(q) = Len(s) + 1 /\ Len(s) \in Nat /\ q[1] = o
      /\ \A i \in 1 .. Len(s) : q[i + 1] = s[i]
  BY ConsProperties
<1>2. \A k \in 0 .. Len(s) : Rest(q, k + 1) = IF k = 0 THEN s ELSE Rest(s, k)
  BY RestCons
<1> HIDE DEF q
<1>3. ASSUME Prepared(q)
      PROVE  Follows(o, s) /\ Prepared(s)
  <2>1. Follows(o, s)
    <3>1. 1 \in 1 .. Len(q) /\ 0 \in 0 .. Len(s) /\ 0 + 1 = 1
      BY <1>1
    <3>2. Follows(q[1], Rest(q, 1))
      BY <1>3, <3>1 DEF Prepared
    <3> QED BY <1>1, <1>2, <3>1, <3>2
  <2>2. ASSUME NEW k \in 1 .. Len(s)
        PROVE  Follows(s[k], Rest(s, k))
    <3>1. k + 1 \in 1 .. Len(q) /\ k \in 0 .. Len(s) /\ k # 0
      BY <1>1
    <3>2. Follows(q[k + 1], Rest(q, k + 1))
      BY <1>3, <3>1 DEF Prepared
    <3> QED BY <1>1, <1>2, <3>1, <3>2
  <2> QED BY <2>1, <2>2 DEF Prepared
<1>4. ASSUME Follows(o, s), Prepared(s)
      PROVE  Prepared(q)
  <2> SUFFICES ASSUME NEW k \in 1 .. Len(q)
               PROVE  Follows(q[k], Rest(q, k))
    BY DEF Prepared
  <2>1. k - 1 \in 0 .. Len(s) /\ (k - 1) + 1 = k
    BY <1>1
  <2>2. Rest(q, k) = IF k - 1 = 0 THEN s ELSE Rest(s, k - 1)
    BY <1>2, <2>1
  <2>3. CASE k = 1
    BY <1>1, <1>4, <2>2, <2>3
  <2>4. CASE k # 1
    <3>1. k - 1 \in 1 .. Len(s) /\ k - 1 # 0
      BY <2>1, <2>4
    <3>2. Follows(s[k - 1], Rest(s, k - 1))
      BY <1>4, <3>1 DEF Prepared
    <3> QED BY <1>1, <2>1, <2>2, <3>1, <3>2
  <2> QED BY <2>3, <2>4
<1> QED BY <1>3, <1>4 DEF q

LEMMA RestProperties ==
  ASSUME NEW s \in Seq(Ops), NEW f \in Nat, 1 <= f, f <= Len(s) + 1
  PROVE  /\ SubSeq(s, f, Len(s)) \in Seq(Ops)
         /\ Len(SubSeq(s, f, Len(s))) = Len(s) - f + 1
         /\ \A i \in 1 .. Len(s) - f + 1 : SubSeq(s, f, Len(s))[i] = s[f + i - 1]
<1>1. Len(s) \in Nat /\ \A i \in f .. Len(s) : s[i] \in Ops
  OBVIOUS
<1> QED BY <1>1, SubSeqProperties

LEMMA RestConcat ==
  ASSUME NEW a \in Seq(Ops), NEW s \in Seq(Ops), NEW k \in 1 .. Len(s)
  PROVE  Rest(a \o s, Len(a) + k) = Rest(s, k)
<1> DEFINE q == a \o s
           n == Len(a)
           b == SubSeq(q, n + k + 1, n + Len(s))
           c == SubSeq(s, k + 1, Len(s))
<1>1. /\ n \in Nat /\ Len(s) \in Nat /\ q \in Seq(Ops) /\ Len(q) = n + Len(s)
      /\ \A i \in 1 .. Len(q) : q[i] = IF i <= n THEN a[i] ELSE s[i - n]
  BY ConcatProperties
<1> HIDE DEF q, n
<1>2. /\ Len(b) = Len(s) - k /\ b \in Seq(Ops)
      /\ \A i \in 1 .. Len(s) - k : b[i] = q[n + k + i]
  <2> DEFINE f == n + k + 1
             l == n + Len(s)
  <2>1. f \in 1 .. l + 1 /\ l \in Nat /\ l = Len(q) /\ l - f + 1 = Len(s) - k
    BY <1>1
  <2>2. \A i \in 1 .. Len(s) - k : f + i - 1 = n + k + i
    BY <1>1
  <2> HIDE DEF f, l
  <2>3. /\ SubSeq(q, f, l) \in Seq(Ops) /\ Len(SubSeq(q, f, l)) = l - f + 1
        /\ \A i \in 1 .. l - f + 1 : SubSeq(q, f, l)[i] = q[f + i - 1]
    <3>1. f \in Nat /\ 1 <= f /\ f <= Len(q) + 1
      BY <2>1
    <3> QED BY <1>1, <2>1, <3>1, RestProperties
  <2> QED BY <2>1, <2>2, <2>3 DEF f, l
<1>3. /\ Len(c) = Len(s) - k /\ c \in Seq(Ops)
      /\ \A i \in 1 .. Len(s) - k : c[i] = s[k + i]
  <2> DEFINE f == k + 1
             l == Len(s)
  <2>1. f \in 1 .. l + 1 /\ l \in Nat /\ l - f + 1 = Len(s) - k
    BY <1>1
  <2>2. \A i \in 1 .. Len(s) - k : f + i - 1 = k + i
    BY <1>1
  <2> HIDE DEF f
  <2>3. /\ SubSeq(s, f, l) \in Seq(Ops) /\ Len(SubSeq(s, f, l)) = l - f + 1
        /\ \A i \in 1 .. l - f + 1 : SubSeq(s, f, l)[i] = s[f + i - 1]
    <3>1. f \in Nat /\ 1 <= f /\ f <= Len(s) + 1
      BY <2>1
    <3> QED BY <3>1, RestProperties
  <2> QED BY <2>1, <2>2, <2>3, Zenon DEF f
<1> HIDE DEF b, c
<1>4. \A i \in 1 .. Len(s) - k : q[n + k + i] = s[k + i]
  <2> SUFFICES ASSUME NEW i \in 1 .. Len(s) - k
               PROVE  q[n + k + i] = s[k + i]
    OBVIOUS
  <2>1. n + k + i \in 1 .. Len(q) /\ ~(n + k + i <= n) /\ (n + k + i) - n = k + i
    BY <1>1
  <2> QED BY <1>1, <2>1
<1>5. b = c
  <2>1. Len(b) = Len(c)
    BY <1>2, <1>3
  <2>2. \A i \in 1 .. Len(b) : b[i] = c[i]
    BY <1>2, <1>3, <1>4
  <2>3. b \in Seq(Ops) /\ c \in Seq(Ops)
    BY <1>2, <1>3
  <2> QED BY <2>1, <2>2, <2>3, SeqEqual, Zenon
<1>6. Rest(q, n + k) = b /\ Rest(s, k) = c
  BY <1>1 DEF Rest, b, c
<1> QED BY <1>5, <1>6 DEF q, n

LEMMA PreparedSilent ==
  ASSUME NEW a \in Seq(Silent), NEW s \in Seq(Ops), Prepared(s)
  PROVE  Prepared(a \o s)
<1> DEFINE q == a \o s
<1>1. a \in Seq(Ops)
  BY SeqSub DEF Silent
<1>2. /\ Len(a) \in Nat /\ Len(s) \in Nat /\ Len(q) = Len(a) + Len(s)
      /\ \A i \in 1 .. Len(q) : q[i] = IF i <= Len(a) THEN a[i] ELSE s[i - Len(a)]
  BY <1>1, ConcatProperties
<1>3. \A k \in 1 .. Len(s) : Rest(q, Len(a) + k) = Rest(s, k)
  BY <1>1, RestConcat
<1>4. \A i \in 1 .. Len(a) : a[i] \in Silent
  OBVIOUS
<1> HIDE DEF q
<1> SUFFICES ASSUME NEW i \in 1 .. Len(q)
             PROVE  Follows(q[i], Rest(q, i))
  BY DEF Prepared, q
<1>5. CASE i <= Len(a)
  <2>1. q[i] \in Silent
    BY <1>2, <1>4, <1>5
  <2> QED BY <2>1 DEF Silent, Follows
<1>6. CASE ~(i <= Len(a))
  <2>1. i - Len(a) \in 1 .. Len(s) /\ Len(a) + (i - Len(a)) = i /\ q[i] = s[i - Len(a)]
    BY <1>2, <1>6
  <2>2. Follows(s[i - Len(a)], Rest(s, i - Len(a)))
    BY <2>1 DEF Prepared
  <2>3. Rest(q, i) = Rest(s, i - Len(a))
    <3> DEFINE k == i - Len(a)
    <3>1. k \in 1 .. Len(s) /\ Len(a) + k = i
      BY <2>1
    <3> HIDE DEF k
    <3>2. Rest(q, i) = Rest(s, k)
      BY <1>3, <3>1
    <3> QED BY <3>2 DEF k
  <2> QED BY <2>1, <2>2, <2>3
<1> QED BY <1>5, <1>6

LEMMA SilentJob ==
  ASSUME NEW s \in Seq(Silent)
  PROVE  s \in Seq(Ops) /\ Prepared(s) /\ Due(s) = {}
<1>1. s \in Seq(Ops) /\ <<>> \in Seq(Ops) /\ s \o <<>> = s
  BY SeqSub, ConcatEmptySeq DEF Silent
<1>2. Prepared(s \o <<>>) /\ Due(s \o <<>>) = Due(<<>>)
  BY <1>1, PreparedEmpty, PreparedSilent, DueSilent
<1> QED BY <1>1, <1>2, PreparedEmpty
-----------------------------------------------------------------------------
(* What the functions of the code consist of.                              *)
LEMMA SilentGuarded ==
  ASSUME NEW m \in ModelNames, NEW o \in Silent
  PROVE  Guarded(m, o) \in Seq(Silent)
<1>1. Lock(m) \in Ops /\ Lock(m).do = "lock" /\ Unlock(m) \in Ops /\ Unlock(m).do = "unlock"
  BY Made DEF Lock, Unlock
<1> HIDE DEF Lock, Unlock
<1>2. Lock(m) \in Silent /\ Unlock(m) \in Silent
  BY <1>1 DEF Silent
<1> QED BY <1>2 DEF Guarded

LEMMA SilentDisable ==
  ASSUME NEW m \in ModelNames, NEW ms \in 0 .. UserWindow
  PROVE  DisableUpdatesFor(m, ms) \in Seq(Silent)
<1> DEFINE o == [do |-> "disable", m |-> m, ms |-> ms]
<1>1. o \in Ops /\ o.do = "disable"
  BY Made
<1> HIDE DEF o
<1>2. o \in Silent
  BY <1>1 DEF Silent
<1> QED BY <1>2, SilentGuarded DEF DisableUpdatesFor, o

LEMMA SilentPatch ==
  ASSUME NEW p, NEW f \in Settable, NEW n \in Nat
  PROVE  UpdateMasked(p, [g \in {f} |-> n]) \in Seq(Silent)
<1> DEFINE d == [g \in {f} |-> n]
           o == [do |-> "patch", p |-> p, data |-> d]
<1>1. d \in Data
  BY FieldSet
<1> HIDE DEF d
<1>2. CASE p \in Props
  <2>1. o \in Ops /\ o.do = "patch"
    BY <1>1, <1>2, Made
  <2> HIDE DEF o
  <2>2. o \in Silent
    BY <2>1 DEF Silent
  <2>3. Guarded(ModelOf(p), o) \in Seq(Silent)
    BY <2>2, SilentGuarded, ModelNamesOnly
  <2> QED BY <1>2, <2>3 DEF UpdateMasked, o, d
<1>3. CASE p \notin Props
  BY <1>3, EmptyParts DEF UpdateMasked
<1> QED BY <1>2, <1>3

LEMMA SilentSelector == ASSUME NEW n \in Nat PROVE SetSelector(n) \in Seq(Silent)
<1>1. "sel" \in Settable
  BY DEF Settable
<1> QED BY <1>1, SilentPatch DEF SetSelector

LEMMA SilentUserWindow == DisableUpdatesFor("display", UserWindow) \in Seq(Silent)
BY SilentDisable, WindowAssumption DEF ModelNames

LEMMA SilentPress == \A p, new, old : ButtonPress(p, new, old) \in Seq(Silent)
<1>1. DisableUpdatesFor("display", UserWindow) \o SetSelector(0) \in Seq(Silent)
  BY SilentUserWindow, SilentSelector, ConcatProperties
<1> QED BY <1>1, EmptyParts DEF ButtonPress

LEMMA SilentLight ==
  ASSUME NEW l \in Lights, NEW b \in Nat, NEW off
  PROVE  SetLight(l, b, off) \in Seq(Silent)
<1> DEFINE A == DisableUpdatesFor("display", UserWindow)
           B == SetSelector(Selector(l))
           C == UpdateMasked(SetBrightnessProp(l), [f \in {l} |-> b])
           D == IF off THEN <<Sleep(Propagation)>> \o SetSelector(0) ELSE <<>>
<1>1. A \in Seq(Silent)
  BY SilentUserWindow
<1>2. B \in Seq(Silent) /\ C \in Seq(Silent)
  BY LightField, SilentSelector, SilentPatch
<1>3. D \in Seq(Silent)
  <2> DEFINE o == Sleep(Propagation)
  <2>1. o \in Ops /\ o.do = "sleep"
    BY Made, WindowAssumption DEF Sleep
  <2> HIDE DEF o
  <2>2. o \in Silent
    BY <2>1 DEF Silent
  <2>3. <<o>> \o SetSelector(0) \in Seq(Silent)
    BY <2>2, SilentSelector, ConsIn
  <2> QED BY <2>3, EmptyParts DEF o
<1> HIDE DEF A, B, C, D
<1>4. A \o B \in Seq(Silent)
  BY <1>1, <1>2, ConcatProperties
<1>5. (A \o B) \o C \in Seq(Silent)
  BY <1>2, <1>4, ConcatProperties
<1>6. ((A \o B) \o C) \o D \in Seq(Silent)
  BY <1>3, <1>5, ConcatProperties
<1> QED BY <1>6 DEF SetLight, A, B, C, D

LEMMA SilentFridge ==
  ASSUME NEW f \in {"on", "power"}, NEW n \in Nat
  PROVE  SetFridge(f, n) \in Seq(Silent)
<1>1. UpdateMasked("531", [g \in {f} |-> n]) \in Seq(Silent)
  BY SilentPatch DEF Settable
<1> QED BY <1>1, SilentUserWindow, ConcatProperties DEF SetFridge

LEMMA GuardedThen ==
  ASSUME NEW m \in ModelNames, NEW o \in Ops
  PROVE  /\ Guarded(m, o) \in Seq(Ops)
         /\ Guarded(m, o) = <<Lock(m)>> \o (<<o>> \o <<Unlock(m)>>)
         /\ <<Lock(m)>> \in Seq(Silent) /\ <<Unlock(m)>> \in Seq(Silent)
         /\ <<o>> \o <<Unlock(m)>> \in Seq(Ops)
<1>1. Lock(m) \in Ops /\ Lock(m).do = "lock" /\ Unlock(m) \in Ops /\ Unlock(m).do = "unlock"
  BY Made DEF Lock, Unlock
<1> HIDE DEF Lock, Unlock
<1>2. <<Lock(m)>> \in Seq(Silent) /\ <<Unlock(m)>> \in Seq(Silent)
  BY <1>1 DEF Silent
<1>3. Guarded(m, o) \in Seq(Ops) /\ Guarded(m, o) = <<Lock(m)>> \o (<<o>> \o <<Unlock(m)>>)
  BY <1>1 DEF Guarded
<1>4. <<Unlock(m)>> \in Seq(Ops)
  BY <1>1
<1>5. <<o>> \o <<Unlock(m)>> \in Seq(Ops)
  BY <1>4, ConsProperties
<1> QED BY <1>2, <1>3, <1>5

(* One operation under its lock.                                           *)
LEMMA GuardedJob ==
  ASSUME NEW m \in ModelNames, NEW o \in Ops, o.do \in {"apply", "write"}
  PROVE  /\ Guarded(m, o) \in Seq(Ops) /\ Prepared(Guarded(m, o))
         /\ Due(Guarded(m, o)) = IF o.do = "write" THEN {o} ELSE {}
<1> DEFINE u == <<Unlock(m)>>
           l == <<Lock(m)>>
<1>1. /\ Guarded(m, o) \in Seq(Ops) /\ Guarded(m, o) = l \o (<<o>> \o u)
      /\ l \in Seq(Silent) /\ u \in Seq(Silent) /\ <<o>> \o u \in Seq(Ops)
  BY GuardedThen
<1> HIDE DEF u, l
<1>2. u \in Seq(Ops) /\ Prepared(u)
  BY <1>1, SilentJob
<1>3. Prepared(<<o>> \o u)
  <2>1. Follows(o, u)
    BY <1>1 DEF Follows
  <2> QED BY <1>2, <2>1, PreparedCons
<1>4. Due(<<o>> \o u) = IF o.do = "write" THEN {o} ELSE {}
  BY <1>1, <1>2, DueCons
<1>5. Prepared(l \o (<<o>> \o u)) /\ Due(l \o (<<o>> \o u)) = Due(<<o>> \o u)
  BY <1>1, <1>3, PreparedSilent, DueSilent
<1> QED BY <1>1, <1>4, <1>5

LEMMA MessageJob ==
  ASSUME NEW p \in Props, NEW v \in Value(p)
  PROVE  /\ UpdateState(p, v) \in Seq(Ops) /\ Prepared(UpdateState(p, v))
         /\ Due(UpdateState(p, v)) = {}
<1> DEFINE o == [do |-> "apply", p |-> p, v |-> v]
<1>1. o \in Ops /\ o.do = "apply"
  BY Made
<1> HIDE DEF o
<1>2. /\ Guarded(ModelOf(p), o) \in Seq(Ops) /\ Prepared(Guarded(ModelOf(p), o))
      /\ Due(Guarded(ModelOf(p), o)) = {}
  BY <1>1, GuardedJob, ModelNamesOnly
<1> QED BY <1>2 DEF UpdateState, o

LEMMA DebugJob ==
  ASSUME NEW m \in ModelNames, NEW p \in Props, NEW v \in Value(p)
  PROVE  /\ DebugSet(m, p, v) \in Seq(Ops) /\ Prepared(DebugSet(m, p, v))
         /\ Due(DebugSet(m, p, v)) = {}
<1> DEFINE o == [do |-> "notify", p |-> p, v |-> v]
           w == Write(p, v)
           g == Guarded(ModelOf(p), w)
           d == DisableUpdatesFor(m, DebugWindow)
           X == IF ModelOf(p) = m THEN Update(p, v) ELSE <<>>
<1>1. /\ o \in Ops /\ o.do = "notify" /\ o.p = p /\ o.v = v
      /\ w \in Ops /\ w.do = "write"
  BY Made DEF Write
<1>2. d \in Seq(Silent)
  BY SilentDisable, WindowAssumption
<1>3. Update(p, v) = <<o>> \o g /\ g = Guarded(ModelOf(o.p), Write(o.p, o.v))
  BY <1>1 DEF Update
<1> HIDE DEF o, w, d
<1>4. g \in Seq(Ops) /\ Prepared(g)
  BY <1>1, GuardedJob, ModelNamesOnly
<1>5. Follows(o, g)
  BY <1>1, <1>3 DEF Follows
<1> HIDE DEF g
<1>6. /\ <<o>> \o g \in Seq(Ops) /\ Prepared(<<o>> \o g)
      /\ Due(<<o>> \o g) = {}
  BY <1>1, <1>4, <1>5, ConsProperties, PreparedCons, DueCons
<1>7. X \in Seq(Ops) /\ Prepared(X) /\ Due(X) = {}
  BY <1>3, <1>6, EmptyParts, PreparedEmpty
<1> HIDE DEF X
<1>8. d \o X \in Seq(Ops) /\ Prepared(d \o X) /\ Due(d \o X) = {}
  BY <1>2, <1>7, DueSilent, PreparedSilent
<1> QED BY <1>8 DEF DebugSet, d, X

(* The task at the head of whose operations is o.                          *)
LEMMA PreparedHead ==
  ASSUME NEW s \in Seq(Ops), s # <<>>, Prepared(s)
  PROVE  /\ Head(s) \in Ops /\ Tail(s) \in Seq(Ops) /\ Prepared(Tail(s))
         /\ Follows(Head(s), Tail(s))
         /\ Head(s) \in Silent => Due(s) = Due(Tail(s))
         /\ Head(s).do = "notify" => Due(s) = {}
         /\ Head(s).do = "apply" => Due(s) = {} /\ Due(Tail(s)) = {}
         /\ Head(s).do = "write" => Due(s) = {Head(s)} /\ Due(Tail(s)) = {}
<1> DEFINE o == Head(s)
           q == Tail(s)
<1>1. o \in Ops /\ q \in Seq(Ops) /\ s = <<o>> \o q
  BY HeadAndTail
<1> HIDE DEF o, q
<1>2. Follows(o, q) /\ Prepared(q)
  BY <1>1, PreparedCons
<1>3. o.do \in {"apply", "write"} => q \in Seq(Silent)
  BY <1>2 DEF Follows
<1>4. /\ o \in Silent => Due(s) = Due(q)
      /\ o.do = "notify" => Due(s) = {}
      /\ o.do = "apply" => Due(s) = {} /\ Due(q) = {}
      /\ o.do = "write" => Due(s) = {o} /\ Due(q) = {}
  BY <1>1, <1>3, DueCons
<1> QED BY <1>1, <1>2, <1>4 DEF o, q
-----------------------------------------------------------------------------
LEMMA AnnouncedDue ==
  ASSUME IInv, NEW t \in Tasks, NEW p
  PROVE  Announced(t, p) <=> \E o \in Due(job[t]) : o.p = p
<1> DEFINE s == job[t]
<1>1. s \in Seq(Ops)
  BY DEF IInv, JobsOk
<1>2. DOMAIN s = 1 .. Len(s) /\ \A i \in 1 .. Len(s) : s[i] \in Ops
  BY <1>1
<1>3. Announced(t, p) <=> /\ \E i \in DOMAIN s : s[i].do = "write" /\ s[i].p = p
                          /\ \A i \in DOMAIN s : s[i].do # "notify"
  BY DEF Announced
<1> HIDE DEF s
<1>4. Some(s, Calls) <=> \E i \in 1 .. Len(s) : s[i].do = "notify"
  BY <1>2 DEF Some, Calls
<1>5. (\E o \in Ops : o.do = "write" /\ Some(s, {o}) /\ o.p = p)
         <=> \E i \in 1 .. Len(s) : s[i].do = "write" /\ s[i].p = p
  BY <1>2 DEF Some
<1> QED BY <1>2, <1>3, <1>4, <1>5 DEF Due, s

(* A call of HandlePropUpdate that nobody's write comes after, and that    *)
(* sees its change, leaves told at the new value.                          *)
LEMMA CallSeen ==
  ASSUME IInv, NotifyInv, NEW p \in Props, NEW new, NEW old,
         told' = Told(p, new, old), missed' = Missed(p, new, old)
  PROVE  /\ p \notin missed' =>
              /\ told'[p] = new
              /\ \A t \in Tasks : \A o \in Due(job[t]) : o.p # p
         /\ \A q \in Props \ {p} :
              told'[q] = told[q] /\ (q \notin missed' => q \notin missed)
<1>1. DOMAIN told = Props
  BY DEF IInv, Typed
<1>2. \A q \in Props \ {p} : told'[q] = told[q] /\ (q \notin missed' => q \notin missed)
  BY <1>1 DEF Told, Missed
<1>3. ASSUME p \notin missed'
      PROVE  /\ told'[p] = new
             /\ \A t \in Tasks : \A o \in Due(job[t]) : o.p # p
  <2>1. \A t \in Tasks : ~Announced(t, p)
    BY <1>3 DEF Missed
  <2>2. \A t \in Tasks : \A o \in Due(job[t]) : o.p # p
    BY <2>1, AnnouncedDue
  <2>3. CASE new = old
    <3>1. new = props[p] /\ p \notin missed
      BY <1>3, <2>1, <2>3 DEF Missed
    <3>2. told[p] = props[p]
      BY <2>2, <3>1 DEF NotifyInv, Agrees
    <3> QED BY <2>2, <2>3, <3>1, <3>2 DEF Told
  <2>4. CASE new # old
    BY <1>1, <2>2, <2>4 DEF Told
  <2> QED BY <2>3, <2>4
<1> QED BY <1>2, <1>3

(* A step that leaves the writes that are due.                             *)
LEMMA SameDue ==
  ASSUME NotifyInv,
         \A t \in Tasks : Prepared(job'[t]) /\ Due(job'[t]) = Due(job[t]),
         \A p \in Props : p \notin missed' =>
           \/ p \notin missed /\ told'[p] = told[p] /\ props'[p] = props[p]
           \/ /\ told'[p] = props'[p]
              /\ \A t \in Tasks : \A o \in Due(job[t]) : o.p # p
  PROVE  NotifyInv'
<1>1. ASSUME NEW p \in Props \ missed'
      PROVE  Agrees(p)'
  <2>1. CASE p \notin missed /\ told'[p] = told[p] /\ props'[p] = props[p]
    <3>1. Agrees(p)
      BY <2>1 DEF NotifyInv
    <3> QED BY <2>1, <3>1 DEF Agrees
  <2>2. CASE /\ told'[p] = props'[p]
             /\ \A t \in Tasks : \A o \in Due(job[t]) : o.p # p
    BY <2>2 DEF Agrees
  <2> QED BY <1>1, <2>1, <2>2
<1> QED BY <1>1 DEF NotifyInv

(* A step of task t after which it has w to write.                         *)
LEMMA NewDue ==
  ASSUME IInv, NotifyInv, NEW t \in Tasks, NEW w \in Ops, w.do = "write",
         NEW q, Prepared(q), Due(q) = {w}, job' = [job EXCEPT ![t] = q],
         Due(job[t]) = {}, props' = props, w.p \in Props, NEW old,
         told' = Told(w.p, w.v, old), missed' = Missed(w.p, w.v, old)
  PROVE  NotifyInv'
<1>1. /\ \A u \in Tasks \ {t} : job'[u] = job[u]
      /\ job'[t] = q
  BY DEF IInv, JobsOk
<1>2. \A u \in Tasks : Prepared(job'[u])
  BY <1>1 DEF NotifyInv
<1>3. /\ w.p \notin missed' =>
           /\ told'[w.p] = w.v
           /\ \A u \in Tasks : \A o \in Due(job[u]) : o.p # w.p
      /\ \A p \in Props \ {w.p} : told'[p] = told[p] /\ (p \notin missed' => p \notin missed)
  BY CallSeen
<1>4. \A u \in Tasks : \A o \in Due(job'[u]) : o \in Due(job[u]) \/ (u = t /\ o = w)
  BY <1>1
<1>5. ASSUME NEW p \in Props \ missed', p = w.p
      PROVE  Agrees(p)'
  <2>1. \A u \in Tasks : \A o \in Due(job'[u]) : o.p = p => u = t /\ o = w
    BY <1>3, <1>4, <1>5
  <2>2. w \in Due(job'[t])
    BY <1>1
  <2> QED BY <1>3, <1>5, <2>1, <2>2 DEF Agrees
<1>6. ASSUME NEW p \in Props \ missed', p # w.p
      PROVE  Agrees(p)'
  <2>1. \A u \in Tasks : \A o \in Due(job'[u]) : o.p = p => o \in Due(job[u])
    BY <1>4, <1>6
  <2>2. \A u \in Tasks : \A o \in Due(job[u]) : o \in Due(job'[u])
    BY <1>1
  <2>3. Agrees(p) /\ told'[p] = told[p] /\ props'[p] = props[p]
    BY <1>3, <1>6 DEF NotifyInv
  <2> QED BY <2>1, <2>2, <2>3 DEF Agrees
<1> QED BY <1>2, <1>5, <1>6 DEF NotifyInv

(* Task t stores what it had to write.                                     *)
LEMMA StoreDue ==
  ASSUME IInv, NotifyInv, NEW t \in Tasks, NEW o \in Ops, o.p \in Props,
         NEW s, Prepared(s), Due(s) = {}, job' = [job EXCEPT ![t] = s],
         Due(job[t]) = {o}, props' = [props EXCEPT ![o.p] = o.v],
         told' = told, missed' = missed
  PROVE  NotifyInv'
<1>1. /\ \A u \in Tasks \ {t} : job'[u] = job[u]
      /\ job'[t] = s /\ DOMAIN props = Props
  BY DEF IInv, JobsOk, Typed
<1>2. \A u \in Tasks : Prepared(job'[u])
  BY <1>1 DEF NotifyInv
<1>3. \A u \in Tasks : \A w \in Due(job'[u]) : u # t /\ w \in Due(job[u])
  BY <1>1
<1>4. ASSUME NEW p \in Props \ missed
      PROVE  Agrees(p)'
  <2>1. Agrees(p)
    BY DEF NotifyInv
  <2>2. CASE p = o.p
    <3>1. told[p] = o.v /\ \A u \in Tasks : \A w \in Due(job[u]) : w.p = p => u = t
      BY <2>1, <2>2 DEF Agrees
    <3>2. \A u \in Tasks : \A w \in Due(job'[u]) : w.p # p
      BY <1>3, <3>1
    <3>3. told'[p] = props'[p]
      BY <1>1, <2>2, <3>1
    <3> QED BY <3>2, <3>3 DEF Agrees
  <2>3. CASE p # o.p
    <3>1. \A u \in Tasks : \A w \in Due(job[u]) : w.p = p => w \in Due(job'[u])
      BY <1>1, <2>3
    <3>2. told'[p] = told[p] /\ props'[p] = props[p]
      BY <1>1, <2>3
    <3> QED BY <1>3, <2>1, <3>1, <3>2 DEF Agrees
  <2> QED BY <2>2, <2>3
<1> QED BY <1>2, <1>4 DEF NotifyInv

LEMMA NotifyStep ==
  ASSUME IInv, NotifyInv, NEW t \in Tasks, Step(t)
  PROVE  NotifyInv'
<1> DEFINE o == Head(job[t])
           s == Tail(job[t])
<1>1. /\ DOMAIN job = Tasks /\ DOMAIN props = Props
      /\ job[t] \in Seq(Ops) /\ Prepared(job[t]) /\ job[t] # <<>>
  BY DEF IInv, JobsOk, Typed, NotifyInv, Step, Acquire, Release, SetWindow, Patch, Apply,
         Notify, Store, WakeUp, At
<1>2. /\ o \in Ops /\ s \in Seq(Ops) /\ Prepared(s) /\ Follows(o, s)
      /\ o \in Silent => Due(job[t]) = Due(s)
      /\ o.do = "notify" => Due(job[t]) = {}
      /\ o.do = "apply" => Due(job[t]) = {} /\ Due(s) = {}
      /\ o.do = "write" => Due(job[t]) = {o} /\ Due(s) = {}
  BY <1>1, PreparedHead
<1>3. ASSUME NEW q, Prepared(q), Due(q) = Due(job[t]), job' = [job EXCEPT ![t] = q]
      PROVE  \A u \in Tasks : Prepared(job'[u]) /\ Due(job'[u]) = Due(job[u])
  BY <1>1, <1>3 DEF NotifyInv
<1>4. CASE Acquire(t) \/ Release(t) \/ SetWindow(t) \/ WakeUp(t)
  <2>1. /\ o.do \in {"lock", "unlock", "disable", "sleep"}
        /\ UNCHANGED <<props, told, missed>> /\ job' = [job EXCEPT ![t] = Tail(@)]
    BY <1>4 DEF Acquire, Release, SetWindow, WakeUp, At, Done
  <2>2. job' = [job EXCEPT ![t] = s]
    BY <2>1
  <2> HIDE DEF o, s
  <2>3. o \in Silent
    BY <1>2, <2>1 DEF Silent
  <2>4. \A u \in Tasks : Prepared(job'[u]) /\ Due(job'[u]) = Due(job[u])
    BY <1>2, <1>3, <2>2, <2>3
  <2> QED BY <2>1, <2>4, SameDue
<1>5. CASE Patch(t)
  <2> DEFINE new == Masked(o.p, o.data)
             old == Mask(o.p, o.data)
             b == ButtonPress(o.p, new, old)
  <2>1. /\ o.do = "patch" /\ props' = [props EXCEPT ![o.p] = new]
        /\ told' = Told(o.p, new, old) /\ missed' = Missed(o.p, new, old)
        /\ job' = [job EXCEPT ![t] = b \o Tail(@)]
    BY <1>5 DEF Patch, At, DoneThen
  <2>2. job' = [job EXCEPT ![t] = b \o s]
    BY <2>1
  <2> HIDE DEF o, s
  <2>3. o \in Silent /\ o.p \in Props
    BY <1>2, <2>1, PatchShape DEF Silent
  <2> HIDE DEF new, old
  <2>4. b \in Seq(Silent)
    BY SilentPress
  <2> HIDE DEF b
  <2>5. Prepared(b \o s) /\ Due(b \o s) = Due(job[t])
    BY <1>2, <2>3, <2>4, PreparedSilent, DueSilent
  <2>6. \A u \in Tasks : Prepared(job'[u]) /\ Due(job'[u]) = Due(job[u])
    BY <1>3, <2>2, <2>5
  <2>7. /\ o.p \notin missed' =>
             /\ told'[o.p] = new
             /\ \A u \in Tasks : \A w \in Due(job[u]) : w.p # o.p
        /\ \A p \in Props \ {o.p} : told'[p] = told[p] /\ (p \notin missed' => p \notin missed)
    BY <2>1, <2>3, CallSeen
  <2>8. props'[o.p] = new /\ \A p \in Props \ {o.p} : props'[p] = props[p]
    BY <1>1, <2>1, <2>3
  <2>9. \A p \in Props : p \notin missed' =>
          \/ p \notin missed /\ told'[p] = told[p] /\ props'[p] = props[p]
          \/ /\ told'[p] = props'[p]
             /\ \A u \in Tasks : \A w \in Due(job[u]) : w.p # p
    BY <2>7, <2>8
  <2> QED BY <2>6, <2>9, SameDue
<1>6. CASE Apply(t)
  <2> DEFINE b == ButtonPress(o.p, o.v, props[o.p])
             w == Write(o.p, o.v)
  <2>1. o.do = "apply" /\ props' = props
    BY <1>6 DEF Apply, At
  <2>2. \/ job' = [job EXCEPT ![t] = Tail(@)] /\ UNCHANGED <<told, missed>>
        \/ /\ job' = [job EXCEPT ![t] = (b \o <<w>>) \o Tail(@)]
           /\ told' = Told(o.p, o.v, props[o.p]) /\ missed' = Missed(o.p, o.v, props[o.p])
    <3> HIDE DEF b, w, o
    <3> QED BY <1>6 DEF Apply, Done, DoneThen, b, w, o
  <2>3. CASE job' = [job EXCEPT ![t] = Tail(@)] /\ UNCHANGED <<told, missed>>
    <3>1. job' = [job EXCEPT ![t] = s]
      BY <2>3
    <3> HIDE DEF o, s
    <3>2. \A u \in Tasks : Prepared(job'[u]) /\ Due(job'[u]) = Due(job[u])
      BY <1>2, <1>3, <2>1, <3>1
    <3> QED BY <2>1, <2>3, <3>2, SameDue
  <2>4. CASE /\ job' = [job EXCEPT ![t] = (b \o <<w>>) \o Tail(@)]
             /\ told' = Told(o.p, o.v, props[o.p]) /\ missed' = Missed(o.p, o.v, props[o.p])
    <3>1. job' = [job EXCEPT ![t] = (b \o <<w>>) \o s]
      BY <2>4
    <3> HIDE DEF o, s
    <3>2. o.p \in Props /\ o.v \in Value(o.p)
      BY <1>2, <2>1, ValueShape
    <3>3. w \in Ops /\ w.do = "write" /\ w.p = o.p /\ w.v = o.v
      BY <3>2, Made DEF Write
    <3>4. b \in Seq(Silent) /\ b \in Seq(Ops) /\ <<w>> \in Seq(Ops)
      BY <3>3, SilentPress, SilentJob
    <3>5. s \in Seq(Silent)
      BY <1>2, <2>1 DEF Follows
    <3> HIDE DEF b, w
    <3>6. <<w>> \o s \in Seq(Ops) /\ Prepared(<<w>> \o s) /\ Due(<<w>> \o s) = {w}
      <4>1. Follows(w, s)
        BY <3>3, <3>5 DEF Follows
      <4> QED BY <1>2, <3>3, <3>5, <4>1, ConsProperties, PreparedCons, DueCons
    <3>7. (b \o <<w>>) \o s = b \o (<<w>> \o s)
      <4>1. Associate(b, <<w>>, s)
        BY <1>2, <3>4, OpsAssociate
      <4> QED BY <4>1 DEF Associate
    <3>8. Prepared((b \o <<w>>) \o s) /\ Due((b \o <<w>>) \o s) = {w}
      BY <3>4, <3>6, <3>7, PreparedSilent, DueSilent
    <3> DEFINE q == (b \o <<w>>) \o s
               old == props[o.p]
    <3>9. /\ Prepared(q) /\ Due(q) = {w} /\ job' = [job EXCEPT ![t] = q]
          /\ told' = Told(w.p, w.v, old) /\ missed' = Missed(w.p, w.v, old)
          /\ w.p \in Props /\ Due(job[t]) = {} /\ props' = props
      BY <1>2, <2>1, <2>4, <3>1, <3>2, <3>3, <3>8
    <3> HIDE DEF q, old
    <3> QED BY <3>3, <3>9, NewDue
  <2> QED BY <2>2, <2>3, <2>4, Zenon
<1>7. CASE Notify(t)
  <2>1. o.do = "notify" /\ props' = props
    BY <1>7 DEF Notify, At
  <2>2. PICK old : /\ told' = Told(o.p, o.v, old) /\ missed' = Missed(o.p, o.v, old)
                   /\ job' = [job EXCEPT ![t] = ButtonPress(o.p, o.v, old) \o Tail(@)]
    <3> HIDE DEF o
    <3> QED BY <1>7 DEF Notify, DoneThen, o
  <2> DEFINE b == ButtonPress(o.p, o.v, old)
             w == Write(o.p, o.v)
             q == b \o s
  <2>3. job' = [job EXCEPT ![t] = q]
    BY <2>2
  <2> HIDE DEF o, s
  <2>4. o.p \in Props /\ o.v \in Value(o.p)
    BY <1>2, <2>1, ValueShape
  <2>5. w \in Ops /\ w.do = "write" /\ w.p = o.p /\ w.v = o.v
    BY <2>4, Made DEF Write
  <2>6. s = Guarded(ModelOf(o.p), w)
    BY <1>2, <2>1 DEF Follows
  <2>7. b \in Seq(Silent)
    BY SilentPress
  <2> HIDE DEF b, w
  <2>8. Due(s) = {w}
    BY <2>5, <2>6, GuardedJob, ModelNamesOnly
  <2>9. Prepared(q) /\ Due(q) = {w}
    BY <1>2, <2>7, <2>8, PreparedSilent, DueSilent
  <2> HIDE DEF q
  <2>10. /\ told' = Told(w.p, w.v, old) /\ missed' = Missed(w.p, w.v, old)
         /\ w.p \in Props /\ Due(job[t]) = {}
    BY <1>2, <2>1, <2>2, <2>4, <2>5
  <2> QED BY <2>1, <2>3, <2>5, <2>9, <2>10, NewDue
<1>8. CASE Store(t)
  <2>1. /\ o.do = "write" /\ props' = [props EXCEPT ![o.p] = o.v]
        /\ told' = told /\ missed' = missed /\ job' = [job EXCEPT ![t] = Tail(@)]
    BY <1>8 DEF Store, At, Done
  <2>2. job' = [job EXCEPT ![t] = s]
    BY <2>1
  <2> HIDE DEF o, s
  <2>3. o.p \in Props
    BY <1>2, <2>1, ValueShape
  <2> QED BY <1>2, <2>1, <2>2, <2>3, StoreDue
<1> QED BY <1>4, <1>5, <1>6, <1>7, <1>8 DEF Step

LEMMA NotifyNext == IInv /\ NotifyInv /\ [Next]_vars => NotifyInv'
<1> SUFFICES ASSUME IInv, NotifyInv, [Next]_vars
             PROVE  NotifyInv'
  OBVIOUS
<1>1. DOMAIN job = Tasks /\ Loop \in Tasks /\ Tcp \in Tasks /\ Debuggers \subseteq Tasks
  BY DEF IInv, JobsOk, Tasks
<1>2. ASSUME NEW t \in Tasks, NEW a, Start(t, a), Prepared(a), Due(a) = {}
      PROVE  NotifyInv'
  <2>1. job' = [job EXCEPT ![t] = a] /\ job[t] = <<>> /\ UNCHANGED <<props, told, missed>>
    BY <1>2 DEF Start
  <2>2. \A u \in Tasks : Prepared(job'[u]) /\ Due(job'[u]) = Due(job[u])
    BY <1>1, <1>2, <2>1, PreparedEmpty DEF NotifyInv
  <2> QED BY <2>1, <2>2, SameDue
<1>3. ASSUME NEW p \in Props, NEW v \in Bus[p], Receive(p, v)
      PROVE  NotifyInv'
  <2>1. v \in Value(p)
    BY ValueAssumption DEF Value
  <2> QED BY <1>1, <1>2, <1>3, <2>1, MessageJob DEF Receive
<1>4. ASSUME NEW l \in Lights, NEW b \in Nat, NEW off, UserLight(l, b, off)
      PROVE  NotifyInv'
  <2>1. Prepared(SetLight(l, b, off)) /\ Due(SetLight(l, b, off)) = {}
    BY SilentLight, SilentJob
  <2> QED BY <1>1, <1>2, <1>4, <2>1 DEF UserLight
<1>5. ASSUME NEW k \in Nat, UserFridgeState(k) \/ UserFridgePower(k)
      PROVE  NotifyInv'
  <2>1. \A f \in {"on", "power"} : Prepared(SetFridge(f, k)) /\ Due(SetFridge(f, k)) = {}
    BY SilentFridge, SilentJob
  <2> QED BY <1>1, <1>2, <1>5, <2>1 DEF UserFridgeState, UserFridgePower
<1>6. ASSUME NEW p \in Props, NEW v \in Debug[p], UserDebug(p, v)
      PROVE  NotifyInv'
  <2>1. v \in Value(p)
    BY ValueAssumption DEF Value
  <2> DEFINE x == DebugSet("display", p, v)
             y == DebugSet("car", p, v)
  <2>2. PICK d, c \in Debuggers :
          /\ d # c /\ job[d] = <<>> /\ job[c] = <<>>
          /\ job' = [job EXCEPT ![d] = x, ![c] = y]
          /\ UNCHANGED <<props, told, missed>>
    BY <1>6 DEF UserDebug
  <2>3. Prepared(x) /\ Due(x) = {} /\ Prepared(y) /\ Due(y) = {}
    BY <2>1, DebugJob DEF ModelNames
  <2> HIDE DEF x, y
  <2>4. job'[d] = x /\ job'[c] = y /\ \A u \in Tasks \ {d, c} : job'[u] = job[u]
    BY <1>1, <2>2
  <2>5. \A u \in Tasks : Prepared(job'[u]) /\ Due(job'[u]) = Due(job[u])
    BY <2>2, <2>3, <2>4, PreparedEmpty DEF NotifyInv
  <2> QED BY <2>2, <2>5, SameDue
<1>7. ASSUME Tick
      PROVE  NotifyInv'
  <2>1. /\ UNCHANGED <<props, told, missed>>
        /\ job' = IF Asleep(Tcp) THEN [job EXCEPT ![Tcp][1].ms = @ - 1] ELSE job
    BY <1>7 DEF Tick
  <2>2. CASE ~Asleep(Tcp)
    BY <1>1, <2>1, <2>2, SameDue DEF NotifyInv
  <2>3. CASE Asleep(Tcp)
    <3> DEFINE o == Head(job[Tcp])
               s == Tail(job[Tcp])
               z == Sleep(o.ms - 1)
    <3>1. job[Tcp] # <<>> /\ o.do = "sleep" /\ o.ms > 0 /\ job[Tcp] \in Seq(Ops)
      BY <1>1, <2>3 DEF Asleep, At, IInv, JobsOk
    <3>2. /\ [job EXCEPT ![Tcp][1].ms = @ - 1] = [job EXCEPT ![Tcp] = <<z>> \o s]
          /\ o.ms \in Nat /\ z \in Ops
      BY <1>1, <3>1, SleepIs
    <3>3. z.do = "sleep"
      BY DEF Sleep
    <3>4. s \in Seq(Ops) /\ Prepared(s) /\ Due(job[Tcp]) = Due(s)
      <4>1. job[Tcp] \in Seq(Ops) /\ Prepared(job[Tcp])
        BY <1>1 DEF IInv, JobsOk, NotifyInv
      <4>2. Head(job[Tcp]) \in Silent
        BY <3>1, <4>1, HeadAndTail DEF Silent
      <4> QED BY <3>1, <4>1, <4>2, PreparedHead
    <3> HIDE DEF z, s
    <3>5. z \in Silent
      BY <3>2, <3>3 DEF Silent
    <3>6. Prepared(<<z>> \o s) /\ Due(<<z>> \o s) = Due(job[Tcp])
      <4>1. Follows(z, s)
        BY <3>3 DEF Follows
      <4> QED BY <3>2, <3>4, <3>5, <4>1, PreparedCons, DueCons
    <3> DEFINE q == <<z>> \o s
    <3>7. Prepared(q) /\ Due(q) = Due(job[Tcp]) /\ job' = [job EXCEPT ![Tcp] = q]
      BY <2>1, <2>3, <3>2, <3>6
    <3> HIDE DEF q
    <3>8. \A u \in Tasks : Prepared(job'[u]) /\ Due(job'[u]) = Due(job[u])
      BY <1>1, <3>7 DEF NotifyInv
    <3> QED BY <2>1, <3>8, SameDue
  <2> QED BY <2>2, <2>3
<1>8. CASE UNCHANGED vars
  BY <1>8, SameDue DEF vars, NotifyInv
<1>9. 70 \in Nat /\ Brightness \subseteq Nat /\ {0, 1} \subseteq Nat /\ Powers \subseteq Nat
  BY ArgumentAssumption
<1> QED BY <1>3, <1>4, <1>5, <1>6, <1>7, <1>8, <1>9, NotifyStep DEF Next

LEMMA NotifyInit == Init => NotifyInv
BY PreparedEmpty DEF Init, NotifyInv, Agrees

LEMMA NotifiedInv == IInv /\ NotifyInv => NotifiedUnlessMissed
<1> SUFFICES ASSUME IInv, NotifyInv, NEW p \in Props, told[p] # props[p], p \notin missed
             PROVE  WriteUnderWay(p)
  BY DEF NotifiedUnlessMissed
<1>1. PICK t \in Tasks : \E o \in Due(job[t]) : o.p = p
  BY DEF NotifyInv, Agrees
<1>2. Announced(t, p)
  BY <1>1, AnnouncedDue
<1> QED BY <1>2 DEF Announced, WriteUnderWay

(* Once no write is under way, HandlePropUpdate has seen the value that is *)
(* there, though it is called before the write and /debug calls it before  *)
(* it has the lock: unless the old value it was given was the new one by   *)
(* mistake, or two tasks had called it for the same property before they   *)
(* wrote it.  Any values, tasks and windows.                               *)
THEOREM NotifiedAlways == Spec => []NotifiedUnlessMissed
BY NotifyInit, NotifyNext, NotifiedInv, InvariantInit, InvariantNext, PTL DEF Spec
=============================================================================

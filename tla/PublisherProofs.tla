--------------------------- MODULE PublisherProofs ---------------------------
(***************************************************************************)
(* Theorems about Publisher, for any values the car sends, any number of   *)
(* tasks and any length of the outbox.                                     *)
(***************************************************************************)
EXTENDS Publisher, TLAPS

(* The loop of getBits, for the three bits of the fridge's power.          *)
LEMMA PowerBits ==
  ASSUME NEW v, v[1] \in Byte
  PROVE  getBits(2, 3, v) = 4 * getBit(2, v) + 2 * getBit(3, v) + getBit(4, v)
<1> DEFINE b(i) == getBit(2 + i - 1, v)
           g == [i \in 0 .. 3 |-> IF i = 0 THEN 0
                                  ELSE IF i = 1 THEN b(1)
                                  ELSE IF i = 2 THEN 2 * b(1) + b(2)
                                  ELSE 4 * b(1) + 2 * b(2) + b(3)]
           R == CHOOSE f : f = [i \in 0 .. 3 |-> IF i = 0 THEN 0 ELSE 2 * f[i - 1] + b(i)]
<1>0. b(1) \in 0 .. 1 /\ b(2) \in 0 .. 1 /\ b(3) \in 0 .. 1
  BY DEF getBit, Byte
<1>1. g = [i \in 0 .. 3 |-> IF i = 0 THEN 0 ELSE 2 * g[i - 1] + b(i)]
  <2> HIDE DEF b
  <2> QED BY <1>0
<1>2. R = [i \in 0 .. 3 |-> IF i = 0 THEN 0 ELSE 2 * R[i - 1] + b(i)]
  <2> HIDE DEF b, g
  <2> QED BY <1>1
<1>3. R[3] = 4 * b(1) + 2 * b(2) + b(3)
  <2> HIDE DEF b, R
  <2> QED BY <1>0, <1>2
<1>4. getBits(2, 3, v) = R[3]
  BY DEF getBits
<1>5. b(1) = getBit(2, v) /\ b(2) = getBit(3, v) /\ b(3) = getBit(4, v)
  OBVIOUS
<1> QED BY <1>3, <1>4, <1>5

LEMMA Bytes ==
  ASSUME NEW p \in Props, NEW v \in Value(p)
  PROVE  /\ v[1] \in 0 .. 255 /\ v[2] \in 0 .. 255 /\ v[3] \in 0 .. 255
         /\ p = "527" => v[6] \in 0 .. 255
<1>1. CASE p = "528"
  BY <1>1 DEF Value, Size, Byte
<1>2. CASE p = "527"
  BY <1>2 DEF Value, Size, Byte
<1>3. CASE p = "532"
  BY <1>3 DEF Value, Size, Byte
<1> QED BY <1>1, <1>2, <1>3 DEF Props

(* What HandlePropUpdate takes from a value are the bits that the layout   *)
(* of the CAN messages gives the topic.                                    *)
LEMMA StatusShown ==
  ASSUME NEW l \in Lights, topic = <<l, "status">>, value \in Value("528")
  PROVE  Content(topic, value) = Shown
<1>1. value[1] \in 0 .. 255 /\ value[2] \in 0 .. 255
  BY Bytes DEF Props
<1>2. Content(topic, value) = getBit(state_bit(l), value)
  BY DEF Content, FridgeState, FridgePower, Lights
<1>3. Contents(topic) = 0 .. 1
  BY DEF Contents, FridgePower, Lights
<1>4. CASE l = "outside_kitchen"
  <2>1. Shown = Slice(value, 0, 0)
    BY <1>4 DEF Shown, Status, Brightness, FridgeState, FridgePower
  <2> QED BY <1>1, <1>2, <1>3, <1>4, <2>1 DEF Slice, getBit, state_bit
<1>5. CASE l = "tailgate"
  <2>1. Shown = Slice(value, 1, 1)
    BY <1>5 DEF Shown, Status, Brightness, FridgeState, FridgePower
  <2> QED BY <1>1, <1>2, <1>3, <1>5, <2>1 DEF Slice, getBit, state_bit
<1>6. CASE l = "inside_kitchen"
  <2>1. Shown = Slice(value, 5, 5)
    BY <1>6 DEF Shown, Status, Brightness, FridgeState, FridgePower
  <2> QED BY <1>1, <1>2, <1>3, <1>6, <2>1 DEF Slice, getBit, state_bit
<1>7. CASE l = "door"
  <2>1. Shown = Slice(value, 8, 8)
    BY <1>7 DEF Shown, Status, Brightness, FridgeState, FridgePower
  <2> QED BY <1>1, <1>2, <1>3, <1>7, <2>1 DEF Slice, getBit, state_bit
<1> QED BY <1>4, <1>5, <1>6, <1>7 DEF Lights

LEMMA BrightnessShown ==
  ASSUME NEW l \in Lights, topic = <<l, "brightness">>,
         value \in Value(brightness_prop(l))
  PROVE  Content(topic, value) = Shown
<1>1. Content(topic, value) = getBrightnessByte(brightness_byte(l), value)
  BY DEF Content, FridgeState, FridgePower, Lights
<1>2. Contents(topic) = 0 .. 127
  BY DEF Contents, Lights
<1>3. CASE l = "outside_kitchen"
  <2>1. value[2] \in 0 .. 255
    BY <1>3, Bytes DEF brightness_prop, Props
  <2>2. Shown = Slice(value, 9, 15)
    BY <1>3 DEF Shown, Status, Brightness, FridgeState, FridgePower
  <2> QED BY <1>1, <1>2, <1>3, <2>1, <2>2
          DEF Slice, getBrightnessByte, getByte, brightness_byte
<1>4. CASE l = "inside_kitchen"
  <2>1. value[2] \in 0 .. 255
    BY <1>4, Bytes DEF brightness_prop, Props
  <2>2. Shown = Slice(value, 9, 15)
    BY <1>4 DEF Shown, Status, Brightness, FridgeState, FridgePower
  <2> QED BY <1>1, <1>2, <1>4, <2>1, <2>2
          DEF Slice, getBrightnessByte, getByte, brightness_byte
<1>5. CASE l = "door"
  <2>1. value[3] \in 0 .. 255
    BY <1>5, Bytes DEF brightness_prop, Props
  <2>2. Shown = Slice(value, 17, 23)
    BY <1>5 DEF Shown, Status, Brightness, FridgeState, FridgePower
  <2> QED BY <1>1, <1>2, <1>5, <2>1, <2>2
          DEF Slice, getBrightnessByte, getByte, brightness_byte
<1>6. CASE l = "tailgate"
  <2>1. value[6] \in 0 .. 255
    BY <1>6, Bytes DEF brightness_prop, Props
  <2>2. Shown = Slice(value, 41, 47)
    BY <1>6 DEF Shown, Status, Brightness, FridgeState, FridgePower
  <2> QED BY <1>1, <1>2, <1>6, <2>1, <2>2
          DEF Slice, getBrightnessByte, getByte, brightness_byte
<1> QED BY <1>3, <1>4, <1>5, <1>6 DEF Lights

LEMMA LastBit ==
  ASSUME NEW b \in 0 .. 255
  PROVE  (b % 2 ^ 1) \div 2 ^ 0 = (b \div 2 ^ 0) % 2
<1>1. 2 ^ 1 = 2 /\ 2 ^ 0 = 1
  OBVIOUS
<1>2. (b % 2) \div 1 = (b \div 1) % 2
  OBVIOUS
<1> QED BY <1>1, <1>2

LEMMA MiddleBits ==
  ASSUME NEW b \in 0 .. 255
  PROVE  (b % 2 ^ 6) \div 2 ^ 3
           = 4 * ((b \div 2 ^ 5) % 2) + 2 * ((b \div 2 ^ 4) % 2) + ((b \div 2 ^ 3) % 2)
<1>1. 2 ^ 6 = 64 /\ 2 ^ 5 = 32 /\ 2 ^ 4 = 16 /\ 2 ^ 3 = 8
  OBVIOUS
<1> DEFINE q == b \div 8
<1>2. q \in 0 .. 31
  OBVIOUS
<1>3. (b % 64) \div 8 = q % 8
  OBVIOUS
<1>4. b \div 32 = q \div 4 /\ b \div 16 = q \div 2
  OBVIOUS
<1>5. q % 8 = 4 * ((q \div 4) % 2) + 2 * ((q \div 2) % 2) + (q % 2)
  <2> HIDE DEF q
  <2>1. PICK x \in 0 .. 3, y \in 0 .. 7 : q = 8 * x + y
    BY <1>2
  <2>2. q % 8 = y /\ (q \div 4) % 2 = y \div 4 /\ (q \div 2) % 2 = (y \div 2) % 2
        /\ q % 2 = y % 2
    BY <2>1
  <2>3. y = 4 * (y \div 4) + 2 * ((y \div 2) % 2) + (y % 2)
    BY <2>1
  <2> QED BY <2>2, <2>3
<1> QED BY <1>1, <1>3, <1>4, <1>5

LEMMA FridgeShown ==
  ASSUME topic \in {FridgeState, FridgePower}, value \in Value("532")
  PROVE  Content(topic, value) = Shown
<1>1. value[1] \in 0 .. 255
  BY Bytes DEF Props
<1>2. CASE topic = FridgeState
  <2>1. Shown = Slice(value, 7, 7)
    BY <1>2 DEF Shown, Status, Brightness, FridgeState, FridgePower
  <2>2. Content(topic, value) = getBit(7, value) /\ Contents(topic) = 0 .. 1
    BY <1>2 DEF Content, Contents, FridgeState, FridgePower
  <2>3. Slice(value, 7, 7) = (value[1] % 2 ^ 1) \div 2 ^ 0
    BY DEF Slice
  <2>4. getBit(7, value) = (value[1] \div 2 ^ 0) % 2
    BY DEF getBit
  <2>5. getBit(7, value) \in 0 .. 1
    BY <1>1, <2>4
  <2>6. Slice(value, 7, 7) = getBit(7, value)
    BY <1>1, <2>3, <2>4, LastBit
  <2> QED BY <2>1, <2>2, <2>5, <2>6
<1>3. CASE topic = FridgePower
  <2>1. Shown = Slice(value, 2, 4)
    BY <1>3 DEF Shown, Status, Brightness, FridgeState, FridgePower
  <2>2. Content(topic, value) = getBits(2, 3, value) /\ Contents(topic) = 0 .. 7
    BY <1>3 DEF Content, Contents, FridgeState, FridgePower
  <2>3. Content(topic, value)
          = 4 * getBit(2, value) + 2 * getBit(3, value) + getBit(4, value)
    BY <1>1, <2>2, PowerBits DEF Byte
  <2>4. Slice(value, 2, 4) = (value[1] % 2 ^ 6) \div 2 ^ 3
    BY DEF Slice
  <2>5. /\ getBit(2, value) = (value[1] \div 2 ^ 5) % 2
        /\ getBit(3, value) = (value[1] \div 2 ^ 4) % 2
        /\ getBit(4, value) = (value[1] \div 2 ^ 3) % 2
    BY DEF getBit
  <2>6. getBit(2, value) \in 0 .. 1 /\ getBit(3, value) \in 0 .. 1
        /\ getBit(4, value) \in 0 .. 1
    BY <1>1 DEF getBit
  <2>7. Slice(value, 2, 4) = Content(topic, value)
    BY <1>1, <2>3, <2>4, <2>5, MiddleBits
  <2> QED BY <2>1, <2>2, <2>3, <2>6, <2>7
<1> QED BY <1>2, <1>3

LEMMA ContentShown ==
  ASSUME topic \in Topics, value \in Value(Source(topic))
  PROVE  Content(topic, value) = Shown
<1>1. CASE topic \in {FridgeState, FridgePower}
  <2>1. Source(topic) = "532"
    BY <1>1 DEF Source, FridgeState, FridgePower
  <2> QED BY <1>1, <2>1, FridgeShown
<1>2. ASSUME NEW l \in Lights, topic = <<l, "status">>
      PROVE  Content(topic, value) = Shown
  <2>1. Source(topic) = "528"
    BY <1>2 DEF Source, FridgeState, FridgePower
  <2> QED BY <1>2, <2>1, StatusShown
<1>3. ASSUME NEW l \in Lights, topic = <<l, "brightness">>
      PROVE  Content(topic, value) = Shown
  <2>1. Source(topic) = brightness_prop(l)
    BY <1>3 DEF Source, FridgeState, FridgePower
  <2> QED BY <1>3, <2>1, BrightnessShown
<1> QED BY <1>1, <1>2, <1>3 DEF Topics, Status, Brightness

(* What is published for a topic is one of its contents.                   *)
LEMMA ContentTyped ==
  ASSUME NEW t \in Topics, NEW v \in Value(Source(t))
  PROVE  Content(t, v) \in Contents(t)
<1>1. CASE t = FridgeState
  <2>1. Source(t) = "532"
    BY <1>1 DEF Source, FridgeState, FridgePower
  <2>2. v[1] \in 0 .. 255
    BY <2>1, Bytes DEF Props
  <2>3. Content(t, v) = (v[1] \div 2 ^ 0) % 2
    BY <1>1 DEF Content, getBit, FridgeState, FridgePower
  <2>4. Contents(t) = 0 .. 1
    BY <1>1 DEF Contents, FridgeState, FridgePower
  <2> QED BY <2>2, <2>3, <2>4
<1>2. CASE t = FridgePower
  <2>1. Source(t) = "532"
    BY <1>2 DEF Source, FridgeState, FridgePower
  <2>2. v[1] \in 0 .. 255
    BY <2>1, Bytes DEF Props
  <2>3. Content(t, v) = 4 * getBit(2, v) + 2 * getBit(3, v) + getBit(4, v)
    BY <1>2, <2>2, PowerBits DEF Content, Byte, FridgeState, FridgePower
  <2>4. getBit(2, v) \in 0 .. 1 /\ getBit(3, v) \in 0 .. 1 /\ getBit(4, v) \in 0 .. 1
    BY <2>2 DEF getBit
  <2>5. Contents(t) = 0 .. 7
    BY <1>2 DEF Contents, FridgePower
  <2> QED BY <2>3, <2>4, <2>5
<1>3. ASSUME NEW l \in Lights, t = <<l, "status">>
      PROVE  Content(t, v) \in Contents(t)
  <2>1. Source(t) = "528"
    BY <1>3 DEF Source, FridgeState, FridgePower
  <2>2. v[1] \in 0 .. 255 /\ v[2] \in 0 .. 255
    BY <2>1, Bytes DEF Props
  <2>3. Content(t, v) = getBit(state_bit(l), v)
    BY <1>3 DEF Content, FridgeState, FridgePower, Lights
  <2>4. Contents(t) = 0 .. 1
    BY <1>3 DEF Contents, FridgePower, Lights
  <2>5. \/ Content(t, v) = (v[1] \div 2 ^ 7) % 2 \/ Content(t, v) = (v[1] \div 2 ^ 2) % 2
        \/ Content(t, v) = (v[2] \div 2 ^ 7) % 2 \/ Content(t, v) = (v[1] \div 2 ^ 6) % 2
    <3>1. CASE l = "outside_kitchen"
      BY <2>3, <3>1 DEF getBit, state_bit
    <3>2. CASE l = "inside_kitchen"
      BY <2>3, <3>2 DEF getBit, state_bit
    <3>3. CASE l = "door"
      BY <2>3, <3>3 DEF getBit, state_bit
    <3>4. CASE l = "tailgate"
      BY <2>3, <3>4 DEF getBit, state_bit
    <3> QED BY <3>1, <3>2, <3>3, <3>4 DEF Lights
  <2> QED BY <2>2, <2>4, <2>5
<1>4. ASSUME NEW l \in Lights, t = <<l, "brightness">>
      PROVE  Content(t, v) \in Contents(t)
  <2>1. Source(t) = brightness_prop(l)
    BY <1>4 DEF Source, FridgeState, FridgePower
  <2>2. v[2] \in 0 .. 255 /\ v[3] \in 0 .. 255
    BY <2>1, Bytes DEF Props, brightness_prop
  <2>3. l = "tailgate" => v[6] \in 0 .. 255
    BY <2>1, Bytes DEF Props, brightness_prop
  <2>4. Content(t, v) = v[brightness_byte(l) + 1] % 128
    BY <1>4 DEF Content, getBrightnessByte, getByte, FridgeState, FridgePower, Lights
  <2>5. Contents(t) = 0 .. 127
    BY <1>4 DEF Contents
  <2> QED BY <2>2, <2>3, <2>4, <2>5 DEF brightness_byte, Lights
<1> QED BY <1>1, <1>2, <1>3, <1>4 DEF Topics, Status, Brightness
-----------------------------------------------------------------------------
(* Taking a task out keeps the others and, unless it is the last, the last.*)
LEMMA WithoutOne ==
  ASSUME NEW S, tasks \in Seq(S), NEW i \in 1 .. Len(tasks)
  PROVE  /\ Without(i) \in Seq(S)
         /\ Len(Without(i)) = Len(tasks) - 1
         /\ i # Len(tasks) => /\ Without(i) # <<>>
                              /\ Without(i)[Len(Without(i))] = tasks[Len(tasks)]
<1> DEFINE f == SubSeq(tasks, 1, i - 1)
           r == SubSeq(tasks, i + 1, Len(tasks))
<1>1. f \in Seq(S) /\ Len(f) = i - 1
  OBVIOUS
<1>2. r \in Seq(S) /\ Len(r) = Len(tasks) - i
  OBVIOUS
<1>3. \A k \in 1 .. Len(tasks) - i : r[k] = tasks[i + k]
  OBVIOUS
<1>4. Len(tasks) \in Nat /\ i \in 1 .. Len(tasks)
  OBVIOUS
<1>5. f \o r \in Seq(S) /\ Len(f \o r) = Len(tasks) - 1
  <2> HIDE DEF f, r
  <2> QED BY <1>1, <1>2
<1>6. ASSUME i # Len(tasks)
      PROVE  (f \o r)[Len(tasks) - 1] = tasks[Len(tasks)]
  <2>1. (f \o r)[Len(tasks) - 1] = r[Len(tasks) - i]
    <3> HIDE DEF f, r
    <3> QED BY <1>1, <1>2, <1>6
  <2>2. Len(tasks) - i \in 1 .. Len(tasks) - i /\ i + (Len(tasks) - i) = Len(tasks)
    BY <1>4, <1>6
  <2>3. r[Len(tasks) - i] = tasks[i + (Len(tasks) - i)]
    <3> HIDE DEF r
    <3> QED BY <1>3, <2>2
  <2> HIDE DEF f, r
  <2> QED BY <2>1, <2>2, <2>3
<1>7. i # Len(tasks) => f \o r # <<>>
  <2> HIDE DEF f, r
  <2> QED BY <1>5, <1>4
<1>8. Without(i) = f \o r
  BY DEF Without
<1> HIDE DEF f, r
<1> QED BY <1>5, <1>6, <1>7, <1>8

LEMMA SourceIn == \A t \in Topics : Source(t) \in Props
  BY DEF Topics, Source, Props, Status, Brightness, FridgeState, FridgePower,
         brightness_prop, Lights

LEMMA Adding ==
  ASSUME NEW S, NEW q \in Seq(S), NEW x \in S
  PROVE  /\ Append(q, x) \in Seq(S)
         /\ Len(Append(q, x)) = Len(q) + 1
         /\ Append(q, x) # <<>>
         /\ Append(q, x)[Len(Append(q, x))] = x
OBVIOUS

LEMMA Empty == ASSUME NEW S PROVE <<>> \in Seq(S) /\ Len(<<>>) = 0
OBVIOUS

LEMMA TypeInit == Init => TypeOK
<1> SUFFICES ASSUME Init PROVE TypeOK
  OBVIOUS
<1>1. value \in Value(Source(topic))
  BY SourceIn, ValueAssumption DEF Init
<1>4. announced \in [Writers -> Value(Source(topic)) \cup {None}]
  BY DEF Init
<1>2. /\ tasks \in Seq(Contents(topic)) /\ outbox \in Seq(Contents(topic))
      /\ Len(tasks) = 0 /\ Len(outbox) = 0
  BY Empty DEF Init
<1>3. Len(tasks) <= MaxTasks /\ Len(outbox) <= OutboxLength
  BY <1>2, BoundAssumption
<1> QED BY <1>1, <1>2, <1>3, <1>4 DEF Init, TypeOK

LEMMA TypeStep == TypeOK /\ [Next]_vars => TypeOK'
<1> SUFFICES ASSUME TypeOK, [Next]_vars PROVE TypeOK'
  OBVIOUS
<1>0. /\ topic \in Topics /\ value \in Value(Source(topic))
      /\ Source(topic) \in Props
      /\ MaxTasks \in Nat /\ OutboxLength \in Nat
      /\ tasks \in Seq(Contents(topic)) /\ outbox \in Seq(Contents(topic))
      /\ Len(tasks) \in Nat /\ Len(outbox) \in Nat
  BY SourceIn, BoundAssumption DEF TypeOK
<1>1. CASE UNCHANGED vars
  BY <1>1 DEF vars, mqtt, history, TypeOK
<1>2. ASSUME NEW u \in Writers, NEW v \in Value(Source(topic)), HandlePropUpdate(u, v)
      PROVE  TypeOK'
  <2>1. announced' \in [Writers -> Value(Source(topic)) \cup {None}]
    BY <1>2 DEF HandlePropUpdate, TypeOK
  <2>2. Content(topic, v) \in Contents(topic)
    BY <1>0, ContentTyped
  <2>3. CASE UNCHANGED tasks
    <3>1. newest' \in BOOLEAN /\ (newest' => tasks # <<>>)
          /\ excuse' \in {"none", "overtaken", "dropped", "raced", "reset"}
      <4>1. CASE newest' = newest /\ excuse' \in {excuse, "raced"}
        BY <4>1 DEF TypeOK
      <4>2. CASE newest' = FALSE /\ excuse' = "dropped"
        BY <4>2
      <4>3. CASE tasks' = Append(tasks, Content(topic, v))
        BY <1>0, <2>2, <2>3, <4>3, Adding
      <4> QED BY <1>2, <4>1, <4>2, <4>3 DEF HandlePropUpdate, go
    <3> QED BY <1>2, <2>1, <2>3, <3>1 DEF HandlePropUpdate, mqtt, TypeOK
  <2>4. CASE tasks' = Append(tasks, Content(topic, v)) /\ Len(tasks) < MaxTasks /\ newest'
             /\ newest' \in BOOLEAN /\ excuse' \in {"none", "raced"}
    <3>1. /\ tasks' \in Seq(Contents(topic)) /\ Len(tasks') <= MaxTasks /\ tasks' # <<>>
      BY <1>0, <2>2, <2>4, Adding
    <3> QED BY <1>2, <2>1, <2>4, <3>1 DEF HandlePropUpdate, mqtt, TypeOK
  <2> QED BY <1>2, <2>3, <2>4 DEF HandlePropUpdate, go
<1>8. ASSUME NEW v \in Bus[Source(topic)], UpdateState(v) PROVE TypeOK'
  BY <1>0, <1>2, <1>8, ValueAssumption DEF UpdateState, Writers
<1>9. ASSUME NEW d \in Debuggers, NEW v \in Debug[Source(topic)], Update(d, v) PROVE TypeOK'
  BY <1>0, <1>2, <1>9, ValueAssumption DEF Update, Writers
<1>10. ASSUME NEW u \in Writers, Store(u) PROVE TypeOK'
  <2>1. value' \in Value(Source(topic))
    BY <1>10 DEF Store, TypeOK
  <2>2. announced' \in [Writers -> Value(Source(topic)) \cup {None}]
    BY <1>10 DEF Store, TypeOK
  <2> QED BY <1>10, <2>1, <2>2 DEF Store, mqtt, history, TypeOK
<1>3. ASSUME NEW i \in DOMAIN tasks, Publish(i) PROVE TypeOK'
  <2>1. i \in 1 .. Len(tasks)
    BY <1>0
  <2>2. /\ tasks' \in Seq(Contents(topic))
        /\ Len(tasks') = Len(tasks) - 1
        /\ i # Len(tasks) => tasks' # <<>>
    BY <1>0, <1>3, <2>1, WithoutOne DEF Publish
  <2>3. tasks[i] \in Contents(topic)
    BY <1>0, <2>1
  <2>4. newest' \in BOOLEAN /\ (newest' => tasks' # <<>>)
    BY <1>3, <2>2 DEF Publish, IsNewest, TypeOK
  <2>5. excuse' \in {"none", "overtaken", "dropped", "raced", "reset"}
    BY <1>3 DEF Publish, TypeOK
  <2>6. UNCHANGED <<topic, value, announced, online, broker>>
    BY <1>3 DEF Publish
  <2>7. /\ outbox' \in Seq(Contents(topic)) /\ Len(outbox') <= OutboxLength
        /\ outbox' # <<>> => online
    <3>1. CASE UNCHANGED outbox
      BY <3>1 DEF TypeOK
    <3>2. CASE online /\ Len(outbox) < OutboxLength /\ outbox' = Append(outbox, tasks[i])
      BY <1>0, <2>3, <3>2, Adding
    <3> QED BY <1>3, <3>1, <3>2 DEF Publish
  <2>8. Len(tasks') <= MaxTasks
    BY <1>0, <2>2 DEF TypeOK
  <2> QED BY <2>2, <2>4, <2>5, <2>6, <2>7, <2>8 DEF TypeOK
<1>4. CASE Connect
  BY <1>4 DEF Connect, history, TypeOK
<1>5. CASE Disconnect
  <2>1. outbox' \in Seq(Contents(topic)) /\ Len(outbox') <= OutboxLength
    BY <1>0, <1>5, Empty DEF Disconnect
  <2>2. excuse' \in {"none", "overtaken", "dropped", "raced", "reset"}
    BY <1>5 DEF Disconnect, TypeOK
  <2> QED BY <1>5, <2>1, <2>2 DEF Disconnect, TypeOK
<1>6. CASE Deliver
  <2>1. /\ Head(outbox) \in Contents(topic) /\ Tail(outbox) \in Seq(Contents(topic))
        /\ Len(Tail(outbox)) = Len(outbox) - 1
    BY <1>0, <1>6 DEF Deliver
  <2> QED BY <1>0, <1>6, <2>1 DEF Deliver, history, TypeOK
<1>7. CASE Reboot
  <2>1. Boot[Source(topic)] \in Value(Source(topic))
    BY <1>0, ValueAssumption
  <2>2. tasks' \in Seq(Contents(topic)) /\ outbox' \in Seq(Contents(topic))
        /\ Len(tasks') = 0 /\ Len(outbox') = 0
    BY <1>7, Empty DEF Reboot
  <2>3. Len(tasks') <= MaxTasks /\ Len(outbox') <= OutboxLength
    BY <1>0, <2>2
  <2>4. announced' \in [Writers -> Value(Source(topic)) \cup {None}]
    BY <1>7 DEF Reboot
  <2> QED BY <1>7, <2>1, <2>2, <2>3, <2>4 DEF Reboot, TypeOK
<1> QED BY <1>1, <1>3, <1>4, <1>5, <1>6, <1>7, <1>8, <1>9, <1>10 DEF Next

(* Whatever the car sends, the tasks, the outbox and the broker hold       *)
(* contents of the topic, and nothing waits to leave without a connection. *)
THEOREM TypeCorrect == Spec => []TypeOK
BY TypeInit, TypeStep, PTL DEF Spec
-----------------------------------------------------------------------------
(* Unless something came in the way, only one value is about to be stored, *)
(* and the content of that value, or else of the present one, is the last  *)
(* that anyone on the way to the broker holds.                             *)
Newest ==
  IF newest THEN tasks[Len(tasks)]
  ELSE IF outbox # <<>> THEN outbox[Len(outbox)] ELSE broker
PubInv ==
  excuse = "none" =>
    /\ \A u \in Writers :
         announced[u] # None => Alone(u) /\ Newest = Content(topic, announced[u])
    /\ (\A u \in Writers : announced[u] = None) => Newest = Content(topic, value)

(* A step that writes nothing and changes nothing on the way.              *)
LEMMA PubKept ==
  ASSUME PubInv, excuse = "none", UNCHANGED <<topic, value, announced>>,
         Newest' = Newest
  PROVE  PubInv'
BY DEF PubInv, Alone

LEMMA PubStep == TypeOK /\ PubInv /\ [Next]_vars => PubInv'
<1> SUFFICES ASSUME TypeOK, PubInv, [Next]_vars, excuse' = "none"
             PROVE  PubInv'
  BY DEF PubInv
<1>0. /\ topic \in Topics
      /\ tasks \in Seq(Contents(topic)) /\ outbox \in Seq(Contents(topic))
      /\ Len(tasks) \in Nat /\ Len(outbox) \in Nat
      /\ newest \in BOOLEAN
      /\ announced \in [Writers -> Value(Source(topic)) \cup {None}]
  BY DEF TypeOK
<1>1. CASE UNCHANGED vars
  BY <1>1, PubKept DEF vars, mqtt, history, Newest
<1>2. ASSUME NEW u \in Writers, NEW v \in Value(Source(topic)), HandlePropUpdate(u, v)
      PROVE  PubInv'
  <2>1. /\ announced[u] = None /\ Alone(u) /\ UNCHANGED <<topic, value, mqtt>>
        /\ announced' = [announced EXCEPT ![u] = v]
    BY <1>2 DEF HandlePropUpdate, go
  <2>2. \A w \in Writers : announced[w] = None
    BY <2>1 DEF Alone
  <2>3. v # None
    <3>1. DOMAIN v = 1 .. Size(Source(topic)) /\ 1 \in 1 .. Size(Source(topic))
      BY <1>0, SourceIn DEF Value, Size, Props
    <3>2. DOMAIN None = {}
      BY Empty DEF None
    <3> QED BY <3>1, <3>2
  <2>4. Newest' = Content(topic, v)
    <3>1. CASE Content(topic, v) = Content(topic, value)
      BY <1>2, <2>1, <2>2, <3>1 DEF HandlePropUpdate, mqtt, PubInv, Newest
    <3>2. CASE Content(topic, v) # Content(topic, value)
      <4>1. tasks' = Append(tasks, Content(topic, v)) /\ newest'
        BY <1>2, <3>2 DEF HandlePropUpdate, go
      <4>2. Content(topic, v) \in Contents(topic)
        BY <1>0, ContentTyped
      <4> QED BY <1>0, <4>1, <4>2, Adding DEF Newest
    <3> QED BY <3>1, <3>2
  <2>5. /\ announced'[u] = v /\ \A w \in Writers \ {u} : announced'[w] = None
    BY <1>0, <2>1, <2>2
  <2> QED BY <2>1, <2>3, <2>4, <2>5 DEF PubInv, Alone
<1>3. ASSUME NEW i \in DOMAIN tasks, Publish(i)
      PROVE  PubInv'
  <2>1. i \in 1 .. Len(tasks) /\ tasks[i] \in Contents(topic)
    BY <1>0
  <2>2. UNCHANGED <<topic, value, announced, broker>>
    BY <1>3 DEF Publish
  <2>3. CASE newest /\ i # Len(tasks)
    <3>1. newest' /\ excuse = "none"
      BY <1>3, <2>3 DEF Publish, IsNewest
    <3>2. tasks'[Len(tasks')] = tasks[Len(tasks)]
      BY <1>0, <1>3, <2>1, <2>3, WithoutOne DEF Publish
    <3> QED BY <2>2, <2>3, <3>1, <3>2, PubKept DEF Newest
  <2>4. CASE newest /\ i = Len(tasks)
    <3>1. ~newest' /\ excuse = "none" /\ outbox' = Append(outbox, tasks[i])
      BY <1>3, <2>4 DEF Publish, IsNewest
    <3> QED BY <1>0, <2>1, <2>2, <2>4, <3>1, Adding, PubKept DEF Newest
  <2>5. CASE ~newest
    <3>1. ~newest' /\ excuse = "none" /\ UNCHANGED outbox
      BY <1>3, <2>5 DEF Publish, IsNewest
    <3> QED BY <2>2, <2>5, <3>1, PubKept DEF Newest
  <2> QED BY <2>3, <2>4, <2>5
<1>4. CASE Connect
  BY <1>4, PubKept DEF Connect, history, Newest
<1>5. CASE Disconnect
  BY <1>5, PubKept DEF Disconnect, Newest
<1>6. CASE Deliver
  <2>1. /\ outbox' = Tail(outbox) /\ broker' = Head(outbox) /\ outbox # <<>>
        /\ UNCHANGED <<topic, value, announced, tasks, newest, excuse>>
    BY <1>6 DEF Deliver, history
  <2>2. CASE Tail(outbox) = <<>>
    <3>1. Len(outbox) - 1 = 0
      <4>1. Len(Tail(outbox)) = Len(outbox) - 1
        BY <1>0, <2>1
      <4>2. Len(Tail(outbox)) = 0
        BY <2>2, Empty
      <4> QED BY <4>1, <4>2
    <3>2. Len(outbox) = 1 /\ Head(outbox) = outbox[1]
      BY <1>0, <3>1
    <3> QED BY <2>1, <2>2, <3>2, PubKept DEF Newest
  <2>3. CASE Tail(outbox) # <<>>
    <3>1. Tail(outbox)[Len(Tail(outbox))] = outbox[Len(outbox)]
      BY <1>0, <2>1, <2>3
    <3> QED BY <2>1, <2>3, <3>1, PubKept DEF Newest
  <2> QED BY <2>2, <2>3
<1>7. CASE Reboot
  BY <1>7 DEF Reboot
<1>8. ASSUME NEW v \in Bus[Source(topic)], UpdateState(v) PROVE PubInv'
  BY <1>0, <1>2, <1>8, SourceIn, ValueAssumption DEF UpdateState, Writers
<1>9. ASSUME NEW d \in Debuggers, NEW v \in Debug[Source(topic)], Update(d, v) PROVE PubInv'
  BY <1>0, <1>2, <1>9, SourceIn, ValueAssumption DEF Update, Writers
<1>10. ASSUME NEW u \in Writers, Store(u) PROVE PubInv'
  <2>1. /\ announced[u] # None /\ value' = announced[u] /\ Newest' = Newest
        /\ announced' = [announced EXCEPT ![u] = None] /\ topic' = topic
        /\ excuse = "none"
    BY <1>10 DEF Store, mqtt, history, Newest
  <2>2. Alone(u) /\ Newest = Content(topic, announced[u])
    BY <2>1 DEF PubInv
  <2>3. \A w \in Writers : announced'[w] = None
    BY <1>0, <2>1, <2>2 DEF Alone
  <2> QED BY <2>1, <2>2, <2>3 DEF PubInv
<1> QED BY <1>1, <1>3, <1>4, <1>5, <1>6, <1>7, <1>8, <1>9, <1>10 DEF Next

(* Whatever the car sends and /debug sets, and in whatever order the tasks *)
(* run: when nothing is under way, the broker shows the bits that the      *)
(* layout of the messages gives the topic, unless the last change was      *)
(* overtaken, dropped, raced or reset (HandlePropUpdate, go, publish).     *)
THEOREM BrokerCurrentAlways == Spec => []BrokerCurrent
<1>1. Init => PubInv
  BY DEF Init, PubInv
<1>2. TypeOK /\ PubInv => BrokerCurrent
  <2> SUFFICES ASSUME TypeOK, PubInv, tasks = <<>>, outbox = <<>>, excuse = "none",
                      \A u \in Writers : announced[u] = None
               PROVE  broker = Shown
    BY DEF BrokerCurrent
  <2>1. broker = Content(topic, value)
    BY DEF TypeOK, PubInv, Newest
  <2> QED BY <2>1, ContentShown DEF TypeOK
<1> QED BY <1>1, <1>2, PubStep, TypeCorrect, PTL DEF Spec
=============================================================================

-------------------------- MODULE SnoopBufferProofs --------------------------
(***************************************************************************)
(* Theorems about SnoopBuffer, for any recorders, messages and sizes of    *)
(* messages and buffers.                                                   *)
(***************************************************************************)
EXTENDS SnoopBuffer, WellFoundedInduction, TLAPS

(* While a frame is written it fits into the buffer behind its start, and  *)
(* position is there or was set to 0 by /start_snoop.                      *)
FrameInv ==
  owner # NoOne =>
    /\ entry.m \in Messages
    /\ entry.start + 1 + Size[entry.m] <= BufSize
    /\ position \in {0, entry.start}
    /\ entry.loaded \in {Never, 0, entry.start}

USE DEF Never, Idle, Resetting

LEMMA EmptyTyped == Empty \in [Offsets -> Bytes]
BY SizeAssumption DEF Empty, Bytes, Offsets, Blank

LEMMA MillisTyped == ASSUME TypeOK PROVE Millis \in 0 .. ClockRange - 1
BY ClockAssumption DEF TypeOK, Millis

LEMMA EndTyped ==
  ASSUME TypeOK, NEW ms \in Durations
  PROVE  EndAfter(ms) \in 0 .. ClockRange - 1
BY ClockAssumption, MillisTyped DEF EndAfter

LEMMA InitTyped == Init => TypeOK /\ FrameInv
<1> SUFFICES ASSUME Init PROVE TypeOK /\ FrameInv
  OBVIOUS
<1>1. buffer \in [Offsets -> Bytes] /\ served \in [Offsets -> Bytes]
  BY EmptyTyped DEF Init
<1>2. 0 \in 0 .. BufSize /\ 0 \in 0 .. ClockRange - 1 /\ 0 \in 0 .. Horizon
  BY SizeAssumption, ClockAssumption
<1>3. TypeOK
  BY <1>1, <1>2 DEF Init, TypeOK
<1> QED BY <1>3 DEF Init, FrameInv

LEMMA RebootTyped == ASSUME TypeOK, Reboot PROVE TypeOK' /\ FrameInv'
<1>1. buffer' \in [Offsets -> Bytes] /\ served' \in [Offsets -> Bytes]
  BY EmptyTyped DEF Reboot
<1>2. 0 \in 0 .. BufSize /\ 0 \in 0 .. ClockRange - 1 /\ 0 \in 0 .. Horizon
  BY SizeAssumption, ClockAssumption
<1>3. TypeOK'
  BY <1>1, <1>2 DEF Reboot, TypeOK
<1> QED BY <1>3 DEF Reboot, FrameInv

LEMMA EncodeTyped ==
  ASSUME TypeOK, FrameInv, NEW t \in Recorders, NEW m \in Messages, SnoopEncode(t, m)
  PROVE  TypeOK' /\ FrameInv'
<1> USE SizeAssumption, NoOneAssumption
<1>1. passed' \in [Recorders -> Messages \cup {NoOne}] /\ late' \subseteq Recorders \X filtered
      /\ filtered' = filtered
  BY DEF SnoopEncode, CallsSnoop, TypeOK
<1>2. owner = NoOne
  BY DEF SnoopEncode, Free
<1>3. CASE position + 1 + Size[m] <= BufSize
  <2>1. buffer' = WithFrame(m) /\ owner' = t /\ overrun' = overrun
        /\ entry' = [m |-> m, start |-> position, loaded |-> Never]
    BY <1>3 DEF SnoopEncode
  <2>2. WithFrame(m) \in [Offsets -> Bytes]
    BY <1>3 DEF WithFrame, TypeOK, Bytes, Offsets, Blank
  <2>3. entry' \in [m : Messages, start : 0 .. BufSize, loaded : {Never} \cup 0 .. BufSize]
    BY <2>1 DEF TypeOK
  <2>4. TypeOK'
    BY <1>1, <2>1, <2>2, <2>3 DEF SnoopEncode, TypeOK, http, history
  <2>5. FrameInv'
    BY <1>3, <2>1 DEF FrameInv, SnoopEncode
  <2> QED BY <2>4, <2>5
<1>4. CASE ~(position + 1 + Size[m] <= BufSize)
  <2>1. overrun' = TRUE /\ buffer' = buffer /\ owner' = owner /\ entry' = entry
    BY <1>4 DEF SnoopEncode, record
  <2>2. TypeOK'
    BY <1>1, <2>1 DEF SnoopEncode, TypeOK, http, history
  <2> QED BY <1>2, <2>1, <2>2 DEF FrameInv
<1> QED BY <1>3, <1>4

LEMMA StoreTyped ==
  ASSUME TypeOK, FrameInv, NEW t \in Recorders, SnoopStore(t)
  PROVE  TypeOK' /\ FrameInv'
<1> USE SizeAssumption, NoOneAssumption
<1>1. entry.m \in Messages /\ entry.loaded \in {0, entry.start}
      /\ entry.start + 1 + Size[entry.m] <= BufSize
  BY DEF FrameInv, SnoopStore
<1>2. entry.start \in 0 .. BufSize /\ Size[entry.m] \in Nat
  BY <1>1 DEF TypeOK, NoEntry
<1>3. position' \in 0 .. BufSize
  BY <1>1, <1>2 DEF SnoopStore, EndOfFrame
<1>4. TypeOK'
  BY <1>3 DEF SnoopStore, TypeOK, http, history, logger
<1> QED BY <1>4 DEF SnoopStore, FrameInv

LEMMA LengthTyped ==
  ASSUME TypeOK, FrameInv, NEW t \in Recorders, SnoopLength(t)
  PROVE  TypeOK' /\ FrameInv'
<1> USE SizeAssumption, NoOneAssumption
<1>0. entry.m \in Messages
  BY DEF FrameInv, SnoopLength
<1>1. entry \in [m : Messages, start : 0 .. BufSize, loaded : {Never} \cup 0 .. BufSize]
  <2>1. entry # NoEntry
    BY <1>0 DEF NoEntry
  <2> QED BY <2>1 DEF TypeOK
<1>2. entry' = [entry EXCEPT !.loaded = position]
  BY DEF SnoopLength
<1>3. entry' \in [m : Messages, start : 0 .. BufSize, loaded : {Never} \cup 0 .. BufSize]
      /\ entry'.m = entry.m /\ entry'.start = entry.start /\ entry'.loaded = position
  BY <1>1, <1>2 DEF TypeOK
<1>4. buffer' \in [Offsets -> Bytes]
  <2>1. [of |-> entry.m, at |-> 0] \in Bytes
    BY <1>0 DEF Bytes
  <2> QED BY <2>1 DEF SnoopLength, TypeOK
<1>5. TypeOK'
  BY <1>3, <1>4 DEF SnoopLength, TypeOK, http, history, logger
<1>6. FrameInv'
  BY <1>3 DEF SnoopLength, FrameInv
<1> QED BY <1>5, <1>6

(* The steps of the recorders, each with the lock or the filter.           *)
LEMMA RecorderTyped ==
  ASSUME TypeOK, FrameInv, NEW t \in Recorders, NEW m \in Messages,
         \/ CheckFilter(t, m) \/ SnoopEncode(t, m) \/ SnoopReset(t, m)
         \/ SnoopLength(t) \/ SnoopStore(t)
  PROVE  TypeOK' /\ FrameInv'
<1>1. CASE CheckFilter(t, m)
  BY <1>1 DEF CheckFilter, TypeOK, FrameInv, record, http, history
<1>2. CASE SnoopReset(t, m)
  <2>1. /\ passed' \in [Recorders -> Messages \cup {NoOne}]
        /\ late' \subseteq Recorders \X filtered
        /\ filtered' = filtered
    BY <1>2 DEF SnoopReset, CallsSnoop, TypeOK
  <2>2. 0 \in 0 .. BufSize
    BY SizeAssumption
  <2>3. TypeOK'
    <3>1. /\ position' = 0 /\ torn' = FALSE
          /\ UNCHANGED <<alwaysActive, buffer, endMs, now, record, http, begun, lasts, overrun>>
      BY <1>2 DEF SnoopReset
    <3> QED BY <2>1, <2>2, <3>1 DEF TypeOK, record, http
  <2> QED BY <1>2, <2>3 DEF SnoopReset, Free, FrameInv, record
<1> QED BY <1>1, <1>2, EncodeTyped, LengthTyped, StoreTyped

(* The clock and the handlers.                                             *)
LEMMA HandlerTyped ==
  ASSUME TypeOK, FrameInv,
         \/ Tick \/ Activate \/ StartSnoopResets \/ GetSnoop \/ ResponseSent
         \/ \E m \in Messages : Filter(m)
         \/ \E ms \in Durations : StartSnoop(ms)
  PROVE  TypeOK' /\ FrameInv'
<1> USE SizeAssumption, ClockAssumption
<1>1. CASE Tick
  BY <1>1 DEF Tick, TypeOK, FrameInv, record, http, history, logger
<1>2. CASE Activate
  <2>1. endMs' \in 0 .. ClockRange - 1
    BY <1>2, EndTyped DEF Activate, TypeOK
  <2>2. CASE isActive
    <3>1. TypeOK'
      BY <1>2, <2>2 DEF Activate, TypeOK, record, history, logger
    <3> QED BY <1>2, <3>1 DEF Activate, Free, FrameInv, record
  <2>3. CASE ~isActive
    <3>1. handler \in Durations /\ 0 \in 0 .. BufSize
      BY <1>2 DEF Activate
    <3>2. TypeOK'
      BY <1>2, <2>1, <2>3, <3>1 DEF Activate, TypeOK, record, logger
    <3> QED BY <1>2, <3>2 DEF Activate, Free, FrameInv, record
  <2> QED BY <2>2, <2>3
<1>3. CASE StartSnoopResets
  <2>1. BeginsTorn \in BOOLEAN
    BY DEF BeginsTorn
  <2>2. TypeOK'
    BY <1>3, <2>1 DEF StartSnoopResets, TypeOK, record, logger
  <2> QED BY <1>3, <2>2 DEF StartSnoopResets, FrameInv, record
<1>4. CASE GetSnoop
  <2>1. /\ response' = position /\ served' = buffer /\ renewed' = FALSE
        /\ UNCHANGED <<alwaysActive, buffer, position, endMs, now, record, handler,
                      history, overrun, logger>>
    BY <1>4 DEF GetSnoop, Respond
  <2>2. TypeOK'
    BY <2>1 DEF TypeOK, record, history, logger
  <2> QED BY <2>1, <2>2 DEF FrameInv, record
<1>5. CASE ResponseSent
  <2>1. /\ response' = Never /\ served' = Empty /\ renewed' = FALSE
        /\ UNCHANGED <<alwaysActive, buffer, position, endMs, now, record, handler,
                      history, overrun, logger>>
    BY <1>5 DEF ResponseSent
  <2>2. TypeOK'
    BY <2>1, EmptyTyped DEF TypeOK, record, history, logger
  <2> QED BY <2>1, <2>2 DEF FrameInv, record
<1>6. CASE \E m \in Messages : Filter(m)
  BY <1>6 DEF Filter, TypeOK, FrameInv, record, http, history
<1>7. CASE \E ms \in Durations : StartSnoop(ms)
  BY <1>7 DEF StartSnoop, TypeOK, FrameInv, record, history, logger
<1> QED BY <1>1, <1>2, <1>3, <1>4, <1>5, <1>6, <1>7

LEMMA StepTyped == TypeOK /\ FrameInv /\ [Next]_vars => TypeOK' /\ FrameInv'
<1> SUFFICES ASSUME TypeOK, FrameInv, [Next]_vars PROVE TypeOK' /\ FrameInv'
  OBVIOUS
<1>1. CASE UNCHANGED vars
  BY <1>1 DEF vars, TypeOK, FrameInv, record, http, history, logger
<1>2. CASE \E t \in Recorders : \/ \E m \in Messages : \/ CheckFilter(t, m)
                                                      \/ SnoopEncode(t, m)
                                                      \/ SnoopReset(t, m)
                                \/ SnoopLength(t) \/ SnoopStore(t)
  BY <1>2, RecorderTyped, LengthTyped, StoreTyped
<1>3. CASE Reboot
  BY <1>3, RebootTyped
<1> QED BY <1>1, <1>2, <1>3, HandlerTyped DEF Next

(* Every variable keeps its type: position never leaves the buffer, and no *)
(* frame that is begun ends outside of it, for any sizes.                  *)
THEOREM TypeCorrect == Spec => []TypeOK
<1>1. Spec => [](TypeOK /\ FrameInv)
  BY InitTyped, StepTyped, PTL DEF Spec
<1> QED BY <1>1, PTL
-----------------------------------------------------------------------------
LEMMA FilterStep ==
  ASSUME TypeOK, FilterBound, [Next]_vars
  PROVE  FilterBound'
<1>1. CASE UNCHANGED logger
  BY <1>1 DEF logger, FilterBound
<1>2. ASSUME NEW t \in Recorders, NEW m \in Messages, CheckFilter(t, m)
      PROVE  FilterBound'
  <2>1. passed' = [passed EXCEPT ![t] = m] /\ late' = late /\ m \notin filtered
    BY <1>2 DEF CheckFilter, history
  <2>2. \A u \in Recorders : <<u, m>> \notin late
    BY <2>1 DEF TypeOK
  <2> QED BY <2>1, <2>2 DEF FilterBound, TypeOK
<1>3. ASSUME NEW t \in Recorders, NEW m \in Messages, CallsSnoop(t, m)
      PROVE  FilterBound'
  <2>1. passed' = [passed EXCEPT ![t] = NoOne] /\ late' \subseteq late \cup {<<t, m>>}
    BY <1>3 DEF CallsSnoop
  <2> QED BY <2>1, NoOneAssumption DEF FilterBound, TypeOK
<1>4. ASSUME NEW m \in Messages, Filter(m)
      PROVE  FilterBound'
  BY <1>4 DEF Filter, FilterBound
<1>5. CASE Reboot
  BY <1>5 DEF Reboot, FilterBound
<1>6. CASE Next
  <2>1. CASE \/ Tick \/ Activate \/ StartSnoopResets \/ GetSnoop \/ ResponseSent
             \/ \E ms \in Durations : StartSnoop(ms)
             \/ \E t \in Recorders : SnoopLength(t) \/ SnoopStore(t)
    BY <2>1, <1>1 DEF Tick, Activate, StartSnoopResets, GetSnoop, Respond, ResponseSent,
                      StartSnoop, SnoopLength, SnoopStore, logger
  <2>2. CASE \E t \in Recorders, m \in Messages : SnoopEncode(t, m) \/ SnoopReset(t, m)
    BY <2>2, <1>3 DEF SnoopEncode, SnoopReset
  <2>3. CASE \E t \in Recorders, m \in Messages : CheckFilter(t, m)
    BY <2>3, <1>2
  <2>4. CASE \E m \in Messages : Filter(m)
    BY <2>4, <1>4
  <2> QED BY <1>5, <1>6, <2>1, <2>2, <2>3, <2>4 DEF Next
<1> QED BY <1>1, <1>6 DEF vars

(* After /filter has named a property a task logs it once more at most,    *)
(* for any number of tasks and properties.                                 *)
THEOREM FilterBoundAlways == Spec => []FilterBound
<1>1. Init => FilterBound
  BY DEF Init, FilterBound
<1>2. TypeOK /\ FilterBound /\ [Next]_vars => FilterBound'
  BY FilterStep
<1> QED BY <1>1, <1>2, TypeCorrect, PTL DEF Spec
-----------------------------------------------------------------------------
(* The clock does not wrap while a recording may run.                      *)
NoWrap == \A ms \in Durations : Horizon + ms < ClockRange

(* The end of a recording is where it began and how long it lasts.         *)
EndInv ==
  ~alwaysActive =>
    \/ begun = Never /\ endMs = 0
    \/ begun \in Nat /\ lasts \in Durations /\ endMs = begun + lasts

LEMMA MillisIsNow ==
  ASSUME TypeOK, NoWrap, NEW ms \in Durations
  PROVE  Millis = now
BY ClockAssumption DEF TypeOK, NoWrap, Millis

LEMMA EndStep ==
  ASSUME NoWrap, TypeOK, EndInv, [Next]_vars
  PROVE  EndInv'
<1>1. CASE UNCHANGED <<alwaysActive, begun, lasts, endMs>>
  BY <1>1 DEF EndInv
<1>2. CASE Reboot
  BY <1>2 DEF Reboot, EndInv
<1>3. CASE Activate
  <2>1. CASE isActive
    BY <1>1, <1>3, <2>1 DEF Activate, history
  <2>2. CASE ~isActive
    <3>1. handler \in Durations /\ endMs' = EndAfter(handler) /\ begun' = now
          /\ lasts' = handler
      BY <1>3, <2>2 DEF Activate
    <3>2. now \in 0 .. Horizon /\ handler \in Nat /\ now + handler < ClockRange
      BY <3>1, ClockAssumption DEF TypeOK, NoWrap
    <3>3. EndAfter(handler) = now + handler
      BY <3>1, <3>2, MillisIsNow, ClockAssumption DEF EndAfter
    <3> QED BY <3>1, <3>2, <3>3 DEF EndInv
  <2> QED BY <2>1, <2>2
<1>4. CASE \E t \in Recorders, m \in Messages :
             CheckFilter(t, m) \/ SnoopEncode(t, m) \/ SnoopReset(t, m)
  BY <1>1, <1>4 DEF CheckFilter, SnoopEncode, SnoopReset, history
<1>5. CASE \E t \in Recorders : SnoopLength(t) \/ SnoopStore(t)
  BY <1>1, <1>5 DEF SnoopLength, SnoopStore, history
<1>6. CASE \/ Tick \/ StartSnoopResets \/ GetSnoop \/ ResponseSent
           \/ \E ms \in Durations : StartSnoop(ms)
           \/ \E m \in Messages : Filter(m)
  BY <1>1, <1>6 DEF Tick, StartSnoopResets, GetSnoop, Respond, ResponseSent, StartSnoop,
                    Filter, history
<1> QED BY <1>1, <1>2, <1>3, <1>4, <1>5, <1>6 DEF Next, vars, history
-----------------------------------------------------------------------------
(* Between recordings nobody writes, and so the buffer stays as served.    *)
ServedInv ==
  response # Never /\ ~renewed /\ ~alwaysActive
    => ~isActive /\ owner = NoOne /\ buffer = served

(* Time alone does not start a recording.                                  *)
LEMMA TickStays ==
  ASSUME NoWrap, TypeOK, TypeOK', EndInv, Tick, ~isActive
  PROVE  ~isActive'
<1>1. ~alwaysActive /\ ~(endMs > Millis)
  BY DEF isActive
<1>2. alwaysActive' = alwaysActive /\ endMs' = endMs /\ now' = now + 1
  BY DEF Tick
<1>3. CASE begun = Never
  <2>1. endMs = 0
    BY <1>1, <1>3 DEF EndInv
  <2>2. Millis' \in Nat
    <3>1. \A n \in Nat : n % ClockRange \in Nat
      BY ClockAssumption
    <3>2. now' \in Nat
      BY ClockAssumption DEF TypeOK
    <3> QED BY <3>1, <3>2 DEF Millis
  <2> QED BY <1>1, <1>2, <2>1, <2>2 DEF isActive
<1>4. CASE begun # Never
  <2>1. lasts \in Durations
    BY <1>1, <1>4 DEF EndInv
  <2>2. now \in Nat /\ now' \in Nat /\ endMs \in Nat
    BY ClockAssumption DEF TypeOK
  <2>3. Millis = now
    BY <2>1, MillisIsNow
  <2>4. Millis' = now'
    <3>1. now' \in 0 .. Horizon /\ lasts \in Nat /\ Horizon + lasts < ClockRange
      BY <2>1, ClockAssumption DEF TypeOK, NoWrap
    <3>2. now' < ClockRange
      BY <2>2, <3>1, ClockAssumption
    <3>3. \A n \in Nat : n < ClockRange => n % ClockRange = n
      BY ClockAssumption
    <3> QED BY <2>2, <3>2, <3>3 DEF Millis
  <2> QED BY <1>1, <1>2, <2>2, <2>3, <2>4 DEF isActive
<1> QED BY <1>3, <1>4

LEMMA ServedStep ==
  ASSUME NoWrap, TypeOK, TypeOK', EndInv, ServedInv, [Next]_vars
  PROVE  ServedInv'
<1>1. ASSUME UNCHANGED <<alwaysActive, endMs, now>>
      PROVE  isActive' <=> isActive
  BY <1>1 DEF isActive, Millis
<1>2. CASE UNCHANGED vars
  BY <1>1, <1>2 DEF vars, ServedInv, record, http
<1>3. CASE Tick
  BY <1>3, TickStays DEF Tick, ServedInv, record, http
<1>4. ASSUME NEW t \in Recorders, NEW m \in Messages,
             CheckFilter(t, m) \/ SnoopReset(t, m)
      PROVE  ServedInv'
  BY <1>1, <1>4 DEF CheckFilter, SnoopReset, ServedInv, record, http
<1>5. ASSUME NEW t \in Recorders, NEW m \in Messages, SnoopEncode(t, m)
      PROVE  ServedInv'
  <2>1. isActive /\ UNCHANGED <<alwaysActive, endMs, now, http>>
    BY <1>5 DEF SnoopEncode
  <2> QED BY <1>1, <2>1 DEF ServedInv, http
<1>6. ASSUME NEW t \in Recorders, SnoopLength(t) \/ SnoopStore(t)
      PROVE  ServedInv'
  <2>1. owner = t /\ UNCHANGED <<alwaysActive, endMs, now, http>>
    BY <1>6 DEF SnoopLength, SnoopStore
  <2> QED BY <1>1, <2>1, NoOneAssumption DEF ServedInv, http
<1>7. CASE \E m \in Messages : Filter(m)
  BY <1>1, <1>7 DEF Filter, ServedInv, record, http
<1>8. CASE \E ms \in Durations : StartSnoop(ms)
  BY <1>1, <1>8 DEF StartSnoop, ServedInv, record
<1>9. CASE Activate
  BY <1>1, <1>9 DEF Activate, ServedInv, record, isActive, history
<1>10. CASE StartSnoopResets
  BY <1>1, <1>10 DEF StartSnoopResets, ServedInv, record
<1>11. CASE GetSnoop
  BY <1>1, <1>11 DEF GetSnoop, Respond, Free, ServedInv, record
<1>12. CASE ResponseSent
  BY <1>12 DEF ResponseSent, ServedInv
<1>13. CASE Reboot
  BY <1>13 DEF Reboot, ServedInv
<1> QED BY <1>2, <1>3, <1>4, <1>5, <1>6, <1>7, <1>8, <1>9, <1>10, <1>11, <1>12, <1>13
        DEF Next

(* Until the clock wraps, the bytes that a response of /get_snoop covers   *)
(* do not change while it is sent, unless a new recording is started.      *)
THEOREM ServedUnchangedAlways ==
  ASSUME NoWrap
  PROVE  Spec => []ServedUnchanged
<1>1. Init => EndInv /\ ServedInv
  BY DEF Init, EndInv, ServedInv
<1>2. TypeOK /\ TypeOK' /\ EndInv /\ ServedInv /\ [Next]_vars => EndInv' /\ ServedInv'
  BY EndStep, ServedStep
<1>3. ServedInv => ServedUnchanged
  BY DEF ServedInv, ServedUnchanged
<1> QED BY <1>1, <1>2, <1>3, TypeCorrect, PTL DEF Spec
-----------------------------------------------------------------------------
(* What can be read back, without recursion: there are offsets that begin  *)
(* with 0, each but p with a frame that is followed by one of them.        *)
IsFrame(b, o, m) ==
  /\ b[o] = [of |-> m, at |-> 0]
  /\ \A k \in 1 .. Size[m] : b[o + k] = [of |-> m, at |-> k]
Leads(b, p, o, starts) ==
  \/ o = p
  \/ \E m \in Messages :
       IsFrame(b, o, m) /\ o + Size[m] < p /\ o + Size[m] + 1 \in starts
FramesTo(b, p) ==
  \E starts \in SUBSET (0 .. p) : 0 \in starts /\ \A o \in starts : Leads(b, p, o, starts)

(* Frames are complete up to position, or to the frame that is written.    *)
(* That one is complete behind its length byte, and goes where position    *)
(* was, unless /start_snoop has torn the buffer.                           *)
RecordInv ==
  ~torn =>
    IF owner = NoOne
    THEN FramesTo(buffer, position)
    ELSE /\ FramesTo(buffer, entry.start)
         /\ \A k \in 1 .. Size[entry.m] :
              buffer[entry.start + k] = [of |-> entry.m, at |-> k]
         /\ IF entry.loaded = Never
            THEN position = entry.start
            ELSE /\ entry.loaded = entry.start
                 /\ buffer[entry.start] = [of |-> entry.m, at |-> 0]

LEMMA NoFrames == \A b : FramesTo(b, 0)
<1> SUFFICES ASSUME NEW b PROVE FramesTo(b, 0)
  OBVIOUS
<1>1. {0} \in SUBSET (0 .. 0) /\ \A o \in {0} : Leads(b, 0, o, {0})
  BY DEF Leads
<1> QED BY <1>1 DEF FramesTo

LEMMA FramesKept ==
  ASSUME NEW b, NEW c, NEW p \in Nat, FramesTo(b, p), \A o \in 0 .. p - 1 : c[o] = b[o]
  PROVE  FramesTo(c, p)
<1>1. PICK starts \in SUBSET (0 .. p) :
        0 \in starts /\ \A o \in starts : Leads(b, p, o, starts)
  BY DEF FramesTo
<1>2. ASSUME NEW o \in starts
      PROVE  Leads(c, p, o, starts)
  <2>1. CASE o = p
    BY <2>1 DEF Leads
  <2>2. CASE o # p
    <3>1. PICK m \in Messages :
            IsFrame(b, o, m) /\ o + Size[m] < p /\ o + Size[m] + 1 \in starts
      BY <1>1, <2>2 DEF Leads
    <3>2. Size[m] \in Nat /\ o \in 0 .. p
      BY SizeAssumption
    <3>3. o \in 0 .. p - 1 /\ \A k \in 1 .. Size[m] : o + k \in 0 .. p - 1
      BY <3>1, <3>2
    <3>4. IsFrame(c, o, m)
      BY <3>1, <3>3 DEF IsFrame
    <3> QED BY <3>1, <3>4 DEF Leads
  <2> QED BY <2>1, <2>2
<1> QED BY <1>1, <1>2 DEF FramesTo

LEMMA FramesAppend ==
  ASSUME NEW b, NEW p \in Nat, FramesTo(b, p), NEW m \in Messages, IsFrame(b, p, m)
  PROVE  FramesTo(b, p + Size[m] + 1)
<1> DEFINE q == p + Size[m] + 1
<1>0. Size[m] \in Nat
  BY SizeAssumption
<1>1. PICK starts \in SUBSET (0 .. p) :
        0 \in starts /\ \A o \in starts : Leads(b, p, o, starts)
  BY DEF FramesTo
<1> DEFINE all == starts \cup {p, q}
<1>2. all \in SUBSET (0 .. q) /\ 0 \in all /\ p + Size[m] < q
  <2>1. p \in 0 .. q /\ q \in 0 .. q /\ p + Size[m] < q
    BY <1>0
  <2>2. \A x \in 0 .. p : x \in 0 .. q
    BY <1>0
  <2> HIDE DEF q
  <2> QED BY <1>1, <2>1, <2>2
<1>3. ASSUME NEW o \in all
      PROVE  Leads(b, q, o, all)
  <2>1. CASE o = q
    BY <2>1 DEF Leads
  <2>2. CASE o = p
    BY <1>2, <2>2 DEF Leads
  <2>3. CASE o \in starts /\ o # p
    <3>1. PICK n \in Messages :
            IsFrame(b, o, n) /\ o + Size[n] < p /\ o + Size[n] + 1 \in starts
      BY <1>1, <2>3 DEF Leads
    <3>2. o + Size[n] < q
      <4>1. Size[n] \in Nat /\ o \in Nat
        BY <2>3, SizeAssumption
      <4> QED BY <1>0, <3>1, <4>1
    <3> QED BY <3>1, <3>2 DEF Leads
  <2> QED BY <2>1, <2>2, <2>3
<1> QED BY <1>2, <1>3 DEF FramesTo

LEMMA RecordInit == Init => RecordInv
BY NoFrames DEF Init, RecordInv

(* A recorder's steps.                                                     *)
LEMMA RecorderRecords ==
  ASSUME TypeOK, FrameInv, RecordInv, NEW t \in Recorders,
         \/ \E m \in Messages : SnoopEncode(t, m) \/ SnoopReset(t, m)
         \/ SnoopLength(t) \/ SnoopStore(t)
  PROVE  RecordInv'
<1> USE NoOneAssumption
<1>1. position \in Nat /\ BufSize \in Nat /\ buffer \in [Offsets -> Bytes]
  BY SizeAssumption DEF TypeOK
<1>2. ASSUME NEW m \in Messages, SnoopEncode(t, m)
      PROVE  RecordInv'
  <2>1. owner = NoOne /\ UNCHANGED <<torn, position>> /\ Size[m] \in Nat
    BY <1>2, SizeAssumption DEF SnoopEncode, Free, history
  <2>2. CASE position + 1 + Size[m] <= BufSize
    <3>1. buffer' = WithFrame(m) /\ owner' = t
          /\ entry' = [m |-> m, start |-> position, loaded |-> Never]
      BY <1>2, <2>2 DEF SnoopEncode
    <3>2. \A o \in 0 .. position - 1 : buffer'[o] = buffer[o]
      <4>1. \A o \in 0 .. position - 1 : o \in Offsets /\ o - position \notin 1 .. Size[m]
        BY <1>1, <2>1, <2>2 DEF Offsets
      <4> QED BY <3>1, <4>1 DEF WithFrame
    <3>3. \A k \in 1 .. Size[m] : buffer'[position + k] = [of |-> m, at |-> k]
      <4>1. \A k \in 1 .. Size[m] : /\ position + k \in Offsets
                                    /\ (position + k) - position = k
        BY <1>1, <2>1, <2>2 DEF Offsets
      <4> QED BY <3>1, <4>1 DEF WithFrame
    <3>4. ~torn => FramesTo(buffer', position)
      BY <1>1, <2>1, <3>2, FramesKept DEF RecordInv
    <3> QED BY <2>1, <3>1, <3>3, <3>4 DEF RecordInv
  <2>3. CASE ~(position + 1 + Size[m] <= BufSize)
    BY <1>2, <2>1, <2>3 DEF SnoopEncode, RecordInv, record
  <2> QED BY <2>2, <2>3
<1>3. ASSUME NEW m \in Messages, SnoopReset(t, m)
      PROVE  RecordInv'
  BY <1>3, NoFrames DEF SnoopReset, Free, RecordInv, record
<1>4. CASE SnoopLength(t)
  <2>1. /\ owner = t /\ entry.loaded = Never /\ UNCHANGED <<owner, torn>>
        /\ buffer' = [buffer EXCEPT ![entry.start] = [of |-> entry.m, at |-> 0]]
        /\ entry' = [entry EXCEPT !.loaded = position]
    BY <1>4 DEF SnoopLength, history
  <2>2. /\ entry.m \in Messages /\ entry.start + 1 + Size[entry.m] <= BufSize
        /\ owner # NoOne
    BY <2>1 DEF FrameInv
  <2>3. entry \in [m : Messages, start : 0 .. BufSize, loaded : {Never} \cup 0 .. BufSize]
    <3>1. entry # NoEntry
      BY <2>2 DEF NoEntry
    <3> QED BY <3>1 DEF TypeOK
  <2>4. entry'.m = entry.m /\ entry'.start = entry.start /\ entry'.loaded = position
    BY <2>1, <2>3
  <2>5. entry.start \in Nat /\ Size[entry.m] \in Nat
    BY <2>2, <2>3, SizeAssumption
  <2>6. /\ entry.start \in Offsets
        /\ \A o \in 0 .. entry.start - 1 : o \in Offsets /\ o # entry.start
        /\ \A k \in 1 .. Size[entry.m] :
             entry.start + k \in Offsets /\ entry.start + k # entry.start
    <3>1. \A s, n \in Nat : s + 1 + n <= BufSize =>
            /\ s \in Offsets
            /\ \A o \in 0 .. s - 1 : o \in Offsets /\ o # s
            /\ \A k \in 1 .. n : s + k \in Offsets /\ s + k # s
      BY <1>1 DEF Offsets
    <3> QED BY <2>2, <2>5, <3>1
  <2>7. /\ buffer'[entry.start] = [of |-> entry.m, at |-> 0]
        /\ \A o \in 0 .. entry.start - 1 : buffer'[o] = buffer[o]
        /\ \A k \in 1 .. Size[entry.m] : buffer'[entry.start + k] = buffer[entry.start + k]
    BY <1>1, <2>1, <2>6
  <2> SUFFICES ASSUME ~torn
               PROVE  RecordInv'
    BY <2>1 DEF RecordInv
  <2>8. /\ FramesTo(buffer, entry.start) /\ position = entry.start
        /\ \A k \in 1 .. Size[entry.m] :
             buffer[entry.start + k] = [of |-> entry.m, at |-> k]
    BY <2>1, <2>2 DEF RecordInv
  <2>9. FramesTo(buffer', entry.start)
    BY <2>5, <2>7, <2>8, FramesKept
  <2>10. position # Never
    BY <1>1
  <2> QED BY <2>1, <2>2, <2>4, <2>7, <2>8, <2>9, <2>10 DEF RecordInv
<1>5. CASE SnoopStore(t)
  <2>1. /\ owner = t /\ entry.loaded # Never /\ UNCHANGED <<buffer, torn>>
        /\ position' = EndOfFrame(entry.loaded, entry.m) /\ owner' = NoOne
    BY <1>5 DEF SnoopStore, history
  <2> SUFFICES ASSUME ~torn
               PROVE  RecordInv'
    BY <2>1 DEF RecordInv
  <2>2. entry.m \in Messages /\ owner # NoOne
    BY <2>1 DEF FrameInv
  <2>3. entry.start \in Nat
    <3>1. entry # NoEntry
      BY <2>2 DEF NoEntry
    <3> QED BY <3>1, SizeAssumption DEF TypeOK
  <2>4. /\ FramesTo(buffer, entry.start) /\ entry.loaded = entry.start
        /\ IsFrame(buffer, entry.start, entry.m)
    BY <2>1, <2>2 DEF RecordInv, IsFrame
  <2>5. FramesTo(buffer, entry.start + Size[entry.m] + 1)
    BY <2>2, <2>3, <2>4, FramesAppend
  <2> QED BY <2>1, <2>4, <2>5 DEF RecordInv, EndOfFrame
<1> QED BY <1>2, <1>3, <1>4, <1>5

LEMMA RecordStep ==
  ASSUME TypeOK, FrameInv, RecordInv, [Next]_vars
  PROVE  RecordInv'
<1>1. ASSUME UNCHANGED <<buffer, position, owner, entry, torn>>
      PROVE  RecordInv'
  BY <1>1 DEF RecordInv
<1>2. CASE UNCHANGED vars
  BY <1>1, <1>2 DEF vars, record, history
<1>3. CASE \E t \in Recorders :
             \/ \E m \in Messages : SnoopEncode(t, m) \/ SnoopReset(t, m)
             \/ SnoopLength(t) \/ SnoopStore(t)
  BY <1>3, RecorderRecords
<1>4. CASE \E t \in Recorders, m \in Messages : CheckFilter(t, m)
  BY <1>1, <1>4 DEF CheckFilter, record, history
<1>5. CASE \/ Tick \/ GetSnoop \/ ResponseSent
           \/ \E m \in Messages : Filter(m)
           \/ \E ms \in Durations : StartSnoop(ms)
  BY <1>1, <1>5 DEF Tick, GetSnoop, Respond, ResponseSent, Filter, StartSnoop, record, history
<1>6. CASE Activate
  <2>1. CASE isActive
    BY <1>1, <1>6, <2>1 DEF Activate, record, history
  <2>2. CASE ~isActive
    BY <1>6, <2>2, NoFrames DEF Activate, Free, record, RecordInv
  <2> QED BY <2>1, <2>2
<1>7. CASE StartSnoopResets
  <2>1. position' = 0 /\ torn' = (torn \/ BeginsTorn) /\ UNCHANGED <<buffer, owner, entry>>
    BY <1>7 DEF StartSnoopResets, record
  <2>2. CASE owner = NoOne
    BY <2>1, <2>2, NoFrames DEF RecordInv
  <2>3. CASE owner # NoOne
    <3>1. entry.start \in Nat
      <4>1. entry # NoEntry
        BY <2>3, NoOneAssumption DEF FrameInv, NoEntry
      <4> QED BY <4>1, SizeAssumption DEF TypeOK
    <3>2. ~torn' => ~torn /\ (entry.loaded = Never => entry.start = 0)
      <4>1. ~torn' => ~torn /\ ~BeginsTorn
        BY <2>1
      <4>2. ~BeginsTorn => (entry.loaded = Never => ~(entry.start > 0))
        BY <2>3 DEF BeginsTorn
      <4>3. ~(entry.start > 0) => entry.start = 0
        BY <3>1
      <4> QED BY <4>1, <4>2, <4>3
    <3> QED BY <2>1, <2>3, <3>2 DEF RecordInv
  <2> QED BY <2>2, <2>3
<1>8. CASE Reboot
  BY <1>8, NoFrames DEF Reboot, RecordInv
<1> QED BY <1>2, <1>3, <1>4, <1>5, <1>6, <1>7, <1>8 DEF Next

(* The recursive definition.  It has a solution: an offset from which      *)
(* there is a set of offsets that lead to position.                        *)
WholeBody(g, o) ==
  \/ o = position
  \/ /\ o < position
     /\ FrameAt(o) # NoOne
     /\ o + Size[FrameAt(o)] < position
     /\ Complete(o, FrameAt(o))
     /\ g[o + Size[FrameAt(o)] + 1]
Follows(o, starts) ==
  \/ o = position
  \/ /\ o < position
     /\ FrameAt(o) # NoOne
     /\ o + Size[FrameAt(o)] < position
     /\ Complete(o, FrameAt(o))
     /\ o + Size[FrameAt(o)] + 1 \in starts
Reaches(o) ==
  \E starts \in SUBSET (0 .. BufSize) :
    o \in starts /\ \A x \in starts : Follows(x, starts)

LEMMA FrameAtTyped ==
  ASSUME TypeOK, NEW o \in Offsets, FrameAt(o) # NoOne
  PROVE  FrameAt(o) \in Messages /\ Size[FrameAt(o)] \in Nat
<1>1. buffer[o] \in Bytes /\ buffer[o] # Blank /\ FrameAt(o) = buffer[o].of
  BY DEF TypeOK, FrameAt
<1>2. FrameAt(o) \in Messages
  BY <1>1 DEF Bytes
<1> QED BY <1>2, SizeAssumption

LEMMA WholeIs ==
  TypeOK => WholeFrom = [o \in 0 .. BufSize |-> WholeBody(WholeFrom, o)]
<1> SUFFICES ASSUME TypeOK
             PROVE  WholeFrom = [o \in 0 .. BufSize |-> WholeBody(WholeFrom, o)]
  OBVIOUS
<1> DEFINE g == [o \in 0 .. BufSize |-> Reaches(o)]
<1>1. ASSUME NEW o \in 0 .. BufSize
      PROVE  Reaches(o) <=> WholeBody(g, o)
  <2>1. position \in 0 .. BufSize /\ BufSize \in Nat
    BY SizeAssumption DEF TypeOK
  <2> DEFINE n == o + Size[FrameAt(o)] + 1
             Step == /\ o < position
                     /\ FrameAt(o) # NoOne
                     /\ o + Size[FrameAt(o)] < position
                     /\ Complete(o, FrameAt(o))
  <2>2. Step => n \in 0 .. BufSize
    <3> SUFFICES ASSUME o < position, FrameAt(o) # NoOne, o + Size[FrameAt(o)] < position
                 PROVE  n \in 0 .. BufSize
      OBVIOUS
    <3>1. o \in Offsets
      BY <2>1 DEF Offsets
    <3>2. Size[FrameAt(o)] \in Nat
      BY <3>1, FrameAtTyped
    <3> QED BY <2>1, <3>2
  <2>3. WholeBody(g, o) <=> o = position \/ (Step /\ g[n])
    BY DEF WholeBody
  <2>4. \A starts : Follows(o, starts) <=> o = position \/ (Step /\ n \in starts)
    BY DEF Follows
  <2> HIDE DEF n, Step
  <2>5. ASSUME Reaches(o) PROVE WholeBody(g, o)
    <3>1. PICK starts \in SUBSET (0 .. BufSize) :
            o \in starts /\ \A x \in starts : Follows(x, starts)
      BY <2>5 DEF Reaches
    <3>2. o = position \/ (Step /\ n \in starts)
      BY <2>4, <3>1
    <3>3. n \in starts => Reaches(n) /\ n \in 0 .. BufSize
      BY <3>1 DEF Reaches
    <3> QED BY <2>3, <3>2, <3>3
  <2>6. ASSUME o = position PROVE Reaches(o)
    <3>1. {o} \in SUBSET (0 .. BufSize) /\ \A x \in {o} : Follows(x, {o})
      BY <2>6 DEF Follows
    <3> QED BY <3>1 DEF Reaches
  <2>7. ASSUME Step, g[n] PROVE Reaches(o)
    <3>1. Reaches(n)
      BY <2>2, <2>7
    <3>2. PICK starts \in SUBSET (0 .. BufSize) :
            n \in starts /\ \A x \in starts : Follows(x, starts)
      BY <3>1 DEF Reaches
    <3> DEFINE all == starts \cup {o}
    <3>3. all \in SUBSET (0 .. BufSize) /\ o \in all /\ n \in all
      BY <3>2
    <3>4. \A x \in starts : Follows(x, all)
      BY <3>2 DEF Follows
    <3>5. Follows(o, all)
      BY <2>4, <2>7, <3>3
    <3>6. \A x \in all : Follows(x, all)
      BY <3>4, <3>5
    <3> HIDE DEF all
    <3> QED BY <3>3, <3>6 DEF Reaches
  <2> QED BY <2>3, <2>5, <2>6, <2>7
<1>2. g = [o \in 0 .. BufSize |-> WholeBody(g, o)]
  BY <1>1 DEF WholeBody, Reaches
<1> HIDE DEF g
<1>3. \E f : f = [o \in 0 .. BufSize |-> WholeBody(f, o)]
  BY <1>2
<1>4. WholeFrom = CHOOSE f : f = [o \in 0 .. BufSize |-> WholeBody(f, o)]
  BY DEF WholeFrom, WholeBody
<1> QED BY <1>3, <1>4

(* Offsets that lead to position are whole: by induction from behind.      *)
LEMMA FramesAreWhole == TypeOK /\ FramesTo(buffer, position) => ContentWhole
<1> SUFFICES ASSUME TypeOK, FramesTo(buffer, position)
             PROVE  ContentWhole
  OBVIOUS
<1>1. position \in 0 .. BufSize /\ BufSize \in Nat
  BY SizeAssumption DEF TypeOK
<1>2. PICK starts \in SUBSET (0 .. position) :
        0 \in starts /\ \A o \in starts : Leads(buffer, position, o, starts)
  BY DEF FramesTo
<1> DEFINE Bad == {o \in starts : ~WholeFrom[o]}
           Left == {n \in Nat : position - n \in Bad}
<1>3. Bad = {}
  <2> SUFFICES ASSUME Bad # {} PROVE FALSE
    OBVIOUS
  <2>1. Left # {}
    <3>1. PICK o \in Bad : TRUE
      OBVIOUS
    <3>2. o \in 0 .. position
      OBVIOUS
    <3>3. position - o \in Nat /\ position - (position - o) = o
      BY <1>1, <3>2
    <3> QED BY <3>1, <3>3
  <2>2. PICK n \in Left : \A k \in Left : ~(<<k, n>> \in OpToRel(<, Nat))
    BY <2>1, NatLessThanWellFounded, WFMin
  <2> DEFINE o == position - n
  <2>3. n \in Nat /\ o \in starts /\ ~WholeFrom[o] /\ o \in 0 .. BufSize
    <3>1. n \in Nat /\ o \in starts /\ ~WholeFrom[o]
      BY <2>2
    <3>2. \A x \in 0 .. position : x \in 0 .. BufSize
      BY <1>1
    <3> QED BY <3>1, <3>2
  <2>4. WholeFrom[o] <=> WholeBody(WholeFrom, o)
    <3> HIDE DEF o
    <3>1. WholeFrom = [x \in 0 .. BufSize |-> WholeBody(WholeFrom, x)]
      BY WholeIs
    <3> QED BY <2>3, <3>1
  <2>5. o # position
    BY <2>3, <2>4 DEF WholeBody
  <2>6. PICK m \in Messages : /\ IsFrame(buffer, o, m) /\ o + Size[m] < position
                              /\ o + Size[m] + 1 \in starts
    BY <1>2, <2>3, <2>5 DEF Leads
  <2>7. Size[m] \in Nat
    BY SizeAssumption
  <2>8. n - Size[m] - 1 \in Nat /\ n - Size[m] - 1 < n
        /\ position - (n - Size[m] - 1) = o + Size[m] + 1 /\ o < position
    BY <1>1, <2>3, <2>5, <2>6, <2>7
  <2>9. n - Size[m] - 1 \notin Left
    BY <2>2, <2>3, <2>8 DEF OpToRel
  <2>10. WholeFrom[o + Size[m] + 1]
    BY <2>6, <2>8, <2>9
  <2> HIDE DEF o
  <2>11. FrameAt(o) = m /\ FrameAt(o) # NoOne
    <3>1. buffer[o] = [of |-> m, at |-> 0] /\ [of |-> m, at |-> 0].of = m
          /\ [of |-> m, at |-> 0].at = 0
      BY <2>6 DEF IsFrame
    <3>2. [of |-> m, at |-> 0] # Blank
      BY <3>1, BlankAssumption
    <3> QED BY <3>1, <3>2, NoOneAssumption DEF FrameAt
  <2>12. Complete(o, m)
    BY <2>6 DEF IsFrame, Complete
  <2> QED BY <2>3, <2>4, <2>6, <2>8, <2>10, <2>11, <2>12 DEF WholeBody
<1> QED BY <1>2, <1>3 DEF ContentWhole

(* The log of property changes can be read back at any time, frame by      *)
(* frame, and so can a recording that /start_snoop has not torn, for any   *)
(* sizes of messages and buffer and any interleaving of recorders (Snoop). *)
THEOREM RecordingWholeAlways == Spec => []RecordingWhole
<1>1. Init => TypeOK /\ FrameInv /\ RecordInv
  BY InitTyped, RecordInit
<1>2. TypeOK /\ FrameInv /\ RecordInv /\ [Next]_vars => TypeOK' /\ FrameInv' /\ RecordInv'
  BY StepTyped, RecordStep
<1>3. TypeOK /\ FrameInv /\ RecordInv => RecordingWhole
  <2> SUFFICES ASSUME TypeOK, FrameInv, RecordInv, ~torn
               PROVE  ContentWhole
    BY DEF RecordingWhole
  <2>1. FramesTo(buffer, position)
    BY NoFrames DEF RecordInv, FrameInv
  <2> QED BY <2>1, FramesAreWhole
<1> QED BY <1>1, <1>2, <1>3, PTL DEF Spec
=============================================================================

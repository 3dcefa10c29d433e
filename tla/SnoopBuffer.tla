----------------------------- MODULE SnoopBuffer -----------------------------
(***************************************************************************)
(* The buffer that records messages (lib/model/snoop_buffer.h) and the     *)
(* HTTP handlers that use it (src/main.cpp).  There are two such buffers:  *)
(*   - snoop_buffer, into which the receive and the send tasks record      *)
(*     while a recording runs that /start_snoop has started;               *)
(*   - the buffer of props_logger, which is active for ever, and into      *)
(*     which every task that changes a model records, unless the property  *)
(*     is filtered (lib/model/props_logger.h).                             *)
(*                                                                         *)
(* A recorded message is a length byte and its encoding.  Each byte is     *)
(* represented by the message it belongs to and its place in the frame.    *)
(* What a failed encoding leaves behind position is left out.              *)
(***************************************************************************)
EXTENDS Integers

CONSTANTS
  Recorders,     \* the tasks that call Snoop
  Messages,      \* the messages they record
  Size,          \* Size[m] : length of the encoding of m
  BufSize,       \* buf_size
  SizeRange,     \* 2^32 : a size_t is computed modulo this
  ClockRange,    \* 2^32 : Millis() is the time modulo this
  Durations,     \* the for_ms of /start_snoop
  Horizon        \* bound: the time after a reset at which a run ends

ASSUME SizeAssumption ==
  /\ BufSize \in Nat \ {0}
  /\ Size \in [Messages -> Nat \ {0}]
  /\ SizeRange \in Nat /\ \A m \in Messages : SizeRange > BufSize + Size[m]
ASSUME ClockAssumption ==
  /\ ClockRange \in Nat \ {0}
  /\ Horizon \in Nat
  /\ Durations \subseteq 1 .. ClockRange - 1

NoOne == "no one"
ASSUME NoOneAssumption == NoOne \notin Recorders \cup Messages
Blank == [of |-> "nothing", at |-> 0]
ASSUME BlankAssumption == Blank.of \notin Messages
Never == -1
Idle == -1      \* handler: no /start_snoop under way,
Resetting == 0  \*   all done but position = 0, or else to activate for so long

VARIABLES
  alwaysActive,  \* set in the logger, whose constructor calls Activate(-1)
  buffer,    \* buffer[o] : the byte at offset o
  position,  \* where the next frame begins
  endMs,     \* end_ms
  now,       \* milliseconds since the reset
  owner,     \* the recorder that holds lock_abs over several steps
  entry,     \* what it records: the message, where its frame begins, and
             \*   position as loaded for the update, Never before that
  handler,   \* what /start_snoop has yet to do
  response,  \* bytes that a response of /get_snoop or /get_props covers
  served,    \* history: the buffer at the time of that response
  renewed,   \* history: a recording was started after that response
  torn,      \* history: position was set to 0 within a later frame
  begun,     \* history: when Activate took effect last
  lasts,     \* history: the for_ms it was given
  overrun,   \* a frame was written behind the buffer
  filtered,  \* filtered_props: what the logger ignores
  passed,    \* passed[t] : what task t logs, the filter having let it pass
  late       \* history: who logged what after it was filtered

record == <<owner, entry>>
http == <<handler, response, served, renewed>>
history == <<begun, lasts, torn>>
logger == <<filtered, passed, late>>
vars == <<alwaysActive, buffer, position, endMs, now, record, http, history,
          overrun, logger>>

Offsets == 0 .. BufSize - 1
Bytes == {Blank} \cup
         {[of |-> m, at |-> k] : m \in Messages, k \in 0 .. BufSize}
NoEntry == [m |-> NoOne, start |-> 0, loaded |-> Never]

TypeOK ==
  /\ alwaysActive \in BOOLEAN
  /\ buffer \in [Offsets -> Bytes]
  /\ position \in 0 .. BufSize
  /\ endMs \in 0 .. ClockRange - 1
  /\ now \in 0 .. Horizon
  /\ owner \in Recorders \cup {NoOne}
  /\ entry \in {NoEntry} \cup [m : Messages, start : 0 .. BufSize,
                               loaded : {Never} \cup 0 .. BufSize]
  /\ handler \in {Idle, Resetting} \cup Durations
  /\ response \in {Never} \cup 0 .. BufSize
  /\ served \in [Offsets -> Bytes]
  /\ renewed \in BOOLEAN
  /\ begun \in {Never} \cup 0 .. Horizon
  /\ lasts \in {0} \cup Durations
  /\ torn \in BOOLEAN /\ overrun \in BOOLEAN
  /\ filtered \subseteq Messages
  /\ passed \in [Recorders -> Messages \cup {NoOne}]
  /\ late \subseteq Recorders \X filtered

Empty == [o \in Offsets |-> Blank]

Init ==
  /\ alwaysActive \in BOOLEAN
  /\ buffer = Empty
  /\ position = 0
  /\ endMs = 0
  /\ now = 0
  /\ owner = NoOne /\ entry = NoEntry
  /\ handler = Idle /\ response = Never
  /\ served = Empty /\ renewed = FALSE
  /\ begun = Never /\ lasts = 0 /\ torn = FALSE
  /\ overrun = FALSE
  /\ filtered = {} /\ passed = [t \in Recorders |-> NoOne] /\ late = {}

(* Anything may call abort(); malloc gives a new buffer.                   *)
Reboot ==
  /\ buffer' = Empty
  /\ position' = 0
  /\ endMs' = 0
  /\ now' = 0
  /\ owner' = NoOne /\ entry' = NoEntry
  /\ handler' = Idle /\ response' = Never
  /\ served' = Empty /\ renewed' = FALSE
  /\ begun' = Never /\ lasts' = 0 /\ torn' = FALSE
  /\ overrun' = FALSE
  /\ filtered' = {} /\ passed' = [t \in Recorders |-> NoOne] /\ late' = {}
  /\ UNCHANGED alwaysActive
-----------------------------------------------------------------------------
Millis == now % ClockRange
isActive == alwaysActive \/ endMs > Millis

Tick ==
  /\ ~overrun
  /\ now < Horizon
  /\ now' = now + 1
  /\ UNCHANGED <<alwaysActive, buffer, position, endMs, record, http,
                 history, overrun, logger>>

(* lock_abs is free: what follows runs under a LockGuard in one step.      *)
Free == owner = NoOne /\ ~overrun

(* The room pb_ostream_from_buffer is told of: buf_size - start_from.      *)
Room == (BufSize - (position + 1)) % SizeRange

WithFrame(m) ==
  [o \in Offsets |-> IF o - position \in 1 .. Size[m]
                     THEN [of |-> m, at |-> o - position]
                     ELSE buffer[o]]

(* /filter, which locks the logger and not its buffer.                     *)
Filter(m) ==
  /\ alwaysActive /\ ~overrun
  /\ filtered' = filtered \cup {m}
  /\ UNCHANGED <<alwaysActive, buffer, position, endMs, now, record, http,
                 history, overrun, passed, late>>

(* PropsLogger::log: look at the filter, under the lock of the logger.     *)
CheckFilter(t, m) ==
  /\ alwaysActive /\ ~overrun
  /\ owner # t /\ passed[t] = NoOne
  /\ m \notin filtered
  /\ passed' = [passed EXCEPT ![t] = m]
  /\ UNCHANGED <<alwaysActive, buffer, position, endMs, now, record, http,
                 history, overrun, filtered, late>>

(* Mutant: what has passed the filter once is not looked up again.         *)
CallsSnoopAgain(t, m) ==
  /\ alwaysActive => passed[t] = m
  /\ late' = IF m \in filtered THEN late \cup {<<t, m>>} ELSE late
  /\ UNCHANGED <<filtered, passed>>

(* A call of Snoop: the logger makes it for what has passed its filter.    *)
CallsSnoop(t, m) ==
  /\ alwaysActive => passed[t] = m
  /\ passed' = [passed EXCEPT ![t] = NoOne]
  /\ late' = IF m \in filtered THEN late \cup {<<t, m>>} ELSE late
  /\ UNCHANGED filtered

(* Snoop: encode the message behind its length byte.                       *)
SnoopEncode(t, m) ==
  /\ CallsSnoop(t, m)
  /\ Free
  /\ isActive
  /\ Size[m] <= Room
  /\ IF position + 1 + Size[m] <= BufSize
     THEN /\ buffer' = WithFrame(m)
          /\ owner' = t
          /\ entry' = [m |-> m, start |-> position, loaded |-> Never]
          /\ UNCHANGED overrun
     ELSE /\ overrun' = TRUE
          /\ UNCHANGED <<buffer, record>>
  /\ UNCHANGED <<alwaysActive, position, endMs, now, http, history>>

(* Snoop: the encoding does not fit, and the buffer is reset.              *)
SnoopReset(t, m) ==
  /\ CallsSnoop(t, m)
  /\ Free
  /\ isActive
  /\ Size[m] > Room
  /\ position' = 0
  /\ torn' = FALSE
  /\ UNCHANGED <<alwaysActive, buffer, endMs, now, record, http, begun, lasts,
                 overrun>>

(* Snoop: write the length byte, and load position anew to update it.      *)
SnoopLength(t) ==
  /\ owner = t /\ entry.loaded = Never
  /\ buffer' = [buffer EXCEPT ![entry.start] = [of |-> entry.m, at |-> 0]]
  /\ entry' = [entry EXCEPT !.loaded = position]
  /\ UNCHANGED <<alwaysActive, position, endMs, now, owner, http, history,
                 overrun, logger>>

(* Mutants: the length byte is counted twice, or not at all.               *)
EndOfFrameTwice(start, m) == start + Size[m] + 2
EndOfFrameShort(start, m) == start + Size[m]

EndOfFrame(start, m) == start + Size[m] + 1

SnoopStore(t) ==
  /\ owner = t /\ entry.loaded # Never
  /\ position' = EndOfFrame(entry.loaded, entry.m)
  /\ owner' = NoOne /\ entry' = NoEntry
  /\ UNCHANGED <<alwaysActive, buffer, endMs, now, http, history, overrun, logger>>
-----------------------------------------------------------------------------
(* /start_snoop is refused while a recording runs.                         *)
StartSnoop(ms) ==
  /\ handler = Idle
  /\ Free /\ ~isActive
  /\ handler' = ms
  /\ UNCHANGED <<alwaysActive, buffer, position, endMs, now, record,
                 response, served, renewed, history, overrun, logger>>

(* end_ms is a uint32_t.                                                   *)
EndAfter(ms) == (Millis + ms) % ClockRange

Activate ==
  /\ handler \in Durations
  /\ Free
  /\ IF isActive
     THEN UNCHANGED <<position, endMs, history, renewed>>
     ELSE /\ position' = 0
          /\ endMs' = EndAfter(handler)
          /\ begun' = now
          /\ lasts' = handler
          /\ torn' = FALSE
          /\ renewed' = TRUE
  /\ handler' = Resetting
  /\ UNCHANGED <<alwaysActive, buffer, now, record, response, served, overrun,
                 logger>>

(* A frame is begun behind others, and position not loaded to update it.   *)
BeginsTorn == owner # NoOne /\ entry.start > 0 /\ entry.loaded = Never

(* The handler sets position itself, without the lock.                     *)
StartSnoopResets ==
  /\ handler = Resetting /\ ~overrun
  /\ position' = 0
  /\ torn' = (torn \/ BeginsTorn)
  /\ handler' = Idle
  /\ UNCHANGED <<alwaysActive, buffer, endMs, now, record, response, served,
                 renewed, begun, lasts, overrun, logger>>

Respond ==
  /\ response' = position
  /\ served' = buffer
  /\ renewed' = FALSE
  /\ UNCHANGED <<alwaysActive, buffer, position, endMs, now, record, handler,
                 history, overrun, logger>>

(* Mutant: also while a recording runs.                                    *)
GetSnoopAnyTime ==
  /\ handler = Idle /\ response = Never
  /\ Free
  /\ Respond

(* /get_snoop, which is refused while a recording runs, and /get_props.    *)
(* The response refers to the buffer and is sent after the handler ends.   *)
GetSnoop ==
  /\ handler = Idle /\ response = Never
  /\ Free /\ (alwaysActive \/ ~isActive)
  /\ Respond

ResponseSent ==
  /\ response # Never /\ ~overrun
  /\ response' = Never
  /\ served' = Empty /\ renewed' = FALSE
  /\ UNCHANGED <<alwaysActive, buffer, position, endMs, now, record, handler,
                 history, overrun, logger>>
-----------------------------------------------------------------------------
Next ==
  \/ Tick
  \/ \E t \in Recorders :
       \/ \E m \in Messages :
            CheckFilter(t, m) \/ SnoopEncode(t, m) \/ SnoopReset(t, m)
       \/ SnoopLength(t) \/ SnoopStore(t)
  \/ \E m \in Messages : Filter(m)
  \/ \E ms \in Durations : StartSnoop(ms)
  \/ Activate
  \/ StartSnoopResets
  \/ GetSnoop
  \/ ResponseSent
  \/ Reboot

Spec == Init /\ [][Next]_vars
-----------------------------------------------------------------------------
(* What is recorded can be read back: from offset 0 on, frame follows      *)
(* frame, each complete, and the last one ends at position.                *)
FrameAt(o) ==
  IF buffer[o].at = 0 /\ buffer[o] # Blank THEN buffer[o].of ELSE NoOne
Complete(o, m) == \A k \in 1 .. Size[m] : buffer[o + k] = [of |-> m, at |-> k]
WholeFrom[o \in 0 .. BufSize] ==
  \/ o = position
  \/ /\ o < position
     /\ FrameAt(o) # NoOne
     /\ o + Size[FrameAt(o)] < position
     /\ Complete(o, FrameAt(o))
     /\ WholeFrom[o + Size[FrameAt(o)] + 1]
ContentWhole == WholeFrom[0]

(* The log of property changes can be read back at any time, and so can a  *)
(* recording, but for one case: /start_snoop, which sets position to 0     *)
(* without the lock, did so within a frame that is not the first one.      *)
RecordingWhole == ~torn => ContentWhole

(* A property that /filter has named is logged once more by a task at most:*)
(* when the task had looked at the filter before.                          *)
FilterBound ==
  \A t \in Recorders, m \in Messages : <<t, m>> \in late => passed[t] # m

(* What a response of /get_snoop covers does not change while it is sent,  *)
(* as long as no recording has been started meanwhile.                     *)
ServedUnchanged ==
  response # Never /\ ~renewed /\ ~alwaysActive
    => \A o \in 0 .. response - 1 : buffer[o] = served[o]

(* A recording runs for as long as /start_snoop says ("will run for %d"),  *)
(* and at no other time, whatever the 32-bit clock shows meanwhile.        *)
RunsForDuration ==
  ~alwaysActive => (isActive <=> begun # Never /\ now < begun + lasts)

(* A message that does not fit resets the buffer ("Resets on full, but     *)
(* loses one message").                                                    *)
ResetsOnFull == ~overrun
=============================================================================

------------------------------- MODULE Models -------------------------------
(***************************************************************************)
(* The models of the car and of the display, and everything that changes   *)
(* them (lib/model/model.h, lib/model_defs/model_defs.cpp):                *)
(*   - the event loop applies messages from the two buses (UpdateState);   *)
(*   - async_tcp runs the commands of the user (SetLight, SetFridgeState,  *)
(*     SetFridgePower), which patch the display's model;                   *)
(*   - HTTP /debug hands values to go() tasks of idle priority (DebugSet). *)
(* A change that HandlePropUpdate recognises as the press of a light       *)
(* button changes the display's model while the car's is still locked.     *)
(*                                                                         *)
(* A task is the sequence of operations it has yet to do: each is one      *)
(* access to shared state.  The value of a property is reduced to the      *)
(* fields the code looks at; "rest" stands for its other bytes.            *)
(***************************************************************************)
EXTENDS Integers, Sequences

CONSTANTS
  Props,        \* the properties that are modelled
  Lights,       \* the lights that are modelled
  Brightness,   \* the levels the user asks for, as ParseBrightness clips them
  Powers,       \* the fridge powers the user asks for
  Boot,         \* Boot[p] : initial value of property p
  Bus,          \* Bus[p] : values of p that arrive on a bus
  Debug,        \* Debug[p] : values of p that /debug sets
  Debuggers,    \* go() tasks of /debug
  UserWindow,   \* 600 ms, in units of the clock
  DebugWindow,  \* 500 ms
  Propagation   \* 300 ms

AllProps == {"528", "525", "526", "531"}
ModelNames == {"car", "display"}
ModelOf(p) == IF p = "528" THEN "car" ELSE "display"

(* The table lmp: what the code writes to set a light.                     *)
Selector(l) == CASE l = "outside_kitchen" -> 7
                 [] l = "inside_kitchen" -> 2
                 [] l = "door" -> 8
                 [] l = "tailgate" -> 6
SetBrightnessProp(l) == IF l = "inside_kitchen" THEN "525" ELSE "526"

Fields(p) ==
  CASE p = "528" -> {"active", "rest"}
    [] p = "531" -> {"on", "power", "rest"}
    [] OTHER -> {l \in Lights : SetBrightnessProp(l) = p}
                  \cup {"rest"} \cup (IF p = "526" THEN {"sel"} ELSE {})

ASSUME PropsAssumption == Props \subseteq AllProps
ASSUME ValueAssumption ==
  \A p \in Props : \A v \in Bus[p] \cup Debug[p] \cup {Boot[p]} :
    v \in [Fields(p) -> Nat]
ASSUME ArgumentAssumption ==
  /\ Lights \subseteq {"outside_kitchen", "inside_kitchen", "door", "tailgate"}
  /\ Brightness \subseteq 1 .. 100 /\ Powers \subseteq Nat
ASSUME WindowAssumption ==
  /\ UserWindow \in Nat /\ DebugWindow \in Nat /\ Propagation \in Nat
  /\ Propagation < DebugWindow /\ DebugWindow < UserWindow

Loop == "event_loop"
Tcp == "async_tcp"
Tasks == {Loop, Tcp} \cup Debuggers
None == "none"

ASSUME DebuggersAssumption == Debuggers \cap {Loop, Tcp, None} = {}

VARIABLES
  props,     \* props[p] : the value of p in its model
  owner,     \* owner[m] : who holds lock_abs of model m
  left,      \* left[m] : can_enable_at_us minus the time, -1 once it is past
  job,       \* job[t] : the operations t has yet to do
  told,      \* history: told[p] : the value HandlePropUpdate was called with last
  want,      \* history: want[f] : what the user or a button seen on the bus
             \*   set field f of the display to, until the window ends
             \*   that was asked for
  promised,  \* history: promised[m] : the longest window asked for, as left[m]
  lapsed,    \* history: the fields whose window has ended before that
  missed     \* history: the properties with a change that HandlePropUpdate
             \*   was not told of, or told of in another order

vars == <<props, owner, left, job, told, want, promised, lapsed, missed>>

(* The fields of the display's model that the code sets.                   *)
Settable == Lights \cup {"sel", "on", "power"}
Unset == -1
Nothing == [f \in Settable |-> Unset]
-----------------------------------------------------------------------------
(* The operations, and the functions of the code that consist of them.     *)
Lock(m) == [do |-> "lock", m |-> m]
Unlock(m) == [do |-> "unlock", m |-> m]
Guarded(m, op) == <<Lock(m), op, Unlock(m)>>

Write(p, v) == [do |-> "write", p |-> p, v |-> v]
Sleep(ms) == [do |-> "sleep", ms |-> ms]

(* Mutant: the lock is not given back.                                     *)
DisableUpdatesForKeepsLock(m, ms) ==
  <<Lock(m), [do |-> "disable", m |-> m, ms |-> ms]>>

DisableUpdatesFor(m, ms) == Guarded(m, [do |-> "disable", m |-> m, ms |-> ms])

(* data holds the masked fields only.                                      *)
UpdateMasked(p, data) ==
  IF p \in Props
  THEN Guarded(ModelOf(p), [do |-> "patch", p |-> p, data |-> data])
  ELSE <<>>

(* A message of another size than the property changes nothing.            *)
UpdateState(p, v) == Guarded(ModelOf(p), [do |-> "apply", p |-> p, v |-> v])

(* Mutant: without the LockGuard.                                          *)
UpdateUnguarded(p, v) == <<[do |-> "notify", p |-> p, v |-> v], Write(p, v)>>

(* Update calls HandlePropUpdate before it takes the lock.                 *)
Update(p, v) == <<[do |-> "notify", p |-> p, v |-> v]>>
                  \o Guarded(ModelOf(p), Write(p, v))

DebugSet(m, p, v) ==
  DisableUpdatesFor(m, DebugWindow)
    \o IF ModelOf(p) = m THEN Update(p, v) ELSE <<>>

SetSelector(n) == UpdateMasked("526", [f \in {"sel"} |-> n])

(* Mutant: messages are not held off.                                      *)
SetLightNoWindow(l, b, off) ==
  SetSelector(Selector(l))
    \o UpdateMasked(SetBrightnessProp(l), [f \in {l} |-> b])
    \o IF off THEN <<Sleep(Propagation)>> \o SetSelector(0) ELSE <<>>

SetLight(l, b, off) ==
  DisableUpdatesFor("display", UserWindow)
    \o SetSelector(Selector(l))
    \o UpdateMasked(SetBrightnessProp(l), [f \in {l} |-> b])
    \o IF off THEN <<Sleep(Propagation)>> \o SetSelector(0) ELSE <<>>

SetFridge(f, n) ==
  DisableUpdatesFor("display", UserWindow)
    \o UpdateMasked("531", [g \in {f} |-> n])

(* Mutant: a cleared selector counts as a press too.                       *)
ButtonPressOnSelector(p, new, old) ==
  IF p = "526" /\ new["sel"] # old["sel"] /\ new["sel"] = 0
  THEN DisableUpdatesFor("display", UserWindow) \o SetSelector(0)
  ELSE <<>>

(* HandlePropUpdate takes a light that is no longer active for the press   *)
(* of its button, and clears the selector.                                 *)
ButtonPress(p, new, old) ==
  IF p = "528" /\ new["active"] # old["active"] /\ new["active"] = 0
  THEN DisableUpdatesFor("display", UserWindow) \o SetSelector(0)
  ELSE <<>>

(* Task t has called HandlePropUpdate for p, and has yet to write.         *)
Announced(t, p) ==
  /\ \E i \in DOMAIN job[t] : job[t][i].do = "write" /\ job[t][i].p = p
  /\ \A i \in DOMAIN job[t] : job[t][i].do # "notify"

(* What HandlePropUpdate makes of told: it returns early on equal values.  *)
(* It misses a change when they are equal by mistake, and the order of two *)
(* when it is called again before the write it was called for.             *)
Told(p, new, old) == IF new = old THEN told ELSE [told EXCEPT ![p] = new]
Missed(p, new, old) ==
  IF (\E t \in Tasks : Announced(t, p)) \/ (new = old /\ new # props[p])
  THEN missed \cup {p}
  ELSE IF new = old THEN missed ELSE missed \ {p}
-----------------------------------------------------------------------------
TypeOK ==
  /\ DOMAIN props = Props /\ DOMAIN told = Props
  /\ \A p \in Props : {props[p], told[p]} \subseteq [Fields(p) -> Nat]
  /\ owner \in [ModelNames -> Tasks \cup {None}]
  /\ left \in [ModelNames -> -1 .. UserWindow]
  /\ DOMAIN job = Tasks
  /\ \A t \in Tasks : \A i \in DOMAIN job[t] :
       job[t][i].do \in {"lock", "unlock", "disable", "patch", "apply",
                         "notify", "write", "sleep"}
  /\ want \in [Settable -> Nat \cup {Unset}]
  /\ promised \in [ModelNames -> -1 .. UserWindow]
  /\ lapsed \subseteq Settable /\ missed \subseteq Props

Init ==
  /\ props = [p \in Props |-> Boot[p]]
  /\ owner = [m \in ModelNames |-> None]
  /\ left = [m \in ModelNames |-> -1]
  /\ job = [t \in Tasks |-> <<>>]
  /\ told = props
  /\ want = Nothing
  /\ promised = left
  /\ lapsed = {} /\ missed = {}
-----------------------------------------------------------------------------
(* Calls.  Each task takes the next one when it is done with the last.     *)
Start(t, ops) ==
  /\ job[t] = <<>>
  /\ job' = [job EXCEPT ![t] = ops]
  /\ UNCHANGED <<props, owner, left, told, want, promised, lapsed, missed>>

(* QueueRecvCallback: a message from the car or, over UART, the display.   *)
Receive(p, v) == Start(Loop, UpdateState(p, v))

(* MQTT .../brightness/set, and .../switch with payload OFF, which asks    *)
(* for brightness 70.                                                      *)
UserLight(l, b, off) == Start(Tcp, SetLight(l, b, off))

(* MQTT car/fridge/command and car/fridge/percentage_command, where a      *)
(* power above 6 is ignored.                                               *)
UserFridgeState(n) == "531" \in Props /\ Start(Tcp, SetFridge("on", n))
UserFridgePower(n) ==
  n <= 6 /\ "531" \in Props /\ Start(Tcp, SetFridge("power", n))

(* HTTP /debug starts one go() task for each model.                        *)
UserDebug(p, v) ==
  \E d, c \in Debuggers :
    /\ d # c
    /\ job[Tcp] = <<>> /\ job[d] = <<>> /\ job[c] = <<>>
    /\ job' = [job EXCEPT ![d] = DebugSet("display", p, v),
                          ![c] = DebugSet("car", p, v)]
    /\ UNCHANGED <<props, owner, left, told, want, promised, lapsed, missed>>
-----------------------------------------------------------------------------
(* Operations.                                                             *)
At(t, do) == job[t] # <<>> /\ Head(job[t]).do = do
Done(t) == job' = [job EXCEPT ![t] = Tail(@)]
DoneThen(t, ops) == job' = [job EXCEPT ![t] = ops \o Tail(@)]

Acquire(t) ==
  /\ At(t, "lock")
  /\ LET m == Head(job[t]).m IN
       /\ owner[m] = None
       /\ owner' = [owner EXCEPT ![m] = t]
  /\ Done(t)
  /\ UNCHANGED <<props, left, told, want, promised, lapsed, missed>>

Release(t) ==
  /\ At(t, "unlock")
  /\ owner' = [owner EXCEPT ![Head(job[t]).m] = None]
  /\ Done(t)
  /\ UNCHANGED <<props, left, told, want, promised, lapsed, missed>>

(* Mutant: a window is added to the one that is open.                      *)
SetWindowAdds(t) ==
  /\ At(t, "disable")
  /\ LET m == Head(job[t]).m
         ms == Head(job[t]).ms
     IN /\ left' = [left EXCEPT ![m] = IF @ < 0 THEN ms ELSE @ + ms]
        /\ promised' = [promised EXCEPT ![m] = IF @ < ms THEN ms ELSE @]
  /\ Done(t)
  /\ UNCHANGED <<props, owner, told, want, lapsed, missed>>

SetWindow(t) ==
  /\ At(t, "disable")
  /\ LET m == Head(job[t]).m
         ms == Head(job[t]).ms
     IN /\ left' = [left EXCEPT ![m] = ms]
        /\ promised' = [promised EXCEPT ![m] = IF @ < ms THEN ms ELSE @]
  /\ Done(t)
  /\ UNCHANGED <<props, owner, told, want, lapsed, missed>>

(* The loop body of UpdateMasked.  HandlePropUpdate is given the mask as   *)
(* the old value, to have it see a change whatever the value was.          *)
FullMask(f) == CASE f = "sel" -> 255 [] f = "on" -> 1 [] f = "power" -> 7
                 [] OTHER -> 127
Masked(p, data) ==
  [f \in Fields(p) |-> IF f \in DOMAIN data THEN data[f] ELSE props[p][f]]
Mask(p, data) ==
  [f \in Fields(p) |-> IF f \in DOMAIN data THEN FullMask(f) ELSE 0]

Patch(t) ==
  /\ At(t, "patch")
  /\ LET p == Head(job[t]).p
         data == Head(job[t]).data
         new == Masked(p, data)
     IN /\ props' = [props EXCEPT ![p] = new]
        /\ told' = Told(p, new, Mask(p, data))
        /\ missed' = Missed(p, new, Mask(p, data))
        /\ want' = [f \in Settable |->
                      IF f \notin DOMAIN data THEN want[f]
                      ELSE IF t \in Debuggers THEN Unset ELSE data[f]]
        /\ lapsed' = lapsed \ DOMAIN data
        /\ DoneThen(t, ButtonPress(p, new, Mask(p, data)))
  /\ UNCHANGED <<owner, left, promised>>

(* Mutant: >= for >.                                                       *)
updatesEnabledEarly(m) == left[m] <= 0

updatesEnabled(m) == left[m] < 0

(* Mutant: the message is copied before it is compared.                    *)
ApplyWritesFirst(t) ==
  /\ At(t, "apply")
  /\ LET p == Head(job[t]).p
         v == Head(job[t]).v
     IN props' = IF updatesEnabled(ModelOf(p)) THEN [props EXCEPT ![p] = v]
                                               ELSE props
  /\ Done(t)
  /\ UNCHANGED <<owner, left, told, want, promised, lapsed, missed>>

(* UpdateState under its lock.                                             *)
Apply(t) ==
  /\ At(t, "apply")
  /\ LET p == Head(job[t]).p
         v == Head(job[t]).v
     IN IF updatesEnabled(ModelOf(p))
        THEN /\ told' = Told(p, v, props[p])
             /\ missed' = Missed(p, v, props[p])
             /\ DoneThen(t, ButtonPress(p, v, props[p]) \o <<Write(p, v)>>)
        ELSE Done(t) /\ UNCHANGED <<told, missed>>
  /\ UNCHANGED <<props, owner, left, want, promised, lapsed>>

(* What an unlocked read of p can return: each field from before or after  *)
(* a write of another task that happens at the same time.                  *)
Written(op) == CASE op.do = "write" -> op.v
                 [] op.do = "patch" -> Masked(op.p, op.data)
Racing(t, p) == {u \in Tasks \ {t} : /\ At(u, "write") \/ At(u, "patch")
                                     /\ Head(job[u]).p = p}
Reads(t, p) ==
  LET seen == {props[p]} \cup {Written(Head(job[u])) : u \in Racing(t, p)}
  IN {v \in [Fields(p) -> UNION {{w[f] : f \in Fields(p)} : w \in seen}] :
        \A f \in Fields(p) : \E w \in seen : v[f] = w[f]}

(* Update before its lock: the old value is read without it.               *)
Notify(t) ==
  /\ At(t, "notify")
  /\ LET p == Head(job[t]).p
         v == Head(job[t]).v
     IN \E old \in Reads(t, p) :
          /\ told' = Told(p, v, old)
          /\ missed' = Missed(p, v, old)
          /\ DoneThen(t, ButtonPress(p, v, old))
  /\ UNCHANGED <<props, owner, left, want, promised, lapsed>>

(* A value from /debug takes the place of what the user had set.           *)
Store(t) ==
  /\ At(t, "write")
  /\ LET p == Head(job[t]).p IN
       /\ props' = [props EXCEPT ![p] = Head(job[t]).v]
       /\ want' = [f \in Settable |->
                     IF t \in Debuggers /\ f \in Fields(p) THEN Unset ELSE want[f]]
  /\ Done(t)
  /\ UNCHANGED <<owner, left, told, promised, lapsed, missed>>

WakeUp(t) ==
  /\ At(t, "sleep") /\ Head(job[t]).ms = 0
  /\ Done(t)
  /\ UNCHANGED <<props, owner, left, told, want, promised, lapsed, missed>>

Step(t) ==
  \/ Acquire(t) \/ Release(t) \/ SetWindow(t) \/ Patch(t) \/ Apply(t)
  \/ Notify(t) \/ Store(t) \/ WakeUp(t)
-----------------------------------------------------------------------------
(* A unit of time passes.  The event loop and async_tcp need microseconds  *)
(* for what takes no delay, so time passes only while they have nothing to *)
(* do or sleep.  The go() tasks may be left waiting for any time, but not  *)
(* with a lock: its mutex lends them the priority of who waits for it.     *)
Countdown(n) == IF n >= 0 THEN n - 1 ELSE n
Asleep(t) == At(t, "sleep") /\ Head(job[t]).ms > 0

Tick ==
  /\ \A t \in {Loop, Tcp} : job[t] = <<>> \/ Asleep(t)
  /\ \A m \in ModelNames : owner[m] = None
  /\ (\E m \in ModelNames : left[m] >= 0 \/ promised[m] >= 0) \/ Asleep(Tcp)
  /\ left' = [m \in ModelNames |-> Countdown(left[m])]
  /\ promised' = [m \in ModelNames |-> Countdown(promised[m])]
  /\ want' = IF promised'["display"] < 0 THEN Nothing ELSE want
  /\ lapsed' = IF left'["display"] < 0
               THEN {f \in Settable : want'[f] # Unset} ELSE lapsed
  /\ job' = IF Asleep(Tcp) THEN [job EXCEPT ![Tcp][1].ms = @ - 1] ELSE job
  /\ UNCHANGED <<props, owner, told, missed>>

Next ==
  \/ \E p \in Props : \E v \in Bus[p] : Receive(p, v)
  \/ \E l \in Lights, b \in Brightness : UserLight(l, b, FALSE)
  \/ \E l \in Lights : UserLight(l, 70, TRUE)
  \/ \E n \in {0, 1} : UserFridgeState(n)
  \/ \E n \in Powers : UserFridgePower(n)
  \/ \E p \in Props : \E v \in Debug[p] : UserDebug(p, v)
  \/ \E t \in Tasks : Step(t)
  \/ Tick

Spec == Init /\ [][Next]_vars

(* A task that waits for a mutex gets it in its turn, and time goes on:    *)
(* messages arrive milliseconds apart and are handled in microseconds.     *)
Fairness == /\ \A t \in Tasks : SF_vars(Step(t))
            /\ SF_vars(Tick)

FairSpec == Spec /\ Fairness
-----------------------------------------------------------------------------
(* The locks are taken in one order: who waits for a lock holds none, or   *)
(* holds the car's and waits for the display's.  So no tasks wait for one  *)
(* another, and none takes its own mutex, which is not recursive, twice.   *)
LockOrder ==
  \A t \in Tasks : At(t, "lock") =>
    \A m \in ModelNames : owner[m] = t =>
      m = "car" /\ Head(job[t]).m = "display"

(* A model is changed by who holds its lock only.                          *)
LockedWrites ==
  \A t \in Tasks :
    At(t, "write") \/ At(t, "patch") => owner[ModelOf(Head(job[t]).p)] = t

(* What the user or a button has set in the display's model stays until    *)
(* the end of the window that was asked for (DisableUpdatesFor), whatever  *)
(* the display keeps sending.                                              *)
UserValueHeld ==
  \A p \in Props : \A f \in Fields(p) \cap Settable :
    want[f] # Unset => props[p][f] = want[f]

(* It is undone before that in one way only: DisableUpdatesFor is called   *)
(* again with a shorter time, and that time is over.                       *)
UndoneOnlyIfLapsed ==
  \A p \in Props : \A f \in Fields(p) \cap Settable :
    want[f] # Unset => props[p][f] = want[f] \/ f \in lapsed

(* While SetLight waits for the selector to reach the car, the selector it *)
(* has set, or the 0 of a button, is what the display's model shows.       *)
SelectorHeld ==
  Asleep(Tcp) => /\ want["sel"] # Unset
                 /\ props["526"]["sel"] = want["sel"]

(* SetLight lets "the selector we just set propagate" (model_defs.cpp):    *)
(* for as long as it waits, a selector is in the display's model.          *)
SelectorPropagates == Asleep(Tcp) => props["526"]["sel"] # 0

(* HandlePropUpdate "will be called for every change of a model's          *)
(* property" (model.h): once no write is under way, it has seen the        *)
(* present value.                                                          *)
WriteUnderWay(p) ==
  \E t \in Tasks : \E i \in DOMAIN job[t] :
    job[t][i].do = "write" /\ job[t][i].p = p
ChangesNotified ==
  \A p \in Props : told[p] = props[p] \/ WriteUnderWay(p)

(* It has, but in two cases: UpdateMasked gives it the mask for the old    *)
(* value, or Update a value read without the lock, and that happens to be  *)
(* the new one; or two tasks call it in one order and write in the other.  *)
NotifiedUnlessMissed ==
  \A p \in Props : told[p] = props[p] \/ p \in missed \/ WriteUnderWay(p)

(* DisableUpdatesFor "temporarily disables processing of updates" for the  *)
(* time it is given: no message is applied before all that was asked for   *)
(* is over.                                                                *)
WindowHonoured == At(Loop, "write") => promised[ModelOf(Head(job[Loop]).p)] < 0

(* Every call comes to its end.                                            *)
CallsFinish == \A t \in Tasks : job[t] # <<>> ~> job[t] = <<>>
=============================================================================

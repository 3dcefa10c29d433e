-------------------------- MODULE IOPipelineProofs --------------------------
(***************************************************************************)
(* Theorems about IOPipeline, for any length of the queues, any senders    *)
(* and any number of messages.                                             *)
(***************************************************************************)
EXTENDS IOPipeline, SequenceTheorems, TLAPS

(* The three queues as one function, and what OwnedOnce says of the hands  *)
(* h, the queues Q and the heap a, element by element.                     *)
Places == {"rx"} \cup Wires
Queues == [p \in Places |-> IF p = "rx" THEN rxQ ELSE txQ[p]]
Owned(h, Q, a) ==
  /\ \A t \in Tasks : h[t] # None => h[t] \in a
  /\ \A p \in Places : \A i \in 1 .. Len(Q[p]) : Q[p][i] \in a
  /\ \A e \in a : \/ \E t \in Tasks : h[t] = e
                  \/ \E p \in Places : \E i \in 1 .. Len(Q[p]) : Q[p][i] = e
  /\ \A t, u \in Tasks : h[t] = h[u] /\ h[t] # None => t = u
  /\ \A p, r \in Places : \A i \in 1 .. Len(Q[p]), j \in 1 .. Len(Q[r]) :
       Q[p][i] = Q[r][j] => p = r /\ i = j
  /\ \A t \in Tasks, p \in Places : \A i \in 1 .. Len(Q[p]) : h[t] # Q[p][i]

(* No element is twice in the queues.                                      *)
LEMMA OwnedApart ==
  ASSUME NEW h, NEW Q, NEW a, Owned(h, Q, a),
         NEW p \in Places, NEW r \in Places,
         NEW i \in 1 .. Len(Q[p]), NEW j \in 1 .. Len(Q[r]), Q[p][i] = Q[r][j]
  PROVE  p = r /\ i = j
<1>1. \A q, s \in Places : \A k \in 1 .. Len(Q[q]), l \in 1 .. Len(Q[s]) :
        Q[q][k] = Q[s][l] => q = s /\ k = l
  BY DEF Owned
<1> QED BY <1>1

LEMMA NoneIsNoElement == None \notin Element
BY SenderAssumption DEF None, Element, Makers, Receivers

LEMMA OwnCreate ==
  ASSUME NEW h \in [Tasks -> Element \cup {None}],
         NEW Q \in [Places -> Seq(Element)], NEW a \in SUBSET Element,
         Owned(h, Q, a),
         NEW t \in Tasks, h[t] = None, NEW e \in Element, e \notin a
  PROVE  Owned([h EXCEPT ![t] = e], Q, a \cup {e})
<1> DEFINE g == [h EXCEPT ![t] = e]
<1>1. \A u \in Tasks : g[u] = IF u = t THEN e ELSE h[u]
  OBVIOUS
<1> HIDE DEF g
<1>2. e # None
  BY NoneIsNoElement
<1>3. \A p \in Places : \A i \in 1 .. Len(Q[p]) : Q[p][i] # e
  BY DEF Owned
<1>4. \A u \in Tasks : h[u] # e
  BY <1>2 DEF Owned
<1>5. /\ \A u \in Tasks : g[u] # None => g[u] \in a \cup {e}
      /\ \A u, v \in Tasks : g[u] = g[v] /\ g[u] # None => u = v
  BY <1>1, <1>4 DEF Owned
<1>6. \A u \in Tasks, p \in Places : \A i \in 1 .. Len(Q[p]) : g[u] # Q[p][i]
  BY <1>1, <1>3 DEF Owned
<1>7. \A x \in a \cup {e} : \/ \E u \in Tasks : g[u] = x
                           \/ \E p \in Places : \E i \in 1 .. Len(Q[p]) : Q[p][i] = x
  <2> SUFFICES ASSUME NEW x \in a, ~ \E p \in Places : \E i \in 1 .. Len(Q[p]) : Q[p][i] = x
               PROVE  \E u \in Tasks : g[u] = x
    BY <1>1
  <2>1. PICK u \in Tasks : h[u] = x
    BY DEF Owned
  <2>2. u # t
    BY <2>1, NoneIsNoElement
  <2> QED BY <1>1, <2>1, <2>2
<1> QED BY <1>5, <1>6, <1>7 DEF Owned, g

LEMMA OwnFree ==
  ASSUME NEW h \in [Tasks -> Element \cup {None}],
         NEW Q \in [Places -> Seq(Element)], NEW a \in SUBSET Element,
         Owned(h, Q, a),
         NEW t \in Tasks, h[t] # None
  PROVE  Owned([h EXCEPT ![t] = None], Q, a \ {h[t]})
<1> DEFINE g == [h EXCEPT ![t] = None]
<1>1. \A u \in Tasks : g[u] = IF u = t THEN None ELSE h[u]
  OBVIOUS
<1> HIDE DEF g
<1>2. \A p \in Places : \A i \in 1 .. Len(Q[p]) : Q[p][i] # h[t] /\ Q[p][i] # None
  <2>1. \A p \in Places : \A i \in 1 .. Len(Q[p]) : Q[p][i] \in Element
    BY ElementOfSeq
  <2> QED BY <2>1, NoneIsNoElement DEF Owned
<1>3. None \notin a
  BY NoneIsNoElement
<1> QED BY <1>1, <1>2, <1>3 DEF Owned

LEMMA OwnPut ==
  ASSUME NEW h \in [Tasks -> Element \cup {None}],
         NEW Q \in [Places -> Seq(Element)], NEW a \in SUBSET Element,
         Owned(h, Q, a),
         NEW t \in Tasks, h[t] # None, NEW p \in Places
  PROVE  Owned([h EXCEPT ![t] = None], [Q EXCEPT ![p] = Append(@, h[t])], a)
<1> DEFINE g == [h EXCEPT ![t] = None]
           R == [Q EXCEPT ![p] = Append(@, h[t])]
           n == Len(Q[p])
<1>1. \A u \in Tasks : g[u] = IF u = t THEN None ELSE h[u]
  OBVIOUS
<1>2. /\ \A r \in Places : r # p => R[r] = Q[r]
      /\ R[p] = Append(Q[p], h[t])
  OBVIOUS
<1>3. h[t] \in Element /\ Q[p] \in Seq(Element)
  OBVIOUS
<1>4. n \in Nat /\ Len(Append(Q[p], h[t])) = n + 1
      /\ (\A i \in 1 .. n : Append(Q[p], h[t])[i] = Q[p][i])
      /\ Append(Q[p], h[t])[n + 1] = h[t]
  BY <1>3, AppendProperties, LenProperties
<1> HIDE DEF g, R, n
<1>5. Len(R[p]) = n + 1 /\ (\A i \in 1 .. n : R[p][i] = Q[p][i]) /\ R[p][n + 1] = h[t]
  BY <1>2, <1>4
<1>6. \A r \in Places : \A i \in 1 .. Len(R[r]) :
        \/ r = p /\ i = n + 1 /\ R[r][i] = h[t]
        \/ i \in 1 .. Len(Q[r]) /\ R[r][i] = Q[r][i]
  BY <1>2, <1>4, <1>5 DEF n
<1>7. \A r \in Places : \A i \in 1 .. Len(Q[r]) :
        i \in 1 .. Len(R[r]) /\ R[r][i] = Q[r][i] /\ ~(r = p /\ i = n + 1)
  BY <1>2, <1>4, <1>5 DEF n
<1>8. p \in Places /\ n + 1 \in 1 .. Len(R[p])
  BY <1>4, <1>5
<1>9. None \notin a /\ h[t] \in a
  BY NoneIsNoElement DEF Owned
<1>10. \A r \in Places : \A i \in 1 .. Len(R[r]) : R[r][i] \in a
  <2>1. \A r \in Places : \A i \in 1 .. Len(Q[r]) : Q[r][i] \in a
    BY DEF Owned
  <2> QED BY <1>6, <1>9, <2>1
<1>11. \A e \in a : \/ \E u \in Tasks : g[u] = e
                   \/ \E r \in Places : \E i \in 1 .. Len(R[r]) : R[r][i] = e
  <2> SUFFICES ASSUME NEW e \in a
               PROVE  \/ \E u \in Tasks : g[u] = e
                      \/ \E r \in Places : \E i \in 1 .. Len(R[r]) : R[r][i] = e
    OBVIOUS
  <2>1. CASE e = h[t]
    BY <1>5, <1>8, <2>1
  <2>2. CASE \E u \in Tasks : h[u] = e /\ u # t
    BY <1>1, <2>2
  <2>3. CASE \E r \in Places : \E i \in 1 .. Len(Q[r]) : Q[r][i] = e
    BY <1>7, <2>3
  <2> QED BY <2>1, <2>2, <2>3 DEF Owned
<1>12. \A r, s \in Places : \A i \in 1 .. Len(R[r]), j \in 1 .. Len(R[s]) :
         R[r][i] = R[s][j] => r = s /\ i = j
  <2> SUFFICES ASSUME NEW r \in Places, NEW s \in Places,
                      NEW i \in 1 .. Len(R[r]), NEW j \in 1 .. Len(R[s]),
                      R[r][i] = R[s][j]
               PROVE  r = s /\ i = j
    OBVIOUS
  <2>1. CASE R[r][i] = h[t]
    <3>1. \A q \in Places : \A k \in 1 .. Len(Q[q]) : Q[q][k] # h[t]
      BY DEF Owned
    <3>2. r = p /\ i = n + 1
      <4>1. ~(i \in 1 .. Len(Q[r]) /\ R[r][i] = Q[r][i])
        BY <2>1, <3>1
      <4> QED BY <1>6, <4>1
    <3>3. R[s][j] = h[t]
      BY <2>1
    <3>4. ~(j \in 1 .. Len(Q[s]) /\ R[s][j] = Q[s][j])
      BY <3>1, <3>3
    <3>5. s = p /\ j = n + 1
      BY <1>6, <3>4
    <3> QED BY <3>2, <3>5
  <2>2. CASE R[r][i] # h[t]
    <3>1. /\ i \in 1 .. Len(Q[r]) /\ R[r][i] = Q[r][i]
          /\ j \in 1 .. Len(Q[s]) /\ R[s][j] = Q[s][j]
      BY <1>6, <2>2
    <3>2. Q[r][i] = Q[s][j] => r = s /\ i = j
      BY <3>1, OwnedApart
    <3> QED BY <3>1, <3>2
  <2> QED BY <2>1, <2>2
<1>13. \A u \in Tasks, r \in Places : \A i \in 1 .. Len(R[r]) : g[u] # R[r][i]
  <2> SUFFICES ASSUME NEW u \in Tasks, NEW r \in Places, NEW i \in 1 .. Len(R[r])
               PROVE  g[u] # R[r][i]
    OBVIOUS
  <2>1. CASE u = t
    BY <1>1, <1>9, <1>10, <2>1
  <2>2. CASE u # t
    <3>1. CASE R[r][i] = h[t]
      BY <1>1, <2>2, <3>1 DEF Owned
    <3>2. CASE R[r][i] # h[t]
      <4>1. i \in 1 .. Len(Q[r]) /\ R[r][i] = Q[r][i]
        BY <1>6, <3>2
      <4>2. h[u] # Q[r][i]
        BY <4>1 DEF Owned
      <4> QED BY <1>1, <2>2, <4>1, <4>2
    <3> QED BY <3>1, <3>2
  <2> QED BY <2>1, <2>2
<1>14. /\ \A u \in Tasks : g[u] # None => g[u] \in a
       /\ \A u, v \in Tasks : g[u] = g[v] /\ g[u] # None => u = v
  BY <1>1 DEF Owned
<1> QED BY <1>10, <1>11, <1>12, <1>13, <1>14 DEF Owned, g, R

LEMMA OwnTake ==
  ASSUME NEW h \in [Tasks -> Element \cup {None}],
         NEW Q \in [Places -> Seq(Element)], NEW a \in SUBSET Element,
         Owned(h, Q, a),
         NEW t \in Tasks, h[t] = None, NEW p \in Places, Q[p] # <<>>
  PROVE  Owned([h EXCEPT ![t] = Head(Q[p])], [Q EXCEPT ![p] = Tail(@)], a)
<1> DEFINE g == [h EXCEPT ![t] = Head(Q[p])]
           R == [Q EXCEPT ![p] = Tail(@)]
           n == Len(Q[p])
<1>1. \A u \in Tasks : g[u] = IF u = t THEN Q[p][1] ELSE h[u]
  BY HeadTailProperties
<1>2. /\ \A r \in Places : r # p => R[r] = Q[r]
      /\ R[p] = Tail(Q[p])
  OBVIOUS
<1>3. n \in Nat \ {0} /\ Len(Tail(Q[p])) = n - 1
      /\ \A i \in 1 .. n - 1 : Tail(Q[p])[i] = Q[p][i + 1]
  BY HeadTailProperties, EmptySeq
<1> HIDE DEF g, R, n
<1>4. Len(R[p]) = n - 1 /\ \A i \in 1 .. n - 1 : R[p][i] = Q[p][i + 1]
  BY <1>2, <1>3
<1>5. Q[p][1] \in a /\ Q[p][1] # None /\ 1 \in 1 .. Len(Q[p])
  BY <1>3, NoneIsNoElement DEF Owned, n
<1>6. \A r \in Places : \A i \in 1 .. Len(R[r]) :
        \/ r # p /\ i \in 1 .. Len(Q[r]) /\ R[r][i] = Q[r][i]
        \/ r = p /\ i + 1 \in 1 .. Len(Q[r]) /\ i + 1 # 1 /\ R[r][i] = Q[r][i + 1]
  <2> SUFFICES ASSUME NEW r \in Places, NEW i \in 1 .. Len(R[r])
               PROVE  \/ r # p /\ i \in 1 .. Len(Q[r]) /\ R[r][i] = Q[r][i]
                      \/ r = p /\ i + 1 \in 1 .. Len(Q[r]) /\ i + 1 # 1 /\ R[r][i] = Q[r][i + 1]
    OBVIOUS
  <2>1. CASE r # p
    BY <1>2, <2>1
  <2>2. CASE r = p
    <3>1. i \in 1 .. n - 1
      BY <1>4, <2>2
    <3>2. i + 1 \in 1 .. n /\ i + 1 # 1
      BY <1>3, <3>1
    <3> QED BY <1>4, <2>2, <3>1, <3>2 DEF n
  <2> QED BY <2>1, <2>2
<1>7. \A r \in Places : \A i \in 1 .. Len(Q[r]) :
        \/ r = p /\ i = 1
        \/ \E j \in 1 .. Len(R[r]) : R[r][j] = Q[r][i]
  <2> SUFFICES ASSUME NEW r \in Places, NEW i \in 1 .. Len(Q[r]), ~(r = p /\ i = 1)
               PROVE  \E j \in 1 .. Len(R[r]) : R[r][j] = Q[r][i]
    OBVIOUS
  <2>1. CASE r # p
    BY <1>2, <2>1
  <2>2. CASE r = p
    <3>1. i - 1 \in 1 .. n - 1 /\ i - 1 + 1 = i
      BY <1>3, <2>2 DEF n
    <3> QED BY <1>4, <2>2, <3>1
  <2> QED BY <2>1, <2>2
<1>8. \A r \in Places : \A i \in 1 .. Len(R[r]) : R[r][i] \in a /\ R[r][i] # Q[p][1]
  <2> SUFFICES ASSUME NEW r \in Places, NEW i \in 1 .. Len(R[r])
               PROVE  R[r][i] \in a /\ R[r][i] # Q[p][1]
    OBVIOUS
  <2>1. PICK j \in 1 .. Len(Q[r]) : R[r][i] = Q[r][j] /\ (r # p \/ j # 1)
    BY <1>6
  <2> QED BY <1>5, <2>1 DEF Owned
<1>9. \A r, s \in Places : \A i \in 1 .. Len(R[r]), j \in 1 .. Len(R[s]) :
        R[r][i] = R[s][j] => r = s /\ i = j
  <2> SUFFICES ASSUME NEW r \in Places, NEW s \in Places,
                      NEW i \in 1 .. Len(R[r]), NEW j \in 1 .. Len(R[s]),
                      R[r][i] = R[s][j]
               PROVE  r = s /\ i = j
    OBVIOUS
  <2>1. i \in Nat /\ j \in Nat
    OBVIOUS
  <2> DEFINE k == IF r = p THEN i + 1 ELSE i
             l == IF s = p THEN j + 1 ELSE j
  <2>2. /\ k \in 1 .. Len(Q[r]) /\ R[r][i] = Q[r][k]
        /\ l \in 1 .. Len(Q[s]) /\ R[s][j] = Q[s][l]
    BY <1>6
  <2>3. r = s /\ k = l
    <3> HIDE DEF k, l
    <3>1. Q[r][k] = Q[s][l]
      BY <2>2
    <3> QED BY <2>2, <3>1, OwnedApart
  <2> QED BY <2>1, <2>3
<1>10. \A e \in a : \/ \E u \in Tasks : g[u] = e
                   \/ \E r \in Places : \E i \in 1 .. Len(R[r]) : R[r][i] = e
  <2> SUFFICES ASSUME NEW e \in a
               PROVE  \/ \E u \in Tasks : g[u] = e
                      \/ \E r \in Places : \E i \in 1 .. Len(R[r]) : R[r][i] = e
    OBVIOUS
  <2>1. CASE \E u \in Tasks : h[u] = e
    <3>1. PICK u \in Tasks : h[u] = e
      BY <2>1
    <3>2. u # t
      BY <3>1, NoneIsNoElement
    <3> QED BY <1>1, <3>1, <3>2
  <2>2. CASE \E r \in Places : \E i \in 1 .. Len(Q[r]) : Q[r][i] = e
    <3>1. PICK r \in Places : \E i \in 1 .. Len(Q[r]) : Q[r][i] = e
      BY <2>2
    <3>2. PICK i \in 1 .. Len(Q[r]) : Q[r][i] = e
      BY <3>1
    <3>3. CASE r = p /\ i = 1
      BY <1>1, <3>2, <3>3
    <3> QED BY <1>7, <3>2, <3>3
  <2> QED BY <2>1, <2>2 DEF Owned
<1>11. \A u \in Tasks, r \in Places : \A i \in 1 .. Len(R[r]) : g[u] # R[r][i]
  <2> SUFFICES ASSUME NEW u \in Tasks, NEW r \in Places, NEW i \in 1 .. Len(R[r])
               PROVE  g[u] # R[r][i]
    OBVIOUS
  <2>1. CASE u = t
    BY <1>1, <1>8, <2>1
  <2>2. CASE u # t
    <3>1. PICK j \in 1 .. Len(Q[r]) : R[r][i] = Q[r][j]
      BY <1>6
    <3>2. h[u] # Q[r][j]
      BY DEF Owned
    <3> QED BY <1>1, <2>2, <3>1, <3>2
  <2> QED BY <2>1, <2>2
<1>12. /\ \A u \in Tasks : g[u] # None => g[u] \in a
       /\ \A u, v \in Tasks : g[u] = g[v] /\ g[u] # None => u = v
  BY <1>1, <1>5 DEF Owned
<1> QED BY <1>8, <1>9, <1>10, <1>11, <1>12 DEF Owned, g, R
-----------------------------------------------------------------------------
(* The numbers of the elements: those that are allocated have been made,   *)
(* but for the one that waits for a message of the UART.  So the next one  *)
(* of any maker is new.                                                    *)
Fresh ==
  /\ waiting => hand["uart_rx"] = NewElement("uart_rx")
  /\ \A e \in allocated : e.n <= made[e.by] \/ (waiting /\ e = hand["uart_rx"])

(* A maker works on what it has made, and whatever is on its way out may   *)
(* go there.                                                               *)
Allowed(e, w) == e.by \in Receivers => passthrough /\ Opposite(e) = w
Forwarded ==
  /\ \A t \in Makers : hand[t] # None => hand[t].by = t
  /\ \A w \in Wires : \A i \in 1 .. Len(txQ[w]) : Allowed(txQ[w][i], w)
  /\ \A w \in Wires : hand[TxTask(w)] # None => Allowed(hand[TxTask(w)], w)

Ownership == Owned(hand, Queues, allocated)

IInv == TypeOK /\ Ownership /\ Fresh /\ Forwarded

LEMMA TasksTypes ==
  /\ Makers \subseteq Tasks /\ Senders \subseteq Makers /\ Receivers \subseteq Makers
  /\ Loop \in Tasks /\ Loop \notin Makers
  /\ "twai_rx" \in Makers /\ "uart_rx" \in Makers /\ "uart_rx" \notin Senders
  /\ "twai_rx" \notin Senders
  /\ \A w \in Wires : TxTask(w) \in Tasks /\ TxTask(w) \notin Makers /\ TxTask(w) # Loop
  /\ TxTask("can") # TxTask("uart")
BY SenderAssumption DEF Makers, Tasks, Receivers, Loop, TxTasks, TxTask, Wires

LEMMA QueuesTypes ==
  ASSUME TypeOK
  PROVE  /\ Queues \in [Places -> Seq(Element)]
         /\ Queues["rx"] = rxQ /\ \A w \in Wires : Queues[w] = txQ[w]
         /\ "rx" \in Places /\ Wires \subseteq Places
BY DEF TypeOK, Queues, Places, Wires

(* How the three queues change.                                            *)
LEMMA QueuesChange ==
  ASSUME TypeOK
  PROVE  /\ UNCHANGED <<rxQ, txQ>> => Queues' = Queues
         /\ UNCHANGED txQ => Queues' = [Queues EXCEPT !["rx"] = rxQ']
BY DEF Queues

LEMMA TxQueueChange ==
  ASSUME TypeOK, NEW w \in Wires, NEW q, UNCHANGED rxQ, txQ' = [txQ EXCEPT ![w] = q]
  PROVE  Queues' = [Queues EXCEPT ![w] = q]
<1>1. w # "rx"
  BY DEF Wires
<1>2. \A p \in Places : p # "rx" => p \in DOMAIN txQ
  BY DEF TypeOK, Places
<1> QED BY <1>1, <1>2 DEF Queues

LEMMA PutTypes ==
  ASSUME NEW q \in Seq(Element), Len(q) <= QueueLength, NEW e \in Element
  PROVE  PutOrFree(q, e) \in Seq(Element) /\ Len(PutOrFree(q, e)) <= QueueLength
<1>1. Len(q) \in Nat
  BY LenProperties
<1> QED BY <1>1, AppendProperties, QueueAssumption DEF PutOrFree, HasRoom

LEMMA TakeTypes ==
  ASSUME NEW q \in Seq(Element), Len(q) <= QueueLength, q # <<>>
  PROVE  Head(q) \in Element /\ Tail(q) \in Seq(Element) /\ Len(Tail(q)) <= QueueLength
<1>1. Len(q) \in Nat
  BY LenProperties
<1> QED BY <1>1, HeadTailProperties, QueueAssumption

LEMMA NewElementTypes ==
  ASSUME TypeOK, NEW t \in Makers
  PROVE  NewElement(t) \in Element /\ NewElement(t) # None
<1>1. NewElement(t) \in Element
  BY DEF TypeOK, NewElement, Element
<1> QED BY <1>1, NoneIsNoElement

LEMMA NewElementIsFresh ==
  ASSUME TypeOK, Fresh, NEW t \in Makers, Idle(t)
  PROVE  NewElement(t) \notin allocated
<1> SUFFICES ASSUME NewElement(t) \in allocated PROVE FALSE
  OBVIOUS
<1>1. made[t] \in Nat /\ NewElement(t).n = made[t] + 1 /\ NewElement(t).by = t
  BY DEF TypeOK, NewElement
<1>2. waiting /\ NewElement(t) = hand["uart_rx"]
  BY <1>1 DEF Fresh
<1>3. t = "uart_rx"
  BY <1>1, <1>2 DEF Fresh, NewElement
<1> QED BY <1>2, <1>3, NewElementTypes DEF Idle
-----------------------------------------------------------------------------
(* What the operations on elements do to ownership.                        *)
LEMMA MallocOwned ==
  ASSUME IInv, NEW t \in Makers, Idle(t), Malloc(t), UNCHANGED <<rxQ, txQ>>
  PROVE  Ownership'
<1>1. Owned([hand EXCEPT ![t] = NewElement(t)], Queues, allocated \cup {NewElement(t)})
  BY OwnCreate, QueuesTypes, NewElementTypes, NewElementIsFresh, TasksTypes
     DEF IInv, TypeOK, Ownership, Idle
<1> QED BY <1>1, QueuesChange DEF IInv, Ownership, Malloc

LEMMA FreeOwned ==
  ASSUME IInv, NEW t \in Tasks, ~Idle(t), Free(hand[t]),
         hand' = [hand EXCEPT ![t] = None], UNCHANGED <<rxQ, txQ>>
  PROVE  Ownership'
<1>1. Owned([hand EXCEPT ![t] = None], Queues, allocated \ {hand[t]})
  BY OwnFree, QueuesTypes DEF IInv, TypeOK, Ownership, Idle
<1> QED BY <1>1, QueuesChange DEF IInv, Ownership, Free

LEMMA SendRxOwned ==
  ASSUME IInv, NEW t \in Tasks, ~Idle(t), SendToBackRx(t), UNCHANGED txQ
  PROVE  Ownership'
<1>1. CASE HasRoom(rxQ)
  <2>1. Owned([hand EXCEPT ![t] = None], [Queues EXCEPT !["rx"] = Append(@, hand[t])], allocated)
    BY OwnPut, QueuesTypes DEF IInv, TypeOK, Ownership, Idle
  <2>2. Queues' = [Queues EXCEPT !["rx"] = Append(rxQ, hand[t])]
    BY <1>1, QueuesChange DEF IInv, SendToBackRx, PutOrFree
  <2> QED BY <1>1, <2>1, <2>2, QueuesTypes DEF IInv, Ownership, SendToBackRx
<1>2. CASE ~HasRoom(rxQ)
  BY <1>2, FreeOwned DEF SendToBackRx, PutOrFree
<1> QED BY <1>1, <1>2

LEMMA SendTxOwned ==
  ASSUME IInv, NEW t \in Tasks, ~Idle(t), NEW w \in Wires, SendToBackTx(t, w), UNCHANGED rxQ
  PROVE  Ownership'
<1>1. CASE HasRoom(txQ[w])
  <2>1. Owned([hand EXCEPT ![t] = None], [Queues EXCEPT ![w] = Append(@, hand[t])], allocated)
    BY OwnPut, QueuesTypes DEF IInv, TypeOK, Ownership, Idle
  <2>2. Queues' = [Queues EXCEPT ![w] = Append(txQ[w], hand[t])]
    <3>1. txQ' = [txQ EXCEPT ![w] = Append(txQ[w], hand[t])]
      BY <1>1 DEF SendToBackTx, PutOrFree
    <3> QED BY <3>1, TxQueueChange DEF IInv
  <2> QED BY <1>1, <2>1, <2>2, QueuesTypes DEF IInv, Ownership, SendToBackTx
<1>2. CASE ~HasRoom(txQ[w])
  <2>1. txQ' = txQ
    BY <1>2 DEF SendToBackTx, PutOrFree, IInv, TypeOK
  <2> QED BY <1>2, <2>1, FreeOwned DEF SendToBackTx
<1> QED BY <1>1, <1>2

LEMMA TakeOwned ==
  ASSUME IInv, NEW t \in Tasks, Idle(t), NEW p \in Places, Queues[p] # <<>>,
         hand' = [hand EXCEPT ![t] = Head(Queues[p])],
         Queues' = [Queues EXCEPT ![p] = Tail(Queues[p])], UNCHANGED allocated
  PROVE  Ownership'
<1>1. Owned([hand EXCEPT ![t] = Head(Queues[p])], [Queues EXCEPT ![p] = Tail(@)], allocated)
  BY OwnTake, QueuesTypes DEF IInv, TypeOK, Ownership, Idle
<1> QED BY <1>1 DEF Ownership

LEMMA EmptyOwned ==
  ASSUME NEW h, NEW Q, \A t \in Tasks : h[t] = None, \A p \in Places : Q[p] = <<>>
  PROVE  Owned(h, Q, {})
<1>1. Len(<<>>) = 0
  OBVIOUS
<1> QED BY <1>1 DEF Owned

-----------------------------------------------------------------------------
LEMMA InitIInv == Init => IInv
<1> SUFFICES ASSUME Init PROVE IInv
  OBVIOUS
<1>1. <<>> \in Seq(Element) /\ Len(<<>>) = 0 /\ 0 <= QueueLength /\ 0 \in 0 .. MaxMessages
  BY BoundAssumption, QueueAssumption
<1>2. TypeOK
  BY <1>1 DEF Init, TypeOK
<1>3. Ownership
  <2>1. \A p \in Places : Queues[p] = <<>>
    BY DEF Init, Queues, Places
  <2> QED BY <2>1, EmptyOwned DEF Init, Ownership
<1>4. Fresh /\ Forwarded
  BY <1>1, TasksTypes DEF Init, Fresh, Forwarded
<1> QED BY <1>2, <1>3, <1>4 DEF IInv

(* What is transmitted has been made.                                      *)
LEMMA TransmitNumber ==
  ASSUME IInv, NEW w \in Wires, ~Idle(TxTask(w))
  PROVE  LET e == hand[TxTask(w)] IN e \in Element /\ e.n \in 0 .. MaxMessages
<1> DEFINE e == hand[TxTask(w)]
<1>1. e \in Element /\ e \in allocated
  BY TasksTypes DEF IInv, TypeOK, Ownership, Owned, Idle
<1>2. ~(waiting /\ e = hand["uart_rx"])
  BY TasksTypes DEF IInv, Ownership, Owned, Idle
<1>3. e.n <= made[e.by]
  BY <1>1, <1>2 DEF IInv, Fresh
<1>4. e.by \in Makers /\ e.n \in Nat /\ made[e.by] \in 0 .. MaxMessages
  BY <1>1 DEF Element, IInv, TypeOK
<1> QED BY <1>1, <1>3, <1>4, BoundAssumption

LEMMA TypeStep == IInv /\ [Next]_vars => TypeOK'
<1> SUFFICES ASSUME IInv, [Next]_vars PROVE TypeOK'
  OBVIOUS
<1> USE TasksTypes DEF IInv
<1>1. ASSUME NEW t \in Tasks, NEW e \in Element \cup {None}
      PROVE  [hand EXCEPT ![t] = e] \in [Tasks -> Element \cup {None}]
  BY DEF TypeOK
<1>2. ASSUME NEW t \in Tasks, ~Idle(t)
      PROVE  hand[t] \in Element
  BY <1>2 DEF TypeOK, Idle
<1>3. ASSUME NEW t \in Tasks, ~Idle(t), SendToBackRx(t),
             UNCHANGED <<role, passthrough, txQ, waiting, made, left>>
      PROVE  TypeOK'
  BY <1>1, <1>2, <1>3, PutTypes DEF SendToBackRx, Free, TypeOK
<1>4. ASSUME NEW t \in Tasks, ~Idle(t), NEW w \in Wires, SendToBackTx(t, w),
             UNCHANGED <<role, passthrough, rxQ, waiting, made, left>>
      PROVE  TypeOK'
  <2>1. PutOrFree(txQ[w], hand[t]) \in Seq(Element)
        /\ Len(PutOrFree(txQ[w], hand[t])) <= QueueLength
    BY <1>2, <1>4, PutTypes DEF TypeOK
  <2> QED BY <1>1, <1>4, <2>1 DEF SendToBackTx, Free, TypeOK
<1>0. ASSUME NEW t \in Makers, made[t] < MaxMessages
      PROVE  [made EXCEPT ![t] = @ + 1] \in [Makers -> 0 .. MaxMessages]
  <2>1. made[t] + 1 \in 0 .. MaxMessages
    BY <1>0, BoundAssumption DEF TypeOK
  <2> QED BY <2>1 DEF TypeOK
<1>5. CASE CanReceive
  BY <1>0, <1>1, <1>5, NewElementTypes DEF CanReceive, Malloc, TypeOK
<1>6. CASE CanQueue
  BY <1>3, <1>6 DEF CanQueue
<1>7. CASE UartPrepare
  BY <1>1, <1>7, NewElementTypes DEF UartPrepare, Malloc, TypeOK
<1>8. CASE UartReceive
  BY <1>0, <1>8 DEF UartReceive, TypeOK
<1>9. CASE UartReceiveFails
  BY <1>1, <1>9 DEF UartReceiveFails, Free, TypeOK
<1>10. CASE UartQueue
  BY <1>3, <1>10 DEF UartQueue
<1>11. CASE LoopTake
  BY <1>1, <1>11, TakeTypes DEF LoopTake, TypeOK
<1>12. CASE QueueRecvCallback
  <2>1. Opposite(hand[Loop]) \in Wires
    BY DEF Opposite, Wires
  <2>2. CASE passthrough
    BY <1>4, <1>12, <2>1, <2>2 DEF QueueRecvCallback
  <2>3. CASE ~passthrough
    BY <1>1, <1>12, <2>3 DEF QueueRecvCallback, Free, TypeOK
  <2> QED BY <2>2, <2>3
<1>13. ASSUME NEW s \in Senders, Dump(s) PROVE TypeOK'
  BY <1>0, <1>1, <1>13, NewElementTypes DEF Dump, Malloc, TypeOK
<1>14. ASSUME NEW s \in Senders, Enqueue(s) PROVE TypeOK'
  BY <1>4, <1>14 DEF Enqueue, SenderWire, Wires
<1>15. ASSUME NEW w \in Wires, TxTake(w) PROVE TypeOK'
  <2>1. Head(txQ[w]) \in Element /\ Tail(txQ[w]) \in Seq(Element) /\ Len(Tail(txQ[w])) <= QueueLength
    BY <1>15, TakeTypes DEF TxTake, TypeOK
  <2> QED BY <1>1, <1>15, <2>1 DEF TxTake, TypeOK
<1>16. ASSUME NEW w \in Wires, Transmit(w) PROVE TypeOK'
  BY <1>1, <1>16, TransmitNumber DEF Transmit, Free, TypeOK
<1>17. CASE UserPassthrough
  BY <1>17 DEF UserPassthrough, TypeOK
<1>18. CASE Reboot
  <2>1. <<>> \in Seq(Element) /\ Len(<<>>) = 0 /\ 0 <= QueueLength /\ 0 \in 0 .. MaxMessages
    BY BoundAssumption, QueueAssumption
  <2> QED BY <1>18, <2>1 DEF Reboot, TypeOK
<1>19. CASE UNCHANGED vars
  BY <1>19 DEF vars, TypeOK
<1> QED BY <1>5, <1>6, <1>7, <1>8, <1>9, <1>10, <1>11, <1>12, <1>13, <1>14, <1>15,
           <1>16, <1>17, <1>18, <1>19 DEF Next, TaskStep

LEMMA OwnershipStep == IInv /\ [Next]_vars => Ownership'
<1> SUFFICES ASSUME IInv, [Next]_vars PROVE Ownership'
  OBVIOUS
<1> USE TasksTypes
<1>1. CASE CanReceive
  BY <1>1, MallocOwned DEF CanReceive
<1>2. CASE CanQueue
  BY <1>2, SendRxOwned DEF CanQueue
<1>3. CASE UartPrepare
  BY <1>3, MallocOwned DEF UartPrepare
<1>4. CASE UartReceive
  BY <1>4, QueuesChange DEF UartReceive, IInv, Ownership
<1>5. CASE UartReceiveFails
  <2>1. ~Idle("uart_rx")
    BY <1>5, NewElementTypes DEF UartReceiveFails, IInv, Fresh, Idle
  <2> QED BY <1>5, <2>1, FreeOwned DEF UartReceiveFails
<1>6. CASE UartQueue
  BY <1>6, SendRxOwned DEF UartQueue
<1>7. CASE LoopTake
  <2>1. Queues["rx"] = rxQ /\ "rx" \in Places
    BY QueuesTypes DEF IInv
  <2>2. Queues' = [Queues EXCEPT !["rx"] = Tail(rxQ)]
    BY <1>7, QueuesChange DEF LoopTake, IInv
  <2> QED BY <1>7, <2>1, <2>2, TakeOwned DEF LoopTake
<1>8. CASE QueueRecvCallback
  <2>1. CASE passthrough
    BY <1>8, <2>1, SendTxOwned DEF QueueRecvCallback, Opposite, Wires
  <2>2. CASE ~passthrough
    BY <1>8, <2>2, FreeOwned DEF QueueRecvCallback
  <2> QED BY <2>1, <2>2
<1>9. ASSUME NEW s \in Senders, Dump(s) PROVE Ownership'
  BY <1>9, MallocOwned DEF Dump
<1>10. ASSUME NEW s \in Senders, Enqueue(s) PROVE Ownership'
  BY <1>10, SendTxOwned DEF Enqueue, SenderWire, Wires
<1>11. ASSUME NEW w \in Wires, TxTake(w) PROVE Ownership'
  <2>1. Queues[w] = txQ[w] /\ w \in Places
    BY QueuesTypes DEF IInv
  <2>2. Queues' = [Queues EXCEPT ![w] = Tail(txQ[w])]
    <3>1. txQ' = [txQ EXCEPT ![w] = Tail(txQ[w])]
      BY <1>11 DEF TxTake
    <3> QED BY <1>11, <3>1, TxQueueChange DEF TxTake, IInv
  <2> QED BY <1>11, <2>1, <2>2, TakeOwned DEF TxTake
<1>12. ASSUME NEW w \in Wires, Transmit(w) PROVE Ownership'
  BY <1>12, FreeOwned DEF Transmit
<1>13. CASE UserPassthrough
  BY <1>13, QueuesChange DEF UserPassthrough, IInv, Ownership
<1>14. CASE Reboot
  <2>1. \A p \in Places : Queues'[p] = <<>>
    BY <1>14 DEF Reboot, Queues, Places
  <2>2. \A t \in Tasks : hand'[t] = None
    BY <1>14 DEF Reboot
  <2> QED BY <1>14, <2>1, <2>2, EmptyOwned DEF Reboot, Ownership
<1>15. CASE UNCHANGED vars
  BY <1>15, QueuesChange DEF vars, IInv, Ownership
<1> QED BY <1>1, <1>2, <1>3, <1>4, <1>5, <1>6, <1>7, <1>8, <1>9, <1>10, <1>11, <1>12,
           <1>13, <1>14, <1>15 DEF Next, TaskStep

(* An action that makes no message, and neither adds an element nor moves  *)
(* that of uart_rx, leaves the numbers as they are.                        *)
LEMMA FreshKept ==
  ASSUME Fresh, allocated' \subseteq allocated, UNCHANGED <<made, waiting>>,
         waiting => hand'["uart_rx"] = hand["uart_rx"]
  PROVE  Fresh'
BY DEF Fresh, NewElement

LEMMA HandKept ==
  ASSUME TypeOK, NEW t \in Tasks, NEW x, hand' = [hand EXCEPT ![t] = x]
  PROVE  hand'[t] = x /\ \A u \in Tasks \ {t} : hand'[u] = hand[u]
BY DEF TypeOK

LEMMA FreshStep == IInv /\ [Next]_vars => Fresh'
<1> SUFFICES ASSUME IInv, [Next]_vars PROVE Fresh'
  OBVIOUS
<1> USE TasksTypes DEF IInv
<1>1. ASSUME NEW t \in Makers \ {"uart_rx"}, Malloc(t), made[t] < MaxMessages,
             made' = [made EXCEPT ![t] = @ + 1], UNCHANGED waiting
      PROVE  Fresh'
  <2>1. made[t] \in Nat /\ made'[t] = made[t] + 1 /\ \A u \in Makers \ {t} : made'[u] = made[u]
    BY <1>1 DEF TypeOK
  <2>2. \A e \in allocated : made[e.by] \in Nat /\ e.n \in Nat /\ e.by \in Makers
    BY DEF TypeOK, Element
  <2>3. hand'["uart_rx"] = hand["uart_rx"]
    BY <1>1, HandKept DEF Malloc
  <2>4. \A e \in allocated : e.n <= made'[e.by] \/ (waiting' /\ e = hand'["uart_rx"])
    BY <1>1, <2>1, <2>2, <2>3 DEF Fresh
  <2>5. NewElement(t).n <= made'[t] /\ NewElement(t).by = t
    BY <2>1 DEF NewElement
  <2>6. \A e \in allocated' : e.n <= made'[e.by] \/ (waiting' /\ e = hand'["uart_rx"])
    BY <1>1, <2>4, <2>5 DEF Malloc
  <2>7. waiting' => hand'["uart_rx"] = NewElement("uart_rx")'
    BY <1>1, <2>1, <2>3 DEF Fresh, NewElement
  <2> QED BY <2>6, <2>7 DEF Fresh
<1>2. ASSUME NEW t \in Tasks, SendToBackRx(t), t = "uart_rx" => ~waiting, UNCHANGED <<made, waiting>>
      PROVE  Fresh'
  BY <1>2, HandKept, FreshKept DEF SendToBackRx, Free
<1>3. ASSUME NEW t \in Tasks \ {"uart_rx"}, NEW w \in Wires, SendToBackTx(t, w),
             UNCHANGED <<made, waiting>>
      PROVE  Fresh'
  BY <1>3, HandKept, FreshKept DEF SendToBackTx, Free
<1>4. CASE CanReceive
  BY <1>1, <1>4 DEF CanReceive
<1>5. CASE CanQueue
  BY <1>2, <1>5 DEF CanQueue
<1>6. CASE UartPrepare
  <2>1. hand'["uart_rx"] = NewElement("uart_rx") /\ NewElement("uart_rx")' = NewElement("uart_rx")
    BY <1>6, HandKept DEF UartPrepare, Malloc, NewElement
  <2>2. ~waiting
    BY <1>6, NewElementTypes DEF UartPrepare, Fresh, Idle
  <2> QED BY <1>6, <2>1, <2>2 DEF UartPrepare, Malloc, Fresh
<1>7. CASE UartReceive
  <2>1. /\ made["uart_rx"] \in Nat /\ made'["uart_rx"] = made["uart_rx"] + 1
        /\ \A u \in Makers \ {"uart_rx"} : made'[u] = made[u]
    BY <1>7 DEF UartReceive, TypeOK
  <2>2. \A e \in allocated : made[e.by] \in Nat /\ e.n \in Nat /\ e.by \in Makers
    BY DEF TypeOK, Element
  <2>3. hand["uart_rx"].n = made'["uart_rx"] /\ hand["uart_rx"].by = "uart_rx"
    BY <1>7, <2>1 DEF UartReceive, Fresh, NewElement
  <2>4. made'["uart_rx"] <= made'["uart_rx"]
    BY <2>1
  <2>5. \A e \in allocated : e.n <= made'[e.by]
    BY <2>1, <2>2, <2>3, <2>4 DEF Fresh
  <2> QED BY <1>7, <2>5 DEF UartReceive, Fresh
<1>8. CASE UartReceiveFails
  <2>1. \A e \in allocated' : e.n <= made[e.by]
    BY <1>8 DEF UartReceiveFails, Free, Fresh
  <2> QED BY <1>8, <2>1 DEF UartReceiveFails, Fresh
<1>9. CASE UartQueue
  BY <1>2, <1>9 DEF UartQueue
<1>10. CASE LoopTake
  BY <1>10, HandKept, FreshKept DEF LoopTake
<1>11. CASE QueueRecvCallback
  <2>1. CASE passthrough
    BY <1>3, <1>11, <2>1 DEF QueueRecvCallback, Opposite, Wires
  <2>2. CASE ~passthrough
    BY <1>11, <2>2, HandKept, FreshKept DEF QueueRecvCallback, Free
  <2> QED BY <2>1, <2>2
<1>12. ASSUME NEW s \in Senders, Dump(s) PROVE Fresh'
  BY <1>1, <1>12 DEF Dump
<1>13. ASSUME NEW s \in Senders, Enqueue(s) PROVE Fresh'
  BY <1>3, <1>13 DEF Enqueue, SenderWire, Wires
<1>14. ASSUME NEW w \in Wires, TxTake(w) PROVE Fresh'
  BY <1>14, HandKept, FreshKept DEF TxTake
<1>15. ASSUME NEW w \in Wires, Transmit(w) PROVE Fresh'
  BY <1>15, HandKept, FreshKept DEF Transmit, Free
<1>16. CASE UserPassthrough
  BY <1>16, FreshKept DEF UserPassthrough
<1>17. CASE Reboot
  BY <1>17 DEF Reboot, Fresh
<1>18. CASE UNCHANGED vars
  BY <1>18, FreshKept DEF vars
<1> QED BY <1>4, <1>5, <1>6, <1>7, <1>8, <1>9, <1>10, <1>11, <1>12, <1>13, <1>14, <1>15,
           <1>16, <1>17, <1>18 DEF Next, TaskStep

LEMMA PutElements ==
  ASSUME NEW q \in Seq(Element), NEW e \in Element
  PROVE  \A i \in 1 .. Len(PutOrFree(q, e)) :
           PutOrFree(q, e)[i] = e \/ \E j \in 1 .. Len(q) : PutOrFree(q, e)[i] = q[j]
<1>1. Len(q) \in Nat
  BY LenProperties
<1> QED BY <1>1, AppendProperties DEF PutOrFree

LEMMA TailElements ==
  ASSUME NEW q \in Seq(Element), q # <<>>
  PROVE  /\ \E j \in 1 .. Len(q) : Head(q) = q[j]
         /\ \A i \in 1 .. Len(Tail(q)) : \E j \in 1 .. Len(q) : Tail(q)[i] = q[j]
<1>1. /\ Len(q) \in Nat \ {0} /\ Head(q) = q[1] /\ Len(Tail(q)) = Len(q) - 1
      /\ \A i \in 1 .. Len(Tail(q)) : Tail(q)[i] = q[i + 1]
  BY HeadTailProperties, EmptySeq
<1>2. \A i \in 1 .. Len(Tail(q)) : i + 1 \in 1 .. Len(q)
  BY <1>1
<1> QED BY <1>1, <1>2

LEMMA ForwardedStep == IInv /\ [Next]_vars => Forwarded'
<1> SUFFICES ASSUME IInv, [Next]_vars PROVE Forwarded'
  OBVIOUS
<1> USE TasksTypes DEF IInv
<1>1. ASSUME NEW t \in Tasks, NEW x, hand' = [hand EXCEPT ![t] = x], UNCHANGED <<passthrough, txQ>>,
             x # None => /\ t \in Makers => x.by = t
                         /\ \A w \in Wires : t = TxTask(w) => Allowed(x, w)
      PROVE  Forwarded'
  BY <1>1, HandKept DEF Forwarded, Allowed
<1>2. ASSUME NEW t \in Tasks, SendToBackRx(t), UNCHANGED <<passthrough, txQ>> PROVE Forwarded'
  BY <1>1, <1>2 DEF SendToBackRx
<1>3. ASSUME NEW t \in Tasks, ~Idle(t), NEW w \in Wires, SendToBackTx(t, w),
             Allowed(hand[t], w), UNCHANGED passthrough
      PROVE  Forwarded'
  <2>1. txQ[w] \in Seq(Element) /\ hand[t] \in Element
    BY <1>3 DEF TypeOK, Idle
  <2>2. txQ'[w] = PutOrFree(txQ[w], hand[t]) /\ \A v \in Wires \ {w} : txQ'[v] = txQ[v]
    BY <1>3 DEF SendToBackTx, TypeOK
  <2>3. \A i \in 1 .. Len(txQ'[w]) : Allowed(txQ'[w][i], w)
    BY <1>3, <2>1, <2>2, PutElements DEF Forwarded
  <2>4. \A v \in Wires : \A i \in 1 .. Len(txQ'[v]) : Allowed(txQ'[v][i], v)
    BY <2>2, <2>3 DEF Forwarded
  <2>5. hand'[t] = None /\ \A u \in Tasks \ {t} : hand'[u] = hand[u]
    BY <1>3, HandKept DEF SendToBackTx
  <2> QED BY <1>3, <2>4, <2>5 DEF Forwarded, Allowed
<1>4. CASE CanReceive
  BY <1>1, <1>4 DEF CanReceive, Malloc, NewElement
<1>5. CASE CanQueue
  BY <1>2, <1>5 DEF CanQueue
<1>6. CASE UartPrepare
  BY <1>1, <1>6 DEF UartPrepare, Malloc, NewElement
<1>7. CASE UartReceive
  BY <1>7 DEF UartReceive, Forwarded, Allowed
<1>8. CASE UartReceiveFails
  BY <1>1, <1>8 DEF UartReceiveFails
<1>9. CASE UartQueue
  BY <1>2, <1>9 DEF UartQueue
<1>10. CASE LoopTake
  BY <1>1, <1>10 DEF LoopTake
<1>11. CASE QueueRecvCallback
  <2>1. CASE passthrough
    BY <1>3, <1>11, <2>1 DEF QueueRecvCallback, Opposite, Wires, Allowed
  <2>2. CASE ~passthrough
    BY <1>1, <1>11, <2>2 DEF QueueRecvCallback
  <2> QED BY <2>1, <2>2
<1>12. ASSUME NEW s \in Senders, Dump(s) PROVE Forwarded'
  BY <1>1, <1>12 DEF Dump, Malloc, NewElement
<1>13. ASSUME NEW s \in Senders, Enqueue(s) PROVE Forwarded'
  <2>1. hand[s].by = s /\ s \notin Receivers
    BY <1>13, SenderAssumption DEF Enqueue, Forwarded, Idle, Receivers
  <2> QED BY <1>3, <1>13, <2>1 DEF Enqueue, SenderWire, Wires, Allowed
<1>14. ASSUME NEW w \in Wires, TxTake(w) PROVE Forwarded'
  <2>1. txQ[w] \in Seq(Element) /\ txQ[w] # <<>>
    BY <1>14 DEF TypeOK, TxTake
  <2>2. txQ'[w] = Tail(txQ[w]) /\ \A v \in Wires \ {w} : txQ'[v] = txQ[v]
    BY <1>14 DEF TxTake, TypeOK
  <2>3. Allowed(Head(txQ[w]), w) /\ \A i \in 1 .. Len(txQ'[w]) : Allowed(txQ'[w][i], w)
    BY <2>1, <2>2, TailElements DEF Forwarded
  <2>4. \A v \in Wires : \A i \in 1 .. Len(txQ'[v]) : Allowed(txQ'[v][i], v)
    BY <2>2, <2>3 DEF Forwarded
  <2>5. /\ hand'[TxTask(w)] = Head(txQ[w])
        /\ \A u \in Tasks \ {TxTask(w)} : hand'[u] = hand[u]
    BY <1>14, HandKept DEF TxTake
  <2>6. \A v \in Wires : TxTask(v) = TxTask(w) => v = w
    BY DEF Wires
  <2> QED BY <1>14, <2>3, <2>4, <2>5, <2>6 DEF TxTake, Forwarded, Allowed
<1>15. ASSUME NEW w \in Wires, Transmit(w) PROVE Forwarded'
  BY <1>1, <1>15 DEF Transmit
<1>16. CASE UserPassthrough
  BY <1>16 DEF UserPassthrough, Forwarded, Allowed
<1>17. CASE Reboot
  <2>1. Len(<<>>) = 0
    OBVIOUS
  <2> QED BY <1>17, <2>1 DEF Reboot, Forwarded
<1>18. CASE UNCHANGED vars
  BY <1>18 DEF vars, Forwarded, Allowed
<1> QED BY <1>4, <1>5, <1>6, <1>7, <1>8, <1>9, <1>10, <1>11, <1>12, <1>13, <1>14, <1>15,
           <1>16, <1>17, <1>18 DEF Next, TaskStep
-----------------------------------------------------------------------------
LEMMA Invariance == Spec => []IInv
<1>1. IInv /\ [Next]_vars => IInv'
  BY TypeStep, OwnershipStep, FreshStep, ForwardedStep DEF IInv
<1> QED BY InitIInv, <1>1, PTL DEF Spec

(* Ownership, said of places, says what OwnedOnce says of sets.            *)
LEMMA OwnershipMeansOwnedOnce ==
  ASSUME TypeOK, Ownership
  PROVE  OwnedOnce
<1>1. \A p \in Places : DOMAIN Queues[p] = 1 .. Len(Queues[p])
  BY QueuesTypes, LenProperties
<1>2. /\ "rx" \in Places /\ Queues["rx"] = rxQ
      /\ \A w \in Wires : w \in Places /\ Queues[w] = txQ[w] /\ w # "rx"
      /\ \A p \in Places : p = "rx" \/ p \in Wires
  BY QueuesTypes DEF Places, Wires
<1>3. /\ Elements(rxQ) = {Queues["rx"][i] : i \in 1 .. Len(Queues["rx"])}
      /\ \A w \in Wires : Elements(txQ[w]) = {Queues[w][i] : i \in 1 .. Len(Queues[w])}
  BY <1>1, <1>2 DEF Elements
<1>4. \A p, r \in Places : \A i \in 1 .. Len(Queues[p]), j \in 1 .. Len(Queues[r]) :
        Queues[p][i] = Queues[r][j] => p = r /\ i = j
  BY DEF Ownership, Owned
<1>5. Distinct(rxQ) /\ \A w \in Wires : Distinct(txQ[w])
  <2>1. \A p \in Places : Distinct(Queues[p])
    BY <1>1, <1>4 DEF Distinct
  <2> QED BY <1>2, <2>1
<1>6. ASSUME NEW p \in Places, NEW r \in Places, p # r
      PROVE  {Queues[p][i] : i \in 1 .. Len(Queues[p])}
               \cap {Queues[r][i] : i \in 1 .. Len(Queues[r])} = {}
  <2>1. \A i \in 1 .. Len(Queues[p]), j \in 1 .. Len(Queues[r]) : Queues[p][i] # Queues[r][j]
    BY <1>4, <1>6
  <2> QED BY <2>1
<1>7. /\ Elements(txQ["can"]) \cap Elements(txQ["uart"]) = {}
      /\ \A w \in Wires : Elements(rxQ) \cap Elements(txQ[w]) = {}
  <2>1. "can" \in Wires /\ "uart" \in Wires
    BY DEF Wires
  <2>2. Elements(txQ["can"]) \cap Elements(txQ["uart"]) = {}
    <3>1. "can" # "uart" /\ "can" \in Places /\ "uart" \in Places
      BY <1>2, <2>1
    <3>2. {Queues["can"][i] : i \in 1 .. Len(Queues["can"])}
            \cap {Queues["uart"][i] : i \in 1 .. Len(Queues["uart"])} = {}
      BY <1>6, <3>1
    <3> QED BY <1>3, <2>1, <3>2
  <2>3. ASSUME NEW w \in Wires
        PROVE  Elements(rxQ) \cap Elements(txQ[w]) = {}
    <3>1. {Queues["rx"][i] : i \in 1 .. Len(Queues["rx"])}
            \cap {Queues[w][i] : i \in 1 .. Len(Queues[w])} = {}
      BY <1>2, <1>6
    <3> QED BY <1>3, <3>1
  <2> QED BY <2>2, <2>3
<1>8. \A x : x \in Hands <=> x # None /\ \E t \in Tasks : hand[t] = x
  BY DEF Hands
<1>9. \A x : x \in Elements(rxQ) \cup UNION {Elements(txQ[w]) : w \in Wires}
              <=> \E p \in Places : \E i \in 1 .. Len(Queues[p]) : Queues[p][i] = x
  <2> SUFFICES ASSUME NEW x
               PROVE  x \in Elements(rxQ) \cup UNION {Elements(txQ[w]) : w \in Wires}
                        <=> \E p \in Places : \E i \in 1 .. Len(Queues[p]) : Queues[p][i] = x
    OBVIOUS
  <2> DEFINE In(p) == \E i \in 1 .. Len(Queues[p]) : Queues[p][i] = x
  <2>1. /\ x \in Elements(rxQ) <=> In("rx")
        /\ \A w \in Wires : x \in Elements(txQ[w]) <=> In(w)
    <3>1. \A p \in Places : x \in {Queues[p][i] : i \in 1 .. Len(Queues[p])} <=> In(p)
      OBVIOUS
    <3> HIDE DEF In
    <3> QED BY <1>2, <1>3, <3>1
  <2>2. (\E p \in Places : In(p)) <=> In("rx") \/ \E w \in Wires : In(w)
    BY DEF Places
  <2> HIDE DEF In
  <2>3. x \in Elements(rxQ) \cup UNION {Elements(txQ[w]) : w \in Wires} <=> \E p \in Places : In(p)
    BY <2>1, <2>2
  <2> QED BY <2>3 DEF In
<1>10. Hands \cap (Elements(rxQ) \cup UNION {Elements(txQ[w]) : w \in Wires}) = {}
  BY <1>8, <1>9 DEF Ownership, Owned
<1>11. None \notin allocated
  BY NoneIsNoElement DEF TypeOK
<1>12. allocated = Hands \cup Elements(rxQ) \cup UNION {Elements(txQ[w]) : w \in Wires}
  <2>1. \A x : x \in allocated <=>
          \/ x # None /\ \E t \in Tasks : hand[t] = x
          \/ \E p \in Places : \E i \in 1 .. Len(Queues[p]) : Queues[p][i] = x
    BY <1>11 DEF Ownership, Owned
  <2> QED BY <1>8, <1>9, <2>1
<1>13. \A t, u \in Tasks : hand[t] = hand[u] /\ hand[t] # None => t = u
  BY DEF Ownership, Owned
<1> QED BY <1>5, <1>7, <1>10, <1>12, <1>13 DEF OwnedOnce

LEMMA ForwardedMeansIsolation ==
  ASSUME TypeOK, Forwarded
  PROVE  Isolation
<1> SUFFICES ASSUME NEW w \in Wires, NEW e \in OnTheWayOut(w), e.by \in Receivers
             PROVE  passthrough /\ Opposite(e) = w
  BY DEF Isolation
<1>1. DOMAIN txQ[w] = 1 .. Len(txQ[w])
  BY LenProperties DEF TypeOK
<1>2. \/ e = hand[TxTask(w)] /\ e # None
      \/ \E i \in 1 .. Len(txQ[w]) : e = txQ[w][i]
  BY <1>1 DEF OnTheWayOut, Elements
<1> QED BY <1>2 DEF Forwarded, Allowed

(* Queues never hold more than QueueLength elements, and the number of the *)
(* last message forwarded is that of a message that was made.              *)
THEOREM TypeCorrect == Spec => []TypeOK
<1>1. IInv => TypeOK
  BY DEF IInv
<1> QED BY Invariance, <1>1, PTL

(* Every element that is allocated is in one place, whatever receives,     *)
(* forwards, drops and transmits at the same time: no task uses an element *)
(* that another has freed or works on, and none is forgotten.              *)
THEOREM ElementsOwnedOnce == Spec => []OwnedOnce
<1>1. IInv => OwnedOnce
  BY OwnershipMeansOwnedOnce DEF IInv
<1> QED BY Invariance, <1>1, PTL

(* A board that keeps models sends nothing on that it received, and one in *)
(* passthrough nothing back.                                               *)
THEOREM BusesIsolated == Spec => []Isolation
<1>1. IInv => Isolation
  BY ForwardedMeansIsolation DEF IInv
<1> QED BY Invariance, <1>1, PTL
-----------------------------------------------------------------------------
(* The order of the messages of receiver rx, which leave by the wire w: the*)
(* places they pass through, the last one first, and in each its elements. *)
Held(t) == IF hand[t] = None THEN <<>> ELSE <<hand[t]>>
Stages(rx, w) == [k \in 1 .. 5 |->
  CASE k = 1 -> Held(TxTask(w)) [] k = 2 -> txQ[w] [] k = 3 -> Held(Loop)
    [] k = 4 -> rxQ [] OTHER -> Held(rx)]

Ahead(a, i, b, j) == a < b \/ (a = b /\ i < j)
Ordered(S, rx) ==
  \A a, b \in 1 .. 5 : \A i \in 1 .. Len(S[a]), j \in 1 .. Len(S[b]) :
    Ahead(a, i, b, j) /\ S[a][i].by = rx /\ S[b][j].by = rx => S[a][i].n < S[b][j].n

InOrder(rx, w) == Ordered(Stages(rx, w), rx)

(* From S to R, stage k becomes q, or stages k and l become q and r.       *)
Becomes(S, R, k, q) == R[k] = q /\ \A a \in 1 .. 5 : a # k => R[a] = S[a]
Become(S, R, k, q, l, r) ==
  R[k] = q /\ R[l] = r /\ \A a \in 1 .. 5 : a # k /\ a # l => R[a] = S[a]
Newest(S, rx, e) ==
  \A a \in 1 .. 5 : \A i \in 1 .. Len(S[a]) : S[a][i].by = rx => S[a][i].n < e.n

LEMMA OrderedRemove ==
  ASSUME NEW rx, NEW S \in [1 .. 5 -> Seq(Element)], NEW R, Ordered(S, rx),
         NEW k \in 1 .. 5, S[k] # <<>>, Becomes(S, R, k, Tail(S[k]))
  PROVE  Ordered(R, rx)
<1>0. R[k] = Tail(S[k]) /\ \A a \in 1 .. 5 : a # k => R[a] = S[a]
  BY DEF Becomes
<1> DEFINE pi(a, i) == IF a = k THEN i + 1 ELSE i
<1>1. Len(S[k]) \in Nat /\ Len(Tail(S[k])) = Len(S[k]) - 1
      /\ \A i \in 1 .. Len(Tail(S[k])) : Tail(S[k])[i] = S[k][i + 1]
  BY HeadTailProperties, LenProperties
<1>2. \A a \in 1 .. 5 : \A i \in 1 .. Len(R[a]) :
        i \in Nat /\ pi(a, i) \in 1 .. Len(S[a]) /\ R[a][i] = S[a][pi(a, i)]
  <2> SUFFICES ASSUME NEW a \in 1 .. 5, NEW i \in 1 .. Len(R[a])
               PROVE  i \in Nat /\ pi(a, i) \in 1 .. Len(S[a]) /\ R[a][i] = S[a][pi(a, i)]
    OBVIOUS
  <2>1. CASE a = k
    <3>1. R[a] = Tail(S[k]) /\ pi(a, i) = i + 1
      BY <1>0, <2>1
    <3>2. i \in Nat /\ i + 1 \in 1 .. Len(S[k]) /\ Tail(S[k])[i] = S[k][i + 1]
      BY <1>1, <3>1
    <3> HIDE DEF pi
    <3> QED BY <2>1, <3>1, <3>2
  <2>2. CASE a # k
    <3>1. R[a] = S[a] /\ pi(a, i) = i /\ Len(S[a]) \in Nat
      BY <1>0, <2>2, LenProperties
    <3> QED BY <3>1
  <2> QED BY <2>1, <2>2
<1>3. \A a, b \in 1 .. 5 : \A i \in 1 .. Len(R[a]), j \in 1 .. Len(R[b]) :
        Ahead(a, i, b, j) => Ahead(a, pi(a, i), b, pi(b, j))
  BY <1>2 DEF Ahead
<1> HIDE DEF pi
<1> SUFFICES ASSUME NEW a \in 1 .. 5, NEW b \in 1 .. 5,
                    NEW i \in 1 .. Len(R[a]), NEW j \in 1 .. Len(R[b]),
                    Ahead(a, i, b, j), R[a][i].by = rx, R[b][j].by = rx
             PROVE  R[a][i].n < R[b][j].n
  BY DEF Ordered
<1>4. /\ pi(a, i) \in 1 .. Len(S[a]) /\ pi(b, j) \in 1 .. Len(S[b])
      /\ Ahead(a, pi(a, i), b, pi(b, j))
      /\ R[a][i] = S[a][pi(a, i)] /\ R[b][j] = S[b][pi(b, j)]
  BY <1>2, <1>3
<1> QED BY <1>4 DEF Ordered

LEMMA OrderedMove ==
  ASSUME NEW rx, NEW S \in [1 .. 5 -> Seq(Element)], NEW R, Ordered(S, rx),
         NEW k \in 1 .. 4, S[k + 1] # <<>>,
         Become(S, R, k, Append(S[k], Head(S[k + 1])), k + 1, Tail(S[k + 1]))
  PROVE  Ordered(R, rx)
<1>0. /\ R[k] = Append(S[k], Head(S[k + 1])) /\ R[k + 1] = Tail(S[k + 1])
      /\ \A a \in 1 .. 5 : a # k /\ a # k + 1 => R[a] = S[a]
  BY DEF Become
<1> DEFINE n == Len(S[k])
           pa(a, i) == IF a = k /\ i = n + 1 THEN k + 1 ELSE a
           pi(a, i) == IF a = k + 1 THEN i + 1 ELSE IF a = k /\ i = n + 1 THEN 1 ELSE i
<1>1. /\ k + 1 \in 1 .. 5 /\ k \in 1 .. 5 /\ k + 1 # k
      /\ S[k] \in Seq(Element) /\ S[k + 1] \in Seq(Element)
  OBVIOUS
<1>2. /\ Len(S[k + 1]) \in Nat \ {0} /\ Len(Tail(S[k + 1])) = Len(S[k + 1]) - 1
      /\ \A i \in 1 .. Len(Tail(S[k + 1])) : Tail(S[k + 1])[i] = S[k + 1][i + 1]
      /\ Head(S[k + 1]) = S[k + 1][1] /\ Head(S[k + 1]) \in Element
  BY <1>1, HeadTailProperties, LenProperties, EmptySeq
<1>3. /\ n \in Nat /\ Len(Append(S[k], Head(S[k + 1]))) = n + 1
      /\ \A i \in 1 .. n : Append(S[k], Head(S[k + 1]))[i] = S[k][i]
      /\ Append(S[k], Head(S[k + 1]))[n + 1] = Head(S[k + 1])
  BY <1>1, <1>2, AppendProperties, LenProperties
<1>4. \A a \in 1 .. 5 : \A i \in 1 .. Len(R[a]) :
        /\ i \in Nat \ {0} /\ (a = k => i <= n + 1) /\ pa(a, i) \in 1 .. 5
        /\ pi(a, i) \in 1 .. Len(S[pa(a, i)]) /\ R[a][i] = S[pa(a, i)][pi(a, i)]
  <2> SUFFICES ASSUME NEW a \in 1 .. 5, NEW i \in 1 .. Len(R[a])
               PROVE  /\ i \in Nat \ {0} /\ (a = k => i <= n + 1) /\ pa(a, i) \in 1 .. 5
                      /\ pi(a, i) \in 1 .. Len(S[pa(a, i)]) /\ R[a][i] = S[pa(a, i)][pi(a, i)]
    OBVIOUS
  <2>1. CASE a = k /\ i = n + 1
    <3>1. pa(a, i) = k + 1 /\ pi(a, i) = 1 /\ R[a] = Append(S[k], Head(S[k + 1]))
      BY <1>0, <1>1, <2>1
    <3> QED BY <1>1, <1>2, <1>3, <2>1, <3>1
  <2>2. CASE a = k /\ i # n + 1
    <3>1. pa(a, i) = k /\ pi(a, i) = i /\ R[a] = Append(S[k], Head(S[k + 1]))
      BY <1>0, <1>1, <2>2
    <3>2. i \in 1 .. n
      BY <1>3, <2>2, <3>1
    <3>3. R[a][i] = S[k][i] /\ i \in Nat \ {0} /\ i <= n + 1
      BY <1>3, <3>1, <3>2
    <3> HIDE DEF pa, pi
    <3> QED BY <1>1, <2>2, <3>1, <3>2, <3>3
  <2>3. CASE a = k + 1
    <3>1. pa(a, i) = k + 1 /\ pi(a, i) = i + 1 /\ R[a] = Tail(S[k + 1])
      BY <1>0, <1>1, <2>3
    <3>2. /\ i \in Nat \ {0} /\ i + 1 \in 1 .. Len(S[k + 1])
          /\ Tail(S[k + 1])[i] = S[k + 1][i + 1]
      BY <1>2, <3>1
    <3> HIDE DEF pa, pi
    <3> QED BY <1>1, <2>3, <3>1, <3>2
  <2>4. CASE a # k /\ a # k + 1
    <3>1. pa(a, i) = a /\ pi(a, i) = i /\ R[a] = S[a]
      BY <1>0, <2>4
    <3> QED BY <2>4, <3>1
  <2> QED BY <2>1, <2>2, <2>3, <2>4
<1>5. \A a, b \in 1 .. 5 : \A i \in 1 .. Len(R[a]), j \in 1 .. Len(R[b]) :
        Ahead(a, i, b, j) => Ahead(pa(a, i), pi(a, i), pa(b, j), pi(b, j))
  <2> SUFFICES ASSUME NEW a \in 1 .. 5, NEW b \in 1 .. 5,
                      NEW i \in 1 .. Len(R[a]), NEW j \in 1 .. Len(R[b]), Ahead(a, i, b, j)
               PROVE  Ahead(pa(a, i), pi(a, i), pa(b, j), pi(b, j))
    OBVIOUS
  <2>1. n \in Nat
    BY <1>3
  <2>2. /\ i \in Nat \ {0} /\ j \in Nat \ {0}
        /\ (a = k => i <= n + 1) /\ (b = k => j <= n + 1)
    <3> HIDE DEF pa, pi, n
    <3> QED BY <1>4
  <2> HIDE DEF n
  <2> QED BY <2>1, <2>2 DEF Ahead
<1> HIDE DEF pa, pi
<1> SUFFICES ASSUME NEW a \in 1 .. 5, NEW b \in 1 .. 5,
                    NEW i \in 1 .. Len(R[a]), NEW j \in 1 .. Len(R[b]),
                    Ahead(a, i, b, j), R[a][i].by = rx, R[b][j].by = rx
             PROVE  R[a][i].n < R[b][j].n
  BY DEF Ordered
<1>6. /\ pa(a, i) \in 1 .. 5 /\ pa(b, j) \in 1 .. 5
      /\ pi(a, i) \in 1 .. Len(S[pa(a, i)]) /\ pi(b, j) \in 1 .. Len(S[pa(b, j)])
      /\ Ahead(pa(a, i), pi(a, i), pa(b, j), pi(b, j))
      /\ R[a][i] = S[pa(a, i)][pi(a, i)] /\ R[b][j] = S[pa(b, j)][pi(b, j)]
  BY <1>4, <1>5
<1> QED BY <1>6 DEF Ordered

(* What is added is no message of rx, or the newest one.                   *)
LEMMA OrderedAdd ==
  ASSUME NEW rx, NEW S \in [1 .. 5 -> Seq(Element)], NEW R, Ordered(S, rx),
         NEW k \in 1 .. 5, NEW e \in Element,
         e.by = rx => k = 5 /\ Newest(S, rx, e), Becomes(S, R, k, Append(S[k], e))
  PROVE  Ordered(R, rx)
<1>0. R[k] = Append(S[k], e) /\ \A a \in 1 .. 5 : a # k => R[a] = S[a]
  BY DEF Becomes
<1> DEFINE n == Len(S[k])
<1>1. /\ n \in Nat /\ Len(Append(S[k], e)) = n + 1
      /\ \A i \in 1 .. n : Append(S[k], e)[i] = S[k][i]
      /\ Append(S[k], e)[n + 1] = e
  BY AppendProperties, LenProperties
<1> HIDE DEF n
<1>2. \A a \in 1 .. 5 : \A i \in 1 .. Len(R[a]) :
        \/ a = k /\ i = n + 1 /\ R[a][i] = e
        \/ (a = k => i <= n) /\ i \in 1 .. Len(S[a]) /\ R[a][i] = S[a][i]
  <2> SUFFICES ASSUME NEW a \in 1 .. 5, NEW i \in 1 .. Len(R[a])
               PROVE  \/ a = k /\ i = n + 1 /\ R[a][i] = e
                      \/ (a = k => i <= n) /\ i \in 1 .. Len(S[a]) /\ R[a][i] = S[a][i]
    OBVIOUS
  <2>1. CASE a = k
    <3>1. R[a] = Append(S[k], e)
      BY <1>0, <2>1
    <3> QED BY <1>1, <2>1, <3>1 DEF n
  <2>2. CASE a # k
    BY <1>0, <2>2
  <2> QED BY <2>1, <2>2
<1> SUFFICES ASSUME NEW a \in 1 .. 5, NEW b \in 1 .. 5,
                    NEW i \in 1 .. Len(R[a]), NEW j \in 1 .. Len(R[b]),
                    Ahead(a, i, b, j), R[a][i].by = rx, R[b][j].by = rx
             PROVE  R[a][i].n < R[b][j].n
  BY DEF Ordered
<1>3. CASE a = k /\ i = n + 1 /\ R[a][i] = e
  <2>1. k = 5 /\ b = 5 /\ n + 1 < j
    <3>1. k = 5
      BY <1>3
    <3>2. a = 5 /\ b <= 5 /\ b \in Int
      BY <1>3, <3>1
    <3> QED BY <1>3, <3>1, <3>2 DEF Ahead
  <2>2. j = n + 1 \/ j <= n
    BY <1>2, <2>1
  <2>3. n \in Nat /\ j \in Int
    BY <1>1
  <2> QED BY <2>1, <2>2, <2>3
<1>4. CASE i \in 1 .. Len(S[a]) /\ R[a][i] = S[a][i]
  <2>1. CASE R[b][j] = e
    BY <1>2, <1>4, <2>1 DEF Newest
  <2>2. CASE j \in 1 .. Len(S[b]) /\ R[b][j] = S[b][j]
    BY <1>4, <2>2 DEF Ordered
  <2> QED BY <1>2, <2>1, <2>2
<1> QED BY <1>2, <1>3, <1>4
-----------------------------------------------------------------------------
Direction(rx, w) == <<rx, w>> \in {<<"twai_rx", "uart">>, <<"uart_rx", "can">>}

LEMMA HeldTypes ==
  /\ \A x \in Element : /\ <<x>> \in Seq(Element) /\ <<x>> # <<>> /\ Len(<<x>>) = 1
                        /\ Head(<<x>>) = x /\ Tail(<<x>>) = <<>> /\ Append(<<>>, x) = <<x>>
                        /\ <<x>>[1] = x
  /\ <<>> \in Seq(Element) /\ Len(<<>>) = 0
OBVIOUS

LEMMA DirectionTypes ==
  ASSUME NEW rx, NEW w, Direction(rx, w)
  PROVE  /\ rx \in Receivers /\ rx \in Tasks /\ rx \in Makers /\ w \in Wires /\ rx # Loop
         /\ TxTask(w) \in Tasks /\ TxTask(w) # rx /\ TxTask(w) # Loop
<1>1. rx \in Receivers /\ w \in Wires
  BY DEF Direction, Receivers, Wires
<1> QED BY <1>1, TasksTypes

(* The stages before a step, S, and after it, R.                           *)
Between(S, R, rx, w) ==
  /\ S[1] = Held(TxTask(w)) /\ S[2] = txQ[w] /\ S[3] = Held(Loop)
  /\ S[4] = rxQ /\ S[5] = Held(rx)
  /\ R[1] = Held(TxTask(w))' /\ R[2] = txQ'[w] /\ R[3] = Held(Loop)'
  /\ R[4] = rxQ' /\ R[5] = Held(rx)'

LEMMA StagesStep ==
  ASSUME TypeOK, NEW rx, NEW w, Direction(rx, w), InOrder(rx, w)
  PROVE  \E S \in [1 .. 5 -> Seq(Element)] : \E R :
           Between(S, R, rx, w) /\ Ordered(S, rx) /\ (Ordered(R, rx) => InOrder(rx, w)')
<1>1. \A t \in Tasks : Held(t) \in Seq(Element)
  BY HeldTypes DEF TypeOK, Held
<1>2. Stages(rx, w) \in [1 .. 5 -> Seq(Element)]
  BY <1>1, DirectionTypes, TasksTypes DEF Stages, TypeOK
<1>3. /\ Stages(rx, w)[1] = Held(TxTask(w)) /\ Stages(rx, w)[2] = txQ[w]
      /\ Stages(rx, w)[3] = Held(Loop) /\ Stages(rx, w)[4] = rxQ
      /\ Stages(rx, w)[5] = Held(rx)
  BY DEF Stages
<1>4. /\ Stages(rx, w)'[1] = Held(TxTask(w))' /\ Stages(rx, w)'[2] = txQ'[w]
      /\ Stages(rx, w)'[3] = Held(Loop)' /\ Stages(rx, w)'[4] = rxQ'
      /\ Stages(rx, w)'[5] = Held(rx)'
  BY DEF Stages
<1>5. Ordered(Stages(rx, w), rx) /\ (Ordered(Stages(rx, w)', rx) => InOrder(rx, w)')
  BY DEF InOrder
<1> WITNESS Stages(rx, w) \in [1 .. 5 -> Seq(Element)]
<1> WITNESS Stages(rx, w)'
<1> QED BY <1>3, <1>4, <1>5 DEF Between

LEMMA OrderedSame ==
  ASSUME NEW rx, NEW S, NEW R, Ordered(S, rx), \A a \in 1 .. 5 : R[a] = S[a]
  PROVE  Ordered(R, rx)
BY DEF Ordered

LEMMA InOrderHand ==
  ASSUME IInv, NEW rx, NEW w, Direction(rx, w), NEW t \in Tasks, NEW x,
         hand' = [hand EXCEPT ![t] = x]
  PROVE  /\ Held(t)' = (IF x = None THEN <<>> ELSE <<x>>)
         /\ \A u \in Tasks \ {t} : Held(u)' = Held(u)
<1>1. hand'[t] = x /\ \A u \in Tasks \ {t} : hand'[u] = hand[u]
  BY HandKept DEF IInv
<1> QED BY <1>1 DEF Held

(* A maker has made a new element.                                         *)
LEMMA InOrderMalloc ==
  ASSUME IInv, NEW rx, NEW w, Direction(rx, w), InOrder(rx, w),
         NEW t \in Makers, Idle(t), Malloc(t), UNCHANGED <<rxQ, txQ>>
  PROVE  InOrder(rx, w)'
<1> USE TasksTypes DEF IInv
<1> DEFINE e == NewElement(t)
<1>1. e \in Element /\ e # None /\ e.by = t /\ e.n = made[t] + 1
  BY NewElementTypes DEF NewElement
<1>2. Held(t)' = <<e>> /\ \A u \in Tasks \ {t} : Held(u)' = Held(u)
  BY <1>1, InOrderHand DEF Malloc
<1> HIDE DEF e
<1>3. PICK S \in [1 .. 5 -> Seq(Element)] : \E R :
        Between(S, R, rx, w) /\ Ordered(S, rx) /\ (Ordered(R, rx) => InOrder(rx, w)')
  BY StagesStep
<1>4. PICK R :
        Between(S, R, rx, w) /\ Ordered(S, rx) /\ (Ordered(R, rx) => InOrder(rx, w)')
  BY <1>3
<1>5. CASE t = rx
  <2>1. Held(t) = <<>> /\ Append(<<>>, e) = <<e>>
    BY <1>1, HeldTypes DEF Held, Idle
  <2>2. Newest(S, rx, e)
    <3> SUFFICES ASSUME NEW a \in 1 .. 5, NEW i \in 1 .. Len(S[a]), S[a][i].by = rx
                 PROVE  S[a][i].n < e.n
      BY DEF Newest
    <3>1. \/ \E u \in Tasks : hand[u] # None /\ S[a][i] = hand[u]
          \/ \E p \in Places : \E j \in 1 .. Len(Queues[p]) : S[a][i] = Queues[p][j]
      <4>1. \A u \in Tasks : \A j \in 1 .. Len(Held(u)) : hand[u] # None /\ Held(u)[j] = hand[u]
        BY HeldTypes DEF Held, TypeOK
      <4>2. "rx" \in Places /\ w \in Places /\ Queues["rx"] = rxQ /\ Queues[w] = txQ[w]
        BY QueuesTypes, DirectionTypes
      <4>3. CASE a = 2
        BY <1>4, <4>2, <4>3 DEF Between
      <4>4. CASE a = 4
        BY <1>4, <4>2, <4>4 DEF Between
      <4>5. CASE a = 1 \/ a = 3 \/ a = 5
        BY <1>4, <4>1, <4>5, DirectionTypes DEF Between
      <4> QED BY <4>3, <4>4, <4>5
    <3>2. S[a][i] \in allocated
      <4>1. /\ \A u \in Tasks : hand[u] # None => hand[u] \in allocated
            /\ \A p \in Places : \A j \in 1 .. Len(Queues[p]) : Queues[p][j] \in allocated
        BY DEF Ownership, Owned
      <4> QED BY <3>1, <4>1
    <3>3. ~waiting \/ t # "uart_rx"
      <4>1. hand["uart_rx"] = NewElement("uart_rx") => hand["uart_rx"] # None
        BY NewElementTypes
      <4> QED BY <4>1 DEF Fresh, Idle
    <3>4. /\ S[a][i] \in Element /\ S[a][i].by = t
          /\ waiting => hand["uart_rx"].by = "uart_rx"
      <4>1. S[a][i] \in Element
        BY <3>2 DEF TypeOK
      <4>2. waiting => hand["uart_rx"].by = "uart_rx"
        BY DEF Fresh, NewElement
      <4> QED BY <1>5, <4>1, <4>2
    <3>5. S[a][i].n <= made[t]
      <4>1. ~(waiting /\ S[a][i] = hand["uart_rx"])
        BY <3>3, <3>4
      <4> QED BY <3>2, <3>4, <4>1 DEF Fresh
    <3>6. S[a][i].n \in Nat /\ made[t] \in Nat
      <4>1. S[a][i].n \in Nat
        BY <3>4 DEF Element
      <4>2. made[t] \in 0 .. MaxMessages
        BY TasksTypes DEF TypeOK
      <4> QED BY <4>1, <4>2, BoundAssumption
    <3>7. \A m, n \in Nat : m <= n => m < n + 1
      OBVIOUS
    <3> QED BY <1>1, <3>5, <3>6, <3>7
  <2>3. R[1] = S[1] /\ R[2] = S[2] /\ R[3] = S[3] /\ R[4] = S[4] /\ R[5] = Append(S[5], e)
    BY <1>2, <1>4, <1>5, <2>1, DirectionTypes DEF Between
  <2>4. Becomes(S, R, 5, Append(S[5], e))
    BY <2>3 DEF Becomes
  <2>5. Ordered(R, rx)
    <3>1. 5 \in 1 .. 5
      OBVIOUS
    <3> QED BY <1>1, <1>4, <2>2, <2>4, <3>1, OrderedAdd
  <2> QED BY <1>4, <2>5
<1>6. CASE t # rx
  <2>1. R[1] = S[1] /\ R[2] = S[2] /\ R[3] = S[3] /\ R[4] = S[4] /\ R[5] = S[5]
    BY <1>2, <1>4, <1>6, DirectionTypes DEF Between
  <2>2. \A a \in 1 .. 5 : R[a] = S[a]
    BY <2>1
  <2> QED BY <1>4, <2>2, OrderedSame
<1> QED BY <1>5, <1>6

(* A task lets go of the element in its hands.                             *)
LEMMA InOrderFree ==
  ASSUME IInv, NEW rx, NEW w, Direction(rx, w), InOrder(rx, w),
         NEW t \in Tasks, ~Idle(t), hand' = [hand EXCEPT ![t] = None],
         rxQ' = rxQ, txQ'[w] = txQ[w]
  PROVE  InOrder(rx, w)'
<1>1. Held(t)' = <<>> /\ \A u \in Tasks \ {t} : Held(u)' = Held(u)
  BY InOrderHand
<1>2. Held(t) # <<>> /\ Tail(Held(t)) = <<>>
  BY HeldTypes DEF Held, Idle, IInv, TypeOK
<1>3. PICK S \in [1 .. 5 -> Seq(Element)] : \E R :
        Between(S, R, rx, w) /\ Ordered(S, rx) /\ (Ordered(R, rx) => InOrder(rx, w)')
  BY StagesStep DEF IInv
<1>4. PICK R :
        Between(S, R, rx, w) /\ Ordered(S, rx) /\ (Ordered(R, rx) => InOrder(rx, w)')
  BY <1>3
<1>5. CASE t = TxTask(w)
  <2>1. /\ R[1] = Tail(S[1]) /\ S[1] # <<>>
        /\ R[2] = S[2] /\ R[3] = S[3] /\ R[4] = S[4] /\ R[5] = S[5]
    BY <1>1, <1>2, <1>4, <1>5, DirectionTypes, TasksTypes DEF Between
  <2>2. Becomes(S, R, 1, Tail(S[1]))
    BY <2>1 DEF Becomes
  <2>3. 1 \in 1 .. 5
    OBVIOUS
  <2> QED BY <1>4, <2>1, <2>2, <2>3, OrderedRemove
<1>6. CASE t = Loop
  <2>1. /\ R[3] = Tail(S[3]) /\ S[3] # <<>>
        /\ R[1] = S[1] /\ R[2] = S[2] /\ R[4] = S[4] /\ R[5] = S[5]
    BY <1>1, <1>2, <1>4, <1>6, DirectionTypes, TasksTypes DEF Between
  <2>2. Becomes(S, R, 3, Tail(S[3]))
    BY <2>1 DEF Becomes
  <2>3. 3 \in 1 .. 5
    OBVIOUS
  <2> QED BY <1>4, <2>1, <2>2, <2>3, OrderedRemove
<1>7. CASE t = rx
  <2>1. /\ R[5] = Tail(S[5]) /\ S[5] # <<>>
        /\ R[1] = S[1] /\ R[2] = S[2] /\ R[3] = S[3] /\ R[4] = S[4]
    BY <1>1, <1>2, <1>4, <1>7, DirectionTypes, TasksTypes DEF Between
  <2>2. Becomes(S, R, 5, Tail(S[5]))
    BY <2>1 DEF Becomes
  <2>3. 5 \in 1 .. 5
    OBVIOUS
  <2> QED BY <1>4, <2>1, <2>2, <2>3, OrderedRemove
<1>8. CASE t \notin {TxTask(w), Loop, rx}
  <2>1. R[1] = S[1] /\ R[2] = S[2] /\ R[3] = S[3] /\ R[4] = S[4] /\ R[5] = S[5]
    BY <1>1, <1>4, <1>8, DirectionTypes, TasksTypes DEF Between
  <2>2. \A a \in 1 .. 5 : R[a] = S[a]
    BY <2>1
  <2> QED BY <1>4, <2>2, OrderedSame
<1> QED BY <1>5, <1>6, <1>7, <1>8

(* An element moves from a hand to the queue rxQ.                          *)
LEMMA InOrderSendRx ==
  ASSUME IInv, NEW rx, NEW w, Direction(rx, w), InOrder(rx, w),
         NEW t \in Receivers, ~Idle(t), SendToBackRx(t), UNCHANGED txQ
  PROVE  InOrder(rx, w)'
<1> USE TasksTypes
<1>1. Held(t)' = <<>> /\ \A u \in Tasks \ {t} : Held(u)' = Held(u)
  BY InOrderHand DEF SendToBackRx
<1>2. hand[t] \in Element /\ hand[t].by = t
  BY DEF IInv, TypeOK, Forwarded, Idle
<1>3. /\ Held(t) # <<>> /\ Tail(Held(t)) = <<>> /\ Head(Held(t)) = hand[t]
  BY <1>2, HeldTypes DEF Held, Idle
<1>4. PICK S \in [1 .. 5 -> Seq(Element)] : \E R :
        Between(S, R, rx, w) /\ Ordered(S, rx) /\ (Ordered(R, rx) => InOrder(rx, w)')
  BY StagesStep DEF IInv
<1>5. PICK R :
        Between(S, R, rx, w) /\ Ordered(S, rx) /\ (Ordered(R, rx) => InOrder(rx, w)')
  BY <1>4
<1>6. CASE HasRoom(rxQ) /\ t = rx
  <2>1. Become(S, R, 4, Append(S[4], Head(S[4 + 1])), 4 + 1, Tail(S[4 + 1])) /\ S[4 + 1] # <<>>
    <3>1. /\ R[4] = Append(S[4], Head(S[5])) /\ R[5] = Tail(S[5]) /\ S[5] # <<>>
          /\ R[1] = S[1] /\ R[2] = S[2] /\ R[3] = S[3]
      BY <1>1, <1>3, <1>5, <1>6, DirectionTypes DEF Between, SendToBackRx, PutOrFree
    <3>2. 4 + 1 = 5
      OBVIOUS
    <3>3. \A a \in 1 .. 5 : a # 4 /\ a # 5 => R[a] = S[a]
      BY <3>1
    <3> QED BY <3>1, <3>2, <3>3 DEF Become
  <2>2. 4 \in 1 .. 4
    OBVIOUS
  <2> QED BY <1>5, <2>1, <2>2, OrderedMove
<1>7. CASE HasRoom(rxQ) /\ t # rx
  <2>1. Becomes(S, R, 4, Append(S[4], hand[t]))
    BY <1>1, <1>5, <1>7, DirectionTypes DEF Between, Becomes, SendToBackRx, PutOrFree
  <2>2. 4 \in 1 .. 5
    OBVIOUS
  <2> QED BY <1>2, <1>5, <1>7, <2>1, <2>2, OrderedAdd
<1>8. CASE ~HasRoom(rxQ)
  BY <1>8, InOrderFree DEF SendToBackRx, PutOrFree
<1> QED BY <1>6, <1>7, <1>8

(* The event loop or a sender puts an element on an outgoing queue.        *)
LEMMA InOrderSendTx ==
  ASSUME IInv, NEW rx, NEW w, Direction(rx, w), InOrder(rx, w),
         NEW t \in Senders \cup {Loop}, ~Idle(t), NEW v \in Wires, SendToBackTx(t, v),
         UNCHANGED rxQ
  PROVE  InOrder(rx, w)'
<1> USE TasksTypes
<1>1. Held(t)' = <<>> /\ \A u \in Tasks \ {t} : Held(u)' = Held(u)
  BY InOrderHand DEF SendToBackTx
<1>2. hand[t] \in Element /\ (t # Loop => hand[t].by = t) /\ t \in Tasks
  BY DEF IInv, TypeOK, Forwarded, Idle
<1>3. Held(t) # <<>> /\ Tail(Held(t)) = <<>> /\ Head(Held(t)) = hand[t]
  BY <1>2, HeldTypes DEF Held, Idle
<1>4. PICK S \in [1 .. 5 -> Seq(Element)] : \E R :
        Between(S, R, rx, w) /\ Ordered(S, rx) /\ (Ordered(R, rx) => InOrder(rx, w)')
  BY StagesStep DEF IInv
<1>5. PICK R :
        Between(S, R, rx, w) /\ Ordered(S, rx) /\ (Ordered(R, rx) => InOrder(rx, w)')
  BY <1>4
<1>6. txQ'[v] = PutOrFree(txQ[v], hand[t]) /\ \A u \in Wires \ {v} : txQ'[u] = txQ[u]
  BY DEF IInv, TypeOK, SendToBackTx
<1>7. CASE v = w /\ HasRoom(txQ[w]) /\ t = Loop
  <2>1. Become(S, R, 2, Append(S[2], Head(S[2 + 1])), 2 + 1, Tail(S[2 + 1])) /\ S[2 + 1] # <<>>
    <3>1. /\ R[2] = Append(S[2], Head(S[3])) /\ R[3] = Tail(S[3]) /\ S[3] # <<>>
          /\ R[1] = S[1] /\ R[4] = S[4] /\ R[5] = S[5]
      BY <1>1, <1>3, <1>5, <1>6, <1>7, DirectionTypes DEF Between, PutOrFree
    <3>2. 2 + 1 = 3
      OBVIOUS
    <3>3. \A a \in 1 .. 5 : a # 2 /\ a # 3 => R[a] = S[a]
      BY <3>1
    <3> QED BY <3>1, <3>2, <3>3 DEF Become
  <2>2. 2 \in 1 .. 4
    OBVIOUS
  <2> QED BY <1>5, <2>1, <2>2, OrderedMove
<1>8. CASE v = w /\ HasRoom(txQ[w]) /\ t # Loop
  <2>1. t # rx /\ t # TxTask(w)
    BY <1>8, DirectionTypes DEF Receivers
  <2>2. Becomes(S, R, 2, Append(S[2], hand[t]))
    BY <1>1, <1>2, <1>5, <1>6, <1>8, <2>1, DirectionTypes DEF Between, Becomes, PutOrFree
  <2>3. 2 \in 1 .. 5
    OBVIOUS
  <2> QED BY <1>2, <1>5, <1>8, <2>1, <2>2, <2>3, OrderedAdd
<1>9. CASE ~(v = w /\ HasRoom(txQ[w]))
  <2>1. txQ'[w] = txQ[w]
    BY <1>6, <1>9, DirectionTypes DEF PutOrFree
  <2> QED BY <1>2, <2>1, InOrderFree DEF SendToBackTx
<1> QED BY <1>7, <1>8, <1>9

(* A task takes the first element of its queue.                            *)
LEMMA InOrderLoopTake ==
  ASSUME IInv, NEW rx, NEW w, Direction(rx, w), InOrder(rx, w), LoopTake
  PROVE  InOrder(rx, w)'
<1>1. Head(rxQ) \in Element /\ Head(rxQ) # None
  BY TakeTypes, NoneIsNoElement DEF LoopTake, IInv, TypeOK
<1>2. Held(Loop)' = <<Head(rxQ)>> /\ \A u \in Tasks \ {Loop} : Held(u)' = Held(u)
  BY <1>1, InOrderHand, TasksTypes DEF LoopTake
<1>3. Held(Loop) = <<>> /\ Append(<<>>, Head(rxQ)) = <<Head(rxQ)>>
  BY <1>1, HeldTypes DEF LoopTake, Held, Idle
<1>4. PICK S \in [1 .. 5 -> Seq(Element)] : \E R :
        Between(S, R, rx, w) /\ Ordered(S, rx) /\ (Ordered(R, rx) => InOrder(rx, w)')
  BY StagesStep DEF IInv
<1>5. PICK R :
        Between(S, R, rx, w) /\ Ordered(S, rx) /\ (Ordered(R, rx) => InOrder(rx, w)')
  BY <1>4
<1>6. Become(S, R, 3, Append(S[3], Head(S[3 + 1])), 3 + 1, Tail(S[3 + 1])) /\ S[3 + 1] # <<>>
  BY <1>2, <1>3, <1>5, DirectionTypes DEF Between, Become, LoopTake
<1>7. 3 \in 1 .. 4
  OBVIOUS
<1> QED BY <1>5, <1>6, <1>7, OrderedMove

LEMMA InOrderTxTake ==
  ASSUME IInv, NEW rx, NEW w, Direction(rx, w), InOrder(rx, w), NEW v \in Wires, TxTake(v)
  PROVE  InOrder(rx, w)'
<1>1. Head(txQ[v]) \in Element /\ Head(txQ[v]) # None
  BY TakeTypes, NoneIsNoElement DEF TxTake, IInv, TypeOK
<1>2. /\ Held(TxTask(v))' = <<Head(txQ[v])>>
      /\ \A u \in Tasks \ {TxTask(v)} : Held(u)' = Held(u)
  BY <1>1, InOrderHand, TasksTypes DEF TxTake
<1>3. Held(TxTask(v)) = <<>> /\ Append(<<>>, Head(txQ[v])) = <<Head(txQ[v])>>
  BY <1>1, HeldTypes DEF TxTake, Held, Idle
<1>4. txQ'[v] = Tail(txQ[v]) /\ \A u \in Wires \ {v} : txQ'[u] = txQ[u]
  BY DEF IInv, TypeOK, TxTake
<1>5. PICK S \in [1 .. 5 -> Seq(Element)] : \E R :
        Between(S, R, rx, w) /\ Ordered(S, rx) /\ (Ordered(R, rx) => InOrder(rx, w)')
  BY StagesStep DEF IInv
<1>6. PICK R :
        Between(S, R, rx, w) /\ Ordered(S, rx) /\ (Ordered(R, rx) => InOrder(rx, w)')
  BY <1>5
<1>7. CASE v = w
  <2>1. Become(S, R, 1, Append(S[1], Head(S[1 + 1])), 1 + 1, Tail(S[1 + 1])) /\ S[1 + 1] # <<>>
    <3>1. /\ R[1] = Append(S[1], Head(S[2])) /\ R[2] = Tail(S[2]) /\ S[2] # <<>>
          /\ R[3] = S[3] /\ R[4] = S[4] /\ R[5] = S[5]
      BY <1>2, <1>3, <1>4, <1>6, <1>7, DirectionTypes, TasksTypes DEF Between, TxTake
    <3>2. 1 + 1 = 2
      OBVIOUS
    <3>3. \A a \in 1 .. 5 : a # 1 /\ a # 2 => R[a] = S[a]
      BY <3>1
    <3> QED BY <3>1, <3>2, <3>3 DEF Become
  <2>2. 1 \in 1 .. 4
    OBVIOUS
  <2> QED BY <1>6, <2>1, <2>2, OrderedMove
<1>8. CASE v # w
  <2>1. TxTask(v) \notin {TxTask(w), Loop, rx}
    BY <1>8, DirectionTypes, TasksTypes DEF Wires
  <2>2. R[1] = S[1] /\ R[2] = S[2] /\ R[3] = S[3] /\ R[4] = S[4] /\ R[5] = S[5]
    BY <1>2, <1>4, <1>6, <1>8, <2>1, DirectionTypes, TasksTypes DEF Between, TxTake
  <2>3. \A a \in 1 .. 5 : R[a] = S[a]
    BY <2>2
  <2> QED BY <1>6, <2>3, OrderedSame
<1> QED BY <1>7, <1>8

LEMMA OrderedEmpty ==
  ASSUME NEW rx, NEW R, R[1] = <<>>, R[2] = <<>>, R[3] = <<>>, R[4] = <<>>, R[5] = <<>>
  PROVE  Ordered(R, rx)
<1>1. Len(<<>>) = 0
  OBVIOUS
<1>2. \A a \in 1 .. 5 : R[a] = <<>>
  OBVIOUS
<1> QED BY <1>1, <1>2 DEF Ordered

LEMMA InitInOrder == ASSUME NEW rx, NEW w, Direction(rx, w), Init PROVE InOrder(rx, w)
BY OrderedEmpty, DirectionTypes, TasksTypes DEF InOrder, Stages, Init, Held

LEMMA InOrderStep ==
  ASSUME IInv, NEW rx, NEW w, Direction(rx, w), InOrder(rx, w), [Next]_vars
  PROVE  InOrder(rx, w)'
<1> USE TasksTypes
<1>1. ASSUME UNCHANGED <<hand, rxQ, txQ>> PROVE InOrder(rx, w)'
  BY <1>1 DEF InOrder, Stages, Held
<1>2. CASE CanReceive
  BY <1>2, InOrderMalloc DEF CanReceive
<1>3. CASE CanQueue
  BY <1>3, InOrderSendRx DEF CanQueue, Receivers
<1>4. CASE UartPrepare
  BY <1>4, InOrderMalloc DEF UartPrepare
<1>5. CASE UartReceive
  BY <1>1, <1>5 DEF UartReceive
<1>6. CASE UartReceiveFails
  <2>1. ~Idle("uart_rx")
    BY <1>6, NewElementTypes DEF UartReceiveFails, IInv, Fresh, Idle
  <2> QED BY <1>6, <2>1, InOrderFree DEF UartReceiveFails
<1>7. CASE UartQueue
  BY <1>7, InOrderSendRx DEF UartQueue, Receivers
<1>8. CASE LoopTake
  BY <1>8, InOrderLoopTake
<1>9. CASE QueueRecvCallback
  <2>1. CASE passthrough
    <3>1. Opposite(hand[Loop]) \in Wires
      BY DEF Opposite, Wires
    <3> QED BY <1>9, <2>1, <3>1, InOrderSendTx DEF QueueRecvCallback
  <2>2. CASE ~passthrough
    BY <1>9, <2>2, InOrderFree DEF QueueRecvCallback
  <2> QED BY <2>1, <2>2
<1>10. ASSUME NEW s \in Senders, Dump(s) PROVE InOrder(rx, w)'
  BY <1>10, InOrderMalloc DEF Dump
<1>11. ASSUME NEW s \in Senders, Enqueue(s) PROVE InOrder(rx, w)'
  BY <1>11, InOrderSendTx DEF Enqueue, SenderWire, Wires
<1>12. ASSUME NEW v \in Wires, TxTake(v) PROVE InOrder(rx, w)'
  BY <1>12, InOrderTxTake
<1>13. ASSUME NEW v \in Wires, Transmit(v) PROVE InOrder(rx, w)'
  BY <1>13, InOrderFree DEF Transmit
<1>14. CASE UserPassthrough
  BY <1>1, <1>14 DEF UserPassthrough
<1>15. CASE Reboot
  <2>1. /\ Held(TxTask(w))' = <<>> /\ txQ'[w] = <<>> /\ Held(Loop)' = <<>>
        /\ rxQ' = <<>> /\ Held(rx)' = <<>>
    BY <1>15, DirectionTypes DEF Reboot, Held
  <2>2. PICK S \in [1 .. 5 -> Seq(Element)] : \E R :
          Between(S, R, rx, w) /\ Ordered(S, rx) /\ (Ordered(R, rx) => InOrder(rx, w)')
    BY StagesStep DEF IInv
  <2> QED BY <2>1, <2>2, OrderedEmpty DEF Between
<1>16. CASE UNCHANGED vars
  BY <1>1, <1>16 DEF vars
<1> QED BY <1>2, <1>3, <1>4, <1>5, <1>6, <1>7, <1>8, <1>9, <1>10, <1>11, <1>12,
           <1>13, <1>14, <1>15, <1>16 DEF Next, TaskStep
-----------------------------------------------------------------------------
(* What a step of the pipeline is for the link of one direction.           *)
LinkStep(rx, w) ==
  \/ /\ made'[rx] = made[rx] + 1 /\ left'[w] = left[w]
     /\ Pending(rx)' = Pending(rx) \cup {made[rx] + 1}
  \/ /\ made'[rx] = made[rx] /\ left'[w] = left[w]
     /\ Pending(rx)' \subseteq Pending(rx)
  \/ /\ made'[rx] = made[rx] /\ left'[w] \in Pending(rx)
     /\ \A m \in Pending(rx) : left'[w] <= m
     /\ Pending(rx)' = Pending(rx) \ {left'[w]}
  \/ /\ made'[rx] = 0 /\ left'[w] = 0 /\ Pending(rx)' = {}

Message(rx, n) == [by |-> rx, n |-> n]

LEMMA MessageTypes ==
  ASSUME NEW e \in Element, NEW rx, NEW n
  PROVE  (e = Message(rx, n) <=> e.by = rx /\ e.n = n) /\ e.n \in Nat \ {0} /\ e.by \in Makers
BY DEF Element, Message

LEMMA LinkLoses ==
  ASSUME NEW rx, NEW w, made'[rx] = made[rx], left'[w] = left[w],
         \A n \in 1 .. made[rx] : Message(rx, n) \in allocated' => Message(rx, n) \in allocated
  PROVE  LinkStep(rx, w)
BY DEF LinkStep, Pending, Message

(* Of the messages of rx on their way, the one in the hands of the task    *)
(* that transmits is the oldest.                                           *)
LEMMA OldestTransmits ==
  ASSUME IInv, NEW rx, NEW w, Direction(rx, w), InOrder(rx, w),
         ~Idle(TxTask(w)), hand[TxTask(w)].by = rx, NEW m \in Pending(rx)
  PROVE  hand[TxTask(w)].n <= m
<1> USE TasksTypes, DirectionTypes
<1> DEFINE e == hand[TxTask(w)]
           x == Message(rx, m)
           S == Stages(rx, w)
<1>1. m \in 1 .. made[rx] /\ x \in allocated
  BY DEF Pending, Message
<1>2. x \in Element /\ e \in Element /\ x.by = rx /\ x.n = m /\ m \in Nat /\ e.n \in Nat
  <2>1. x \in Element /\ e \in Element
    BY <1>1 DEF IInv, TypeOK, Idle
  <2> QED BY <2>1 DEF Element, Message
<1>3. /\ S[1] = Held(TxTask(w)) /\ S[2] = txQ[w] /\ S[3] = Held(Loop)
      /\ S[4] = rxQ /\ S[5] = Held(rx)
  BY DEF Stages
<1>4. 1 \in 1 .. Len(S[1]) /\ S[1][1] = e
  BY <1>2, <1>3, HeldTypes DEF Held, Idle
<1> HIDE DEF S
<1>5. \E a \in 1 .. 5 : \E i \in 1 .. Len(S[a]) : S[a][i] = x
  <2>0. x # None
    BY <1>2, NoneIsNoElement
  <2>1. CASE \E t \in Tasks : hand[t] = x
    <3>1. PICK t \in Tasks : hand[t] = x
      BY <2>1
    <3>2. t = rx \/ t = Loop \/ t = TxTask(w)
      <4>1. CASE t \in Makers
        BY <1>2, <2>0, <3>1, <4>1 DEF IInv, Forwarded
      <4>2. CASE t \in TxTasks
        <5>1. PICK v \in Wires : t = TxTask(v)
          BY <4>2 DEF TxTasks
        <5>2. Opposite(x) = v
          BY <1>2, <2>0, <3>1, <5>1 DEF IInv, Forwarded, Allowed
        <5> QED BY <1>2, <5>1, <5>2 DEF Opposite, Direction
      <4> QED BY <3>1, <4>1, <4>2 DEF Tasks
    <3>3. Len(Held(t)) = 1 /\ Held(t)[1] = x
      BY <1>2, <2>0, <3>1, HeldTypes DEF Held
    <3>4. 1 \in 1 .. 1
      OBVIOUS
    <3> QED BY <1>3, <3>2, <3>3, <3>4
  <2>2. CASE \E p \in Places : \E i \in 1 .. Len(Queues[p]) : Queues[p][i] = x
    <3>1. PICK p \in Places : \E i \in 1 .. Len(Queues[p]) : Queues[p][i] = x
      BY <2>2
    <3>2. Queues["rx"] = rxQ /\ \A v \in Wires : Queues[v] = txQ[v]
      BY QueuesTypes DEF IInv
    <3>3. p = "rx" \/ p = w
      <4>1. CASE p \in Wires
        <5>1. Opposite(x) = p
          BY <1>2, <3>1, <3>2, <4>1 DEF IInv, Forwarded, Allowed
        <5> QED BY <1>2, <5>1 DEF Opposite, Direction
      <4> QED BY <4>1 DEF Places
    <3> QED BY <1>3, <3>1, <3>2, <3>3
  <2> QED BY <1>1, <2>1, <2>2 DEF IInv, Ownership, Owned
<1>6. PICK a \in 1 .. 5 : \E i \in 1 .. Len(S[a]) : S[a][i] = x
  BY <1>5
<1>7. PICK i \in 1 .. Len(S[a]) : S[a][i] = x
  BY <1>6
<1>8. CASE a = 1
  <2>1. Len(S[1]) = 1 /\ i = 1
    BY <1>2, <1>3, <1>4, <1>7, <1>8, HeldTypes DEF Held, Idle
  <2> QED BY <1>2, <1>4, <1>7, <1>8, <2>1
<1>9. CASE a # 1
  <2>1. Ahead(1, 1, a, i)
    BY <1>9 DEF Ahead
  <2>2. e.n < x.n
    <3>1. Ordered(S, rx) /\ 1 \in 1 .. 5
      BY DEF InOrder, S
    <3> QED BY <1>2, <1>4, <1>7, <2>1, <3>1 DEF Ordered
  <2> QED BY <1>2, <2>2
<1> QED BY <1>8, <1>9

LEMMA StepIsLinkStep ==
  ASSUME IInv, NEW rx, NEW w, Direction(rx, w), InOrder(rx, w), [Next]_vars
  PROVE  LinkStep(rx, w)
<1> USE TasksTypes, DirectionTypes
<1>1. ASSUME allocated' \subseteq allocated, UNCHANGED <<made, left>>
      PROVE  LinkStep(rx, w)
  BY <1>1, LinkLoses
<1>2. made[rx] \in Nat
  BY DEF IInv, TypeOK
<1>3. ASSUME NEW t \in Makers, made' = [made EXCEPT ![t] = @ + 1], UNCHANGED left
      PROVE  /\ t = rx => made'[rx] = made[rx] + 1
             /\ t # rx => made'[rx] = made[rx]
             /\ left'[w] = left[w]
  BY <1>3 DEF IInv, TypeOK
<1>4. ASSUME made'[rx] = made[rx] + 1, left'[w] = left[w],
             Message(rx, made[rx] + 1) \in allocated',
             \A n \in 1 .. made[rx] : Message(rx, n) \in allocated' <=> Message(rx, n) \in allocated
      PROVE  LinkStep(rx, w)
  <2>1. 1 .. made'[rx] = (1 .. made[rx]) \cup {made[rx] + 1}
    BY <1>2, <1>4
  <2>2. Pending(rx)' = {n \in 1 .. made'[rx] : Message(rx, n) \in allocated'}
    BY DEF Pending, Message
  <2>3. Pending(rx) = {n \in 1 .. made[rx] : Message(rx, n) \in allocated}
    BY DEF Pending, Message
  <2>4. Pending(rx)' = Pending(rx) \cup {made[rx] + 1}
    BY <1>4, <2>1, <2>2, <2>3
  <2> QED BY <1>4, <2>4 DEF LinkStep
<1>5. CASE CanReceive
  <2>1. NewElement("twai_rx") = Message("twai_rx", made["twai_rx"] + 1)
    BY DEF NewElement, Message
  <2>2. CASE rx = "twai_rx"
    <3>1. \A n \in 1 .. made[rx] : n # made[rx] + 1
      BY <1>2
    <3>2. \A n \in 1 .. made[rx] : Message(rx, n) # Message(rx, made[rx] + 1)
      BY <3>1 DEF Message
    <3> QED BY <1>3, <1>4, <1>5, <2>1, <2>2, <3>2 DEF CanReceive, Malloc
  <2>3. CASE rx # "twai_rx"
    <3>1. \A n : Message(rx, n) # Message("twai_rx", made["twai_rx"] + 1)
      BY <2>3 DEF Message
    <3> QED BY <1>3, <1>5, <2>1, <2>3, <3>1, LinkLoses DEF CanReceive, Malloc
  <2> QED BY <2>2, <2>3
<1>6. CASE CanQueue
  BY <1>1, <1>6 DEF CanQueue, SendToBackRx, Free
<1>7. CASE UartPrepare
  <2>1. NewElement("uart_rx") = Message("uart_rx", made["uart_rx"] + 1)
    BY DEF NewElement, Message
  <2>2. \A n \in 1 .. made[rx] : Message(rx, n) # Message("uart_rx", made["uart_rx"] + 1)
    <3>1. \A n \in 1 .. made[rx] : n # made[rx] + 1
      BY <1>2
    <3> QED BY <3>1 DEF Message
  <2> QED BY <1>7, <2>1, <2>2, LinkLoses DEF UartPrepare, Malloc
<1>8. CASE UartReceive
  <2>1. CASE rx = "uart_rx"
    <3>1. hand[rx] = Message(rx, made[rx] + 1) /\ hand[rx] # None
      BY <1>8, <2>1, NewElementTypes DEF UartReceive, IInv, Fresh, NewElement, Message
    <3>2. hand[rx] \in allocated
      BY <3>1 DEF IInv, Ownership, Owned
    <3> QED BY <1>3, <1>4, <1>8, <2>1, <3>1, <3>2 DEF UartReceive
  <2>2. CASE rx # "uart_rx"
    BY <1>3, <1>8, <2>2, LinkLoses DEF UartReceive
  <2> QED BY <2>1, <2>2
<1>9. CASE UartReceiveFails
  BY <1>1, <1>9 DEF UartReceiveFails, Free
<1>10. CASE UartQueue
  BY <1>1, <1>10 DEF UartQueue, SendToBackRx, Free
<1>11. CASE LoopTake
  BY <1>1, <1>11 DEF LoopTake
<1>12. CASE QueueRecvCallback
  BY <1>1, <1>12 DEF QueueRecvCallback, SendToBackTx, Free
<1>13. ASSUME NEW s \in Senders, Dump(s) PROVE LinkStep(rx, w)
  <2>1. s # rx
    BY DEF Direction
  <2>2. NewElement(s) = Message(s, made[s] + 1)
    BY DEF NewElement, Message
  <2>3. \A n : Message(rx, n) # Message(s, made[s] + 1)
    BY <2>1 DEF Message
  <2> QED BY <1>3, <1>13, <2>1, <2>2, <2>3, LinkLoses DEF Dump, Malloc
<1>14. ASSUME NEW s \in Senders, Enqueue(s) PROVE LinkStep(rx, w)
  BY <1>1, <1>14 DEF Enqueue, SendToBackTx, Free
<1>15. ASSUME NEW v \in Wires, TxTake(v) PROVE LinkStep(rx, w)
  BY <1>1, <1>15 DEF TxTake
<1>16. ASSUME NEW v \in Wires, Transmit(v) PROVE LinkStep(rx, w)
  <2> DEFINE e == hand[TxTask(v)]
  <2>1. e \in Element /\ e \in allocated /\ Allowed(e, v)
    BY <1>16 DEF Transmit, IInv, TypeOK, Ownership, Owned, Forwarded, Idle
  <2>2. allocated' = allocated \ {e} /\ made' = made
    BY <1>16 DEF Transmit, Free
  <2>3. CASE left'[w] = left[w]
    BY <2>2, <2>3, LinkLoses
  <2>4. CASE left'[w] # left[w]
    <3>1. v = w /\ left'[w] = e.n /\ e.by \in Receivers
      BY <1>16, <2>4 DEF Transmit, IInv, TypeOK
    <3>2. e.by = rx
      BY <2>1, <3>1 DEF Allowed, Opposite, Direction, Receivers
    <3>3. e = Message(rx, e.n) /\ e.n \in Nat \ {0}
      BY <2>1, <3>2, MessageTypes
    <3>4. e.n <= made[rx]
      <4>1. ~(waiting /\ e = hand["uart_rx"])
        BY <1>16 DEF Transmit, IInv, Ownership, Owned, Idle
      <4> QED BY <2>1, <3>2, <4>1 DEF IInv, Fresh
    <3>5. e.n \in Pending(rx)
      BY <1>2, <2>1, <3>3, <3>4 DEF Pending, Message
    <3>6. \A m \in Pending(rx) : e.n <= m
      BY <1>16, <3>1, <3>2, OldestTransmits DEF Transmit
    <3>7. \A n : Message(rx, n) = e <=> n = e.n
      BY <3>3 DEF Message
    <3>8. Pending(rx)' = {n \in 1 .. made[rx] : Message(rx, n) \in allocated \ {e}}
      BY <2>2 DEF Pending, Message
    <3>9. Pending(rx)' = Pending(rx) \ {e.n}
      BY <3>7, <3>8 DEF Pending, Message
    <3> QED BY <2>2, <3>1, <3>5, <3>6, <3>9 DEF LinkStep
  <2> QED BY <2>3, <2>4
<1>17. CASE UserPassthrough
  BY <1>1, <1>17 DEF UserPassthrough
<1>18. CASE Reboot
  BY <1>18 DEF Reboot, LinkStep, Pending
<1>19. CASE UNCHANGED vars
  BY <1>1, <1>19 DEF vars
<1> QED BY <1>5, <1>6, <1>7, <1>8, <1>9, <1>10, <1>11, <1>12, <1>13, <1>14, <1>15,
           <1>16, <1>17, <1>18, <1>19 DEF Next, TaskStep

(* Each direction forwards as LossyLink says: messages leave in the order  *)
(* in which they arrived, each at most once, though they pass through five *)
(* places, share queues with other traffic and may be dropped at each.     *)
THEOREM ImplementsLossyLink == Spec => ForwardsInOrder
<1> DEFINE JInv == IInv /\ InOrder("twai_rx", "uart") /\ InOrder("uart_rx", "can")
<1>1. Direction("twai_rx", "uart") /\ Direction("uart_rx", "can")
  BY DEF Direction
<1>2. Init => JInv
  BY <1>1, InitIInv, InitInOrder
<1>3. JInv /\ [Next]_vars => JInv'
  BY <1>1, TypeStep, OwnershipStep, FreshStep, ForwardedStep, InOrderStep DEF IInv
<1>4. Init => CanToUart!Init /\ UartToCan!Init
  BY TasksTypes DEF Init, CanToUart!Init, UartToCan!Init, Pending, Wires
<1>5. JInv /\ [Next]_vars => [CanToUart!Next]_(CanToUart!vars)
  <2>1. JInv /\ [Next]_vars => LinkStep("twai_rx", "uart")
    BY <1>1, StepIsLinkStep
  <2>2. LinkStep("twai_rx", "uart") => CanToUart!Next
    BY DEF LinkStep, CanToUart!Next, CanToUart!Arrive, CanToUart!Lose, CanToUart!Leave,
           CanToUart!Reboot
  <2> QED BY <2>1, <2>2
<1>6. JInv /\ [Next]_vars => [UartToCan!Next]_(UartToCan!vars)
  <2>1. JInv /\ [Next]_vars => LinkStep("uart_rx", "can")
    BY <1>1, StepIsLinkStep
  <2>2. LinkStep("uart_rx", "can") => UartToCan!Next
    BY DEF LinkStep, UartToCan!Next, UartToCan!Arrive, UartToCan!Lose, UartToCan!Leave,
           UartToCan!Reboot
  <2> QED BY <2>1, <2>2
<1> HIDE DEF JInv
<1> QED BY <1>2, <1>3, <1>4, <1>5, <1>6, PTL
        DEF Spec, ForwardsInOrder, CanToUart!Spec, UartToCan!Spec
=============================================================================

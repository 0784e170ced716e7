---------------------------- MODULE AnalyticsProofs ----------------------------
(***************************************************************************)
(* Proofs about Analytics.  For any set of events: the backend gets every  *)
(* event with the time at which it happened, no event is forgotten by a    *)
(* shutdown, and Analytics implements EventDelivery.  For any zones:       *)
(* SystemTime agrees with the System plugin.  For any size of the          *)
(* database: LocalStore gives every event to one batch.                    *)
(***************************************************************************)
EXTENDS MCAnalytics, SequenceTheorems, FunctionTheorems, FiniteSetTheorems, TLAPS

(***************************************************************************)
(* Sequences: the queues as one sequence, and what a step does to it.      *)
(***************************************************************************)

\* Leaving out one element.
LEMMA WithoutProperties ==
  ASSUME NEW S, NEW s \in Seq(S), NEW i \in 1 .. Len(s)
  PROVE  /\ Delivery!Without(s, i) \in Seq(S)
         /\ Len(Delivery!Without(s, i)) = Len(s) - 1
         /\ \A j \in 1 .. Len(s) - 1 :
              Delivery!Without(s, i)[j] = IF j < i THEN s[j] ELSE s[j + 1]
  <1> DEFINE a == SubSeq(s, 1, i - 1)
             b == SubSeq(s, i + 1, Len(s))
  <1>1. Len(s) \in Nat /\ \A j \in 1 .. Len(s) : s[j] \in S
    BY ElementOfSeq, LenProperties
  <1>2. /\ a \in Seq(S) /\ Len(a) = i - 1 /\ \A j \in 1 .. i - 1 : a[j] = s[j]
    <2>1. \A j \in 1 .. i - 1 : s[j] \in S
      BY <1>1
    <2>2. QED
      BY <1>1, <2>1, SubSeqProperties
  <1>3. /\ b \in Seq(S) /\ Len(b) = Len(s) - i /\ \A j \in 1 .. Len(s) - i : b[j] = s[i + j]
    <2>1. \A j \in i + 1 .. Len(s) : s[j] \in S
      BY <1>1
    <2> HIDE DEF b
    <2>2. /\ b \in Seq(S) /\ Len(b) = IF i + 1 <= Len(s) THEN Len(s) - (i + 1) + 1 ELSE 0
          /\ \A j \in 1 .. Len(s) - (i + 1) + 1 : b[j] = s[i + 1 + j - 1]
      BY <1>1, <2>1, SubSeqProperties DEF b
    <2>3. QED
      BY <1>1, <2>2
  <1> HIDE DEF a, b
  <1>4. /\ a \o b \in Seq(S) /\ Len(a \o b) = Len(a) + Len(b)
        /\ \A j \in 1 .. Len(a) + Len(b) : (a \o b)[j] = IF j <= Len(a) THEN a[j] ELSE b[j - Len(a)]
    BY <1>2, <1>3, ConcatProperties
  <1>5. \A j \in 1 .. Len(s) - 1 : (a \o b)[j] = IF j < i THEN s[j] ELSE s[j + 1]
    <2> SUFFICES ASSUME NEW j \in 1 .. Len(s) - 1
                 PROVE  (a \o b)[j] = IF j < i THEN s[j] ELSE s[j + 1]
      OBVIOUS
    <2>1. CASE j < i
      BY <1>1, <1>2, <1>3, <1>4, <2>1
    <2>2. CASE j >= i
      <3>1. j - (i - 1) \in 1 .. Len(s) - i
        BY <1>1, <2>2
      <3>2. b[j - (i - 1)] = s[i + (j - (i - 1))]
        BY <1>3, <3>1
      <3>3. i + (j - (i - 1)) = j + 1
        BY <1>1
      <3>4. (a \o b)[j] = b[j - (i - 1)]
        BY <1>1, <1>2, <1>3, <1>4, <2>2
      <3>5. QED
        BY <1>1, <2>2, <3>2, <3>3, <3>4
    <2>3. j < i \/ j >= i
      BY <1>1
    <2>4. QED
      BY <2>1, <2>2, <2>3
  <1>6. Delivery!Without(s, i) = a \o b
    BY DEF Delivery!Without, a, b
  <1>7. QED
    BY <1>1, <1>2, <1>3, <1>4, <1>5, <1>6

\* The three sequences one after the other.
LEMMA ThreeConcat ==
  ASSUME NEW S, NEW m \in Seq(S), NEW a \in Seq(S), NEW q \in Seq(S)
  PROVE  /\ m \o a \o q \in Seq(S)
         /\ Len(m \o a \o q) = Len(m) + Len(a) + Len(q)
         /\ \A i \in 1 .. Len(m) + Len(a) + Len(q) :
              (m \o a \o q)[i] = IF i <= Len(m) THEN m[i]
                                 ELSE IF i <= Len(m) + Len(a) THEN a[i - Len(m)]
                                 ELSE q[i - Len(m) - Len(a)]
  <1> DEFINE ma == m \o a
  <1>1. Len(m) \in Nat /\ Len(a) \in Nat /\ Len(q) \in Nat
    BY LenProperties
  <1>2. /\ ma \in Seq(S) /\ Len(ma) = Len(m) + Len(a)
        /\ \A i \in 1 .. Len(m) + Len(a) : ma[i] = IF i <= Len(m) THEN m[i] ELSE a[i - Len(m)]
    BY ConcatProperties
  <1> HIDE DEF ma
  <1>3. /\ ma \o q \in Seq(S) /\ Len(ma \o q) = Len(ma) + Len(q)
        /\ \A i \in 1 .. Len(ma) + Len(q) : (ma \o q)[i] = IF i <= Len(ma) THEN ma[i] ELSE q[i - Len(ma)]
    <2>1. ma \in Seq(S)
      BY <1>2
    <2>2. QED
      BY <2>1, ConcatProperties
  <1>4. QED
    BY <1>1, <1>2, <1>3 DEF ma

\* What the steps of ActionLoop and its callers do to the three sequences.
LEMMA QueueMoves ==
  ASSUME NEW S, NEW m \in Seq(S), NEW q \in Seq(S), NEW e \in S
  PROVE  /\ m \o <<>> \o Append(q, e) = Append(m \o <<>> \o q, e)
         /\ \A f \in S : m \o <<f>> \o Append(q, e) = Append(m \o <<f>> \o q, e)
         /\ q # <<>> => m \o <<Head(q)>> \o Tail(q) = m \o <<>> \o q
         /\ Append(m, e) \o <<>> \o q = m \o <<e>> \o q
         /\ m \o <<>> \o q = Delivery!Without(m \o <<e>> \o q, Len(m) + 1)
         /\ m # <<>> => Tail(m) \o <<>> \o q = Delivery!Without(m \o <<>> \o q, 1)
  <1>1. Len(m) \in Nat /\ Len(q) \in Nat
    BY LenProperties
  <1>2. /\ <<>> \in Seq(S) /\ Len(<<>>) = 0
        /\ \A f \in S : <<f>> \in Seq(S) /\ Len(<<f>>) = 1 /\ <<f>>[1] = f
    OBVIOUS
  <1>3. \A a \in Seq(S) : m \o a \o Append(q, e) = Append(m \o a \o q, e)
    <2> SUFFICES ASSUME NEW a \in Seq(S)
                 PROVE  m \o a \o Append(q, e) = Append(m \o a \o q, e)
      OBVIOUS
    <2>1. m \o a \in Seq(S)
      BY ConcatProperties
    <2>2. Append(q, e) = q \o <<e>> /\ q \o <<e>> \in Seq(S)
      BY <1>2, AppendIsConcat, ConcatProperties
    <2>3. Append(m \o a \o q, e) = (m \o a \o q) \o <<e>>
      BY ThreeConcat, AppendIsConcat
    <2>4. QED
      BY <1>2, <2>1, <2>2, <2>3, ConcatAssociative
  <1>4. ASSUME q # <<>> PROVE m \o <<Head(q)>> \o Tail(q) = m \o <<>> \o q
    <2>1. /\ Head(q) \in S /\ Tail(q) \in Seq(S) /\ Len(Tail(q)) = Len(q) - 1
          /\ \A i \in 1 .. Len(q) - 1 : Tail(q)[i] = q[i + 1]
      BY <1>4, HeadTailProperties
    <2>2. Head(q) = q[1]
      BY <1>4
    <2> DEFINE s == m \o <<Head(q)>> \o Tail(q)
               t == m \o <<>> \o q
    <2>3. /\ s \in Seq(S) /\ Len(s) = Len(m) + Len(q)
          /\ \A i \in 1 .. Len(m) + Len(q) :
               s[i] = IF i <= Len(m) THEN m[i] ELSE IF i <= Len(m) + 1 THEN q[1] ELSE q[i - Len(m)]
      BY <1>1, <1>2, <2>1, <2>2, ThreeConcat
    <2>4. /\ t \in Seq(S) /\ Len(t) = Len(m) + Len(q)
          /\ \A i \in 1 .. Len(m) + Len(q) : t[i] = IF i <= Len(m) THEN m[i] ELSE q[i - Len(m)]
      BY <1>1, <1>2, ThreeConcat
    <2> HIDE DEF s, t
    <2>5. ASSUME NEW i \in 1 .. Len(s) PROVE s[i] = t[i]
      <3>1. i \in 1 .. Len(m) + Len(q)
        BY <2>3, <2>5
      <3>2. t[i] = IF i <= Len(m) THEN m[i] ELSE q[i - Len(m)]
        BY <2>4, <3>1
      <3>3. s[i] = IF i <= Len(m) THEN m[i] ELSE IF i <= Len(m) + 1 THEN q[1] ELSE q[i - Len(m)]
        BY <2>3, <3>1
      <3>4. i > Len(m) /\ i <= Len(m) + 1 => i - Len(m) = 1
        BY <1>1, <3>1
      <3>5. QED
        BY <1>1, <3>1, <3>2, <3>3, <3>4
    <2>6. s = t
      BY <2>3, <2>4, <2>5, SeqEqual
    <2>7. QED
      BY <2>6 DEF s, t
  <1>5. Append(m, e) \o <<>> \o q = m \o <<e>> \o q
    <2>1. Append(m, e) = m \o <<e>> /\ m \o <<e>> \in Seq(S)
      BY <1>2, AppendIsConcat, ConcatProperties
    <2>2. (m \o <<e>>) \o <<>> = m \o <<e>>
      BY <2>1, ConcatEmptySeq
    <2>3. QED
      BY <2>1, <2>2
  <1>6. m \o <<>> \o q = Delivery!Without(m \o <<e>> \o q, Len(m) + 1)
    <2> DEFINE s == m \o <<>> \o q
               u == m \o <<e>> \o q
               t == Delivery!Without(u, Len(m) + 1)
    <2>1. /\ s \in Seq(S) /\ Len(s) = Len(m) + Len(q)
          /\ \A i \in 1 .. Len(m) + Len(q) : s[i] = IF i <= Len(m) THEN m[i] ELSE q[i - Len(m)]
      BY <1>1, <1>2, ThreeConcat
    <2>2. /\ u \in Seq(S) /\ Len(u) = Len(m) + 1 + Len(q)
          /\ \A i \in 1 .. Len(m) + 1 + Len(q) :
               u[i] = IF i <= Len(m) THEN m[i] ELSE IF i <= Len(m) + 1 THEN <<e>>[i - Len(m)] ELSE q[i - Len(m) - 1]
      BY <1>1, <1>2, ThreeConcat
    <2> HIDE DEF s, u
    <2>3. /\ t \in Seq(S) /\ Len(t) = Len(m) + Len(q)
          /\ \A i \in 1 .. Len(m) + Len(q) : t[i] = IF i < Len(m) + 1 THEN u[i] ELSE u[i + 1]
      <3>1. Len(m) + 1 \in 1 .. Len(u) /\ Len(u) - 1 = Len(m) + Len(q)
        BY <1>1, <2>2
      <3>2. QED
        BY <2>2, <3>1, WithoutProperties
    <2> HIDE DEF t
    <2>4. ASSUME NEW i \in 1 .. Len(s) PROVE s[i] = t[i]
      <3>1. i \in 1 .. Len(m) + Len(q) /\ i \in Int
        BY <1>1, <2>1, <2>4
      <3>2. t[i] = IF i < Len(m) + 1 THEN u[i] ELSE u[i + 1]
        BY <2>3, <3>1
      <3>3. i < Len(m) + 1 => u[i] = m[i]
        BY <1>1, <2>2, <3>1
      <3>4. ~(i < Len(m) + 1) => u[i + 1] = q[i - Len(m)]
        <4>1. SUFFICES ASSUME ~(i < Len(m) + 1) PROVE u[i + 1] = q[i - Len(m)]
          OBVIOUS
        <4>2. i + 1 \in 1 .. Len(m) + 1 + Len(q) /\ ~(i + 1 <= Len(m) + 1) /\ ~(i + 1 <= Len(m))
          BY <1>1, <3>1, <4>1
        <4>3. u[i + 1] = q[i + 1 - Len(m) - 1]
          BY <2>2, <4>2
        <4>4. i + 1 - Len(m) - 1 = i - Len(m)
          BY <1>1, <3>1
        <4>5. QED
          BY <4>3, <4>4
      <3>5. i < Len(m) + 1 <=> i <= Len(m)
        BY <1>1, <3>1
      <3>6. QED
        BY <2>1, <3>1, <3>2, <3>3, <3>4, <3>5
    <2>5. s = t
      BY <2>1, <2>3, <2>4, SeqEqual
    <2>6. QED
      BY <2>5 DEF s, t, u
  <1>7. ASSUME m # <<>> PROVE Tail(m) \o <<>> \o q = Delivery!Without(m \o <<>> \o q, 1)
    <2> DEFINE s == Tail(m) \o <<>> \o q
               u == m \o <<>> \o q
               t == Delivery!Without(u, 1)
    <2>0. /\ Tail(m) \in Seq(S) /\ Len(Tail(m)) = Len(m) - 1 /\ Len(m) > 0
          /\ \A i \in 1 .. Len(m) - 1 : Tail(m)[i] = m[i + 1]
      BY <1>1, <1>7, HeadTailProperties, EmptySeq
    <2>1. /\ s \in Seq(S) /\ Len(s) = Len(m) - 1 + Len(q)
          /\ \A i \in 1 .. Len(m) - 1 + Len(q) :
               s[i] = IF i <= Len(m) - 1 THEN m[i + 1] ELSE q[i - (Len(m) - 1)]
      BY <1>1, <1>2, <2>0, ThreeConcat
    <2>2. /\ u \in Seq(S) /\ Len(u) = Len(m) + Len(q)
          /\ \A i \in 1 .. Len(m) + Len(q) : u[i] = IF i <= Len(m) THEN m[i] ELSE q[i - Len(m)]
      BY <1>1, <1>2, ThreeConcat
    <2> HIDE DEF s, u
    <2>3. /\ t \in Seq(S) /\ Len(t) = Len(m) - 1 + Len(q)
          /\ \A i \in 1 .. Len(m) - 1 + Len(q) : t[i] = u[i + 1]
      <3>1. 1 \in 1 .. Len(u) /\ Len(u) - 1 = Len(m) - 1 + Len(q)
        BY <1>1, <2>0, <2>2
      <3>2. /\ t \in Seq(S) /\ Len(t) = Len(u) - 1
            /\ \A i \in 1 .. Len(u) - 1 : t[i] = IF i < 1 THEN u[i] ELSE u[i + 1]
        BY <2>2, <3>1, WithoutProperties
      <3>3. QED
        BY <3>1, <3>2
    <2> HIDE DEF t
    <2>4. ASSUME NEW i \in 1 .. Len(s) PROVE s[i] = t[i]
      <3>1. i \in 1 .. Len(m) - 1 + Len(q) /\ i + 1 \in 1 .. Len(m) + Len(q)
        BY <1>1, <2>0, <2>1, <2>4
      <3>2. t[i] = IF i + 1 <= Len(m) THEN m[i + 1] ELSE q[i + 1 - Len(m)]
        BY <2>2, <2>3, <3>1
      <3>3. s[i] = IF i <= Len(m) - 1 THEN m[i + 1] ELSE q[i - (Len(m) - 1)]
        BY <2>1, <3>1
      <3>4. i - (Len(m) - 1) = i + 1 - Len(m) /\ (i <= Len(m) - 1 <=> i + 1 <= Len(m))
        BY <1>1, <3>1
      <3>5. QED
        BY <3>2, <3>3, <3>4
    <2>5. s = t
      BY <2>1, <2>3, <2>4, SeqEqual
    <2>6. QED
      BY <2>5 DEF s, t, u
  <1>8. QED
    BY <1>2, <1>3, <1>4, <1>5, <1>6, <1>7

------------------------------------------------------------------------------
(***************************************************************************)
(* The inductive invariant.                                                *)
(***************************************************************************)

Acts == Events \cup {SHUTDOWN}

\* The time is taken to be valid only while the clock is right, or once it was assumed to
\* be, and no event happens in the future.
TimeInv ==
  /\ sysTime => synchronised \/ assumed
  /\ mSysTimeValid => synchronised \/ assumed
  /\ loop = "populate" => mSysTimeValid
  /\ \A e \in DOMAIN happened : happened[e] <= uptime

\* Nothing waits for a time that is valid, but while the waiting events are sent; and
\* the thread has ended only once its queue is empty.
QueueInv ==
  /\ Len(action) <= 1
  /\ mSysTimeValid /\ loop # "populate" => mEventQueue = <<>>
  /\ loop = "exited" =>
       plugin \in {"joining", "destroyed"} /\ action = <<>> /\ mActionQueue = <<>>

\* Everything accepted and not handled is in the queues, once, and the shutdown comes last.
ActionsInv ==
  /\ \A i \in 1 .. Len(Actions) : Actions[i] = SHUTDOWN => i = Len(Actions) /\ plugin = "joining"
  /\ \A i, j \in 1 .. Len(Actions) : Actions[i] = Actions[j] => i = j
  /\ \A i \in 1 .. Len(Actions) : Actions[i] # SHUTDOWN => Actions[i] \in DOMAIN happened \ handled
  /\ \A e \in DOMAIN happened \ handled : \E i \in 1 .. Len(Actions) : Actions[i] = e

IInv == TypeOK /\ TimeInv /\ QueueInv /\ ActionsInv /\ TimesAreTrue

(***************************************************************************)
(* What a step does to the events that are under way.                      *)
(***************************************************************************)

NoShutdown == \A i \in 1 .. Len(Actions) : Actions[i] # SHUTDOWN

Kept ==
  /\ Actions' = Actions /\ UNCHANGED handled /\ DOMAIN happened' = DOMAIN happened
  /\ UNCHANGED plugin \/ NoShutdown
Added(e) ==
  /\ NoShutdown /\ e \in Events \ DOMAIN happened
  /\ Actions' = Append(Actions, e)
  /\ UNCHANGED <<plugin, handled>> /\ DOMAIN happened' = DOMAIN happened \cup {e}
Closed ==
  /\ NoShutdown /\ plugin' = "joining"
  /\ Actions' = Append(Actions, SHUTDOWN)
  /\ UNCHANGED <<handled, happened>>
Passed(k) ==
  /\ k \in 1 .. Len(Actions) /\ Actions[k] # SHUTDOWN
  /\ \A j \in 1 .. k - 1 : ~(HasEpoch(Actions[j]) <=> HasEpoch(Actions[k]))
  /\ handled' = handled \cup {Actions[k]}
  /\ Actions' = Delivery!Without(Actions, k)
  /\ UNCHANGED <<plugin, happened>>
Ended ==
  /\ Len(Actions) > 0 /\ Actions[Len(Actions)] = SHUTDOWN
  /\ Actions' = Delivery!Without(Actions, Len(Actions))
  /\ UNCHANGED <<plugin, happened, handled>>

Move == Kept \/ (\E e \in Events : Added(e)) \/ Closed \/ (\E k \in 1 .. Len(Actions) : Passed(k)) \/ Ended

\* The queues are sequences of actions; put together, they are one.
LEMMA ActionsType ==
  ASSUME TypeOK
  PROVE  /\ mEventQueue \in Seq(Acts) /\ action \in Seq(Acts) /\ mActionQueue \in Seq(Acts)
         /\ Actions \in Seq(Acts) /\ Len(Actions) = Len(mEventQueue) + Len(action) + Len(mActionQueue)
         /\ Len(mEventQueue) \in Nat /\ Len(action) \in Nat /\ Len(mActionQueue) \in Nat
         /\ \A i \in 1 .. Len(Actions) : Actions[i] =
              IF i <= Len(mEventQueue) THEN mEventQueue[i]
              ELSE IF i <= Len(mEventQueue) + Len(action) THEN action[i - Len(mEventQueue)]
              ELSE mActionQueue[i - Len(mEventQueue) - Len(action)]
         /\ \A i \in 1 .. Len(mEventQueue) : mEventQueue[i] \in Events /\ ~HasEpoch(mEventQueue[i])
  <1> DEFINE W == {e \in Events : Given[e] # "epoch"}
  <1>1. action \in Seq(Acts) /\ mActionQueue \in Seq(Acts) /\ mEventQueue \in Seq(W) /\ W \subseteq Acts
    BY DEF TypeOK, Acts
  <1>2. mEventQueue \in Seq(Acts)
    BY <1>1, SeqMonotonic
  <1>3. \A i \in 1 .. Len(mEventQueue) : mEventQueue[i] \in W
    BY <1>1, ElementOfSeq
  <1>4. Len(mEventQueue) \in Nat /\ Len(action) \in Nat /\ Len(mActionQueue) \in Nat
    BY <1>1, <1>2, LenProperties
  <1> HIDE DEF W
  <1>5. /\ Actions \in Seq(Acts) /\ Len(Actions) = Len(mEventQueue) + Len(action) + Len(mActionQueue)
        /\ \A i \in 1 .. Len(Actions) : Actions[i] =
              IF i <= Len(mEventQueue) THEN mEventQueue[i]
              ELSE IF i <= Len(mEventQueue) + Len(action) THEN action[i - Len(mEventQueue)]
              ELSE mActionQueue[i - Len(mEventQueue) - Len(action)]
    BY <1>1, <1>2, ThreeConcat DEF Actions
  <1>6. QED
    BY <1>1, <1>2, <1>3, <1>4, <1>5 DEF W, HasEpoch

\* The action that is being handled follows the events that wait.
LEMMA ActionIs ==
  ASSUME TypeOK, QueueInv, loop = "handle"
  PROVE  /\ action = <<action[1]>> /\ action[1] \in Acts
         /\ Len(mEventQueue) + 1 \in 1 .. Len(Actions)
         /\ Actions[Len(mEventQueue) + 1] = action[1]
  <1>1. action \in Seq(Acts) /\ action # <<>> /\ Len(action) <= 1
    BY DEF TypeOK, QueueInv, Acts
  <1>2. Len(action) = 1
    <2>1. \A n \in Nat \ {0} : n <= 1 => n = 1
      OBVIOUS
    <2>2. Len(action) \in Nat \ {0}
      BY <1>1, EmptySeq
    <2>3. QED
      BY <1>1, <2>1, <2>2, Zenon
  <1>3. action[1] \in Acts
    BY <1>1, <1>2, ElementOfSeq
  <1>4. action = <<action[1]>>
    BY <1>1, <1>2, <1>3, SeqEqual
  <1>5. Len(mEventQueue) + 1 \in 1 .. Len(Actions)
    BY <1>2, ActionsType
  <1>6. Actions[Len(mEventQueue) + 1] = action[Len(mEventQueue) + 1 - Len(mEventQueue)]
    BY <1>2, <1>5, ActionsType
  <1>7. Len(mEventQueue) + 1 - Len(mEventQueue) = 1
    BY ActionsType
  <1>8. QED
    BY <1>3, <1>4, <1>5, <1>6, <1>7

\* The steps that pass an event on, in the two places where ActionLoop does.
LEMMA QueuedMoves ==
  ASSUME IInv, SendQueuedEvents
  PROVE  Move
  <1>0. TypeOK /\ loop = "populate" /\ action = <<>> /\ UNCHANGED <<plugin, happened, action, mActionQueue>>
    BY DEF SendQueuedEvents, IInv, TypeOK
  <1>1. CASE mEventQueue = <<>>
    BY <1>0, <1>1 DEF SendQueuedEvents, Move, Kept, Actions
  <1>2. CASE mEventQueue # <<>>
    <2>1. /\ handled' = handled \cup {Head(mEventQueue)} /\ mEventQueue' = Tail(mEventQueue)
      BY <1>2 DEF SendQueuedEvents, SendEventToBackend
    <2>2. mEventQueue \in Seq(Acts) /\ mActionQueue \in Seq(Acts)
      BY <1>0, ActionsType
    <2>3. SHUTDOWN \in Acts
      BY DEF Acts
    <2>4. Actions' = Delivery!Without(Actions, 1)
      BY <1>0, <1>2, <2>1, <2>2, <2>3, QueueMoves DEF Actions
    <2>5. Len(mEventQueue) \in Nat \ {0} /\ 1 \in 1 .. Len(mEventQueue) /\ 1 \in 1 .. Len(Actions)
      BY <1>0, <1>2, <2>2, EmptySeq, ActionsType
    <2>6. Actions[1] = mEventQueue[1] /\ mEventQueue[1] \in Events /\ Head(mEventQueue) = mEventQueue[1]
      BY <1>0, <1>2, <2>5, ActionsType
    <2>7. Actions[1] # SHUTDOWN
      BY <2>6, EventsAssumption
    <2>8. Passed(1)
      BY <1>0, <2>1, <2>4, <2>5, <2>6, <2>7 DEF Passed
    <2>9. QED
      BY <2>5, <2>8 DEF Move
  <1>3. QED
    BY <1>1, <1>2

LEMMA HandledMoves ==
  ASSUME IInv, HandleEvent
  PROVE  Move
  <1>0. /\ TypeOK /\ QueueInv /\ loop = "handle" /\ action # <<SHUTDOWN>>
        /\ action' = <<>> /\ UNCHANGED <<plugin, happened, mActionQueue>>
    BY DEF HandleEvent, IInv
  <1> DEFINE e == action[1]
             n == Len(mEventQueue) + 1
  <1>1. action = <<e>> /\ e \in Acts /\ n \in 1 .. Len(Actions) /\ Actions[n] = e
    BY <1>0, ActionIs
  <1>2. e # SHUTDOWN
    BY <1>0, <1>1
  <1>3. mEventQueue \in Seq(Acts) /\ mActionQueue \in Seq(Acts)
    BY <1>0, ActionsType
  <1> HIDE DEF e, n
  <1>4. CASE mSysTimeValid \/ Given[e] = "epoch"
    <2>1. handled' = handled \cup {e} /\ UNCHANGED mEventQueue
      BY <1>4 DEF HandleEvent, SendEventToBackend, e
    <2>2. Actions' = Delivery!Without(Actions, n)
      <3>1. mEventQueue \o <<>> \o mActionQueue = Delivery!Without(mEventQueue \o <<e>> \o mActionQueue, n)
        BY <1>1, <1>3, QueueMoves DEF n
      <3>2. QED
        BY <1>0, <1>1, <2>1, <3>1 DEF Actions
    <2>3. ASSUME NEW j \in 1 .. n - 1 PROVE ~(HasEpoch(Actions[j]) <=> HasEpoch(e))
      <3>1. j \in 1 .. Len(mEventQueue) /\ j \in 1 .. Len(Actions)
        BY <1>0, <2>3, <1>1, ActionsType DEF n
      <3>2. Actions[j] = mEventQueue[j] /\ ~HasEpoch(mEventQueue[j])
        BY <1>0, <3>1, ActionsType
      <3>3. mEventQueue # <<>>
        BY <3>1
      <3>4. ~mSysTimeValid
        BY <1>0, <3>3 DEF QueueInv
      <3>5. QED
        BY <1>4, <3>2, <3>4 DEF HasEpoch
    <2>4. Passed(n)
      BY <1>0, <1>1, <1>2, <2>1, <2>2, <2>3 DEF Passed
    <2>5. QED
      BY <1>1, <2>4 DEF Move
  <1>5. CASE ~mSysTimeValid /\ Given[e] # "epoch"
    <2>1. mEventQueue' = Append(mEventQueue, e) /\ UNCHANGED handled
      BY <1>5 DEF HandleEvent, e
    <2>2. Append(mEventQueue, e) \o <<>> \o mActionQueue = mEventQueue \o <<e>> \o mActionQueue
      BY <1>1, <1>3, QueueMoves
    <2>3. Actions' = Actions
      BY <1>0, <1>1, <2>1, <2>2 DEF Actions
    <2>4. QED
      BY <1>0, <2>1, <2>3 DEF Move, Kept
  <1>6. QED
    BY <1>4, <1>5

\* Every step is one of the moves.
LEMMA StepMoves ==
  ASSUME IInv, [Next]_vars
  PROVE  Move
  <1>0. TypeOK /\ QueueInv /\ ActionsInv
    BY DEF IInv
  <1>1. plugin # "joining" => NoShutdown
    BY <1>0 DEF ActionsInv, NoShutdown
  <1>2. mEventQueue \in Seq(Acts) /\ action \in Seq(Acts) /\ mActionQueue \in Seq(Acts) /\ SHUTDOWN \in Acts
    BY <1>0, ActionsType DEF Acts
  <1>3. ASSUME NEW e \in Acts
        PROVE  mEventQueue \o action \o Append(mActionQueue, e) = Append(Actions, e)
    <2>1. mEventQueue \o action \in Seq(Acts)
      BY <1>2, ConcatProperties
    <2>2. Append(mActionQueue, e) = mActionQueue \o <<e>> /\ <<e>> \in Seq(Acts)
      BY <1>2, <1>3, AppendIsConcat
    <2>3. Append(Actions, e) = Actions \o <<e>>
      BY <1>0, <1>3, ActionsType, AppendIsConcat
    <2>4. QED
      BY <1>2, <2>1, <2>2, <2>3, ConcatAssociative DEF Actions
  <1>4. CASE Tick \/ Synchronise \/ SystemTimeChanges \/ UNCHANGED vars
    BY <1>4 DEF Tick, Synchronise, SystemTimeChanges, vars, timeVars, queueVars, Move, Kept, Actions
  <1>5. CASE Configure \/ Register
    BY <1>1, <1>5 DEF Configure, Register, queueVars, Move, Kept, Actions
  <1>6. CASE Joined
    <2>1. action = <<>> /\ mActionQueue = <<>>
      BY <1>0, <1>6 DEF Joined, QueueInv
    <2>2. NoShutdown
      BY <1>0, <2>1, ActionsType, EventsAssumption DEF NoShutdown
    <2>3. QED
      BY <1>6, <2>2 DEF Joined, queueVars, Move, Kept, Actions
  <1>7. CASE Destroy
    <2>1. Actions' = Append(Actions, SHUTDOWN)
      BY <1>2, <1>3, <1>7 DEF Destroy, Actions
    <2>2. QED
      BY <1>1, <1>7, <2>1 DEF Destroy, Move, Closed
  <1>8. ASSUME NEW e \in Events, NEW up \in Times, SendEvent(e, up) PROVE Move
    <2>1. Actions' = Append(Actions, e)
      BY <1>3, <1>8 DEF SendEvent, Actions, Acts
    <2>2. Added(e)
      BY <1>1, <1>8, <2>1 DEF SendEvent, Added
    <2>3. QED
      BY <2>2 DEF Move
  <1>9. CASE TakeAction
    <2>1. mActionQueue # <<>> /\ action = <<>>
      BY <1>0, <1>9 DEF TakeAction, TypeOK
    <2>2. mEventQueue \o <<Head(mActionQueue)>> \o Tail(mActionQueue) = mEventQueue \o <<>> \o mActionQueue
      BY <1>2, <2>1, QueueMoves
    <2>3. QED
      BY <1>9, <2>1, <2>2 DEF TakeAction, Move, Kept, Actions
  <1>10. CASE WaitTimesOut \/ TakeOther \/ HandleOther \/ PopulateTimeInfo
    BY <1>10 DEF WaitTimesOut, TakeOther, HandleOther, PopulateTimeInfo, Move, Kept, Actions
  <1>11. CASE HandleShutdown
    <2> DEFINE n == Len(mEventQueue) + 1
    <2>1. loop = "handle" /\ action = <<SHUTDOWN>>
      BY <1>11 DEF HandleShutdown
    <2>2. n \in 1 .. Len(Actions) /\ Actions[n] = SHUTDOWN
      BY <1>0, <2>1, ActionIs
    <2>3. n = Len(Actions)
      BY <1>0, <2>2 DEF ActionsInv
    <2>4. mEventQueue \o <<>> \o mActionQueue = Delivery!Without(mEventQueue \o <<SHUTDOWN>> \o mActionQueue, n)
      BY <1>2, QueueMoves
    <2>5. Actions' = Delivery!Without(Actions, n)
      BY <1>11, <2>1, <2>4 DEF HandleShutdown, Actions
    <2> HIDE DEF n
    <2>6. Len(Actions) > 0
      BY <1>0, <2>2, <2>3, ActionsType
    <2>7. QED
      BY <1>11, <2>2, <2>3, <2>5, <2>6 DEF HandleShutdown, Move, Ended
  <1>12. QED
    BY <1>4, <1>5, <1>6, <1>7, <1>8, <1>9, <1>10, <1>11, QueuedMoves, HandledMoves DEF Next, ActionLoop

------------------------------------------------------------------------------
(***************************************************************************)
(* What a move keeps, and what it delivers.                                *)
(***************************************************************************)

\* Appending an action.
LEMMA AppendIs ==
  ASSUME NEW S, NEW s \in Seq(S), NEW e \in S
  PROVE  /\ Len(s) \in Nat /\ Len(Append(s, e)) = Len(s) + 1
         /\ \A i \in 1 .. Len(s) + 1 : Append(s, e)[i] = IF i = Len(s) + 1 THEN e ELSE s[i]
  <1>1. Len(s) \in Nat
    BY LenProperties
  <1>2. QED
    BY <1>1, AppendProperties

Distinct(s) == \A i, j \in 1 .. Len(s) : s[i] = s[j] => i = j

\* w has the elements of s but the k-th one, once each, and its last one is the last of s
\* if that is not left out.
ElementsBut(w, s, k) ==
  /\ \A i \in 1 .. Len(s) - 1 : \E j \in 1 .. Len(s) \ {k} :
       w[i] = s[j] /\ s[j] # s[k] /\ (j = Len(s) => i = Len(s) - 1)
  /\ \A j \in 1 .. Len(s) \ {k} : \E i \in 1 .. Len(s) - 1 : w[i] = s[j]
  /\ \A i, j \in 1 .. Len(s) - 1 : w[i] = w[j] => i = j

LEMMA WithoutElements ==
  ASSUME NEW S, NEW s \in Seq(S), Distinct(s), NEW k \in 1 .. Len(s)
  PROVE  ElementsBut(Delivery!Without(s, k), s, k)
  <1> DEFINE w == Delivery!Without(s, k)
  <1>1. Len(s) \in Nat
    BY LenProperties
  <1>2. \A j \in 1 .. Len(s) - 1 : w[j] = IF j < k THEN s[j] ELSE s[j + 1]
    BY WithoutProperties
  <1> HIDE DEF w
  <1>3. ASSUME NEW i \in 1 .. Len(s) - 1
        PROVE  \E j \in 1 .. Len(s) \ {k} : w[i] = s[j] /\ s[j] # s[k] /\ (j = Len(s) => i = Len(s) - 1)
    <2>1. CASE i < k
      <3>1. i \in 1 .. Len(s) \ {k} /\ w[i] = s[i] /\ i # Len(s)
        BY <1>1, <1>2, <2>1
      <3>2. QED
        BY <3>1 DEF Distinct
    <2>2. CASE ~(i < k)
      <3>1. i + 1 \in 1 .. Len(s) \ {k} /\ w[i] = s[i + 1]
        BY <1>1, <1>2, <2>2
      <3>2. i + 1 = Len(s) => i = Len(s) - 1
        BY <1>1
      <3>3. QED
        BY <3>1, <3>2 DEF Distinct
    <2>3. QED
      BY <2>1, <2>2
  <1>4. ASSUME NEW j \in 1 .. Len(s) \ {k} PROVE \E i \in 1 .. Len(s) - 1 : w[i] = s[j]
    <2>1. CASE j < k
      <3>1. j \in 1 .. Len(s) - 1 /\ w[j] = s[j]
        BY <1>1, <1>2, <2>1
      <3>2. QED
        BY <3>1
    <2>2. CASE ~(j < k)
      <3>1. j - 1 \in 1 .. Len(s) - 1 /\ ~(j - 1 < k) /\ (j - 1) + 1 = j
        BY <1>1, <2>2
      <3>2. w[j - 1] = s[j]
        BY <1>2, <3>1
      <3>3. QED
        BY <3>1, <3>2
    <2>3. QED
      BY <2>1, <2>2
  <1>5. ASSUME NEW i \in 1 .. Len(s) - 1, NEW j \in 1 .. Len(s) - 1, w[i] = w[j] PROVE i = j
    <2>1. /\ i \in 1 .. Len(s) /\ i + 1 \in 1 .. Len(s) /\ j \in 1 .. Len(s) /\ j + 1 \in 1 .. Len(s)
      BY <1>1
    <2>2. s[IF i < k THEN i ELSE i + 1] = s[IF j < k THEN j ELSE j + 1]
      BY <1>2, <1>5
    <2>3. (IF i < k THEN i ELSE i + 1) = (IF j < k THEN j ELSE j + 1)
      BY <2>1, <2>2 DEF Distinct
    <2>4. QED
      BY <1>1, <2>3
  <1>6. ElementsBut(w, s, k)
    BY <1>3, <1>4, <1>5 DEF ElementsBut
  <1>7. QED
    BY <1>6 DEF w

LEMMA MoveKeeps ==
  ASSUME TypeOK, ActionsInv, Move, DOMAIN happened \subseteq Events
  PROVE  ActionsInv'
  <1>0. Actions \in Seq(Acts) /\ Len(Actions) \in Nat
    BY ActionsType, LenProperties
  <1>1. CASE Kept
    BY <1>1 DEF Kept, ActionsInv, NoShutdown
  <1>2. ASSUME NEW e \in Events, Added(e) PROVE ActionsInv'
    <2>1. e \in Acts /\ e # SHUTDOWN
      BY EventsAssumption DEF Acts
    <2>2. /\ Len(Actions') = Len(Actions) + 1
          /\ \A i \in 1 .. Len(Actions) + 1 : Actions'[i] = IF i = Len(Actions) + 1 THEN e ELSE Actions[i]
      BY <1>0, <1>2, <2>1, AppendIs DEF Added
    <2>3. /\ e \notin DOMAIN happened /\ DOMAIN happened' = DOMAIN happened \cup {e} /\ handled' = handled
          /\ handled \subseteq DOMAIN happened
      BY <1>2 DEF Added, TypeOK
    <2>4. \A i \in 1 .. Len(Actions) : Actions[i] # SHUTDOWN /\ Actions[i] \in DOMAIN happened \ handled
      BY <1>2 DEF Added, NoShutdown, ActionsInv
    <2>5. \A i \in 1 .. Len(Actions') : Actions'[i] # SHUTDOWN
      BY <1>0, <2>1, <2>2, <2>4
    <2>6. \A i, j \in 1 .. Len(Actions') : Actions'[i] = Actions'[j] => i = j
      BY <1>0, <2>2, <2>3, <2>4 DEF ActionsInv
    <2>7. \A i \in 1 .. Len(Actions') : Actions'[i] \in DOMAIN happened' \ handled'
      BY <1>0, <2>2, <2>3, <2>4
    <2>8. ASSUME NEW f \in DOMAIN happened' \ handled' PROVE \E i \in 1 .. Len(Actions') : Actions'[i] = f
      <3>1. CASE f = e
        BY <1>0, <2>2, <3>1
      <3>2. CASE f # e
        <4>1. PICK i \in 1 .. Len(Actions) : Actions[i] = f
          BY <2>3, <3>2 DEF ActionsInv
        <4>2. i \in 1 .. Len(Actions') /\ Actions'[i] = f
          BY <1>0, <2>2, <4>1
        <4>3. QED
          BY <4>2
      <3>3. QED
        BY <3>1, <3>2
    <2>9. QED
      BY <2>5, <2>6, <2>7, <2>8 DEF ActionsInv
  <1>3. CASE Closed
    <2>2. /\ Len(Actions') = Len(Actions) + 1
          /\ \A i \in 1 .. Len(Actions) + 1 : Actions'[i] = IF i = Len(Actions) + 1 THEN SHUTDOWN ELSE Actions[i]
      BY <1>0, <1>3, AppendIs DEF Closed, Acts
    <2>3. plugin' = "joining" /\ happened' = happened /\ handled' = handled
      BY <1>3 DEF Closed
    <2>4. \A i \in 1 .. Len(Actions) : Actions[i] # SHUTDOWN /\ Actions[i] \in DOMAIN happened \ handled
      BY <1>3 DEF Closed, NoShutdown, ActionsInv
    <2>5. \A i \in 1 .. Len(Actions') : Actions'[i] = SHUTDOWN => i = Len(Actions')
      BY <1>0, <2>2, <2>4
    <2>6. \A i, j \in 1 .. Len(Actions') : Actions'[i] = Actions'[j] => i = j
      BY <1>0, <2>2, <2>4 DEF ActionsInv
    <2>7. \A i \in 1 .. Len(Actions') : Actions'[i] # SHUTDOWN => Actions'[i] \in DOMAIN happened \ handled
      BY <1>0, <2>2, <2>4
    <2>8. ASSUME NEW f \in DOMAIN happened \ handled PROVE \E i \in 1 .. Len(Actions') : Actions'[i] = f
      <3>1. PICK i \in 1 .. Len(Actions) : Actions[i] = f
        BY DEF ActionsInv
      <3>2. i \in 1 .. Len(Actions') /\ Actions'[i] = f
        BY <1>0, <2>2, <3>1
      <3>3. QED
        BY <3>2
    <2>9. QED
      BY <2>3, <2>5, <2>6, <2>7, <2>8 DEF ActionsInv
  <1>4. ASSUME NEW k \in 1 .. Len(Actions), Actions' = Delivery!Without(Actions, k),
               handled' = handled \cup ({Actions[k]} \ {SHUTDOWN}), UNCHANGED <<plugin, happened>>
        PROVE  ActionsInv'
    <2>1. Len(Actions') = Len(Actions) - 1
      BY <1>0, <1>4, WithoutProperties
    <2>2. Distinct(Actions)
      BY DEF ActionsInv, Distinct
    <2>3. ElementsBut(Actions', Actions, k)
      BY <1>0, <1>4, <2>2, WithoutElements
    <2>4. ASSUME NEW i \in 1 .. Len(Actions')
          PROVE  /\ Actions'[i] = SHUTDOWN => i = Len(Actions') /\ plugin' = "joining"
                 /\ Actions'[i] # SHUTDOWN => Actions'[i] \in DOMAIN happened' \ handled'
      <3>1. PICK j \in 1 .. Len(Actions) \ {k} :
              /\ Actions'[i] = Actions[j] /\ Actions[j] # Actions[k]
              /\ j = Len(Actions) => i = Len(Actions) - 1
        BY <2>1, <2>3 DEF ElementsBut
      <3>2. QED
        BY <1>4, <2>1, <3>1 DEF ActionsInv
    <2>5. ASSUME NEW f \in DOMAIN happened' \ handled' PROVE \E i \in 1 .. Len(Actions') : Actions'[i] = f
      <3>1. f # SHUTDOWN
        BY <1>4, EventsAssumption
      <3>2. f \in DOMAIN happened \ handled /\ f # Actions[k]
        BY <1>4, <3>1
      <3>3. PICK j \in 1 .. Len(Actions) : Actions[j] = f
        BY <3>2 DEF ActionsInv
      <3>4. QED
        BY <2>1, <2>3, <3>2, <3>3 DEF ElementsBut
    <2>6. QED
      BY <2>1, <2>3, <2>4, <2>5 DEF ActionsInv, ElementsBut
  <1>5. ASSUME NEW k \in 1 .. Len(Actions), Passed(k) PROVE ActionsInv'
    <2>1. handled' = handled \cup ({Actions[k]} \ {SHUTDOWN})
      BY <1>5 DEF Passed
    <2>2. QED
      BY <1>4, <1>5, <2>1 DEF Passed
  <1>6. CASE Ended
    <2>1. Len(Actions) \in 1 .. Len(Actions) /\ handled' = handled \cup ({Actions[Len(Actions)]} \ {SHUTDOWN})
      BY <1>0, <1>6 DEF Ended
    <2>2. QED
      BY <1>4, <1>6, <2>1 DEF Ended
  <1>7. QED
    BY <1>1, <1>2, <1>3, <1>5, <1>6 DEF Move

------------------------------------------------------------------------------
(***************************************************************************)
(* The rest of the invariant, step by step.                                *)
(***************************************************************************)

\* An event is passed on with the time at which it happened, if its time stamp is an
\* epoch or the clock is right, and with the clock's if that was assumed to be right.
LEMMA BackendGetsTrueTime ==
  ASSUME TypeOK, TimeInv, TimesAreTrue, UNCHANGED <<happened, assumed>>,
         NEW e \in DOMAIN happened, synchronised \/ assumed \/ Given[e] = "epoch", SendEventToBackend(e)
  PROVE  /\ handled' = handled \cup {e} /\ handled' \subseteq DOMAIN happened'
         /\ DOMAIN received' \subseteq handled'
         /\ TimesAreTrue'
  <1>1. handled' = handled \cup {e} /\ handled' \subseteq DOMAIN happened'
    BY DEF SendEventToBackend, TypeOK
  <1>2. CASE ~backend
    BY <1>1, <1>2 DEF SendEventToBackend, TypeOK, TimesAreTrue
  <1>3. CASE backend
    <2> DEFINE stamp == IF Given[e] = "epoch" THEN Boot + happened[e]
                        ELSE ConvertUptimeToTimestampInMs(happened[e])
    <2>1. received' = [f \in DOMAIN received \cup {e} |-> IF f # e THEN received[f] ELSE stamp]
      BY <1>3 DEF SendEventToBackend
    <2>2. \/ stamp = Boot + happened[e]
          \/ assumed /\ Given[e] # "epoch" /\ stamp = happened[e]
      <3>1. happened[e] \in Nat /\ uptime \in Nat /\ Boot \in Nat /\ happened[e] <= uptime
        BY TimeAssumption DEF TypeOK, Times, TimeInv
      <3>2. synchronised => ConvertUptimeToTimestampInMs(happened[e]) = Boot + happened[e]
        BY <3>1 DEF ConvertUptimeToTimestampInMs, GetCurrentTimestampInMs
      <3>3. ~synchronised => ConvertUptimeToTimestampInMs(happened[e]) = happened[e]
        BY <3>1 DEF ConvertUptimeToTimestampInMs, GetCurrentTimestampInMs
      <3>4. QED
        BY <3>2, <3>3
    <2> HIDE DEF stamp
    <2>3. \A f \in DOMAIN received' : received'[f] = IF f # e THEN received[f] ELSE stamp
      BY <2>1
    <2>4. DOMAIN received' = DOMAIN received \cup {e}
      BY <2>1
    <2>5. DOMAIN received' \subseteq handled'
      BY <1>1, <2>4 DEF TypeOK
    <2>6. TimesAreTrue'
      BY <2>2, <2>3, <2>4 DEF TimesAreTrue, HasEpoch
    <2>7. QED
      BY <1>1, <2>5, <2>6
  <1>4. QED
    BY <1>2, <1>3

\* The steps that leave the queues and what was passed on alone.
LEMMA OutsideKeeps ==
  ASSUME IInv, Tick \/ Synchronise \/ SystemTimeChanges \/ Configure \/ Register \/ Joined \/ UNCHANGED vars
  PROVE  TypeOK' /\ TimeInv' /\ QueueInv' /\ TimesAreTrue'
  <1> USE DEF IInv, vars, timeVars, queueVars
  <1>1. /\ UNCHANGED <<happened, mActionQueue, mEventQueue, loop, action, mSysTimeValid, handled, received>>
        /\ plugin' \in {"created", "configured", "serving", "joining", "destroyed"}
        /\ plugin \in {"joining", "destroyed"} => plugin' \in {"joining", "destroyed"}
    BY DEF TypeOK, Tick, Synchronise, SystemTimeChanges, Configure, Register, Joined
  <1>2. uptime' \in Times /\ uptime <= uptime'
    BY TimeAssumption DEF TypeOK, Times, Tick, Synchronise, SystemTimeChanges, Configure, Register, Joined
  <1>3. /\ synchronised' \in BOOLEAN /\ sysTime' \in BOOLEAN /\ backend' \in BOOLEAN
        /\ synchronised => synchronised'
        /\ assumed' \in BOOLEAN /\ (assumed => assumed')
        /\ sysTime' => synchronised' \/ assumed'
    <2>1. CASE SystemTimeChanges
      <3>1. /\ sysTime' = ~sysTime /\ UNCHANGED <<synchronised, backend>>
            /\ assumed' = (assumed \/ (~sysTime /\ ~synchronised))
        BY <2>1 DEF SystemTimeChanges
      <3>2. sysTime' \in BOOLEAN /\ assumed' \in BOOLEAN
        BY <3>1, Zenon DEF TypeOK
      <3>3. (assumed => assumed') /\ (sysTime' => synchronised \/ assumed')
        BY <3>1, Zenon
      <3>4. QED
        BY <3>1, <3>2, <3>3 DEF TypeOK
    <2>2. CASE Synchronise
      BY <2>2 DEF Synchronise, TypeOK, TimeInv
    <2>3. CASE Configure
      BY <2>3 DEF Configure, TypeOK, TimeInv
    <2>4. CASE Tick \/ Register \/ Joined \/ UNCHANGED vars
      BY <2>4 DEF Tick, Register, Joined, TypeOK, TimeInv
    <2>5. QED
      BY <2>1, <2>2, <2>3, <2>4
  <1>4. TypeOK'
    BY <1>1, <1>2, <1>3 DEF TypeOK
  <1>5. TimeInv'
    <2>1. \A e \in DOMAIN happened : happened[e] <= uptime'
      BY <1>2, TimeAssumption DEF TimeInv, TypeOK, Times
    <2>2. QED
      BY <1>1, <1>3, <2>1 DEF TimeInv
  <1>6. QueueInv' /\ TimesAreTrue'
    BY <1>1, <1>3 DEF QueueInv, TimesAreTrue
  <1>7. QED
    BY <1>4, <1>5, <1>6

LEMMA SendEventKeeps ==
  ASSUME IInv, NEW e \in Events, NEW up \in Times, SendEvent(e, up)
  PROVE  TypeOK' /\ TimeInv' /\ QueueInv' /\ TimesAreTrue'
  <1> USE DEF IInv
  <1>1. /\ plugin = "serving" /\ e \notin DOMAIN happened /\ up <= uptime
        /\ happened' = [f \in DOMAIN happened \cup {e} |-> IF f = e THEN up ELSE happened[f]]
        /\ mActionQueue' = Append(mActionQueue, e)
        /\ UNCHANGED <<plugin, uptime, synchronised, sysTime, assumed, backend, mEventQueue, mSysTimeValid, loop,
                       action, handled, received>>
    BY DEF SendEvent, timeVars
  <1>2. /\ DOMAIN happened' = DOMAIN happened \cup {e}
        /\ \A f \in DOMAIN happened' : happened'[f] = IF f = e THEN up ELSE happened[f]
    BY <1>1
  <1>3. mActionQueue' \in Seq(Events \cup {SHUTDOWN})
    BY <1>1 DEF TypeOK
  <1>4. TypeOK'
    <2>1. DOMAIN happened' \subseteq Events /\ \A f \in DOMAIN happened' : happened'[f] \in Times
      BY <1>2 DEF TypeOK
    <2>2. handled' \subseteq DOMAIN happened'
      BY <1>1, <1>2 DEF TypeOK
    <2>3. QED
      BY <1>1, <1>3, <2>1, <2>2 DEF TypeOK
  <1>5. TimeInv'
    BY <1>1, <1>2 DEF TimeInv
  <1>6. QueueInv'
    BY <1>1 DEF QueueInv
  <1>7. TimesAreTrue'
    BY <1>1, <1>2 DEF TimesAreTrue, TypeOK
  <1>8. QED
    BY <1>4, <1>5, <1>6, <1>7

LEMMA DestroyKeeps ==
  ASSUME IInv, Destroy
  PROVE  TypeOK' /\ TimeInv' /\ QueueInv' /\ TimesAreTrue'
  <1> USE DEF IInv
  <1>1. /\ plugin = "serving" /\ plugin' = "joining"
        /\ mActionQueue' = Append(mActionQueue, SHUTDOWN)
        /\ UNCHANGED <<uptime, synchronised, sysTime, assumed, backend, happened, mEventQueue, mSysTimeValid, loop,
                       action, handled, received>>
    BY DEF Destroy, timeVars
  <1>2. mActionQueue' \in Seq(Events \cup {SHUTDOWN})
    BY <1>1 DEF TypeOK
  <1>3. TypeOK' /\ TimeInv'
    BY <1>1, <1>2 DEF TypeOK, TimeInv
  <1>4. QueueInv' /\ TimesAreTrue'
    BY <1>1 DEF QueueInv, TimesAreTrue
  <1>5. QED
    BY <1>3, <1>4

\* The steps of ActionLoop that pass nothing on.
LEMMA TakesKeep ==
  ASSUME IInv,
         TakeAction \/ WaitTimesOut \/ TakeOther \/ HandleOther \/ PopulateTimeInfo \/ HandleShutdown
  PROVE  TypeOK' /\ TimeInv' /\ QueueInv' /\ TimesAreTrue'
  <1> USE DEF IInv
  <1>0. UNCHANGED <<plugin, uptime, synchronised, sysTime, assumed, backend, happened, mEventQueue, handled, received>>
    BY DEF TakeAction, WaitTimesOut, TakeOther, HandleOther, PopulateTimeInfo, HandleShutdown, timeVars
  <1>1. TimesAreTrue'
    BY <1>0 DEF TimesAreTrue
  <1>2. CASE TakeAction
    <2>1. /\ loop \in {"wait", "late"} /\ loop' = "handle" /\ mActionQueue # <<>> /\ UNCHANGED mSysTimeValid
          /\ action' = <<Head(mActionQueue)>> /\ mActionQueue' = Tail(mActionQueue)
      BY <1>2 DEF TakeAction
    <2>2. /\ action' \in Seq(Events \cup {SHUTDOWN}) /\ action' # <<>> /\ Len(action') = 1
          /\ mActionQueue' \in Seq(Events \cup {SHUTDOWN})
      BY <2>1 DEF TypeOK
    <2>3. TypeOK' /\ TimeInv'
      BY <1>0, <2>1, <2>2 DEF TypeOK, TimeInv
    <2>4. QueueInv'
      BY <1>0, <2>1, <2>2 DEF QueueInv
    <2>5. QED
      BY <1>1, <2>3, <2>4
  <1>3. CASE PopulateTimeInfo
    <2>1. /\ loop = "late" /\ UNCHANGED <<mActionQueue, action>>
          /\ mSysTimeValid' = (plugin # "created" /\ sysTime)
          /\ loop' = IF mSysTimeValid' THEN "populate" ELSE "wait"
      BY <1>3 DEF PopulateTimeInfo
    <2>2. mSysTimeValid' \in BOOLEAN
      BY <2>1
    <2>3. TypeOK'
      BY <1>0, <2>1, <2>2 DEF TypeOK
    <2>4. TimeInv'
      BY <1>0, <2>1 DEF TimeInv
    <2>5. QueueInv'
      BY <1>0, <2>1 DEF QueueInv
    <2>6. QED
      BY <1>1, <2>3, <2>4, <2>5
  <1>4. CASE HandleShutdown
    <2> DEFINE n == Len(mEventQueue) + 1
    <2>1. /\ loop = "handle" /\ action = <<SHUTDOWN>> /\ loop' = "exited" /\ action' = <<>>
          /\ UNCHANGED <<mActionQueue, mSysTimeValid>>
      BY <1>4 DEF HandleShutdown
    <2>2. n \in 1 .. Len(Actions) /\ Actions[n] = SHUTDOWN
      BY <2>1, ActionIs
    <2>3. n = Len(Actions) /\ plugin = "joining"
      BY <2>2 DEF ActionsInv
    <2>4. Len(mActionQueue) = 0
      <3>1. Len(action) = 1
        BY <2>1
      <3>2. Len(Actions) = Len(mEventQueue) + 1 + Len(mActionQueue) /\ Len(mEventQueue) \in Nat /\ Len(mActionQueue) \in Nat
        BY <3>1, ActionsType
      <3>3. QED
        BY <2>3, <3>2
    <2>5. mActionQueue = <<>>
      BY <2>4, ActionsType, EmptySeq
    <2>6. TypeOK' /\ TimeInv'
      BY <1>0, <2>1, EmptySeq DEF TypeOK, TimeInv
    <2>7. QueueInv'
      BY <1>0, <2>1, <2>3, <2>5 DEF QueueInv
    <2>8. QED
      BY <1>1, <2>6, <2>7
  <1>5. CASE WaitTimesOut \/ TakeOther \/ HandleOther
    <2>1. /\ loop \in {"wait", "late", "other"} /\ loop' \in {"wait", "late", "other"}
          /\ UNCHANGED <<mActionQueue, mSysTimeValid, action>>
      BY <1>5 DEF WaitTimesOut, TakeOther, HandleOther
    <2>2. TypeOK' /\ TimeInv' /\ QueueInv'
      BY <1>0, <2>1 DEF TypeOK, TimeInv, QueueInv
    <2>3. QED
      BY <1>1, <2>2
  <1>6. QED
    BY <1>2, <1>3, <1>4, <1>5

LEMMA QueuedKeeps ==
  ASSUME IInv, SendQueuedEvents
  PROVE  TypeOK' /\ TimeInv' /\ QueueInv' /\ TimesAreTrue'
  <1> USE DEF IInv
  <1>0. /\ loop = "populate" /\ action = <<>>
        /\ UNCHANGED <<plugin, uptime, synchronised, sysTime, assumed, backend, happened, mActionQueue, mSysTimeValid, action>>
    BY DEF SendQueuedEvents, timeVars, TypeOK
  <1>1. CASE mEventQueue = <<>>
    <2>1. loop' = "wait" /\ UNCHANGED <<mEventQueue, handled, received>>
      BY <1>1 DEF SendQueuedEvents
    <2>2. TypeOK' /\ TimeInv'
      BY <1>0, <2>1 DEF TypeOK, TimeInv
    <2>3. QueueInv' /\ TimesAreTrue'
      BY <1>0, <1>1, <2>1 DEF QueueInv, TimesAreTrue
    <2>4. QED
      BY <2>2, <2>3
  <1>2. CASE mEventQueue # <<>>
    <2> DEFINE e == Head(mEventQueue)
    <2>1. SendEventToBackend(e) /\ mEventQueue' = Tail(mEventQueue) /\ UNCHANGED loop
      BY <1>2 DEF SendQueuedEvents
    <2>2. Len(mEventQueue) \in Nat \ {0} /\ 1 \in 1 .. Len(mEventQueue) /\ 1 \in 1 .. Len(Actions)
      BY <1>0, <1>2, EmptySeq, ActionsType
    <2>3. Actions[1] = mEventQueue[1] /\ mEventQueue[1] \in Events /\ e = mEventQueue[1]
      BY <1>0, <1>2, <2>2, ActionsType
    <2>4. e \in DOMAIN happened
      BY <2>2, <2>3, EventsAssumption DEF ActionsInv
    <2>5. synchronised \/ assumed
      BY <1>0 DEF TimeInv
    <2> HIDE DEF e
    <2>6. handled' \subseteq DOMAIN happened' /\ DOMAIN received' \subseteq handled' /\ TimesAreTrue'
      BY <1>0, <2>1, <2>4, <2>5, BackendGetsTrueTime
    <2>7. mEventQueue' \in Seq({f \in Events : Given[f] # "epoch"})
      BY <1>2, <2>1 DEF TypeOK
    <2>8. TypeOK' /\ TimeInv'
      BY <1>0, <2>1, <2>6, <2>7 DEF TypeOK, TimeInv
    <2>9. QueueInv'
      BY <1>0, <2>1 DEF QueueInv
    <2>10. QED
      BY <2>6, <2>8, <2>9
  <1>3. QED
    BY <1>1, <1>2

LEMMA HandleKeeps ==
  ASSUME IInv, HandleEvent
  PROVE  TypeOK' /\ TimeInv' /\ QueueInv' /\ TimesAreTrue'
  <1> USE DEF IInv
  <1> DEFINE e == action[1]
             n == Len(mEventQueue) + 1
  <1>0. /\ loop = "handle" /\ action # <<SHUTDOWN>> /\ loop' = "wait" /\ action' = <<>>
        /\ UNCHANGED <<plugin, uptime, synchronised, sysTime, assumed, backend, happened, mActionQueue, mSysTimeValid>>
    BY DEF HandleEvent, timeVars
  <1>1. action = <<e>> /\ e \in Acts /\ n \in 1 .. Len(Actions) /\ Actions[n] = e
    BY <1>0, ActionIs
  <1>2. e # SHUTDOWN /\ e \in Events
    BY <1>0, <1>1 DEF Acts
  <1>3. e \in DOMAIN happened
    BY <1>1, <1>2 DEF ActionsInv
  <1>4. action' \in Seq(Events \cup {SHUTDOWN}) /\ Len(action') = 0
    BY <1>0, EmptySeq
  <1> HIDE DEF e, n
  <1>5. CASE mSysTimeValid \/ Given[e] = "epoch"
    <2>1. SendEventToBackend(e) /\ UNCHANGED mEventQueue
      BY <1>5 DEF HandleEvent, e
    <2>2. synchronised \/ assumed \/ Given[e] = "epoch"
      BY <1>5 DEF TimeInv
    <2>3. handled' \subseteq DOMAIN happened' /\ DOMAIN received' \subseteq handled' /\ TimesAreTrue'
      BY <1>0, <1>3, <2>1, <2>2, BackendGetsTrueTime
    <2>4. TypeOK' /\ TimeInv'
      BY <1>0, <1>4, <2>1, <2>3 DEF TypeOK, TimeInv
    <2>5. QueueInv'
      BY <1>0, <1>4, <2>1 DEF QueueInv
    <2>6. QED
      BY <2>3, <2>4, <2>5
  <1>6. CASE ~mSysTimeValid /\ Given[e] # "epoch"
    <2>1. mEventQueue' = Append(mEventQueue, e) /\ UNCHANGED <<handled, received>>
      BY <1>6 DEF HandleEvent, e
    <2>2. mEventQueue' \in Seq({f \in Events : Given[f] # "epoch"})
      BY <1>2, <1>6, <2>1 DEF TypeOK
    <2>3. TypeOK' /\ TimeInv'
      BY <1>0, <1>4, <2>1, <2>2 DEF TypeOK, TimeInv
    <2>4. QueueInv' /\ TimesAreTrue'
      BY <1>0, <1>4, <1>6, <2>1 DEF QueueInv, TimesAreTrue
    <2>5. QED
      BY <2>3, <2>4
  <1>7. QED
    BY <1>5, <1>6

LEMMA InitHolds == Init => IInv
  <1> SUFFICES ASSUME Init PROVE IInv
    OBVIOUS
  <1>1. DOMAIN happened = {} /\ DOMAIN received = {}
    BY DEF Init
  <1>2. TypeOK
    <2>1. synchronised \in BOOLEAN /\ sysTime \in BOOLEAN /\ assumed \in BOOLEAN /\ backend \in BOOLEAN /\ mSysTimeValid \in BOOLEAN
      BY Zenon DEF Init
    <2>2. QED
      BY <1>1, <2>1, TimeAssumption DEF Init, TypeOK, Times
  <1>3. Len(Actions) = 0
    BY DEF Init, Actions
  <1>4. TimeInv /\ TimesAreTrue
    BY <1>1 DEF Init, TimeInv, TimesAreTrue
  <1>5. QueueInv
    BY DEF Init, QueueInv
  <1>6. ActionsInv
    BY <1>1, <1>3 DEF ActionsInv
  <1>7. QED
    BY <1>2, <1>4, <1>5, <1>6 DEF IInv

LEMMA StepKeeps == IInv /\ [Next]_vars => IInv'
  <1> SUFFICES ASSUME IInv, [Next]_vars PROVE IInv'
    OBVIOUS
  <1>1. TypeOK' /\ TimeInv' /\ QueueInv' /\ TimesAreTrue'
    BY OutsideKeeps, SendEventKeeps, DestroyKeeps, TakesKeep, QueuedKeeps, HandleKeeps DEF Next, ActionLoop
  <1>2. ActionsInv'
    BY StepMoves, MoveKeeps DEF IInv, TypeOK
  <1>3. QED
    BY <1>1, <1>2 DEF IInv

LEMMA Invariance == Spec => []IInv
  BY InitHolds, StepKeeps, PTL DEF Spec

\* The backend gets every event with the time at which it happened, for any events,
\* however the clock is set meanwhile and whatever SystemTime reports of it; an event that
\* came without an epoch time may get an unset clock's time for it, but only if SystemTime
\* has assumed that clock to be right, as it does when the System plugin does not answer.
THEOREM TimesTrue == Spec => []TimesAreTrue
  BY Invariance, PTL DEF IInv

\* The destructor drops nothing but events that wait for a time that was never valid.
THEOREM Accounted == Spec => []EventsAccounted
  <1>1. IInv => EventsAccounted
    <2> SUFFICES ASSUME IInv, loop = "exited" PROVE NothingLeftBehind
      BY DEF IInv, EventsAccounted, NothingLeftBehind
    <2> USE DEF IInv
    <2>1. action = <<>> /\ mActionQueue = <<>>
      BY DEF QueueInv
    <2>2. ASSUME NEW e \in DOMAIN happened \ handled PROVE ~mSysTimeValid /\ ~HasEpoch(e)
      <3>1. PICK i \in 1 .. Len(Actions) : Actions[i] = e
        BY DEF ActionsInv
      <3>2. Len(Actions) = Len(mEventQueue) /\ i \in 1 .. Len(mEventQueue)
        BY <2>1, <3>1, ActionsType
      <3>3. mEventQueue[i] = e /\ ~HasEpoch(e)
        <4>1. TypeOK /\ i <= Len(mEventQueue)
          BY <3>2, ActionsType
        <4>2. Actions[i] = mEventQueue[i]
          BY <4>1, ActionsType
        <4>3. mEventQueue[i] \in Events /\ ~HasEpoch(mEventQueue[i])
          BY <3>2, <4>1, ActionsType
        <4>4. QED
          BY <3>1, <4>2, <4>3
      <3>4. mEventQueue # <<>>
        BY <3>2
      <3>5. QED
        BY <3>3, <3>4 DEF QueueInv
    <2>3. QED
      BY <2>1, <2>2 DEF NothingLeftBehind
  <1>2. QED
    BY <1>1, Invariance, PTL

------------------------------------------------------------------------------
(***************************************************************************)
(* Analytics implements EventDelivery.                                     *)
(***************************************************************************)

\* The events among the actions: all of them, or all but the last.
LEMMA EventsInIs ==
  ASSUME NEW s \in Seq(Acts)
  PROVE  /\ Len(s) \in Nat /\ EventsIn(s) \in Seq(Acts)
         /\ \A i \in 1 .. Len(EventsIn(s)) : EventsIn(s)[i] = s[i]
         /\ Len(s) > 0 /\ s[Len(s)] = SHUTDOWN => Len(EventsIn(s)) = Len(s) - 1
         /\ ~(Len(s) > 0 /\ s[Len(s)] = SHUTDOWN) => EventsIn(s) = s
  <1>1. Len(s) \in Nat /\ (s # <<>> <=> Len(s) > 0)
    BY LenProperties, EmptySeq
  <1>2. \A i \in 1 .. Len(s) : s[i] \in Acts
    BY ElementOfSeq
  <1>3. CASE Len(s) > 0 /\ s[Len(s)] = SHUTDOWN
    <2>1. EventsIn(s) = SubSeq(s, 1, Len(s) - 1)
      BY <1>1, <1>3 DEF EventsIn
    <2>2. \A i \in 1 .. Len(s) - 1 : s[i] \in Acts
      BY <1>1, <1>2
    <2>3. /\ SubSeq(s, 1, Len(s) - 1) \in Seq(Acts)
          /\ Len(SubSeq(s, 1, Len(s) - 1)) = IF 1 <= Len(s) - 1 THEN Len(s) - 1 - 1 + 1 ELSE 0
          /\ \A i \in 1 .. Len(s) - 1 - 1 + 1 : SubSeq(s, 1, Len(s) - 1)[i] = s[1 + i - 1]
      BY <1>1, <2>2, SubSeqProperties
    <2>4. Len(EventsIn(s)) = Len(s) - 1
      <3>1. \A n \in Nat : n > 0 => n - 1 = IF 1 <= n - 1 THEN n - 1 - 1 + 1 ELSE 0
        OBVIOUS
      <3>2. Len(s) - 1 = IF 1 <= Len(s) - 1 THEN Len(s) - 1 - 1 + 1 ELSE 0
        BY <1>1, <1>3, <3>1
      <3>3. QED
        BY <2>1, <2>3, <3>2
    <2>5. \A i \in 1 .. Len(s) - 1 : i \in 1 .. Len(s) - 1 - 1 + 1 /\ 1 + i - 1 = i
      BY <1>1
    <2>6. \A i \in 1 .. Len(s) - 1 : EventsIn(s)[i] = s[i]
      BY <2>1, <2>3, <2>5
    <2>7. QED
      BY <1>1, <1>3, <2>1, <2>3, <2>4, <2>6
  <1>4. CASE ~(Len(s) > 0 /\ s[Len(s)] = SHUTDOWN)
    <2>1. EventsIn(s) = SubSeq(s, 1, Len(s))
      BY <1>1, <1>4 DEF EventsIn
    <2>2. EventsIn(s) = s
      BY <2>1, SubSeqFull
    <2>3. QED
      BY <1>1, <1>4, <2>2
  <1>5. QED
    BY <1>3, <1>4

\* A move is a step of EventDelivery, or none.
LEMMA MoveDelivers ==
  ASSUME TypeOK, ActionsInv, ActionsInv', Move
  PROVE  Delivery!Next \/ UNCHANGED <<Unhandled, handled>>
  <1> DEFINE s == Actions
             u == Unhandled
  <1>0. /\ s \in Seq(Acts) /\ Len(s) \in Nat /\ u \in Seq(Acts)
        /\ \A i \in 1 .. Len(u) : u[i] = s[i]
        /\ Len(s) > 0 /\ s[Len(s)] = SHUTDOWN => Len(u) = Len(s) - 1
        /\ ~(Len(s) > 0 /\ s[Len(s)] = SHUTDOWN) => u = s
    BY ActionsType, EventsInIs DEF Unhandled
  <1>1. CASE Kept
    BY <1>1 DEF Kept, Unhandled
  <1>2. ASSUME NEW e \in Events, Added(e) PROVE Delivery!Next
    <2>1. u = s
      BY <1>0, <1>2 DEF Added, NoShutdown
    <2>2. e \in Acts /\ e # SHUTDOWN
      BY EventsAssumption DEF Acts
    <2>3. s' = Append(s, e) /\ s' \in Seq(Acts) /\ Len(s') = Len(s) + 1 /\ s'[Len(s')] = e
      BY <1>0, <1>2, <2>2, AppendProperties DEF Added
    <2>4. u' = s'
      BY <1>0, <2>2, <2>3, EventsInIs DEF Unhandled
    <2>5. \A i \in 1 .. Len(u) : u[i] # e
      BY <1>2, <2>1 DEF Added, NoShutdown, ActionsInv
    <2>6. e \notin handled
      BY <1>2 DEF Added, TypeOK
    <2>7. Delivery!Accept(e)
      BY <1>2, <2>1, <2>3, <2>4, <2>5, <2>6 DEF Delivery!Accept, Added
    <2>8. QED
      BY <2>7 DEF Delivery!Next
  <1>3. CASE Closed
    <2>1. u = s
      BY <1>0, <1>3 DEF Closed, NoShutdown
    <2>2. /\ s' = Append(s, SHUTDOWN) /\ s' \in Seq(Acts) /\ Len(s') = Len(s) + 1 /\ s'[Len(s')] = SHUTDOWN
          /\ \A i \in 1 .. Len(s) : s'[i] = s[i]
      BY <1>0, <1>3, AppendProperties DEF Closed, Acts
    <2>3. u' \in Seq(Acts) /\ Len(u') = Len(s) /\ \A i \in 1 .. Len(u') : u'[i] = s'[i]
      <3>1. /\ u' \in Seq(Acts) /\ \A i \in 1 .. Len(u') : u'[i] = s'[i]
            /\ Len(s') > 0 /\ s'[Len(s')] = SHUTDOWN => Len(u') = Len(s') - 1
            /\ ~(Len(s') > 0 /\ s'[Len(s')] = SHUTDOWN) => u' = s'
        BY <2>2, EventsInIs DEF Unhandled
      <3>2. Len(s') > 0 /\ Len(s') - 1 = Len(s)
        BY <1>0, <2>2
      <3>3. QED
        BY <2>2, <3>1, <3>2
    <2>4. \A i \in 1 .. Len(u') : u'[i] = s[i]
      BY <2>2, <2>3
    <2>5. u' = s
      BY <1>0, <2>3, <2>4, SeqEqual
    <2>6. QED
      BY <1>3, <2>1, <2>5 DEF Closed
  <1>4. ASSUME NEW k \in 1 .. Len(Actions), Passed(k) PROVE Delivery!Next
    <2> DEFINE w == Delivery!Without(u, k)
    <2>1. s[k] # SHUTDOWN /\ k \in 1 .. Len(u) /\ u[k] = s[k]
      BY <1>0, <1>4 DEF Passed
    <2>2. /\ s' \in Seq(Acts) /\ Len(s') = Len(s) - 1
          /\ \A j \in 1 .. Len(s) - 1 : s'[j] = IF j < k THEN s[j] ELSE s[j + 1]
      BY <1>0, <1>4, WithoutProperties DEF Passed
    <2>3. /\ w \in Seq(Acts) /\ Len(w) = Len(u) - 1
          /\ \A j \in 1 .. Len(u) - 1 : w[j] = IF j < k THEN u[j] ELSE u[j + 1]
      BY <1>0, <2>1, WithoutProperties
    <2>4. /\ u' \in Seq(Acts) /\ \A i \in 1 .. Len(u') : u'[i] = s'[i]
          /\ Len(s') > 0 /\ s'[Len(s')] = SHUTDOWN => Len(u') = Len(s') - 1
          /\ ~(Len(s') > 0 /\ s'[Len(s')] = SHUTDOWN) => u' = s'
      BY <2>2, EventsInIs DEF Unhandled
    <2>5. Len(u') = Len(u) - 1
      <3>1. CASE Len(s) > 0 /\ s[Len(s)] = SHUTDOWN
        <4>1. k <= Len(s) - 1
          BY <1>0, <2>1, <3>1
        <4>2. s'[Len(s')] = SHUTDOWN /\ Len(s') > 0
          BY <1>0, <2>2, <3>1, <4>1
        <4>3. QED
          BY <1>0, <2>2, <2>4, <3>1, <4>2
      <3>2. CASE ~(Len(s) > 0 /\ s[Len(s)] = SHUTDOWN)
        <4>1. \A i \in 1 .. Len(s) : s[i] # SHUTDOWN
          BY <1>0, <3>2 DEF ActionsInv
        <4>2. ~(Len(s') > 0 /\ s'[Len(s')] = SHUTDOWN)
          BY <1>0, <2>2, <4>1
        <4>3. QED
          BY <1>0, <2>2, <2>4, <3>2, <4>2
      <3>3. QED
        BY <3>1, <3>2
    <2>6. ASSUME NEW i \in 1 .. Len(u') PROVE u'[i] = w[i]
      <3>1. Len(u) \in Nat /\ Len(u) <= Len(s)
        BY <1>0
      <3>2. i \in 1 .. Len(u) - 1 /\ i \in 1 .. Len(s) - 1 /\ i \in 1 .. Len(u) /\ i + 1 \in 1 .. Len(u)
        BY <1>0, <2>5, <3>1
      <3>3. u'[i] = IF i < k THEN s[i] ELSE s[i + 1]
        BY <2>2, <2>4, <3>2
      <3>4. w[i] = IF i < k THEN u[i] ELSE u[i + 1]
        BY <2>3, <3>2
      <3>5. u[i] = s[i] /\ u[i + 1] = s[i + 1]
        BY <1>0, <3>2
      <3>6. QED
        BY <3>3, <3>4, <3>5
    <2>7. u' = w
      BY <2>3, <2>4, <2>5, <2>6, SeqEqual
    <2>8. ASSUME NEW j \in 1 .. k - 1 PROVE ~Delivery!SameClass(u[j], u[k])
      <3>1. j \in 1 .. Len(u) /\ j \in 1 .. Len(s) /\ u[j] = s[j]
        BY <1>0, <2>1
      <3>2. ~(HasEpoch(s[j]) <=> HasEpoch(s[k]))
        BY <1>4 DEF Passed
      <3>3. s[j] \in Events /\ s[k] \in Events
        <4>1. s[j] # SHUTDOWN
          BY <1>0, <2>1, <3>1 DEF ActionsInv
        <4>2. s[j] \in Acts /\ s[k] \in Acts
          BY <1>0, <1>4, <3>1, ElementOfSeq
        <4>3. QED
          BY <2>1, <4>1, <4>2 DEF Acts
      <3>4. QED
        BY <2>1, <3>1, <3>2, <3>3 DEF Delivery!SameClass
    <2>9. Delivery!PassOn(k)
      BY <1>4, <2>1, <2>7, <2>8 DEF Delivery!PassOn, Passed
    <2>10. QED
      BY <2>1, <2>9 DEF Delivery!Next
  <1>5. CASE Ended
    <2>1. Len(s) > 0 /\ s[Len(s)] = SHUTDOWN /\ Len(u) = Len(s) - 1 /\ Len(s) \in 1 .. Len(s)
      BY <1>0, <1>5 DEF Ended
    <2>2. /\ s' \in Seq(Acts) /\ Len(s') = Len(s) - 1
          /\ \A j \in 1 .. Len(s) - 1 : s'[j] = IF j < Len(s) THEN s[j] ELSE s[j + 1]
      BY <1>0, <1>5, <2>1, WithoutProperties DEF Ended
    <2>3. \A i \in 1 .. Len(s') : s'[i] # SHUTDOWN
      BY <1>0, <2>1, <2>2 DEF ActionsInv
    <2>4. u' = s'
      <3>1. /\ u' \in Seq(Acts) /\ \A i \in 1 .. Len(u') : u'[i] = s'[i]
            /\ Len(s') > 0 /\ s'[Len(s')] = SHUTDOWN => Len(u') = Len(s') - 1
            /\ ~(Len(s') > 0 /\ s'[Len(s')] = SHUTDOWN) => u' = s'
        BY <2>2, EventsInIs DEF Unhandled
      <3>2. ~(Len(s') > 0 /\ s'[Len(s')] = SHUTDOWN)
        BY <1>0, <2>2, <2>3
      <3>3. QED
        BY <3>1, <3>2
    <2>5. \A i \in 1 .. Len(u) : u[i] = s'[i]
      BY <1>0, <2>1, <2>2
    <2>6. u = s'
      BY <1>0, <2>1, <2>2, <2>5, SeqEqual
    <2>7. QED
      BY <1>5, <2>4, <2>6 DEF Ended
  <1>6. QED
    BY <1>1, <1>2, <1>3, <1>4, <1>5 DEF Move

\* Analytics implements EventDelivery, for any events: none is lost on the way through
\* the two queues, passed on twice, or overtaken by a younger one of its class.
THEOREM Delivers == Spec => DeliversInOrder
  <1>1. Init => Delivery!Init
    <2> SUFFICES ASSUME Init PROVE Delivery!Init
      OBVIOUS
    <2>1. Actions = <<>>
      BY DEF Init, Actions
    <2>2. Actions \in Seq(Acts) /\ Len(Actions) = 0
      BY <2>1
    <2>3. Unhandled = <<>>
      <3>1. ~(Len(Actions) > 0 /\ Actions[Len(Actions)] = SHUTDOWN) => EventsIn(Actions) = Actions
        BY <2>2, EventsInIs
      <3>2. QED
        BY <2>1, <2>2, <3>1 DEF Unhandled
    <2>4. QED
      BY <2>3 DEF Init, Delivery!Init
  <1>2. IInv /\ IInv' /\ [Next]_vars => [Delivery!Next]_<<Unhandled, handled>>
    BY StepMoves, MoveDelivers DEF IInv
  <1>3. QED
    BY <1>1, <1>2, Invariance, PTL DEF Spec, DeliversInOrder, Delivery!Spec

------------------------------------------------------------------------------
(***************************************************************************)
(* SystemTime agrees with the System plugin.                               *)
(***************************************************************************)

STATUS == "EVENT_TIME_STATUS_CHANGED"
ZONE == "EVENT_TIME_ZONE_CHANGED"
ChangeTypes == {STATUS, ZONE}

\* An event says of its part of the System plugin's state what is so.
Says(e, state) ==
  /\ e.type = STATUS => e.quality = state.quality
  /\ e.type = ZONE => e.zone = state.zone /\ e.accuracy = state.accuracy

\* There is no event of a type, and the last one of the type says what is so.
Lacks(s, type) == \A i \in 1 .. Len(s) : s[i].type # type
LastSays(s, type, state) ==
  \A i \in 1 .. Len(s) :
    s[i].type = type /\ (\A j \in i + 1 .. Len(s) : s[j].type # type) => Says(s[i], state)

\* The loop has not registered yet.
Early == tloop = "register" \/ (mQueue # <<>> /\ mQueue[1].type = "EVENT_INITIALISE")

\* The query for a part of the state is still to come, and the part that is in force,
\* or about to be, is the System plugin's.
ToAsk(type) == Early \/ tloop \in IF type = STATUS THEN {"askStatus"} ELSE {"askStatus", "status", "askZone"}
Holds(type) ==
  IF type = STATUS
  THEN IF tloop = "status" THEN answer[1].quality = system.quality
                           ELSE mIsSystemTimeAvailable = SY!IsTimeOK(system.quality)
  ELSE IF tloop = "zone" THEN answer[1].zone = system.zone /\ answer[1].accuracy = system.accuracy
                         ELSE mTimeZone = SY!FinalZone /\ mTimeZoneAccuracyString = system.accuracy

QueueShape ==
  /\ \A i \in 1 .. Len(outbox) : outbox[i].type \in ChangeTypes
  /\ \A i \in 1 .. Len(mQueue) :
       /\ mQueue[i].type = "EVENT_INITIALISE" => i = 1 /\ tloop = "wait"
       /\ mQueue[i].type = "EVENT_SHUTDOWN" => object # "alive"

\* The last notification on its way says what is so; if there is none, what the query
\* found or has already been applied does.
Follows(type) ==
  /\ LastSays(outbox, type, system)
  /\ Lacks(outbox, type) => LastSays(mQueue, type, system)
  /\ ~ToAsk(type) /\ Lacks(mQueue, type) /\ Lacks(outbox, type) => Holds(type)

LoopFollows ==
  ~failed /\ tloop # "exited" =>
    /\ registered <=> ~Early
    /\ Early => Lacks(mQueue, STATUS) /\ Lacks(mQueue, ZONE)
    /\ tloop \in {"status", "zone"} => answer # <<>>
    /\ \A type \in ChangeTypes : Follows(type)

SysInv == SY!TypeOK /\ SY!CacheIsOfZone /\ QueueShape /\ LoopFollows

------------------------------------------------------------------------------
LEMMA LacksAppend ==
  ASSUME NEW s \in Seq(SY!LoopEvents), NEW e \in SY!LoopEvents, NEW type, NEW state
  PROVE  /\ Lacks(Append(s, e), type) <=> Lacks(s, type) /\ e.type # type
         /\ (e.type = type => Says(e, state)) /\ (e.type = type \/ LastSays(s, type, state))
              => LastSays(Append(s, e), type, state)
  <1> DEFINE a == Append(s, e)
  <1>1. /\ Len(s) \in Nat /\ Len(a) = Len(s) + 1 /\ a[Len(s) + 1] = e
        /\ \A i \in 1 .. Len(s) : a[i] = s[i]
    BY AppendProperties, LenProperties
  <1> HIDE DEF a
  <1>2. Lacks(a, type) => Lacks(s, type) /\ e.type # type
    <2>1. Lacks(a, type) => a[Len(s) + 1].type # type
      BY <1>1 DEF Lacks
    <2>2. ASSUME Lacks(a, type), NEW i \in 1 .. Len(s) PROVE s[i].type # type
      <3>1. i \in 1 .. Len(a)
        BY <1>1
      <3>2. QED
        BY <1>1, <2>2, <3>1 DEF Lacks
    <2>3. QED
      BY <1>1, <2>1, <2>2 DEF Lacks
  <1>3. Lacks(s, type) /\ e.type # type => Lacks(a, type)
    <2> SUFFICES ASSUME Lacks(s, type), e.type # type, NEW i \in 1 .. Len(a) PROVE a[i].type # type
      BY DEF Lacks
    <2>1. CASE i = Len(s) + 1
      BY <1>1, <2>1
    <2>2. CASE i # Len(s) + 1
      <3>1. i \in 1 .. Len(s)
        BY <1>1, <2>2
      <3>2. QED
        BY <1>1, <3>1 DEF Lacks
    <2>3. QED
      BY <2>1, <2>2
  <1>4. ASSUME e.type = type => Says(e, state), e.type = type \/ LastSays(s, type, state),
               NEW i \in 1 .. Len(a), a[i].type = type, \A j \in i + 1 .. Len(a) : a[j].type # type
        PROVE  Says(a[i], state)
    <2>1. CASE i = Len(s) + 1
      BY <1>1, <1>4, <2>1
    <2>2. CASE i # Len(s) + 1
      <3>1. i \in 1 .. Len(s) /\ Len(s) + 1 \in i + 1 .. Len(a)
        BY <1>1, <2>2
      <3>2. e.type # type
        BY <1>1, <1>4, <3>1
      <3>3. \A j \in i + 1 .. Len(s) : s[j].type # type
        <4> SUFFICES ASSUME NEW j \in i + 1 .. Len(s) PROVE s[j].type # type
          OBVIOUS
        <4>1. j \in i + 1 .. Len(a) /\ j \in 1 .. Len(s)
          BY <1>1, <3>1
        <4>2. QED
          BY <1>1, <1>4, <4>1
      <3>4. s[i].type = type /\ LastSays(s, type, state)
        BY <1>1, <1>4, <3>1, <3>2
      <3>5. QED
        BY <1>1, <3>1, <3>3, <3>4 DEF LastSays
    <2>3. QED
      BY <2>1, <2>2
  <1>5. QED
    BY <1>2, <1>3, <1>4 DEF a, LastSays

LEMMA LacksTail ==
  ASSUME NEW s \in Seq(SY!LoopEvents), s # <<>>, NEW type, NEW state
  PROVE  /\ Head(s) = s[1] /\ Head(s) \in SY!LoopEvents /\ Tail(s) \in Seq(SY!LoopEvents) /\ 1 \in 1 .. Len(s)
         /\ \A i \in 1 .. Len(Tail(s)) : i + 1 \in 1 .. Len(s) /\ Tail(s)[i] = s[i + 1]
         /\ Lacks(s, type) <=> Lacks(Tail(s), type) /\ Head(s).type # type
         /\ LastSays(s, type, state) => /\ LastSays(Tail(s), type, state)
                                        /\ Lacks(Tail(s), type) /\ Head(s).type = type => Says(Head(s), state)
  <1> DEFINE r == Tail(s)
  <1>1. /\ Len(s) \in Nat \ {0} /\ Head(s) = s[1] /\ r \in Seq(SY!LoopEvents) /\ Len(r) = Len(s) - 1
        /\ \A i \in 1 .. Len(r) : r[i] = s[i + 1]
    BY HeadTailProperties, EmptySeq, LenProperties
  <1>2. Head(s) \in SY!LoopEvents /\ 1 \in 1 .. Len(s)
    BY <1>1, ElementOfSeq
  <1> HIDE DEF r
  <1>3. \A i \in 1 .. Len(r) : i + 1 \in 1 .. Len(s)
    BY <1>1
  <1>4. \A i \in 1 .. Len(s) : i = 1 \/ (i - 1 \in 1 .. Len(r) /\ r[i - 1] = s[i])
    <2> SUFFICES ASSUME NEW i \in 1 .. Len(s), i # 1 PROVE i - 1 \in 1 .. Len(r) /\ r[i - 1] = s[i]
      OBVIOUS
    <2>1. i - 1 \in 1 .. Len(r) /\ (i - 1) + 1 = i
      BY <1>1
    <2>2. QED
      BY <1>1, <2>1
  <1>5. Lacks(s, type) <=> Lacks(r, type) /\ Head(s).type # type
    <2>1. Lacks(s, type) => Lacks(r, type)
      BY <1>1, <1>3 DEF Lacks
    <2>2. Lacks(s, type) => Head(s).type # type
      BY <1>1, <1>2 DEF Lacks
    <2>3. Lacks(r, type) /\ Head(s).type # type => Lacks(s, type)
      BY <1>1, <1>4 DEF Lacks
    <2>4. QED
      BY <2>1, <2>2, <2>3
  <1>6. ASSUME LastSays(s, type, state), NEW i \in 1 .. Len(r), r[i].type = type,
               \A j \in i + 1 .. Len(r) : r[j].type # type
        PROVE  Says(r[i], state)
    <2>1. i + 1 \in 1 .. Len(s) /\ r[i] = s[i + 1]
      BY <1>1, <1>3
    <2>2. \A j \in i + 2 .. Len(s) : s[j].type # type
      <3> SUFFICES ASSUME NEW j \in i + 2 .. Len(s) PROVE s[j].type # type
        OBVIOUS
      <3>1. j \in 1 .. Len(s) /\ j # 1 /\ j - 1 \in i + 1 .. Len(r)
        BY <1>1
      <3>2. QED
        BY <1>4, <1>6, <3>1
    <2>3. \A j \in (i + 1) + 1 .. Len(s) : s[j].type # type
      BY <2>2
    <2>4. QED
      BY <1>6, <2>1, <2>3 DEF LastSays
  <1>7. ASSUME LastSays(s, type, state), Lacks(r, type), Head(s).type = type
        PROVE  Says(Head(s), state)
    <2>1. \A j \in 1 + 1 .. Len(s) : s[j].type # type
      <3> SUFFICES ASSUME NEW j \in 1 + 1 .. Len(s) PROVE s[j].type # type
        OBVIOUS
      <3>1. j \in 1 .. Len(s) /\ j # 1
        BY <1>1
      <3>2. QED
        BY <1>4, <1>7, <3>1 DEF Lacks
    <2>2. QED
      BY <1>1, <1>2, <1>7, <2>1 DEF LastSays
  <1>8. QED
    BY <1>1, <1>2, <1>3, <1>5, <1>6, <1>7 DEF r, LastSays

\* Without an event of the type anything is the last one; and only its part of the state counts.
LEMMA LastOfPart ==
  ASSUME NEW s, NEW type \in ChangeTypes, NEW old, NEW new
  PROVE  /\ Lacks(s, type) => LastSays(s, type, new)
         /\ (/\ type = STATUS => old.quality = new.quality
             /\ type = ZONE => old.zone = new.zone /\ old.accuracy = new.accuracy)
              => (LastSays(s, type, old) => LastSays(s, type, new))
  BY DEF Lacks, LastSays, Says, ChangeTypes, STATUS, ZONE

LEMMA SysInit == ASSUME MaxChanges \in Nat, SY!Init PROVE SysInv
  <1>1. mQueue = <<[type |-> "EVENT_INITIALISE"]>> /\ outbox = <<>> /\ tloop = "wait" /\ registered = FALSE
    BY DEF SY!Init
  <1>2. /\ mQueue \in Seq(SY!LoopEvents) /\ outbox \in Seq(SY!LoopEvents) /\ Len(mQueue) = 1 /\ mQueue # <<>>
        /\ mQueue[1].type = "EVENT_INITIALISE"
    <2>1. [type |-> "EVENT_INITIALISE"] \in SY!LoopEvents
      BY DEF SY!LoopEvents
    <2>2. QED
      BY <1>1, <2>1
  <1>3. SY!TypeOK
    <2>1. mIsSystemTimeAvailable \in BOOLEAN /\ registered \in BOOLEAN /\ failed \in BOOLEAN
      BY Zenon DEF SY!Init
    <2>2. /\ system \in SY!States /\ changes = 0 /\ answer = <<>> /\ tloop = "wait" /\ object = "alive"
          /\ mTimeZone = SY!NoZone /\ mTimeZoneAccuracyString = "" /\ mTransitionMap = SY!NoZone
      BY DEF SY!Init
    <2>3. changes \in 0 .. MaxChanges
      <3>1. MaxChanges \in Nat /\ changes = 0
        BY <2>2
      <3>2. QED
        BY <3>1
    <2>4. SY!NoZone = ""
      BY DEF SY!NoZone
    <2>5. answer \in {<<>>} \cup {<<s>> : s \in SY!States}
      BY <2>2
    <2>6. QED
      BY <1>2, <2>1, <2>2, <2>3, <2>4, <2>5 DEF SY!TypeOK
  <1>4. SY!CacheIsOfZone
    BY DEF SY!Init, SY!CacheIsOfZone
  <1>5. QueueShape
    BY <1>1, <1>2 DEF QueueShape
  <1>6. Early
    BY <1>2 DEF Early
  <1>7. \A type \in ChangeTypes : Lacks(mQueue, type) /\ Lacks(outbox, type)
    BY <1>1, <1>2 DEF ChangeTypes, STATUS, ZONE, Lacks
  <1>8. \A type \in ChangeTypes : Follows(type)
    BY <1>6, <1>7, LastOfPart DEF Follows, ToAsk
  <1>9. LoopFollows
    BY <1>1, <1>6, <1>7, <1>8 DEF LoopFollows, ChangeTypes
  <1>10. QED
    BY <1>3, <1>4, <1>5, <1>9 DEF SysInv

\* The System plugin's state changes.
LEMMA ChangeFollows ==
  ASSUME MaxChanges \in Nat, SysInv, NEW new \in SY!States, NEW event \in SY!LoopEvents, event.type \in ChangeTypes,
         SY!Change(new, event), Says(event, new),
         event.type = STATUS => new.zone = system.zone /\ new.accuracy = system.accuracy,
         event.type = ZONE => new.quality = system.quality
  PROVE  SysInv'
  <1>1. /\ system' = new /\ outbox' = Append(outbox, event)
        /\ UNCHANGED <<registered, mQueue, tloop, answer, SY!timeVars, object, failed>>
    BY DEF SY!Change
  <1>2. SY!TypeOK /\ outbox \in Seq(SY!LoopEvents) /\ mQueue \in Seq(SY!LoopEvents)
    BY DEF SysInv, SY!TypeOK
  <1>3. changes' \in 0 .. MaxChanges
    <2>1. changes \in 0 .. MaxChanges /\ changes < MaxChanges /\ changes' = changes + 1
      BY <1>2 DEF SY!Change, SY!TypeOK
    <2>2. MaxChanges \in Nat
      OBVIOUS
    <2>3. QED
      BY <2>1, <2>2
  <1>4. outbox' \in Seq(SY!LoopEvents) /\ Len(outbox') = Len(outbox) + 1 /\ outbox'[Len(outbox) + 1] = event
        /\ \A i \in 1 .. Len(outbox) : outbox'[i] = outbox[i]
    BY <1>1, <1>2, AppendProperties
  <1>5. SY!TypeOK'
    BY <1>1, <1>2, <1>3, <1>4 DEF SY!TypeOK, SY!timeVars
  <1>6. SY!CacheIsOfZone'
    BY <1>1 DEF SysInv, SY!CacheIsOfZone, SY!timeVars
  <1>7. QueueShape'
    <2>1. ASSUME NEW i \in 1 .. Len(outbox') PROVE outbox'[i].type \in ChangeTypes
      <3>1. CASE i = Len(outbox) + 1
        BY <1>4, <3>1
      <3>2. CASE i # Len(outbox) + 1
        <4>1. i \in 1 .. Len(outbox)
          BY <1>2, <1>4, <3>2, LenProperties
        <4>2. QED
          BY <1>4, <4>1 DEF SysInv, QueueShape
      <3>3. QED
        BY <3>1, <3>2
    <2>2. QED
      BY <1>1, <2>1 DEF SysInv, QueueShape
  <1>8. LoopFollows'
    <2> SUFFICES ASSUME ~failed, tloop # "exited"
                 PROVE  /\ registered <=> ~Early
                        /\ Early => Lacks(mQueue, STATUS) /\ Lacks(mQueue, ZONE)
                        /\ tloop \in {"status", "zone"} => answer # <<>>
                        /\ \A type \in ChangeTypes : Follows(type)'
      BY <1>1 DEF LoopFollows, Early, Lacks
    <2>1. /\ registered <=> ~Early
          /\ Early => Lacks(mQueue, STATUS) /\ Lacks(mQueue, ZONE)
          /\ tloop \in {"status", "zone"} => answer # <<>>
          /\ \A type \in ChangeTypes : Follows(type)
      BY DEF SysInv, LoopFollows
    <2>2. ASSUME NEW type \in ChangeTypes PROVE Follows(type)'
      <3>1. Lacks(outbox', type) <=> Lacks(outbox, type) /\ event.type # type
        BY <1>1, <1>2, LacksAppend
      <3>2. event.type = type \/ LastSays(outbox, type, new)
        BY <1>2, <2>1, LastOfPart DEF Follows, ChangeTypes, STATUS, ZONE
      <3>3. LastSays(outbox', type, new)
        BY <1>1, <1>2, <3>2, LacksAppend
      <3>4. Lacks(outbox', type) => LastSays(mQueue, type, new)
        BY <2>1, <3>1, LastOfPart DEF Follows, ChangeTypes, STATUS, ZONE
      <3>5. ~ToAsk(type) /\ Lacks(mQueue, type) /\ Lacks(outbox', type) => Holds(type)
        BY <2>1, <3>1 DEF Follows
      <3>6. event.type # type => (Holds(type) => Holds(type)')
        BY <1>1 DEF Holds, SY!timeVars, SY!FinalZone, SY!IsTimeOK, ChangeTypes, STATUS, ZONE
      <3>7. ToAsk(type)' <=> ToAsk(type)
        BY <1>1 DEF ToAsk, Early
      <3>8. (Lacks(mQueue, type)' <=> Lacks(mQueue, type)) /\ (Lacks(outbox, type)' <=> Lacks(outbox', type))
            /\ (LastSays(mQueue, type, system)' <=> LastSays(mQueue, type, new))
            /\ (LastSays(outbox, type, system)' <=> LastSays(outbox', type, new))
        BY <1>1 DEF Lacks, LastSays
      <3>9. QED
        BY <3>1, <3>3, <3>4, <3>5, <3>6, <3>7, <3>8 DEF Follows
    <2>3. QED
      BY <2>1, <2>2
  <1>9. QED
    BY <1>5, <1>6, <1>7, <1>8 DEF SysInv

LEMMA ChangesFollow ==
  ASSUME MaxChanges \in Nat, SysInv,
         \/ \E q \in SY!Qualities : SY!ChangeQuality(q)
         \/ \E z \in Zones, a \in Accuracies : SY!ChangeZone(z, a)
  PROVE  SysInv'
  <1>1. system \in SY!States
    BY DEF SysInv, SY!TypeOK
  <1>2. ASSUME NEW q \in SY!Qualities, SY!ChangeQuality(q) PROVE SysInv'
    <2>1. PICK new \in SY!States, event \in SY!LoopEvents :
            /\ new = [system EXCEPT !.quality = q]
            /\ event = [type |-> "EVENT_TIME_STATUS_CHANGED", quality |-> q]
      BY <1>1 DEF SY!States, SY!LoopEvents
    <2>2. SY!Change(new, event)
      BY <1>2, <2>1 DEF SY!ChangeQuality, SY!Change
    <2>3. /\ event.type = STATUS /\ event.quality = q /\ new.quality = q /\ new.zone = system.zone
          /\ new.accuracy = system.accuracy
      BY <1>1, <2>1 DEF SY!States, STATUS
    <2>4. QED
      BY <2>2, <2>3, ChangeFollows DEF Says, ChangeTypes, STATUS, ZONE
  <1>3. ASSUME NEW z \in Zones, NEW a \in Accuracies, SY!ChangeZone(z, a) PROVE SysInv'
    <2>1. PICK new \in SY!States, event \in SY!LoopEvents :
            /\ new = [system EXCEPT !.zone = z, !.accuracy = a]
            /\ event = [type |-> "EVENT_TIME_ZONE_CHANGED", zone |-> z, accuracy |-> a]
      BY <1>1 DEF SY!States, SY!LoopEvents
    <2>2. SY!Change(new, event)
      BY <1>3, <2>1 DEF SY!ChangeZone, SY!Change
    <2>3. /\ event.type = ZONE /\ event.zone = z /\ event.accuracy = a /\ new.zone = z /\ new.accuracy = a
          /\ new.quality = system.quality
      BY <1>1, <2>1 DEF SY!States, ZONE
    <2>4. QED
      BY <2>2, <2>3, ChangeFollows DEF Says, ChangeTypes, STATUS, ZONE
  <1>4. QED
    BY <1>2, <1>3

LEMMA NotifyFollows == ASSUME SysInv, SY!Notify PROVE SysInv'
  <1>1. /\ outbox # <<>> /\ outbox' = Tail(outbox)
        /\ mQueue' = IF registered THEN Append(mQueue, Head(outbox)) ELSE mQueue
        /\ UNCHANGED <<system, changes, registered, tloop, answer, SY!timeVars, object, failed>>
    BY DEF SY!Notify
  <1>2. SY!TypeOK /\ outbox \in Seq(SY!LoopEvents) /\ mQueue \in Seq(SY!LoopEvents) /\ registered \in BOOLEAN
    BY DEF SysInv, SY!TypeOK
  <1>3. /\ Head(outbox) = outbox[1] /\ Head(outbox) \in SY!LoopEvents /\ outbox' \in Seq(SY!LoopEvents)
        /\ 1 \in 1 .. Len(outbox)
        /\ \A i \in 1 .. Len(outbox') : i + 1 \in 1 .. Len(outbox) /\ outbox'[i] = outbox[i + 1]
    BY <1>1, <1>2, LacksTail
  <1>4. Head(outbox).type \in ChangeTypes
    BY <1>3 DEF SysInv, QueueShape
  <1>5. mQueue' \in Seq(SY!LoopEvents)
    BY <1>1, <1>2, <1>3, AppendProperties
  <1>6. SY!TypeOK'
    BY <1>1, <1>2, <1>3, <1>5 DEF SY!TypeOK, SY!timeVars
  <1>7. SY!CacheIsOfZone'
    BY <1>1 DEF SysInv, SY!CacheIsOfZone, SY!timeVars
  <1>8. registered => /\ Len(mQueue) \in Nat /\ Len(mQueue') = Len(mQueue) + 1
                      /\ mQueue'[Len(mQueue) + 1] = Head(outbox)
                      /\ \A i \in 1 .. Len(mQueue) : mQueue'[i] = mQueue[i]
    BY <1>1, <1>2, <1>3, AppendProperties, LenProperties
  <1>9. QueueShape'
    <2>1. \A i \in 1 .. Len(outbox') : outbox'[i].type \in ChangeTypes
      BY <1>3 DEF SysInv, QueueShape
    <2>2. ASSUME NEW i \in 1 .. Len(mQueue')
          PROVE  /\ mQueue'[i].type = "EVENT_INITIALISE" => i = 1 /\ tloop = "wait"
                 /\ mQueue'[i].type = "EVENT_SHUTDOWN" => object # "alive"
      <3>1. CASE ~registered
        BY <1>1, <3>1 DEF SysInv, QueueShape
      <3>2. CASE registered /\ i = Len(mQueue) + 1
        BY <1>4, <1>8, <3>2 DEF ChangeTypes, STATUS, ZONE
      <3>3. CASE registered /\ i # Len(mQueue) + 1
        <4>1. i \in 1 .. Len(mQueue) /\ mQueue'[i] = mQueue[i]
          BY <1>8, <3>3
        <4>2. QED
          BY <4>1 DEF SysInv, QueueShape
      <3>4. QED
        BY <3>1, <3>2, <3>3
    <2>3. QED
      BY <1>1, <2>1, <2>2 DEF QueueShape
  <1>10. LoopFollows'
    <2> SUFFICES ASSUME ~failed, tloop # "exited"
                 PROVE  /\ registered <=> ~Early'
                        /\ Early' => \A type \in ChangeTypes : Lacks(mQueue', type)
                        /\ tloop \in {"status", "zone"} => answer # <<>>
                        /\ \A type \in ChangeTypes : Follows(type)'
      BY <1>1 DEF LoopFollows, ChangeTypes, Lacks
    <2>1. /\ registered <=> ~Early
          /\ Early => \A type \in ChangeTypes : Lacks(mQueue, type)
          /\ tloop \in {"status", "zone"} => answer # <<>>
          /\ \A type \in ChangeTypes : Follows(type)
      BY DEF SysInv, LoopFollows, ChangeTypes
    <2>2. Early' <=> Early
      <3>1. CASE ~registered
        BY <1>1, <3>1 DEF Early
      <3>2. CASE registered /\ mQueue = <<>>
        <4>1. mQueue'[1] = Head(outbox)
          BY <1>8, <3>2
        <4>2. QED
          BY <1>1, <1>4, <2>1, <3>2, <4>1 DEF Early, ChangeTypes, STATUS, ZONE
      <3>3. CASE registered /\ mQueue # <<>>
        <4>1. 1 \in 1 .. Len(mQueue) /\ mQueue' # <<>>
          BY <1>2, <1>8, <3>3, EmptySeq, LenProperties
        <4>2. mQueue'[1] = mQueue[1]
          BY <1>8, <3>3, <4>1
        <4>3. QED
          BY <1>1, <3>3, <4>1, <4>2 DEF Early
      <3>4. QED
        BY <3>1, <3>2, <3>3
    <2>3. ~registered => \A type \in ChangeTypes : Lacks(mQueue', type)
      BY <1>1, <2>1
    <2>4. ASSUME NEW type \in ChangeTypes PROVE Follows(type)'
      <3>1. /\ Lacks(outbox, type) <=> Lacks(outbox', type) /\ Head(outbox).type # type
            /\ LastSays(outbox', type, system)
            /\ Lacks(outbox', type) /\ Head(outbox).type = type => Says(Head(outbox), system)
        BY <1>1, <1>2, <2>1, LacksTail DEF Follows
      <3>2. ASSUME Lacks(outbox', type) PROVE LastSays(mQueue', type, system)
        <4>1. CASE ~registered
          BY <2>3, <4>1, LastOfPart
        <4>2. CASE registered
          <5>1. Head(outbox).type = type => Says(Head(outbox), system)
            BY <3>1, <3>2
          <5>2. Head(outbox).type = type \/ LastSays(mQueue, type, system)
            BY <2>1, <3>1, <3>2 DEF Follows
          <5>3. mQueue' = Append(mQueue, Head(outbox))
            BY <1>1, <4>2
          <5>4. QED
            BY <1>2, <1>3, <5>1, <5>2, <5>3, LacksAppend
        <4>3. QED
          BY <4>1, <4>2
      <3>3. ASSUME ~ToAsk(type), Lacks(mQueue', type), Lacks(outbox', type) PROVE Holds(type)
        <4>1. registered /\ mQueue' = Append(mQueue, Head(outbox))
          BY <1>1, <2>1, <3>3 DEF ToAsk
        <4>2. Lacks(mQueue, type) /\ Head(outbox).type # type
          BY <1>2, <1>3, <3>3, <4>1, LacksAppend
        <4>3. QED
          BY <2>1, <3>1, <3>3, <4>2 DEF Follows
      <3>4. (Holds(type)' <=> Holds(type)) /\ (ToAsk(type)' <=> ToAsk(type))
        BY <1>1, <2>2 DEF Holds, ToAsk, SY!timeVars, SY!FinalZone, SY!IsTimeOK
      <3>5. (Lacks(mQueue, type)' <=> Lacks(mQueue', type)) /\ (Lacks(outbox, type)' <=> Lacks(outbox', type))
            /\ (LastSays(mQueue, type, system)' <=> LastSays(mQueue', type, system))
            /\ (LastSays(outbox, type, system)' <=> LastSays(outbox', type, system))
        BY <1>1 DEF Lacks, LastSays
      <3>6. QED
        BY <3>1, <3>2, <3>3, <3>4, <3>5 DEF Follows
    <2>5. QED
      BY <2>1, <2>2, <2>3, <2>4
  <1>11. QED
    BY <1>6, <1>7, <1>9, <1>10 DEF SysInv

\* The loop takes the event at the front.
LEMMA EventLoopFollows == ASSUME SysInv, SY!EventLoop PROVE SysInv'
  <1> DEFINE event == Head(mQueue)
  <1>1. /\ tloop = "wait" /\ mQueue # <<>> /\ mQueue' = Tail(mQueue)
        /\ UNCHANGED <<system, changes, outbox, registered, answer, object, failed>>
    BY DEF SY!EventLoop, SY!systemVars
  <1>2. SY!TypeOK /\ SY!CacheIsOfZone /\ QueueShape /\ outbox \in Seq(SY!LoopEvents)
        /\ mQueue \in Seq(SY!LoopEvents)
    BY DEF SysInv, SY!TypeOK
  <1>3. /\ event = mQueue[1] /\ event \in SY!LoopEvents /\ mQueue' \in Seq(SY!LoopEvents)
        /\ 1 \in 1 .. Len(mQueue)
        /\ \A i \in 1 .. Len(mQueue') : i + 1 \in 1 .. Len(mQueue) /\ mQueue'[i] = mQueue[i + 1]
    BY <1>1, <1>2, LacksTail
  <1>4. \/ event.type = "EVENT_INITIALISE" /\ tloop' = "register" /\ UNCHANGED SY!timeVars
        \/ event.type = STATUS /\ SY!ApplyTimeStatus(SY!IsTimeOK(event.quality)) /\ UNCHANGED tloop
        \/ event.type = ZONE /\ SY!ApplyTimeZone(event.zone, event.accuracy) /\ UNCHANGED tloop
        \/ event.type = "EVENT_SHUTDOWN" /\ tloop' = "exited" /\ UNCHANGED SY!timeVars
    BY DEF SY!EventLoop, STATUS, ZONE
  <1>5. /\ event.type = STATUS => event.quality \in SY!Qualities
        /\ event.type = ZONE => event.zone \in Zones /\ event.accuracy \in Accuracies
    BY <1>3 DEF SY!LoopEvents, STATUS, ZONE
  <1> HIDE DEF event
  <1>6. /\ mIsSystemTimeAvailable' \in BOOLEAN /\ mTimeZone' \in Zones \cup {SY!NoZone}
        /\ mTransitionMap' \in Zones \cup {SY!NoZone} /\ mTimeZoneAccuracyString' \in Accuracies \cup {""}
        /\ mTransitionMap' \in {SY!NoZone, mTimeZone'}
    <2>1. /\ mIsSystemTimeAvailable \in BOOLEAN /\ mTimeZone \in Zones \cup {SY!NoZone}
          /\ mTransitionMap \in Zones \cup {SY!NoZone} /\ mTimeZoneAccuracyString \in Accuracies \cup {""}
          /\ mTransitionMap \in {SY!NoZone, mTimeZone}
      BY <1>2 DEF SY!TypeOK, SY!CacheIsOfZone
    <2>2. CASE UNCHANGED SY!timeVars
      BY <2>1, <2>2 DEF SY!timeVars
    <2>3. CASE event.type = STATUS /\ SY!ApplyTimeStatus(SY!IsTimeOK(event.quality))
      <3>1. /\ mIsSystemTimeAvailable' = SY!IsTimeOK(event.quality)
            /\ UNCHANGED <<mTimeZone, mTimeZoneAccuracyString, mTransitionMap>>
        BY <2>3 DEF SY!ApplyTimeStatus
      <3>2. mIsSystemTimeAvailable' \in BOOLEAN
        <4>1. mIsSystemTimeAvailable' = (event.quality \in {"Good", "Secure"})
          BY <3>1 DEF SY!IsTimeOK
        <4>2. CASE event.quality \in {"Good", "Secure"}
          <5>1. mIsSystemTimeAvailable' = TRUE
            BY <4>1, <4>2, Zenon
          <5>2. QED
            BY <5>1
        <4>3. CASE event.quality \notin {"Good", "Secure"}
          <5>1. (event.quality \in {"Good", "Secure"}) = FALSE
            BY <4>3
          <5>2. QED
            BY <4>1, <5>1
        <4>4. QED
          BY <4>2, <4>3
      <3>3. QED
        BY <2>1, <3>1, <3>2
    <2>4. CASE event.type = ZONE /\ SY!ApplyTimeZone(event.zone, event.accuracy)
      BY <1>5, <2>1, <2>4 DEF SY!ApplyTimeZone
    <2>5. QED
      BY <1>4, <2>2, <2>3, <2>4
  <1>7. tloop' \in {"wait", "register", "exited"} /\ (tloop' = "exited" => object # "alive")
    BY <1>1, <1>2, <1>3, <1>4 DEF QueueShape
  <1>8. SY!TypeOK'
    BY <1>1, <1>2, <1>3, <1>6, <1>7 DEF SY!TypeOK
  <1>9. SY!CacheIsOfZone'
    BY <1>6 DEF SY!CacheIsOfZone
  <1>10. \A i \in 1 .. Len(mQueue') :
           /\ mQueue'[i].type # "EVENT_INITIALISE"
           /\ mQueue'[i].type = "EVENT_SHUTDOWN" => object # "alive"
    <2> SUFFICES ASSUME NEW i \in 1 .. Len(mQueue')
                 PROVE  /\ mQueue'[i].type # "EVENT_INITIALISE"
                        /\ mQueue'[i].type = "EVENT_SHUTDOWN" => object # "alive"
      OBVIOUS
    <2>1. i + 1 \in 1 .. Len(mQueue) /\ i + 1 # 1 /\ mQueue'[i] = mQueue[i + 1]
      BY <1>3
    <2>2. QED
      BY <1>2, <2>1 DEF QueueShape
  <1>11. QueueShape'
    BY <1>1, <1>2, <1>10 DEF QueueShape
  <1>12. Early' <=> tloop' = "register"
    <2>1. mQueue' # <<>> => 1 \in 1 .. Len(mQueue')
      BY <1>3, EmptySeq, LenProperties
    <2>2. QED
      BY <1>10, <2>1 DEF Early
  <1>13. LoopFollows'
    <2> SUFFICES ASSUME ~failed, tloop' # "exited"
                 PROVE  /\ registered <=> ~Early'
                        /\ Early' => Lacks(mQueue', STATUS) /\ Lacks(mQueue', ZONE)
                        /\ tloop' \notin {"status", "zone"}
                        /\ \A type \in ChangeTypes : Follows(type)'
      BY <1>1 DEF LoopFollows, Lacks
    <2>1. /\ registered <=> ~Early
          /\ Early => Lacks(mQueue, STATUS) /\ Lacks(mQueue, ZONE)
          /\ \A type \in ChangeTypes : Follows(type)
      BY <1>1 DEF SysInv, LoopFollows
    <2>2. \A type \in ChangeTypes :
            /\ Lacks(mQueue, type) <=> Lacks(mQueue', type) /\ event.type # type
            /\ LastSays(mQueue, type, system) =>
                 /\ LastSays(mQueue', type, system)
                 /\ Lacks(mQueue', type) /\ event.type = type => Says(event, system)
      BY <1>1, <1>2, LacksTail DEF event
    <2>3. Early <=> event.type = "EVENT_INITIALISE"
      BY <1>1, <1>3 DEF Early
    <2>4. (tloop' = "register" <=> event.type = "EVENT_INITIALISE") /\ tloop' \in {"wait", "register"}
      BY <1>1, <1>4, <1>7 DEF STATUS, ZONE
    <2>5. ASSUME NEW type \in ChangeTypes PROVE Follows(type)'
      <3>1. Lacks(outbox, type) => LastSays(mQueue', type, system)
        BY <2>1, <2>2 DEF Follows
      <3>2. ASSUME ~ToAsk(type)', Lacks(mQueue', type), Lacks(outbox, type) PROVE Holds(type)'
        <4>1. tloop' = "wait" /\ tloop = "wait" /\ ~ToAsk(type) /\ event.type \in ChangeTypes
          BY <1>1, <1>4, <1>12, <2>3, <2>4, <3>2 DEF ToAsk, ChangeTypes
        <4>2. CASE event.type # type
          <5>1. Holds(type)
            BY <2>1, <2>2, <3>2, <4>1, <4>2 DEF Follows
          <5>2. CASE type = STATUS /\ event.type = ZONE
            BY <1>1, <1>4, <4>1, <5>1, <5>2 DEF Holds, SY!ApplyTimeZone, SY!IsTimeOK, STATUS, ZONE
          <5>3. CASE type = ZONE /\ event.type = STATUS
            BY <1>1, <1>4, <4>1, <5>1, <5>3 DEF Holds, SY!ApplyTimeStatus, SY!FinalZone, STATUS, ZONE
          <5>4. QED
            BY <4>1, <4>2, <5>2, <5>3 DEF ChangeTypes
        <4>3. CASE event.type = type
          <5>1. Says(event, system)
            BY <2>1, <2>2, <3>2, <4>3 DEF Follows
          <5>2. CASE type = STATUS
            <6>1. mIsSystemTimeAvailable' = SY!IsTimeOK(event.quality) /\ event.quality = system.quality
              BY <1>4, <4>3, <5>1, <5>2 DEF SY!ApplyTimeStatus, Says, STATUS, ZONE
            <6>2. QED
              BY <1>1, <4>1, <5>2, <6>1 DEF Holds, SY!IsTimeOK
          <5>3. CASE type = ZONE
            <6>1. /\ mTimeZoneAccuracyString' = event.accuracy
                  /\ mTimeZone' = IF event.accuracy = "FINAL" THEN event.zone ELSE SY!NoZone
                  /\ event.zone = system.zone /\ event.accuracy = system.accuracy
              BY <1>4, <4>3, <5>1, <5>3 DEF SY!ApplyTimeZone, Says, STATUS, ZONE
            <6>2. QED
              BY <1>1, <4>1, <5>3, <6>1 DEF Holds, SY!FinalZone, STATUS, ZONE
          <5>4. QED
            BY <5>2, <5>3 DEF ChangeTypes
        <4>4. QED
          BY <4>2, <4>3
      <3>3. (Lacks(mQueue, type)' <=> Lacks(mQueue', type)) /\ (Lacks(outbox, type)' <=> Lacks(outbox, type))
            /\ (LastSays(mQueue, type, system)' <=> LastSays(mQueue', type, system))
            /\ (LastSays(outbox, type, system)' <=> LastSays(outbox, type, system))
        BY <1>1 DEF Lacks, LastSays
      <3>4. QED
        BY <2>1, <3>1, <3>2, <3>3 DEF Follows
    <2>6. QED
      BY <1>12, <2>1, <2>2, <2>3, <2>4, <2>5 DEF ChangeTypes
  <1>14. QED
    BY <1>8, <1>9, <1>11, <1>13 DEF SysInv

\* A step of the loop on its way through the queries, which leaves the queues alone.
LEMMA QueryFollows ==
  ASSUME SysInv, SY!TypeOK', SY!CacheIsOfZone', UNCHANGED <<system, outbox, mQueue, object>>,
         tloop # "wait", tloop # "exited",
         ~failed' => /\ ~failed /\ (registered' <=> tloop' # "register")
                     /\ tloop' \in {"status", "zone"} => answer' # <<>>,
         tloop' # "register",
         \A type \in ChangeTypes : ~failed' /\ ~ToAsk(type)' => Holds(type)' \/ (~ToAsk(type) /\ (Holds(type) => Holds(type)'))
  PROVE  SysInv'
  <1>1. QueueShape'
    BY DEF SysInv, QueueShape
  <1>2. mQueue # <<>> => mQueue[1].type # "EVENT_INITIALISE"
    <2>1. mQueue \in Seq(SY!LoopEvents)
      BY DEF SysInv, SY!TypeOK
    <2>2. mQueue # <<>> => 1 \in 1 .. Len(mQueue)
      BY <2>1, EmptySeq, LenProperties
    <2>3. QED
      BY <2>2 DEF SysInv, QueueShape
  <1>3. ~Early'
    BY <1>2 DEF Early
  <1>4. LoopFollows'
    <2> SUFFICES ASSUME ~failed', tloop' # "exited" PROVE \A type \in ChangeTypes : Follows(type)'
      BY <1>3 DEF LoopFollows
    <2>1. \A type \in ChangeTypes : Follows(type)
      BY DEF SysInv, LoopFollows
    <2>2. ASSUME NEW type \in ChangeTypes PROVE Follows(type)'
      <3>1. (Lacks(mQueue, type)' <=> Lacks(mQueue, type)) /\ (Lacks(outbox, type)' <=> Lacks(outbox, type))
            /\ (LastSays(mQueue, type, system)' <=> LastSays(mQueue, type, system))
            /\ (LastSays(outbox, type, system)' <=> LastSays(outbox, type, system))
        BY DEF Lacks, LastSays
      <3>2. QED
        BY <2>1, <3>1 DEF Follows
    <2>3. QED
      BY <2>2
  <1>5. QED
    BY <1>1, <1>4 DEF SysInv

LEMMA QueriesFollow ==
  ASSUME SysInv,
         \/ SY!InitializeSystemServices \/ SY!Ask("askStatus", "status") \/ SY!UpdateTimeStatus
         \/ SY!Ask("askZone", "zone") \/ SY!UpdateTimeZone
  PROVE  SysInv'
  <1>1. SY!TypeOK /\ SY!CacheIsOfZone
    BY DEF SysInv
  <1>2. \A type \in ChangeTypes : type = STATUS \/ type = ZONE
    BY DEF ChangeTypes
  <1>3. STATUS # ZONE
    BY DEF STATUS, ZONE
  <1>4. ~failed /\ tloop # "exited" => (registered <=> ~Early) /\ (tloop \in {"status", "zone"} => answer # <<>>)
    BY DEF SysInv, LoopFollows
  <1>5. tloop # "wait" /\ tloop # "exited" => (Early <=> tloop = "register")
    <2>1. mQueue \in Seq(SY!LoopEvents)
      BY DEF SysInv, SY!TypeOK
    <2>2. mQueue # <<>> => 1 \in 1 .. Len(mQueue)
      BY <2>1, EmptySeq, LenProperties
    <2>3. QED
      BY <2>2 DEF SysInv, QueueShape, Early
  <1>6. ASSUME SY!InitializeSystemServices PROVE SysInv'
    <2>1. /\ tloop = "register" /\ tloop' = "askStatus"
          /\ UNCHANGED <<system, changes, outbox, mQueue, answer, SY!timeVars, object>>
      BY <1>6 DEF SY!InitializeSystemServices, SY!systemVars
    <2>2. /\ registered' \in BOOLEAN /\ failed' \in BOOLEAN /\ (~failed' => ~failed /\ registered')
      BY <1>6, Zenon DEF SY!InitializeSystemServices
    <2>3. SY!TypeOK' /\ SY!CacheIsOfZone'
      BY <1>1, <2>1, <2>2 DEF SY!TypeOK, SY!CacheIsOfZone, SY!timeVars
    <2>4. \A type \in ChangeTypes : ToAsk(type)'
      BY <2>1 DEF ToAsk
    <2>5. QED
      BY <2>1, <2>2, <2>3, <2>4, QueryFollows
  <1>7. ASSUME NEW from, NEW to,
               (from = "askStatus" /\ to = "status") \/ (from = "askZone" /\ to = "zone"),
               SY!Ask(from, to)
        PROVE  SysInv'
    <2>1. /\ tloop = from /\ tloop' = to /\ answer' \in {<<system>>, <<>>}
          /\ UNCHANGED <<system, changes, outbox, mQueue, registered, SY!timeVars, object>>
      BY <1>7 DEF SY!Ask, SY!systemVars
    <2>2. failed' \in BOOLEAN /\ (~failed' => ~failed /\ answer' = <<system>> /\ answer' # <<>>)
      <3>1. failed' = (failed \/ answer' = <<>>)
        BY <1>7 DEF SY!Ask
      <3>2. failed' \in BOOLEAN /\ (~failed' => ~failed /\ answer' # <<>>)
        BY <3>1, Zenon
      <3>3. QED
        BY <2>1, <3>2
    <2>3. SY!TypeOK' /\ SY!CacheIsOfZone'
      BY <1>1, <1>7, <2>1, <2>2 DEF SY!TypeOK, SY!CacheIsOfZone, SY!timeVars
    <2>4. ~failed' => answer'[1] = system
      BY <2>2
    <2>5. ASSUME NEW type \in ChangeTypes, ~failed', ~ToAsk(type)'
          PROVE  Holds(type)' \/ (~ToAsk(type) /\ (Holds(type) => Holds(type)'))
      <3>1. CASE from = "askStatus"
        <4>1. type = STATUS
          BY <1>2, <1>3, <1>7, <2>1, <2>5, <3>1 DEF ToAsk
        <4>2. QED
          BY <1>7, <2>1, <2>4, <2>5, <3>1, <4>1 DEF Holds
      <3>2. CASE from = "askZone"
        <4>1. CASE type = STATUS
          <5>1. ~ToAsk(type)
            BY <1>5, <2>1, <3>2, <4>1 DEF ToAsk
          <5>2. QED
            BY <1>7, <2>1, <3>2, <4>1, <5>1 DEF Holds, SY!timeVars, SY!IsTimeOK
        <4>2. CASE type = ZONE
          BY <1>3, <1>7, <2>1, <2>4, <2>5, <3>2, <4>2 DEF Holds
        <4>3. QED
          BY <1>2, <4>1, <4>2
      <3>3. QED
        BY <1>7, <3>1, <3>2
    <2>6. tloop # "wait" /\ tloop # "exited" /\ tloop' # "register" /\ tloop # "register"
      BY <1>7, <2>1
    <2>7. ~failed' => /\ ~failed /\ (registered' <=> tloop' # "register")
                      /\ tloop' \in {"status", "zone"} => answer' # <<>>
      BY <1>4, <1>5, <2>1, <2>2, <2>6
    <2>8. QED
      BY <2>1, <2>3, <2>5, <2>6, <2>7, QueryFollows
  <1>8. ASSUME SY!UpdateTimeStatus PROVE SysInv'
    <2>1. /\ tloop = "status" /\ tloop' = "askZone"
          /\ mIsSystemTimeAvailable' = (answer = <<>> \/ SY!IsTimeOK(answer[1].quality))
          /\ UNCHANGED <<system, changes, outbox, mQueue, registered, answer, object, failed, mTimeZone,
                         mTimeZoneAccuracyString, mTransitionMap>>
      BY <1>8 DEF SY!UpdateTimeStatus, SY!ApplyTimeStatus, SY!systemVars
    <2>2. mIsSystemTimeAvailable' \in BOOLEAN
      BY <2>1, Zenon
    <2>3. SY!TypeOK' /\ SY!CacheIsOfZone'
      BY <1>1, <2>1, <2>2 DEF SY!TypeOK, SY!CacheIsOfZone
    <2>4. ASSUME NEW type \in ChangeTypes, ~failed', ~ToAsk(type)'
          PROVE  ~ToAsk(type) /\ (Holds(type) => Holds(type)')
      <3>1. type = STATUS /\ ~ToAsk(type)
        BY <1>2, <1>3, <1>5, <2>1, <2>4 DEF ToAsk
      <3>2. answer # <<>>
        BY <1>4, <2>1, <2>4
      <3>3. mIsSystemTimeAvailable' = SY!IsTimeOK(answer[1].quality)
        BY <2>1, <3>2 DEF SY!IsTimeOK
      <3>4. QED
        BY <2>1, <3>1, <3>3 DEF Holds, SY!IsTimeOK
    <2>5. ~failed' => /\ ~failed /\ (registered' <=> tloop' # "register")
                      /\ tloop' \in {"status", "zone"} => answer' # <<>>
      BY <1>4, <1>5, <2>1
    <2>6. QED
      BY <2>1, <2>3, <2>4, <2>5, QueryFollows
  <1>9. ASSUME SY!UpdateTimeZone PROVE SysInv'
    <2>1. /\ tloop = "zone" /\ tloop' = "wait" /\ answer' = <<>>
          /\ IF answer = <<>> THEN UNCHANGED SY!timeVars
                              ELSE SY!ApplyTimeZone(answer[1].zone, answer[1].accuracy)
          /\ UNCHANGED <<system, changes, outbox, mQueue, registered, object, failed>>
      BY <1>9 DEF SY!UpdateTimeZone, SY!systemVars
    <2>2. answer # <<>> => answer[1].zone \in Zones /\ answer[1].accuracy \in Accuracies
      <3>1. answer # <<>> => \E s \in SY!States : answer = <<s>>
        BY <1>1 DEF SY!TypeOK
      <3>2. QED
        BY <3>1 DEF SY!States
    <2>3. /\ mTimeZone' \in Zones \cup {SY!NoZone} /\ mTransitionMap' \in Zones \cup {SY!NoZone}
          /\ mTimeZoneAccuracyString' \in Accuracies \cup {""} /\ mTransitionMap' \in {SY!NoZone, mTimeZone'}
          /\ UNCHANGED mIsSystemTimeAvailable
      BY <1>1, <2>1, <2>2 DEF SY!TypeOK, SY!CacheIsOfZone, SY!timeVars, SY!ApplyTimeZone
    <2>4. SY!TypeOK' /\ SY!CacheIsOfZone'
      BY <1>1, <2>1, <2>3 DEF SY!TypeOK, SY!CacheIsOfZone
    <2>5. ASSUME NEW type \in ChangeTypes, ~failed', ~ToAsk(type)'
          PROVE  ~ToAsk(type) /\ (Holds(type) => Holds(type)')
      <3>1. ~ToAsk(type)
        BY <1>5, <2>1 DEF ToAsk
      <3>2. CASE type = STATUS
        BY <2>1, <2>3, <3>1, <3>2 DEF Holds, SY!IsTimeOK
      <3>3. CASE type = ZONE
        <4>1. answer # <<>>
          BY <1>4, <2>1, <2>5
        <4>2. /\ mTimeZoneAccuracyString' = answer[1].accuracy
              /\ mTimeZone' = IF answer[1].accuracy = "FINAL" THEN answer[1].zone ELSE SY!NoZone
          BY <2>1, <4>1 DEF SY!ApplyTimeZone
        <4>3. QED
          BY <1>3, <2>1, <3>1, <3>3, <4>2 DEF Holds, SY!FinalZone
      <3>4. QED
        BY <1>2, <3>2, <3>3
    <2>6. ~failed' => /\ ~failed /\ (registered' <=> tloop' # "register")
                      /\ tloop' \in {"status", "zone"} => answer' # <<>>
      BY <1>4, <1>5, <2>1
    <2>7. QED
      BY <2>1, <2>4, <2>5, <2>6, QueryFollows
  <1>10. ASSUME SY!Ask("askStatus", "status") PROVE SysInv'
    BY <1>7, <1>10
  <1>11. ASSUME SY!Ask("askZone", "zone") PROVE SysInv'
    BY <1>7, <1>11
  <1>12. QED
    BY <1>6, <1>8, <1>9, <1>10, <1>11

\* A step that touches neither queue, nor the loop, nor what is known of the time.
LEMMA AsideFollows ==
  ASSUME SysInv, SY!TypeOK', SY!CacheIsOfZone', object' = "alive" => object = "alive",
         UNCHANGED <<system, outbox, mQueue, tloop, answer, failed, mIsSystemTimeAvailable, mTimeZone,
                     mTimeZoneAccuracyString>>,
         tloop = "exited" \/ UNCHANGED registered
  PROVE  SysInv'
  <1>1. QueueShape'
    BY DEF SysInv, QueueShape
  <1>2. \A type \in ChangeTypes : Follows(type) => Follows(type)'
    BY DEF Follows, ToAsk, Holds, Early, Lacks, LastSays, SY!FinalZone, SY!IsTimeOK
  <1>3. LoopFollows'
    BY <1>2 DEF SysInv, LoopFollows, Early, Lacks
  <1>4. QED
    BY <1>1, <1>3 DEF SysInv

LEMMA OffsetFollows == ASSUME SysInv, SY!GetTimeZoneOffset PROVE SysInv'
  <1>1. SY!TypeOK /\ SY!CacheIsOfZone
    BY DEF SysInv
  <1>2. /\ mTransitionMap' = mTimeZone
        /\ UNCHANGED <<system, changes, outbox, registered, mQueue, tloop, answer, mIsSystemTimeAvailable,
                       mTimeZone, mTimeZoneAccuracyString, object, failed>>
    BY DEF SY!GetTimeZoneOffset, SY!systemVars
  <1>3. SY!TypeOK' /\ SY!CacheIsOfZone'
    BY <1>1, <1>2 DEF SY!TypeOK, SY!CacheIsOfZone
  <1>4. QED
    BY <1>2, <1>3, AsideFollows

LEMMA JoinedFollows == ASSUME SysInv, SY!Joined PROVE SysInv'
  <1>1. SY!TypeOK /\ SY!CacheIsOfZone
    BY DEF SysInv
  <1>2. /\ tloop = "exited" /\ object' = "destroyed" /\ registered' \in {registered, FALSE}
        /\ UNCHANGED <<system, changes, outbox, mQueue, tloop, answer, SY!timeVars, failed>>
    BY DEF SY!Joined, SY!systemVars
  <1>3. registered' \in BOOLEAN
    BY <1>1, <1>2 DEF SY!TypeOK
  <1>4. SY!TypeOK' /\ SY!CacheIsOfZone'
    BY <1>1, <1>2, <1>3 DEF SY!TypeOK, SY!CacheIsOfZone, SY!timeVars
  <1>5. QED
    BY <1>2, <1>4, AsideFollows DEF SY!timeVars

LEMMA DestroyFollows == ASSUME SysInv, SY!Destroy PROVE SysInv'
  <1> DEFINE shutdown == [type |-> "EVENT_SHUTDOWN"]
  <1>1. SY!TypeOK /\ SY!CacheIsOfZone /\ mQueue \in Seq(SY!LoopEvents)
    BY DEF SysInv, SY!TypeOK
  <1>2. /\ object = "alive" /\ object' = "joining" /\ mQueue' = Append(mQueue, shutdown)
        /\ UNCHANGED <<system, changes, outbox, registered, tloop, answer, SY!timeVars, failed>>
    BY DEF SY!Destroy, SY!systemVars
  <1>3. /\ shutdown \in SY!LoopEvents /\ shutdown.type \notin ChangeTypes
        /\ shutdown.type # "EVENT_INITIALISE"
    BY DEF SY!LoopEvents, ChangeTypes, STATUS, ZONE
  <1> HIDE DEF shutdown
  <1>4. /\ mQueue' \in Seq(SY!LoopEvents) /\ Len(mQueue) \in Nat /\ Len(mQueue') = Len(mQueue) + 1
        /\ mQueue'[Len(mQueue) + 1] = shutdown
        /\ \A i \in 1 .. Len(mQueue) : mQueue'[i] = mQueue[i]
    BY <1>1, <1>2, <1>3, AppendProperties, LenProperties
  <1>5. SY!TypeOK'
    BY <1>1, <1>2, <1>4 DEF SY!TypeOK, SY!timeVars
  <1>6. SY!CacheIsOfZone'
    BY <1>1, <1>2 DEF SY!CacheIsOfZone, SY!timeVars
  <1>7. QueueShape'
    <2>1. ASSUME NEW i \in 1 .. Len(mQueue')
          PROVE  mQueue'[i].type = "EVENT_INITIALISE" => i = 1 /\ tloop = "wait"
      <3>1. CASE i = Len(mQueue) + 1
        BY <1>3, <1>4, <3>1
      <3>2. CASE i # Len(mQueue) + 1
        <4>1. i \in 1 .. Len(mQueue) /\ mQueue'[i] = mQueue[i]
          BY <1>4, <3>2
        <4>2. QED
          BY <4>1 DEF SysInv, QueueShape
      <3>3. QED
        BY <3>1, <3>2
    <2>2. QED
      BY <1>2, <2>1 DEF SysInv, QueueShape
  <1>8. Early' <=> Early
    <2>1. mQueue # <<>> => 1 \in 1 .. Len(mQueue)
      BY <1>1, EmptySeq, LenProperties
    <2>2. CASE mQueue = <<>>
      <3>1. mQueue'[1] = shutdown
        BY <1>4, <2>2
      <3>2. QED
        BY <1>2, <1>3, <2>2, <3>1 DEF Early
    <2>3. CASE mQueue # <<>>
      <3>1. mQueue'[1] = mQueue[1] /\ mQueue' # <<>>
        BY <1>4, <2>1, <2>3
      <3>2. QED
        BY <1>2, <2>3, <3>1 DEF Early
    <2>4. QED
      BY <2>2, <2>3
  <1>9. \A type \in ChangeTypes :
          /\ Lacks(mQueue', type) <=> Lacks(mQueue, type)
          /\ LastSays(mQueue, type, system) => LastSays(mQueue', type, system)
    <2> SUFFICES ASSUME NEW type \in ChangeTypes
                 PROVE  /\ Lacks(mQueue', type) <=> Lacks(mQueue, type)
                        /\ LastSays(mQueue, type, system) => LastSays(mQueue', type, system)
      OBVIOUS
    <2>1. shutdown.type # type
      BY <1>3
    <2>2. QED
      BY <1>1, <1>2, <1>3, <2>1, LacksAppend
  <1>10. ASSUME NEW type \in ChangeTypes, Follows(type) PROVE Follows(type)'
    <2>1. (Holds(type)' <=> Holds(type)) /\ (ToAsk(type)' <=> ToAsk(type))
      BY <1>2, <1>8 DEF Holds, ToAsk, SY!timeVars, SY!FinalZone, SY!IsTimeOK
    <2>2. (Lacks(mQueue, type)' <=> Lacks(mQueue', type)) /\ (Lacks(outbox, type)' <=> Lacks(outbox, type))
          /\ (LastSays(mQueue, type, system)' <=> LastSays(mQueue', type, system))
          /\ (LastSays(outbox, type, system)' <=> LastSays(outbox, type, system))
      BY <1>2 DEF Lacks, LastSays
    <2>3. QED
      BY <1>9, <1>10, <2>1, <2>2 DEF Follows
  <1>11. LoopFollows'
    <2>1. /\ (Lacks(mQueue, STATUS)' <=> Lacks(mQueue, STATUS))
          /\ (Lacks(mQueue, ZONE)' <=> Lacks(mQueue, ZONE))
      <3>1. Lacks(mQueue', STATUS) <=> Lacks(mQueue, STATUS)
        BY <1>9 DEF ChangeTypes
      <3>2. Lacks(mQueue', ZONE) <=> Lacks(mQueue, ZONE)
        BY <1>9 DEF ChangeTypes
      <3>3. QED
        BY <3>1, <3>2 DEF Lacks, STATUS, ZONE
    <2>2. QED
      BY <1>2, <1>8, <1>10, <2>1 DEF SysInv, LoopFollows
  <1>12. QED
    BY <1>5, <1>6, <1>7, <1>11 DEF SysInv

LEMMA SystemStep == ASSUME MaxChanges \in Nat, SysInv, SY!Next \/ UNCHANGED systemVars PROVE SysInv'
  <1>1. SY!Next => SysInv'
    BY ChangesFollow, NotifyFollows, EventLoopFollows, QueriesFollow, OffsetFollows, DestroyFollows,
       JoinedFollows DEF SY!Next, SY!LoopStep
  <1>2. ASSUME UNCHANGED systemVars PROVE SysInv'
    <2>1. UNCHANGED <<system, changes, outbox, registered, mQueue, tloop, answer, mIsSystemTimeAvailable,
                      mTimeZone, mTimeZoneAccuracyString, mTransitionMap, object, failed>>
      BY <1>2 DEF systemVars
    <2>2. SY!TypeOK' /\ SY!CacheIsOfZone'
      <3>1. SY!TypeOK /\ SY!CacheIsOfZone
        BY DEF SysInv
      <3>2. SY!TypeOK'
        BY <2>1, <3>1 DEF SY!TypeOK
      <3>3. QED
        BY <2>1, <3>1, <3>2 DEF SY!CacheIsOfZone
    <2>3. QED
      BY <2>1, <2>2, AsideFollows
  <1>3. QED
    BY <1>1, <1>2

\* Once everything is delivered and handled, what holds is what the System plugin says.
LEMMA SettledAgrees == SysInv => Agrees
  <1> SUFFICES ASSUME SysInv, ~failed, registered, outbox = <<>>, mQueue = <<>>, tloop = "wait"
               PROVE  /\ mIsSystemTimeAvailable = SY!IsTimeOK(system.quality)
                      /\ mTimeZone = SY!FinalZone
                      /\ mTimeZoneAccuracyString = system.accuracy
    BY DEF SysInv, Agrees, SY!Agrees
  <1>1. STATUS \in ChangeTypes /\ ZONE \in ChangeTypes /\ STATUS # ZONE
    BY DEF ChangeTypes, STATUS, ZONE
  <1>2. ~Early /\ \A type \in ChangeTypes : Follows(type)
    BY DEF SysInv, LoopFollows
  <1>3. \A type \in ChangeTypes : Lacks(mQueue, type) /\ Lacks(outbox, type) /\ ~ToAsk(type)
    BY <1>2 DEF Lacks, ToAsk
  <1>4. Holds(STATUS) /\ Holds(ZONE)
    BY <1>1, <1>2, <1>3 DEF Follows
  <1>5. QED
    BY <1>1, <1>4 DEF Holds

\* SystemTime and the System plugin agree once every notification is applied, for any zones
\* and accuracies and however often the System plugin's state changes meanwhile: whichever of
\* a query and a notification is the older, the younger one is applied after it (unless the
\* System plugin was absent or refused to answer).  The cached transitions are always those of
\* the zone in force.
THEOREM SystemTimeAgrees == ASSUME MaxChanges \in Nat PROVE PartsSpec => []Agrees
  <1>1. PartsInit => SysInv
    BY SysInit DEF PartsInit
  <1>2. SysInv /\ [PartsNext]_<<focus, vars, systemVars, storeVars, functionVars>> => SysInv'
    <2> SUFFICES ASSUME SysInv, [PartsNext]_<<focus, vars, systemVars, storeVars, functionVars>>
                 PROVE  SysInv'
      OBVIOUS
    <2>1. SY!Next \/ UNCHANGED systemVars
      BY DEF PartsNext
    <2>2. QED
      BY <2>1, SystemStep
  <1>3. QED
    BY <1>1, <1>2, SettledAgrees, PTL DEF PartsSpec

------------------------------------------------------------------------------
(***************************************************************************)
(* LocalStore: an event is taken for one batch.                            *)
(***************************************************************************)

StoreConstants == TableLimit \in Nat /\ MaxEvents \in Nat /\ MaxStops \in Nat

Increasing(s) == \A i, j \in DOMAIN s : i < j => s[i] < s[j]

\* The ids in the table are consecutive and end with the last one given, and the entries
\* are in the order in which they came.
TableShape ==
  /\ \E lo \in 1 .. lastId + 1 : DOMAIN table = lo .. lastId
  /\ Increasing(table)

\* The range is that of the ids from one on, from the first one unless the store is crowded.
RangeShape ==
  /\ range.start \in DOMAIN table /\ range.count = lastId + 1 - range.start
  /\ ~crowded => \A i \in DOMAIN table : range.start <= i

BatchShape == Increasing(batch) /\ LS!ToSet(batch) = {table[i] : i \in range.start .. lastId}

\* What is removed is what was read, and that is everything.
QueryShape ==
  /\ poster = "get" => range = LS!NoRange \/ RangeShape
  /\ poster = "remove" => RangeShape /\ BatchShape
  /\ poster = "verify" => DOMAIN table = {}

\* What was taken is older than what is in the table.
TakenShape ==
  ~crowded =>
    /\ Increasing(taken)
    /\ \A i \in DOMAIN taken, j \in DOMAIN table : taken[i] < table[j]
    /\ accepted = LS!ToSet(taken) \cup {table[i] : i \in DOMAIN table}

StoreInv == LS!TypeOK /\ TableShape /\ QueryShape /\ TakenShape

------------------------------------------------------------------------------
LEMMA CardinalityIs == ASSUME NEW S PROVE LS!Cardinality(S) = Cardinality(S)
  BY DEF Cardinality, LS!Cardinality

LEMMA IntervalIs ==
  ASSUME NEW a \in Nat, NEW b \in Nat, a <= b + 1
  PROVE  IsFiniteSet(a .. b) /\ LS!Cardinality(a .. b) = b + 1 - a
  <1>1. IsFiniteSet(a .. b) /\ Cardinality(a .. b) = IF a > b THEN 0 ELSE b - a + 1
    BY FS_Interval
  <1>2. QED
    BY <1>1, CardinalityIs

\* A sequence of numbers lists a set in order.
Lists(rows, ids) ==
  rows \in Seq(ids) /\ Increasing(rows) /\ \A id \in ids : \E k \in DOMAIN rows : rows[k] = id

\* The rows of consecutive ids: all of them, in order.
LEMMA RowsAre ==
  ASSUME NEW a \in Nat, NEW b \in Nat, a <= b + 1, NEW rows, rows = LS!Rows(a .. b)
  PROVE  /\ Lists(rows, a .. b) /\ Len(rows) = b + 1 - a
         /\ a <= b => rows[1] = a
         /\ a = b + 1 => rows = <<>>
  <1> DEFINE n == b + 1 - a
             Sorted(s) == \A i, j \in DOMAIN s : i < j => s[i] < s[j]
  <1>1. n \in Nat
    OBVIOUS
  <1>2. rows = CHOOSE s \in [1 .. n -> a .. b] : Sorted(s)
    BY IntervalIs DEF LS!Rows
  <1>3. \E s \in [1 .. n -> a .. b] : Sorted(s)
    <2> DEFINE s == [k \in 1 .. n |-> a + k - 1]
    <2>1. s \in [1 .. n -> a .. b]
      OBVIOUS
    <2>2. Sorted(s)
      OBVIOUS
    <2>3. QED
      BY <2>1, <2>2
  <1>4. rows \in [1 .. n -> a .. b] /\ Sorted(rows)
    BY <1>2, <1>3
  <1> HIDE DEF n
  <1>5. \A i, j \in 1 .. n : i # j => rows[i] # rows[j]
    <2> SUFFICES ASSUME NEW i \in 1 .. n, NEW j \in 1 .. n, i # j PROVE rows[i] # rows[j]
      OBVIOUS
    <2>1. rows[i] \in a .. b /\ rows[j] \in a .. b
      BY <1>4
    <2>2. rows[i] < rows[j] \/ rows[j] < rows[i]
      BY <1>1, <1>4
    <2>3. QED
      BY <2>1, <2>2
  <1>6. rows \in Injection(1 .. n, a .. b)
    BY <1>4, <1>5 DEF Injection, IsInjective
  <1>7. IsFiniteSet(a .. b) /\ Cardinality(a .. b) = n /\ Cardinality(1 .. n) = n
    <2>1. Cardinality(1 .. n) = IF 1 > n THEN 0 ELSE n - 1 + 1
      BY <1>1, FS_Interval
    <2>2. QED
      BY <1>1, <2>1, IntervalIs, CardinalityIs DEF n
  <1>8. rows \in Surjection(1 .. n, a .. b)
    BY <1>6, <1>7, FS_Injection
  <1>9. \A id \in a .. b : \E k \in 1 .. n : rows[k] = id
    BY <1>8 DEF Surjection
  <1>10. a <= b => rows[1] = a
    <2> SUFFICES ASSUME a <= b PROVE rows[1] = a
      OBVIOUS
    <2>1. PICK k \in 1 .. n : rows[k] = a
      BY <1>9
    <2>2. 1 \in 1 .. n
      BY <1>1, <2>1
    <2>3. rows[1] \in a .. b
      BY <1>4, <2>2
    <2>4. k # 1 => rows[1] < rows[k]
      BY <1>1, <1>4, <2>2
    <2>5. QED
      BY <2>1, <2>3, <2>4
  <1>11. rows \in Seq(a .. b) /\ Len(rows) = n
    BY <1>1, <1>4
  <1>12. n = 0 => rows = <<>>
    BY <1>11, EmptySeq
  <1>13. DOMAIN rows = 1 .. n
    BY <1>4
  <1>14. Increasing(rows)
    BY <1>4 DEF Increasing
  <1>15. n = b + 1 - a /\ (a = b + 1 => n = 0)
    BY DEF n
  <1>16. Lists(rows, a .. b)
    BY <1>9, <1>11, <1>13, <1>14 DEF Lists
  <1>17. QED
    BY <1>10, <1>11, <1>12, <1>15, <1>16

\* No ids, no rows.
LEMMA NoRows == LS!Rows({}) = <<>>
  <1>1. 1 .. 0 = {}
    OBVIOUS
  <1>2. LS!Rows(1 .. 0) = <<>>
    BY RowsAre
  <1>3. QED
    BY <1>1, <1>2

LEMMA SeqWiden == ASSUME NEW S, NEW T, S \subseteq T, NEW s \in Seq(S) PROVE s \in Seq(T)
  OBVIOUS

LEMMA StoreStarts == ASSUME StoreConstants, LS!Init PROVE StoreInv
  <1>1. /\ mDataBaseHandle = FALSE /\ created = FALSE /\ crowded = FALSE /\ poster = "down"
        /\ table = <<>> /\ lastId = 0 /\ accepted = {} /\ taken = <<>> /\ batch = <<>> /\ range = LS!NoRange
        /\ added = 0 /\ stops = 0
    BY DEF LS!Init
  <1>2. DOMAIN table = {} /\ 1 .. lastId = {} /\ 1 \in 1 .. lastId + 1
    BY <1>1
  <1>4. range \in [start : Nat, count : Nat] /\ batch \in Seq(accepted) /\ taken \in Seq(accepted)
    BY <1>1 DEF LS!NoRange
  <1>5. MaxEvents \in Nat /\ MaxStops \in Nat
    BY DEF StoreConstants
  <1>6. /\ mDataBaseHandle \in BOOLEAN /\ created \in BOOLEAN /\ crowded \in BOOLEAN
        /\ poster = "down" => ~mDataBaseHandle
    BY <1>1
  <1>7. added \in 0 .. MaxEvents /\ accepted \subseteq 1 .. added /\ stops \in 0 .. MaxStops
    BY <1>1, <1>5
  <1>8. lastId \in Nat
    BY <1>1
  <1>9. LS!TypeOK
    BY <1>1, <1>2, <1>4, <1>6, <1>7, <1>8 DEF LS!TypeOK
  <1>10. TableShape
    BY <1>2 DEF TableShape, Increasing
  <1>11. QueryShape
    BY <1>1 DEF QueryShape
  <1>12. TakenShape
    <2>1. DOMAIN taken = {} /\ LS!ToSet(taken) = {}
      BY <1>1 DEF LS!ToSet
    <2>2. QED
      BY <1>1, <1>2, <2>1 DEF TakenShape, Increasing
  <1>13. QED
    BY <1>9, <1>10, <1>11, <1>12 DEF StoreInv

\* A step that leaves the entries alone.
LEMMA StoreAside ==
  ASSUME StoreInv, UNCHANGED <<table, lastId, accepted, taken, added>>, ~crowded' => ~crowded,
         mDataBaseHandle' \in BOOLEAN, created' \in BOOLEAN, crowded' \in BOOLEAN,
         poster' \in {"down", "create", "limit", "idle", "count", "get", "remove", "verify"},
         poster' = "down" => ~mDataBaseHandle',
         range' \in [start : Nat, count : Nat], batch' \in Seq(accepted), stops' \in 0 .. MaxStops,
         QueryShape'
  PROVE  StoreInv'
  <1>1. LS!TypeOK
    BY DEF StoreInv
  <1>2. LS!TypeOK'
    <2>1. /\ lastId' \in Nat /\ DOMAIN table' \subseteq 1 .. lastId'
          /\ \A i \in DOMAIN table' : table'[i] \in accepted'
          /\ taken' \in Seq(accepted') /\ added' \in 0 .. MaxEvents /\ accepted' \subseteq 1 .. added'
          /\ batch' \in Seq(accepted')
      BY <1>1 DEF LS!TypeOK
    <2>2. QED
      BY <2>1 DEF LS!TypeOK
  <1>3. TableShape'
    BY DEF StoreInv, TableShape, Increasing
  <1>4. TakenShape'
    BY DEF StoreInv, TakenShape, Increasing, LS!ToSet
  <1>5. QED
    BY <1>2, <1>3, <1>4 DEF StoreInv

\* A step that leaves the batch and its range alone, or drops both.
LEMMA StoreWaits ==
  ASSUME StoreInv, UNCHANGED <<table, lastId, accepted, taken, added, crowded>>,
         mDataBaseHandle' \in BOOLEAN, created' \in BOOLEAN, stops' \in 0 .. MaxStops,
         poster' \in {"down", "create", "limit", "idle"},
         poster' = "down" => ~mDataBaseHandle',
         range' \in {range, LS!NoRange}, batch' \in {batch, <<>>}
  PROVE  StoreInv'
  <1>1. LS!TypeOK
    BY DEF StoreInv
  <1>2. range' \in [start : Nat, count : Nat] /\ batch' \in Seq(accepted) /\ crowded \in BOOLEAN
    <2>1. range \in [start : Nat, count : Nat] /\ batch \in Seq(accepted) /\ crowded \in BOOLEAN
      BY <1>1 DEF LS!TypeOK
    <2>2. LS!NoRange \in [start : Nat, count : Nat]
      BY DEF LS!NoRange
    <2>3. <<>> \in Seq(accepted)
      OBVIOUS
    <2>4. QED
      BY <2>1, <2>2, <2>3
  <1>3. QueryShape'
    BY DEF QueryShape
  <1>4. QED
    BY <1>2, <1>3, StoreAside

LEMMA StoreOpens ==
  ASSUME StoreConstants, StoreInv, NEW ok \in BOOLEAN,
         LS!Open(ok) \/ LS!CreateTable(ok) \/ LS!SetLimit(ok) \/ LS!Verify \/ LS!Stop
  PROVE  StoreInv'
  <1>1. LS!TypeOK
    BY DEF StoreInv
  <1>2. /\ mDataBaseHandle \in BOOLEAN /\ created \in BOOLEAN /\ stops \in 0 .. MaxStops
        /\ poster = "down" => ~mDataBaseHandle
    BY <1>1 DEF LS!TypeOK
  <1>3. CASE LS!Open(ok)
    <2>1. /\ mDataBaseHandle' = ok /\ poster' \in {"create", "idle"}
          /\ UNCHANGED <<created, table, lastId, accepted, taken, range, batch, added, crowded, stops>>
      BY <1>3 DEF LS!Open, LS!tableVars
    <2>2. mDataBaseHandle' \in BOOLEAN /\ created' \in BOOLEAN /\ (poster' = "down" => ~mDataBaseHandle')
      BY <1>2, <2>1
    <2>3. QED
      BY <1>2, <2>1, <2>2, StoreWaits
  <1>4. CASE LS!CreateTable(ok)
    <2>1. /\ poster = "create" /\ poster' \in {"limit", "idle"} /\ created' = (created \/ ok)
          /\ UNCHANGED <<mDataBaseHandle, table, lastId, accepted, taken, range, batch, added, crowded, stops>>
      BY <1>4 DEF LS!CreateTable, LS!tableVars
    <2>2. mDataBaseHandle' \in BOOLEAN /\ (poster' = "down" => ~mDataBaseHandle')
      BY <1>2, <2>1
    <2>3. created' \in BOOLEAN
      BY <2>1, Zenon
    <2>4. QED
      BY <1>2, <2>1, <2>2, <2>3, StoreWaits
  <1>5. CASE LS!SetLimit(ok)
    <2>1. /\ poster = "limit" /\ poster' = "idle"
          /\ UNCHANGED <<mDataBaseHandle, created, table, lastId, accepted, taken, range, batch, added, crowded, stops>>
      BY <1>5 DEF LS!SetLimit, LS!tableVars
    <2>2. mDataBaseHandle' \in BOOLEAN /\ (poster' = "down" => ~mDataBaseHandle')
      BY <1>2, <2>1
    <2>3. created' \in BOOLEAN
      BY <1>2, <2>1
    <2>4. QED
      BY <1>2, <2>1, <2>2, <2>3, StoreWaits
  <1>6. CASE LS!Verify
    <2>1. /\ poster = "verify" /\ poster' = "idle" /\ batch' = <<>> /\ range' = LS!NoRange
          /\ UNCHANGED <<mDataBaseHandle, created, table, lastId, accepted, taken, added, crowded, stops>>
      BY <1>6 DEF LS!Verify, LS!tableVars
    <2>2. mDataBaseHandle' \in BOOLEAN /\ created' \in BOOLEAN /\ (poster' = "down" => ~mDataBaseHandle')
      BY <1>2, <2>1
    <2>3. QED
      BY <1>2, <2>1, <2>2, StoreWaits
  <1>7. CASE LS!Stop
    <2>1. /\ stops < MaxStops /\ stops' = stops + 1 /\ poster' = "down" /\ mDataBaseHandle' = FALSE
          /\ batch' = <<>> /\ range' = LS!NoRange
          /\ UNCHANGED <<created, table, lastId, accepted, taken, added, crowded>>
      BY <1>7 DEF LS!Stop, LS!tableVars
    <2>2. mDataBaseHandle' \in BOOLEAN /\ created' \in BOOLEAN /\ (poster' = "down" => ~mDataBaseHandle')
      BY <1>2, <2>1
    <2>3. stops' \in 0 .. MaxStops
      <3>1. MaxStops \in Nat
        BY DEF StoreConstants
      <3>2. QED
        BY <1>2, <2>1, <3>1
    <2>4. QED
      BY <2>1, <2>2, <2>3, StoreWaits
  <1>8. QED
    BY <1>3, <1>4, <1>5, <1>6, <1>7

\* What the two queries select.
LEMMA LastRows ==
  ASSUME TableLimit \in Nat, lastId \in Nat, NEW lo \in 1 .. lastId + 1, DOMAIN table = lo .. lastId
  PROVE  \E a \in lo .. lastId + 1 : /\ LS!buildGetEventsQuery(0, TableLimit) = a .. lastId
                                     /\ lastId + 1 - lo <= TableLimit => a = lo
  <1> DEFINE a == IF lo + TableLimit > lastId THEN lo ELSE lastId + 1 - TableLimit
  <1>1. /\ a \in Int /\ a \in lo .. lastId + 1 /\ (lastId + 1 - lo <= TableLimit => a = lo)
        /\ \A i \in lo .. lastId : i >= a <=> i + TableLimit > lastId
    OBVIOUS
  <1> HIDE DEF a
  <1>2. LS!buildGetEventsQuery(0, TableLimit) = {i \in DOMAIN table : \A j \in DOMAIN table : i + TableLimit > j}
    BY DEF LS!buildGetEventsQuery
  <1>3. \A i \in lo .. lastId : (\A j \in lo .. lastId : i + TableLimit > j) <=> i >= a
    <2> SUFFICES ASSUME NEW i \in lo .. lastId
                 PROVE  (\A j \in lo .. lastId : i + TableLimit > j) <=> i >= a
      OBVIOUS
    <2>1. lastId \in lo .. lastId
      OBVIOUS
    <2>2. (\A j \in lo .. lastId : i + TableLimit > j) <=> i + TableLimit > lastId
      BY <2>1
    <2>3. QED
      BY <1>1, <2>2
  <1>4. {i \in lo .. lastId : i >= a} = a .. lastId
    BY <1>1
  <1>5. LS!buildGetEventsQuery(0, TableLimit) = a .. lastId
    BY <1>2, <1>3, <1>4
  <1>6. QED
    BY <1>1, <1>5

LEMMA RangeRows ==
  ASSUME lastId \in Nat, NEW lo \in 1 .. lastId + 1, DOMAIN table = lo .. lastId,
         NEW first \in lo .. lastId
  PROVE  LS!buildGetEventsQuery(first, lastId + 1 - first) = first .. lastId
  <1> DEFINE n == lastId + 1 - first
             earlier(i) == {j \in DOMAIN table : first <= j /\ j < i}
  <1>1. LS!buildGetEventsQuery(first, n) =
          {i \in DOMAIN table : i >= first /\ LS!Cardinality(earlier(i)) < n}
    BY DEF LS!buildGetEventsQuery
  <1>2. \A i \in first .. lastId : LS!Cardinality(earlier(i)) < n
    <2> SUFFICES ASSUME NEW i \in first .. lastId PROVE LS!Cardinality(earlier(i)) < n
      OBVIOUS
    <2>1. earlier(i) = first .. i - 1
      OBVIOUS
    <2>2. LS!Cardinality(first .. i - 1) = i - 1 + 1 - first
      <3>1. first \in Nat /\ i - 1 \in Nat /\ first <= i - 1 + 1
        OBVIOUS
      <3>2. QED
        BY <3>1, IntervalIs
    <2>3. i - 1 + 1 - first < n
      OBVIOUS
    <2>4. QED
      BY <2>1, <2>2, <2>3
  <1> HIDE DEF n, earlier
  <1>3. \A i : i \in first .. lastId <=> i \in DOMAIN table /\ i >= first
    OBVIOUS
  <1>4. LS!buildGetEventsQuery(first, n) = first .. lastId
    BY <1>1, <1>2, <1>3
  <1>5. QED
    BY <1>4 DEF n

LEMMA CountKeeps == ASSUME StoreConstants, StoreInv, NEW ok \in BOOLEAN, LS!GetEntriesCount(ok) PROVE StoreInv'
  <1>1. LS!TypeOK /\ lastId \in Nat /\ TableLimit \in Nat
    BY DEF StoreInv, LS!TypeOK, StoreConstants
  <1>2. PICK lo \in 1 .. lastId + 1 : DOMAIN table = lo .. lastId
    BY DEF StoreInv, TableShape
  <1>3. PICK a \in lo .. lastId + 1 : /\ LS!buildGetEventsQuery(0, TableLimit) = a .. lastId
                                      /\ lastId + 1 - lo <= TableLimit => a = lo
    BY <1>1, <1>2, LastRows
  <1>4. LS!Cardinality(DOMAIN table) = lastId + 1 - lo
    BY <1>1, <1>2, IntervalIs
  <1>5. PICK rows : rows = LS!ExecAndGetResults(ok, LS!buildGetEventsQuery(0, TableLimit))
    OBVIOUS
  <1>6. /\ poster = "count" /\ poster' = "get"
        /\ range' = IF rows = <<>> THEN LS!NoRange ELSE [start |-> rows[1], count |-> Len(rows)]
        /\ UNCHANGED <<mDataBaseHandle, created, table, lastId, accepted, taken, batch, added, stops>>
    BY <1>5 DEF LS!GetEntriesCount, LS!tableVars
  <1>7. crowded' \in BOOLEAN /\ (~crowded' => ~crowded /\ ~(LS!Cardinality(DOMAIN table) > TableLimit))
    <2>1. crowded' = (crowded \/ LS!Cardinality(DOMAIN table) > TableLimit)
      BY DEF LS!GetEntriesCount
    <2>2. QED
      BY <2>1, Zenon
  <1>8. rows = <<>> \/ (a <= lastId /\ rows[1] = a /\ Len(rows) = lastId + 1 - a)
    <2>1. rows = <<>> \/ rows = LS!Rows(a .. lastId)
      BY <1>3, <1>5 DEF LS!ExecAndGetResults
    <2>2. a \in Nat /\ a <= lastId + 1
      BY <1>1, <1>3
    <2>3. LET r == LS!Rows(a .. lastId)
          IN  /\ Len(r) = lastId + 1 - a /\ (a <= lastId => r[1] = a) /\ (a = lastId + 1 => r = <<>>)
      BY <1>1, <2>2, RowsAre
    <2>4. QED
      BY <1>1, <2>1, <2>2, <2>3
  <1>9. range' = LS!NoRange \/ (a <= lastId /\ range' = [start |-> a, count |-> lastId + 1 - a])
    BY <1>6, <1>8
  <1>10. range' \in [start : Nat, count : Nat]
    <2>1. LS!NoRange \in [start : Nat, count : Nat]
      BY DEF LS!NoRange
    <2>2. a \in Nat /\ (a <= lastId => lastId + 1 - a \in Nat)
      BY <1>1, <1>3
    <2>3. QED
      BY <1>9, <2>1, <2>2
  <1>11. QueryShape'
    <2>1. ASSUME range' # LS!NoRange PROVE RangeShape'
      <3>1. a <= lastId /\ range'.start = a /\ range'.count = lastId + 1 - a
        BY <1>9, <2>1
      <3>2. a \in DOMAIN table
        BY <1>1, <1>2, <1>3, <3>1
      <3>3. ASSUME ~crowded' PROVE \A i \in DOMAIN table : a <= i
        <4>1. lastId + 1 - lo <= TableLimit
          BY <1>1, <1>4, <1>7, <3>3
        <4>2. QED
          BY <1>1, <1>2, <1>3, <4>1
      <3>4. QED
        BY <1>6, <3>1, <3>2, <3>3 DEF RangeShape
    <2>2. QED
      BY <1>6, <2>1 DEF QueryShape
  <1>12. /\ mDataBaseHandle' \in BOOLEAN /\ created' \in BOOLEAN
         /\ (poster' = "down" => ~mDataBaseHandle') /\ batch' \in Seq(accepted) /\ stops' \in 0 .. MaxStops
    BY <1>1, <1>6 DEF LS!TypeOK
  <1>13. QED
    BY <1>6, <1>7, <1>10, <1>11, <1>12, StoreAside

LEMMA GetKeeps == ASSUME StoreConstants, StoreInv, NEW ok \in BOOLEAN, LS!GetEntries(ok) PROVE StoreInv'
  <1>1. /\ LS!TypeOK /\ lastId \in Nat /\ TableLimit \in Nat /\ range \in [start : Nat, count : Nat]
        /\ \A i \in DOMAIN table : table[i] \in accepted
    BY DEF StoreInv, LS!TypeOK, StoreConstants
  <1>2. PICK lo \in 1 .. lastId + 1 : DOMAIN table = lo .. lastId
    BY DEF StoreInv, TableShape
  <1>3. PICK ids : ids = LS!buildGetEventsQuery(range.start, range.count)
    OBVIOUS
  <1>4. PICK rows : rows = LS!ExecAndGetResults(ok, ids)
    OBVIOUS
  <1>5. /\ poster = "get" /\ poster' = IF rows = <<>> THEN "idle" ELSE "remove"
        /\ batch' = [k \in DOMAIN rows |-> table[rows[k]]]
        /\ UNCHANGED <<mDataBaseHandle, created, table, lastId, accepted, taken, range, added, crowded, stops>>
    BY <1>3, <1>4 DEF LS!GetEntries, LS!tableVars
  <1>6. range = LS!NoRange \/ RangeShape
    BY <1>5 DEF StoreInv, QueryShape
  <1>7. range = LS!NoRange => rows = <<>>
    <2> SUFFICES ASSUME range = LS!NoRange PROVE rows = <<>>
      OBVIOUS
    <2>1. ids = {i \in DOMAIN table : \A j \in DOMAIN table : i + 0 > j}
      BY <1>3 DEF LS!NoRange, LS!buildGetEventsQuery
    <2>2. ids = {}
      BY <1>1, <1>2, <2>1
    <2>3. QED
      BY <1>4, <2>2, NoRows DEF LS!ExecAndGetResults
  <1>8. rows # <<>> => RangeShape
    BY <1>6, <1>7
  <1>9. ASSUME RangeShape, rows # <<>>
        PROVE  /\ range.start \in Nat /\ range.start <= lastId
               /\ rows \in Seq(range.start .. lastId) /\ Increasing(rows)
               /\ \A id \in range.start .. lastId : \E k \in DOMAIN rows : rows[k] = id
    <2>1. range.start \in lo .. lastId /\ range.count = lastId + 1 - range.start
      BY <1>2, <1>9 DEF RangeShape
    <2>2. ids = range.start .. lastId
      BY <1>1, <1>2, <1>3, <2>1, RangeRows
    <2>3. rows = LS!Rows(range.start .. lastId)
      BY <1>4, <1>9, <2>2 DEF LS!ExecAndGetResults
    <2>4. range.start \in Nat /\ range.start <= lastId /\ range.start <= lastId + 1
      BY <1>1, <2>1
    <2>5. PICK f \in Nat : f = range.start
      BY <2>4
    <2>6. f <= lastId + 1 /\ rows = LS!Rows(f .. lastId)
      BY <2>3, <2>4, <2>5
    <2>7. PICK l \in Nat : l = lastId
      BY <1>1
    <2>8. f <= l + 1 /\ rows = LS!Rows(f .. l)
      BY <2>6, <2>7
    <2>9. Lists(rows, f .. l)
      BY <2>8, RowsAre
    <2>10. QED
      BY <2>4, <2>5, <2>7, <2>9 DEF Lists
  <1>10. batch' \in Seq(accepted)
    <2>1. CASE rows = <<>>
      <3>1. batch' = <<>>
        BY <1>5, <2>1
      <3>2. QED
        BY <3>1
    <2>2. CASE rows # <<>>
      <3>1. /\ Len(rows) \in Nat /\ DOMAIN rows = 1 .. Len(rows)
            /\ \A k \in 1 .. Len(rows) : rows[k] \in range.start .. lastId
        BY <1>8, <1>9, <2>2, LenProperties, ElementOfSeq
      <3>2. \A k \in 1 .. Len(rows) : table[rows[k]] \in accepted
        BY <1>1, <1>2, <1>8, <1>9, <2>2, <3>1 DEF RangeShape
      <3>3. batch' \in [1 .. Len(rows) -> accepted]
        BY <1>5, <3>1, <3>2
      <3>4. QED
        BY <3>1, <3>3
    <2>3. QED
      BY <2>1, <2>2
  <1>11. QueryShape'
    <2>1. ASSUME rows # <<>> PROVE BatchShape'
      <3>1. /\ DOMAIN rows = 1 .. Len(rows)
            /\ \A k \in DOMAIN rows : rows[k] \in range.start .. lastId
        BY <1>8, <1>9, <2>1, LenProperties, ElementOfSeq
      <3>2. range.start .. lastId \subseteq DOMAIN table
        BY <1>1, <1>2, <1>8, <1>9, <2>1 DEF RangeShape
      <3>3. DOMAIN batch' = DOMAIN rows /\ \A k \in DOMAIN rows : batch'[k] = table[rows[k]]
        BY <1>5
      <3>4. ASSUME NEW i \in DOMAIN batch', NEW j \in DOMAIN batch', i < j PROVE batch'[i] < batch'[j]
        <4>1. rows[i] < rows[j] /\ rows[i] \in DOMAIN table /\ rows[j] \in DOMAIN table
          BY <1>8, <1>9, <2>1, <3>1, <3>2, <3>3, <3>4 DEF Increasing
        <4>2. table[rows[i]] < table[rows[j]]
          BY <4>1 DEF StoreInv, TableShape, Increasing
        <4>3. QED
          BY <3>3, <4>2
      <3>5. LS!ToSet(batch') = {table[i] : i \in range.start .. lastId}
        <4>1. LS!ToSet(batch') = {table[rows[k]] : k \in DOMAIN rows}
          BY <3>3 DEF LS!ToSet
        <4>2. {table[rows[k]] : k \in DOMAIN rows} = {table[i] : i \in range.start .. lastId}
          <5>1. \A id \in range.start .. lastId : \E k \in DOMAIN rows : rows[k] = id
            BY <1>8, <1>9, <2>1
          <5>2. QED
            BY <3>1, <5>1
        <4>3. QED
          BY <4>1, <4>2
      <3>6. QED
        BY <1>5, <3>4, <3>5 DEF BatchShape, Increasing, LS!ToSet
    <2>2. ASSUME rows # <<>> PROVE RangeShape'
      BY <1>5, <1>8, <2>2 DEF RangeShape
    <2>3. QED
      BY <1>5, <2>1, <2>2 DEF QueryShape
  <1>12. /\ mDataBaseHandle' \in BOOLEAN /\ created' \in BOOLEAN /\ crowded' \in BOOLEAN
         /\ (poster' = "down" => ~mDataBaseHandle') /\ range' \in [start : Nat, count : Nat]
         /\ stops' \in 0 .. MaxStops
         /\ poster' \in {"idle", "remove"}
    BY <1>1, <1>5 DEF LS!TypeOK
  <1>13. QED
    BY <1>5, <1>10, <1>11, <1>12, StoreAside

LEMMA RemoveKeeps == ASSUME StoreConstants, StoreInv, NEW ok \in BOOLEAN, LS!RemoveEntries(ok) PROVE StoreInv'
  <1>1. /\ LS!TypeOK /\ lastId \in Nat /\ batch \in Seq(accepted) /\ taken \in Seq(accepted)
        /\ added \in 0 .. MaxEvents /\ accepted \subseteq 1 .. added
    BY DEF StoreInv, LS!TypeOK, StoreConstants
  <1>2. PICK lo \in 1 .. lastId + 1 : DOMAIN table = lo .. lastId
    BY DEF StoreInv, TableShape
  <1>3. /\ poster = "remove"
        /\ UNCHANGED <<mDataBaseHandle, created, lastId, accepted, range, added, crowded, stops>>
    BY DEF LS!RemoveEntries
  <1>4. RangeShape /\ BatchShape
    BY <1>3 DEF StoreInv, QueryShape
  <1>5. /\ mDataBaseHandle' \in BOOLEAN /\ created' \in BOOLEAN /\ crowded' \in BOOLEAN
        /\ stops' \in 0 .. MaxStops /\ range' \in [start : Nat, count : Nat]
    BY <1>1, <1>3 DEF LS!TypeOK
  <1>6. CASE ~ok
    <2>1. batch' = <<>> /\ poster' = "idle" /\ UNCHANGED <<table, taken>>
      BY <1>6 DEF LS!RemoveEntries
    <2>2. QED
      BY <1>3, <1>5, <2>1, StoreWaits
  <1>7. CASE ok
    <2>1. /\ table' = [i \in {j \in DOMAIN table : j > range.start + range.count} |-> table[i]]
          /\ taken' = taken \o batch /\ poster' = "verify" /\ UNCHANGED batch
      BY <1>7 DEF LS!RemoveEntries
    <2>2. DOMAIN table' = {}
      <3>1. range.start \in lo .. lastId /\ range.count = lastId + 1 - range.start
        BY <1>2, <1>4 DEF RangeShape
      <3>2. range.start + range.count = lastId + 1
        BY <1>1, <3>1
      <3>3. \A j \in lo .. lastId : ~(j > lastId + 1)
        BY <1>1
      <3>4. QED
        BY <1>2, <2>1, <3>2, <3>3
    <2>3. /\ taken' \in Seq(accepted) /\ Len(taken) \in Nat /\ Len(batch) \in Nat
          /\ DOMAIN taken = 1 .. Len(taken) /\ DOMAIN batch = 1 .. Len(batch)
          /\ DOMAIN taken' = 1 .. Len(taken) + Len(batch)
          /\ \A i \in DOMAIN taken' : taken'[i] = IF i <= Len(taken) THEN taken[i] ELSE batch[i - Len(taken)]
      BY <1>1, <2>1, ConcatProperties, LenProperties
    <2>4. LS!TypeOK'
      <3>2. /\ lastId' \in Nat /\ DOMAIN table' \subseteq 1 .. lastId'
            /\ \A i \in DOMAIN table' : table'[i] \in accepted'
        BY <1>1, <1>3, <2>2
      <3>3. /\ batch' \in Seq(accepted') /\ taken' \in Seq(accepted')
            /\ added' \in 0 .. MaxEvents /\ accepted' \subseteq 1 .. added'
        BY <1>1, <1>3, <2>1, <2>3
      <3>4. QED
        BY <1>5, <2>1, <3>2, <3>3 DEF LS!TypeOK
    <2>5. TableShape'
      <3>1. lastId + 1 \in 1 .. lastId + 1 /\ lastId + 1 .. lastId = {}
        BY <1>1
      <3>2. QED
        BY <1>3, <2>2, <3>1 DEF TableShape, Increasing
    <2>6. QueryShape'
      BY <2>1, <2>2 DEF QueryShape
    <2>7. TakenShape'
      <3> SUFFICES ASSUME ~crowded
                   PROVE  /\ \A i, j \in DOMAIN taken' : i < j => taken'[i] < taken'[j]
                          /\ accepted = {taken'[i] : i \in DOMAIN taken'}
        BY <1>3, <2>2 DEF TakenShape, Increasing, LS!ToSet
      <3>1. /\ Increasing(taken)
            /\ \A i \in DOMAIN taken, j \in DOMAIN table : taken[i] < table[j]
            /\ accepted = LS!ToSet(taken) \cup {table[i] : i \in DOMAIN table}
        BY DEF StoreInv, TakenShape
      <3>2. LS!ToSet(batch) = {table[i] : i \in DOMAIN table}
        <4>1. range.start .. lastId = DOMAIN table
          <5>1. range.start \in lo .. lastId
            BY <1>2, <1>4 DEF RangeShape
          <5>2. lo \in DOMAIN table
            BY <1>1, <1>2, <5>1
          <5>3. range.start <= lo
            BY <1>4, <5>2 DEF RangeShape
          <5>4. QED
            BY <1>1, <1>2, <5>1, <5>3
        <4>2. QED
          BY <1>4, <4>1 DEF BatchShape
      <3>3. \A k \in DOMAIN batch : \E i \in DOMAIN table : batch[k] = table[i]
        <4>1. \A k \in DOMAIN batch : batch[k] \in LS!ToSet(batch)
          BY DEF LS!ToSet
        <4>2. QED
          BY <3>2, <4>1
      <3>4. ASSUME NEW i \in DOMAIN taken', NEW j \in DOMAIN taken', i < j PROVE taken'[i] < taken'[j]
        <4>1. CASE j <= Len(taken)
          <5>1. i \in DOMAIN taken /\ j \in DOMAIN taken /\ taken'[i] = taken[i] /\ taken'[j] = taken[j]
            BY <2>3, <3>4, <4>1
          <5>2. QED
            BY <3>1, <3>4, <5>1 DEF Increasing
        <4>2. CASE i <= Len(taken) /\ ~(j <= Len(taken))
          <5>1. /\ i \in DOMAIN taken /\ j - Len(taken) \in DOMAIN batch
                /\ taken'[i] = taken[i] /\ taken'[j] = batch[j - Len(taken)]
            BY <2>3, <3>4, <4>2
          <5>2. QED
            BY <3>1, <3>3, <5>1
        <4>3. CASE ~(i <= Len(taken))
          <5>1. /\ i - Len(taken) \in DOMAIN batch /\ j - Len(taken) \in DOMAIN batch
                /\ i - Len(taken) < j - Len(taken)
                /\ taken'[i] = batch[i - Len(taken)] /\ taken'[j] = batch[j - Len(taken)]
            BY <2>3, <3>4, <4>3
          <5>2. QED
            BY <1>4, <5>1 DEF BatchShape, Increasing
        <4>4. QED
          BY <2>3, <3>4, <4>1, <4>2, <4>3
      <3>5. {taken'[i] : i \in DOMAIN taken'} = LS!ToSet(taken) \cup LS!ToSet(batch)
        <4>1. \A i \in DOMAIN taken : i \in DOMAIN taken' /\ taken'[i] = taken[i]
          BY <2>3
        <4>2. \A k \in DOMAIN batch : k + Len(taken) \in DOMAIN taken' /\ taken'[k + Len(taken)] = batch[k]
          BY <2>3
        <4>3. \A i \in DOMAIN taken' : \/ i \in DOMAIN taken /\ taken'[i] = taken[i]
                                       \/ i - Len(taken) \in DOMAIN batch /\ taken'[i] = batch[i - Len(taken)]
          BY <2>3
        <4>4. QED
          BY <4>1, <4>2, <4>3 DEF LS!ToSet
      <3>6. QED
        BY <3>1, <3>2, <3>4, <3>5
    <2>8. QED
      BY <2>4, <2>5, <2>6, <2>7 DEF StoreInv
  <1>8. QED
    BY <1>6, <1>7

LEMMA AddKeeps == ASSUME StoreConstants, StoreInv, NEW ok \in BOOLEAN, LS!AddEntry(ok) PROVE StoreInv'
  <1>1. /\ LS!TypeOK /\ lastId \in Nat /\ batch \in Seq(accepted) /\ taken \in Seq(accepted)
        /\ added \in 0 .. MaxEvents /\ accepted \subseteq 1 .. added /\ MaxEvents \in Nat
        /\ \A i \in DOMAIN table : table[i] \in accepted
    BY DEF StoreInv, LS!TypeOK, StoreConstants
  <1>2. PICK lo \in 1 .. lastId + 1 : DOMAIN table = lo .. lastId
    BY DEF StoreInv, TableShape
  <1>3. /\ poster = "idle" /\ added < MaxEvents /\ added' = added + 1
        /\ UNCHANGED <<mDataBaseHandle, created, taken, range, batch, crowded, stops>>
    BY DEF LS!AddEntry
  <1>4. added' \in 0 .. MaxEvents /\ added + 1 \in 1 .. added'
    BY <1>1, <1>3
  <1>5. /\ mDataBaseHandle' \in BOOLEAN /\ created' \in BOOLEAN /\ crowded' \in BOOLEAN
        /\ stops' \in 0 .. MaxStops /\ range' \in [start : Nat, count : Nat]
    BY <1>1, <1>3 DEF LS!TypeOK
  <1>6. CASE ~ok
    <2>1. UNCHANGED <<table, lastId, accepted, poster>>
      BY <1>6 DEF LS!AddEntry
    <2>2. LS!TypeOK'
      <3>1. DOMAIN table' \subseteq 1 .. lastId'
        BY <1>1, <2>1 DEF LS!TypeOK
      <3>2. accepted' \subseteq 1 .. added'
        BY <1>1, <1>3, <2>1
      <3>3. QED
        BY <1>1, <1>3, <1>4, <1>5, <2>1, <3>1, <3>2 DEF LS!TypeOK
    <2>3. TableShape' /\ TakenShape'
      BY <1>3, <2>1 DEF StoreInv, TableShape, TakenShape, Increasing, LS!ToSet
    <2>4. QueryShape'
      BY <1>3, <2>1 DEF QueryShape
    <2>5. QED
      BY <2>2, <2>3, <2>4 DEF StoreInv
  <1>7. CASE ok
    <2>1. /\ lastId' = lastId + 1
          /\ table' = [i \in DOMAIN table \cup {lastId + 1} |-> IF i \in DOMAIN table THEN table[i] ELSE added + 1]
          /\ accepted' = accepted \cup {added + 1} /\ poster' = "count"
      BY <1>7 DEF LS!AddEntry
    <2>2. /\ DOMAIN table' = lo .. lastId' /\ lo \in 1 .. lastId' + 1 /\ lastId + 1 \notin DOMAIN table
          /\ DOMAIN table' = DOMAIN table \cup {lastId + 1}
      BY <1>1, <1>2, <2>1
    <2>3. /\ \A i \in DOMAIN table : table'[i] = table[i] /\ i \in DOMAIN table'
          /\ table'[lastId + 1] = added + 1
      BY <2>1, <2>2
    <2>4. LS!TypeOK'
      <3>2. lastId' \in Nat /\ DOMAIN table' \subseteq 1 .. lastId'
        BY <1>1, <2>1, <2>2
      <3>3. \A i \in DOMAIN table' : table'[i] \in accepted'
        BY <1>1, <2>1, <2>2, <2>3
      <3>4. batch' \in Seq(accepted') /\ taken' \in Seq(accepted')
        BY <1>1, <1>3, <2>1, SeqWiden
      <3>5. accepted' \subseteq 1 .. added'
        BY <1>1, <1>3, <1>4, <2>1
      <3>6. QED
        BY <1>4, <1>5, <2>1, <3>2, <3>3, <3>4, <3>5 DEF LS!TypeOK
    <2>5. TableShape'
      <3>1. ASSUME NEW i \in DOMAIN table', NEW j \in DOMAIN table', i < j PROVE table'[i] < table'[j]
        <4>1. i \in DOMAIN table
          BY <1>1, <1>2, <2>1, <2>2, <3>1
        <4>2. CASE j \in DOMAIN table
          BY <2>3, <3>1, <4>1, <4>2 DEF StoreInv, TableShape, Increasing
        <4>3. CASE j = lastId + 1
          <5>1. table[i] \in 1 .. added
            BY <1>1, <4>1
          <5>2. QED
            BY <1>1, <2>3, <4>1, <4>3, <5>1
        <4>4. QED
          BY <2>2, <4>2, <4>3
      <3>2. QED
        BY <2>2, <3>1 DEF TableShape, Increasing
    <2>6. QueryShape'
      BY <2>1 DEF QueryShape
    <2>7. TakenShape'
      <3> SUFFICES ASSUME ~crowded
                   PROVE  /\ Increasing(taken)
                          /\ \A i \in DOMAIN taken, j \in DOMAIN table' : taken[i] < table'[j]
                          /\ accepted' = LS!ToSet(taken) \cup {table'[i] : i \in DOMAIN table'}
        BY <1>3 DEF TakenShape, Increasing, LS!ToSet
      <3>1. /\ Increasing(taken)
            /\ \A i \in DOMAIN taken, j \in DOMAIN table : taken[i] < table[j]
            /\ accepted = LS!ToSet(taken) \cup {table[i] : i \in DOMAIN table}
        BY DEF StoreInv, TakenShape
      <3>2. ASSUME NEW i \in DOMAIN taken, NEW j \in DOMAIN table' PROVE taken[i] < table'[j]
        <4>1. CASE j \in DOMAIN table
          BY <2>3, <3>1, <4>1
        <4>2. CASE j = lastId + 1
          <5>1. taken[i] \in accepted
            BY <1>1, ElementOfSeq, LenProperties
          <5>2. taken[i] \in 1 .. added
            BY <1>1, <5>1
          <5>3. QED
            BY <1>1, <2>3, <4>2, <5>2
        <4>3. QED
          BY <2>2, <4>1, <4>2
      <3>3. {table'[i] : i \in DOMAIN table'} = {table[i] : i \in DOMAIN table} \cup {added + 1}
        <4>1. \A i \in DOMAIN table' : table'[i] \in {table[k] : k \in DOMAIN table} \cup {added + 1}
          BY <2>2, <2>3
        <4>2. \A i \in DOMAIN table : table[i] \in {table'[k] : k \in DOMAIN table'}
          BY <2>2, <2>3
        <4>3. added + 1 \in {table'[k] : k \in DOMAIN table'}
          BY <2>2, <2>3
        <4>4. QED
          BY <4>1, <4>2, <4>3
      <3>4. QED
        BY <2>1, <3>1, <3>2, <3>3
    <2>8. QED
      BY <2>4, <2>5, <2>6, <2>7 DEF StoreInv
  <1>8. QED
    BY <1>6, <1>7

LEMMA StoreStep == ASSUME StoreConstants, StoreInv, LS!Next \/ UNCHANGED storeVars PROVE StoreInv'
  <1>1. CASE LS!Next
    <2>1. TRUE \in BOOLEAN
      OBVIOUS
    <2>2. CASE LS!Verify \/ LS!Stop
      BY <2>1, <2>2, StoreOpens
    <2>3. ASSUME NEW ok \in BOOLEAN,
                 \/ LS!Open(ok) \/ LS!CreateTable(ok) \/ LS!SetLimit(ok) \/ LS!AddEntry(ok)
                 \/ LS!GetEntriesCount(ok) \/ LS!GetEntries(ok) \/ LS!RemoveEntries(ok)
          PROVE  StoreInv'
      BY <2>3, StoreOpens, AddKeeps, CountKeeps, GetKeeps, RemoveKeeps
    <2>4. QED
      BY <1>1, <2>2, <2>3 DEF LS!Next
  <1>2. CASE UNCHANGED storeVars
    <2>1. UNCHANGED <<mDataBaseHandle, table, lastId, created, poster, range, batch, added, accepted, taken,
                      crowded, stops>>
      BY <1>2 DEF storeVars
    <2>2. LS!TypeOK /\ TableShape /\ QueryShape /\ TakenShape
      BY DEF StoreInv
    <2>3. LS!TypeOK'
      BY <2>1, <2>2 DEF LS!TypeOK
    <2>4. QueryShape'
      BY <2>1, <2>2 DEF QueryShape, RangeShape, BatchShape, Increasing, LS!ToSet, LS!NoRange
    <2>5. TableShape' /\ TakenShape'
      BY <2>1, <2>2 DEF TableShape, TakenShape, Increasing, LS!ToSet
    <2>6. QED
      BY <2>3, <2>4, <2>5 DEF StoreInv
  <1>3. QED
    BY <1>1, <1>2

LEMMA StoreKept == ASSUME StoreInv PROVE TakenOnce
  <1>1. LS!TypeOK /\ TableShape /\ QueryShape /\ TakenShape
    BY DEF StoreInv
  <1>2. LS!EmptyAfterRemoval
    BY <1>1 DEF QueryShape, LS!EmptyAfterRemoval
  <1>3. LS!TakenOnce
    <2> SUFFICES ASSUME ~crowded
                 PROVE  /\ \A i, j \in DOMAIN taken : i < j => taken[i] < taken[j]
                        /\ LS!ToSet(taken) \cap {table[i] : i \in DOMAIN table} = {}
                        /\ accepted = LS!ToSet(taken) \cup {table[i] : i \in DOMAIN table}
      BY DEF LS!TakenOnce
    <2>1. /\ Increasing(taken)
          /\ \A i \in DOMAIN taken, j \in DOMAIN table : taken[i] < table[j]
          /\ accepted = LS!ToSet(taken) \cup {table[i] : i \in DOMAIN table}
      BY <1>1 DEF TakenShape
    <2>2. ASSUME NEW i \in DOMAIN taken, NEW j \in DOMAIN table PROVE taken[i] # table[j]
      <3>0. /\ taken \in Seq(accepted) /\ table[j] \in accepted /\ \A a \in accepted : a \in Nat
        BY <1>1 DEF LS!TypeOK
      <3>1. table[j] \in Nat
        BY <3>0
      <3>2. taken[i] < table[j]
        BY <2>1
      <3>3. taken[i] \in Nat
        BY <3>0, ElementOfSeq, LenProperties
      <3>4. QED
        BY <3>1, <3>2, <3>3
    <2>3. LS!ToSet(taken) \cap {table[i] : i \in DOMAIN table} = {}
      BY <2>2 DEF LS!ToSet
    <2>4. QED
      BY <2>1, <2>3 DEF Increasing
  <1>4. QED
    BY <1>1, <1>2, <1>3 DEF TakenOnce

\* Every event that LocalStore has accepted leaves it in exactly one batch, oldest first, however
\* many queries fail and whenever the process stops, whether or not the backend's Configure got
\* a connection, a table and a limit, for any number of rows that a query asks for, while no
\* more entries pile up than that; and the store is always empty when it is asked after a removal.
THEOREM EventsAreTakenOnce == ASSUME StoreConstants PROVE PartsSpec => []TakenOnce
  <1>1. PartsInit => StoreInv
    BY StoreStarts DEF PartsInit
  <1>2. StoreInv /\ [PartsNext]_<<focus, vars, systemVars, storeVars, functionVars>> => StoreInv'
    <2> SUFFICES ASSUME StoreInv, [PartsNext]_<<focus, vars, systemVars, storeVars, functionVars>>
                 PROVE  StoreInv'
      OBVIOUS
    <2>1. LS!Next \/ UNCHANGED storeVars
      BY DEF PartsNext
    <2>2. QED
      BY <2>1, StoreStep
  <1>3. QED
    BY <1>1, <1>2, StoreKept, PTL DEF PartsSpec

================================================================================

------------------------- MODULE StreamSender_proofs -------------------------
(***************************************************************************)
(* Machine-checked facts about StreamSender, for any number of traced      *)
(* threads, any cap and any number of calls.                               *)
(***************************************************************************)
EXTENDS StreamSender, FiniteSetTheorems, SequenceTheorems, TLAPS

(***************************************************************************)
(* The type invariant needs one fact beside itself: whoever counts a sent  *)
(* event holds a slot.  It comes from SlotAccounting, so both are proved   *)
(* together, with the facts SlotAccounting rests on: there is one sentinel *)
(* at most, and none before finish().                                      *)
(***************************************************************************)
OneSentinel ==
  /\ \A i, j \in DOMAIN queue :
       queue[i] = Sentinel /\ queue[j] = Sentinel => i = j
  /\ SentinelQueued => main \in {"joining", "done", "timedOut"}

Control ==
  /\ main = "new" => snd = "off"
  /\ snd = "flushing" => connectionLost
  /\ snd \in {"sending", "counting"} => hand \in Events
  /\ \A t \in Threads : pc[t] # "idle" => calls[t] >= 1

SlotInv ==
  /\ TypeOK
  /\ Control
  /\ OneSentinel
  /\ SlotAccounting
  /\ inflight <= MaxInflight

\* What the sender puts on the wire are messages.
LEMMA MessageTypes ==
  /\ StartMsg \in Messages
  /\ \A e \in Events : EventMsg(e) \in Messages
  /\ \A n \in Nat : EndMsg(n) \in Messages
BY DEF StartMsg, EventMsg, EndMsg, Messages

-----------------------------------------------------------------------------
(* The sentinel in a queue.                                                *)

\* A queue that takes an event holds the sentinel if and only if it did.
LEMMA AppendEvent ==
  ASSUME NEW q \in Seq(Events \cup {Sentinel}), NEW e \in Events
  PROVE  HoldsSentinel(Append(q, e)) <=> HoldsSentinel(q)
<1>1. e # Sentinel
  BY SenderAssumption
<1>2. /\ DOMAIN Append(q, e) = 1 .. Len(q) + 1
      /\ DOMAIN q = 1 .. Len(q)
      /\ Append(q, e)[Len(q) + 1] = e
      /\ \A i \in 1 .. Len(q) : Append(q, e)[i] = q[i]
  OBVIOUS
<1>3. QED
  BY <1>1, <1>2 DEF HoldsSentinel

\* Taking the sentinel leaves none; taking an event leaves the sentinel alone.
LEMMA TakeItem ==
  ASSUME NEW q \in Seq(Events \cup {Sentinel}), q # <<>>,
         \A i, j \in DOMAIN q : q[i] = Sentinel /\ q[j] = Sentinel => i = j
  PROVE  /\ Head(q) = Sentinel => HoldsSentinel(q) /\ ~HoldsSentinel(Tail(q))
         /\ Head(q) # Sentinel => (HoldsSentinel(Tail(q)) <=> HoldsSentinel(q))
         /\ \A i, j \in DOMAIN Tail(q) :
              Tail(q)[i] = Sentinel /\ Tail(q)[j] = Sentinel => i = j
         /\ Tail(q) \in Seq(Events \cup {Sentinel})
         /\ Len(Tail(q)) = Len(q) - 1
<1>1. /\ DOMAIN q = 1 .. Len(q) /\ Len(q) \in Nat \ {0}
      /\ DOMAIN Tail(q) = 1 .. Len(q) - 1
      /\ Head(q) = q[1]
      /\ \A i \in 1 .. Len(q) - 1 : Tail(q)[i] = q[i + 1]
      /\ Tail(q) \in Seq(Events \cup {Sentinel})
      /\ Len(Tail(q)) = Len(q) - 1
  OBVIOUS
<1>2. Head(q) = Sentinel => HoldsSentinel(q) /\ ~HoldsSentinel(Tail(q))
  BY <1>1 DEF HoldsSentinel
<1>3. ASSUME Head(q) # Sentinel
      PROVE  HoldsSentinel(Tail(q)) <=> HoldsSentinel(q)
  <2>1. ASSUME NEW i \in 1 .. Len(q), q[i] = Sentinel
        PROVE  i - 1 \in DOMAIN Tail(q) /\ Tail(q)[i - 1] = Sentinel
    BY <1>1, <1>3, <2>1
  <2>2. ASSUME NEW i \in DOMAIN Tail(q), Tail(q)[i] = Sentinel
        PROVE  i + 1 \in DOMAIN q /\ q[i + 1] = Sentinel
    BY <1>1, <2>2
  <2>3. QED
    BY <1>1, <2>1, <2>2 DEF HoldsSentinel
<1>4. \A i, j \in DOMAIN Tail(q) :
        Tail(q)[i] = Sentinel /\ Tail(q)[j] = Sentinel => i = j
  BY <1>1
<1>5. QED
  BY <1>1, <1>2, <1>3, <1>4

\* Fewer slots are reserved than there are threads, and moving one thread
\* into or out of "reserved" changes the number by one.
LEMMA ReservedCount ==
  ASSUME TypeOK
  PROVE  IsFiniteSet(Reserved) /\ Cardinality(Reserved) \in Nat
<1>1. Reserved \subseteq Threads
  BY DEF Reserved
<1>2. QED
  BY <1>1, FS_Subset, FS_CardinalityType, SenderAssumption

LEMMA ReserveOne ==
  ASSUME TypeOK, NEW t \in Threads, pc[t] # "reserved",
         pc' = [pc EXCEPT ![t] = "reserved"]
  PROVE  Cardinality(Reserved') = Cardinality(Reserved) + 1
<1>1. Reserved' = Reserved \cup {t} /\ t \notin Reserved
  BY DEF Reserved, TypeOK
<1>2. QED
  BY <1>1, ReservedCount, FS_AddElement

LEMMA ReleaseOne ==
  ASSUME TypeOK, NEW t \in Threads, pc[t] = "reserved",
         pc' = [pc EXCEPT ![t] = "idle"]
  PROVE  Cardinality(Reserved') = Cardinality(Reserved) - 1
<1>1. Reserved' = Reserved \ {t} /\ t \in Reserved
  BY DEF Reserved, TypeOK
<1>2. QED
  BY <1>1, ReservedCount, FS_RemoveElement

-----------------------------------------------------------------------------
(* The inductive invariant.                                                *)

LEMMA SlotInvInit == Init => SlotInv
<1> SUFFICES ASSUME Init PROVE SlotInv
  OBVIOUS
<1>1. TypeOK
  <2>1. calls \in [Threads -> 0 .. MaxCalls]
    BY SenderAssumption DEF Init
  <2>2. pc \in [Threads -> {"idle", "entered", "reserved"}]
    BY DEF Init
  <2>3. queue \in Seq(Events \cup {Sentinel}) /\ wire \in Seq(Messages)
    BY DEF Init
  <2>4. QED
    BY <2>1, <2>2, <2>3 DEF Init, TypeOK
<1>2. ~SentinelQueued
  BY DEF Init, SentinelQueued, HoldsSentinel
<1>3. Cardinality(Reserved) = 0
  <2>1. Reserved = {}
    BY DEF Init, Reserved
  <2>2. QED
    BY <2>1, FS_EmptySet
<1>4. OneSentinel
  BY <1>2 DEF Init, OneSentinel
<1>5. SlotAccounting
  BY <1>2, <1>3 DEF Init, SlotAccounting, QueuedEvents, InHand
<1>6. Control
  BY DEF Init, Control
<1>7. QED
  BY <1>1, <1>4, <1>5, <1>6, SenderAssumption DEF SlotInv, Init

\* The queue after queue.get() in the drain loop or in the flush.
LEMMA AfterGet ==
  ASSUME SlotInv, queue # <<>>, queue' = Tail(queue)
  PROVE  /\ Head(queue) = Sentinel =>
              QueuedEvents' = QueuedEvents /\ ~SentinelQueued'
         /\ Head(queue) # Sentinel =>
              /\ QueuedEvents' = QueuedEvents - 1
              /\ Head(queue) \in Events
              /\ (SentinelQueued' <=> SentinelQueued)
         /\ queue' \in Seq(Events \cup {Sentinel})
         /\ \A i, j \in DOMAIN queue' :
              queue'[i] = Sentinel /\ queue'[j] = Sentinel => i = j
<1>1. queue \in Seq(Events \cup {Sentinel})
  BY DEF SlotInv, TypeOK
<1>2. \A i, j \in DOMAIN queue :
        queue[i] = Sentinel /\ queue[j] = Sentinel => i = j
  BY DEF SlotInv, OneSentinel
<1>3. Head(queue) \in Events \cup {Sentinel} /\ Len(queue) \in Nat
  BY <1>1
<1>4. /\ SentinelQueued <=> HoldsSentinel(queue)
      /\ SentinelQueued' <=> HoldsSentinel(Tail(queue))
  BY DEF SentinelQueued
<1>5. /\ HoldsSentinel(queue) => QueuedEvents = Len(queue) - 1
      /\ ~HoldsSentinel(queue) => QueuedEvents = Len(queue)
      /\ HoldsSentinel(Tail(queue)) => QueuedEvents' = Len(Tail(queue)) - 1
      /\ ~HoldsSentinel(Tail(queue)) => QueuedEvents' = Len(Tail(queue))
  BY <1>4 DEF QueuedEvents
<1>6. /\ Head(queue) = Sentinel =>
           HoldsSentinel(queue) /\ ~HoldsSentinel(Tail(queue))
      /\ Head(queue) # Sentinel =>
           (HoldsSentinel(Tail(queue)) <=> HoldsSentinel(queue))
      /\ \A i, j \in DOMAIN Tail(queue) :
           Tail(queue)[i] = Sentinel /\ Tail(queue)[j] = Sentinel => i = j
      /\ Tail(queue) \in Seq(Events \cup {Sentinel})
      /\ Len(Tail(queue)) = Len(queue) - 1
  BY <1>1, <1>2, TakeItem
<1>7. Head(queue) = Sentinel => QueuedEvents' = QueuedEvents /\ ~SentinelQueued'
  BY <1>3, <1>4, <1>5, <1>6
<1>8. Head(queue) # Sentinel => QueuedEvents' = QueuedEvents - 1
  BY <1>3, <1>4, <1>5, <1>6
<1>9. Head(queue) # Sentinel =>
        Head(queue) \in Events /\ (SentinelQueued' <=> SentinelQueued)
  BY <1>3, <1>4, <1>6
<1>10. QED
  BY <1>6, <1>7, <1>8, <1>9

LEMMA ControlNext == TypeOK /\ Control /\ [Next]_vars => Control'
<1> SUFFICES ASSUME TypeOK, Control, [Next]_vars PROVE Control'
  OBVIOUS
<1> USE DEF mainVars, sinkVars, linkVars
<1>1. ASSUME NEW t \in Threads, Sink(t) PROVE Control'
  <2>1. calls[t] \in Nat /\ (pc[t] # "idle" => calls[t] >= 1)
    BY SenderAssumption DEF TypeOK, Control
  <2>2. /\ main' = main /\ snd' = snd /\ hand' = hand
        /\ connectionLost' <=> connectionLost
    BY <1>1 DEF Sink, SinkEnter, SinkDrop, SinkReserve, SinkPut
  <2>3. \A u \in Threads : u # t => pc'[u] = pc[u] /\ calls'[u] = calls[u]
    BY <1>1 DEF Sink, SinkEnter, SinkDrop, SinkReserve, SinkPut, TypeOK
  <2>4. pc'[t] # "idle" => calls'[t] >= 1
    BY <1>1, <2>1 DEF Sink, SinkEnter, SinkDrop, SinkReserve, SinkPut, TypeOK
  <2>5. QED
    BY <2>2, <2>3, <2>4 DEF Control
<1>2. CASE Main
  BY <1>2 DEF Control, Main, StartThread, StartWakes, StartTimesOut, Finish,
     FinishReturns
<1>3. CASE Sender
  <2>1. queue # <<>> /\ Head(queue) # Sentinel => Head(queue) \in Events
    BY DEF TypeOK
  <2>2. QED
    BY <1>3, <2>1 DEF Control, Sender, Connect, ConnectFails, Take, SendOk,
       CountSent, SendFails, Flush, EndOk, EndFails
<1>4. CASE UNCHANGED vars
  BY <1>4 DEF Control, vars
<1>5. QED
  BY <1>1, <1>2, <1>3, <1>4 DEF Next

LEMMA SlotInvNext == SlotInv /\ [Next]_vars => SlotInv'
<1> SUFFICES ASSUME SlotInv, [Next]_vars PROVE SlotInv'
  OBVIOUS
<1> USE DEF SlotInv, mainVars, sinkVars, linkVars
<1>0. /\ Cardinality(Reserved) \in Nat
      /\ QueuedEvents \in Nat
      /\ InHand \in {0, 1}
  <2>1. Len(queue) \in Nat /\ (SentinelQueued => Len(queue) >= 1)
    BY DEF TypeOK, SentinelQueued, HoldsSentinel
  <2>2. QED
    BY <2>1, ReservedCount DEF QueuedEvents, InHand
<1>00. Control'
  BY ControlNext
<1>1. CASE StartThread
  <2>1. TypeOK'
    BY <1>1 DEF StartThread, TypeOK
  <2>2. OneSentinel'
    BY <1>1 DEF StartThread, OneSentinel, SentinelQueued, HoldsSentinel
  <2>3. SlotAccounting' /\ inflight' <= MaxInflight
    BY <1>1 DEF StartThread, Control, SlotAccounting, QueuedEvents, InHand, Reserved,
       SentinelQueued, HoldsSentinel
  <2>4. QED
    BY <1>00, <2>1, <2>2, <2>3
<1>2. CASE StartWakes
  <2>1. TypeOK'
    BY <1>2 DEF StartWakes, TypeOK
  <2>2. OneSentinel'
    BY <1>2 DEF StartWakes, OneSentinel, SentinelQueued, HoldsSentinel
  <2>3. SlotAccounting' /\ inflight' <= MaxInflight
    BY <1>2 DEF StartWakes, SlotAccounting, QueuedEvents, InHand, Reserved,
       SentinelQueued, HoldsSentinel
  <2>4. QED
    BY <1>00, <2>1, <2>2, <2>3
<1>3. CASE StartTimesOut
  <2>1. TypeOK'
    BY <1>3 DEF StartTimesOut, TypeOK
  <2>2. OneSentinel'
    BY <1>3 DEF StartTimesOut, OneSentinel, SentinelQueued, HoldsSentinel
  <2>3. SlotAccounting' /\ inflight' <= MaxInflight
    BY <1>3 DEF StartTimesOut, SlotAccounting, QueuedEvents, InHand, Reserved,
       SentinelQueued, HoldsSentinel
  <2>4. QED
    BY <1>00, <2>1, <2>2, <2>3
<1>4. CASE Finish
  <2>1. queue \in Seq(Events \cup {Sentinel}) /\ ~SentinelQueued
    BY <1>4 DEF Finish, TypeOK, OneSentinel
  <2>2. /\ queue' = Append(queue, Sentinel)
        /\ DOMAIN queue' = 1 .. Len(queue) + 1
        /\ Len(queue') = Len(queue) + 1
        /\ queue'[Len(queue) + 1] = Sentinel
        /\ \A i \in 1 .. Len(queue) : queue'[i] = queue[i]
    BY <1>4, <2>1 DEF Finish
  <2>3. \A i \in 1 .. Len(queue) : queue[i] # Sentinel
    BY <2>1 DEF SentinelQueued, HoldsSentinel
  <2>4. TypeOK'
    BY <1>4, <2>1 DEF Finish, TypeOK
  <2>5. OneSentinel'
    BY <1>4, <2>1, <2>2, <2>3 DEF Finish, OneSentinel
  <2>6. QueuedEvents' = QueuedEvents
    <3>1. SentinelQueued'
      BY <2>1, <2>2 DEF SentinelQueued, HoldsSentinel
    <3>2. QED
      BY <2>1, <2>2, <3>1 DEF QueuedEvents
  <2>7. SlotAccounting' /\ inflight' <= MaxInflight
    BY <1>4, <2>6 DEF Finish, SlotAccounting, InHand, Reserved
  <2>8. QED
    BY <1>00, <2>4, <2>5, <2>7
<1>5. CASE FinishReturns
  <2>1. TypeOK'
    BY <1>5 DEF FinishReturns, TypeOK
  <2>2. OneSentinel'
    BY <1>5 DEF FinishReturns, OneSentinel, SentinelQueued, HoldsSentinel
  <2>3. SlotAccounting' /\ inflight' <= MaxInflight
    BY <1>5 DEF FinishReturns, SlotAccounting, QueuedEvents, InHand, Reserved,
       SentinelQueued, HoldsSentinel
  <2>4. QED
    BY <1>00, <2>1, <2>2, <2>3
<1>6. ASSUME NEW t \in Threads, SinkEnter(t) PROVE SlotInv'
  <2>1. TypeOK'
    <3>1. calls[t] + 1 \in 0 .. MaxCalls
      BY <1>6, SenderAssumption DEF SinkEnter, TypeOK
    <3>2. QED
      BY <1>6, <3>1 DEF SinkEnter, TypeOK
  <2>2. OneSentinel'
    BY <1>6 DEF SinkEnter, OneSentinel, SentinelQueued, HoldsSentinel
  <2>3. Reserved' = Reserved
    BY <1>6 DEF SinkEnter, Reserved, TypeOK
  <2>4. SlotAccounting' /\ inflight' <= MaxInflight
    BY <1>6, <2>3 DEF SinkEnter, SlotAccounting, QueuedEvents, InHand,
       SentinelQueued, HoldsSentinel
  <2>5. QED
    BY <1>00, <2>1, <2>2, <2>4
<1>7. ASSUME NEW t \in Threads, SinkDrop(t) PROVE SlotInv'
  <2>1. TypeOK'
    BY <1>7 DEF SinkDrop, TypeOK
  <2>2. OneSentinel'
    BY <1>7 DEF SinkDrop, OneSentinel, SentinelQueued, HoldsSentinel
  <2>3. Reserved' = Reserved
    BY <1>7 DEF SinkDrop, Reserved, TypeOK
  <2>4. SlotAccounting' /\ inflight' <= MaxInflight
    BY <1>7, <2>3 DEF SinkDrop, SlotAccounting, QueuedEvents, InHand,
       SentinelQueued, HoldsSentinel
  <2>5. QED
    BY <1>00, <2>1, <2>2, <2>4
<1>8. ASSUME NEW t \in Threads, SinkReserve(t) PROVE SlotInv'
  <2>1. TypeOK'
    BY <1>8 DEF SinkReserve, TypeOK
  <2>2. OneSentinel'
    BY <1>8 DEF SinkReserve, OneSentinel, SentinelQueued, HoldsSentinel
  <2>3. Cardinality(Reserved') = Cardinality(Reserved) + 1
    BY <1>8, ReserveOne DEF SinkReserve
  <2>4. QueuedEvents' = QueuedEvents /\ InHand' = InHand
    BY <1>8 DEF SinkReserve, QueuedEvents, InHand, SentinelQueued, HoldsSentinel
  <2>5. SlotAccounting' /\ inflight' <= MaxInflight
    <3>1. inflight + 1 <= MaxInflight
      BY <1>8, SenderAssumption DEF SinkReserve, TypeOK
    <3>2. QED
      BY <1>8, <1>0, <2>3, <2>4, <3>1 DEF SinkReserve, SlotAccounting, TypeOK
  <2>6. QED
    BY <1>00, <2>1, <2>2, <2>5
<1>9. ASSUME NEW t \in Threads, SinkPut(t) PROVE SlotInv'
  <2>1. PICK e \in Events : queue' = Append(queue, e)
    <3>1. calls[t] \in 1 .. MaxCalls
      BY <1>9, SenderAssumption DEF SinkPut, Control, TypeOK
    <3>2. <<t, calls[t]>> \in Events
      BY <3>1 DEF Events
    <3>3. QED
      BY <1>9, <3>2 DEF SinkPut
  <2>2. TypeOK'
    <3>1. queue' \in Seq(Events \cup {Sentinel})
      BY <2>1 DEF TypeOK
    <3>2. QED
      BY <1>9, <3>1 DEF SinkPut, TypeOK
  <2>3. SentinelQueued' <=> SentinelQueued
    <3>1. HoldsSentinel(Append(queue, e)) <=> HoldsSentinel(queue)
      BY AppendEvent DEF TypeOK
    <3>2. QED
      BY <2>1, <3>1 DEF SentinelQueued
  <2>4. OneSentinel'
    <3>1. e # Sentinel
      BY SenderAssumption
    <3>2. /\ DOMAIN queue' = 1 .. Len(queue) + 1
          /\ DOMAIN queue = 1 .. Len(queue)
          /\ queue'[Len(queue) + 1] = e
          /\ \A i \in 1 .. Len(queue) : queue'[i] = queue[i]
      BY <2>1 DEF TypeOK
    <3>3. \A i, j \in DOMAIN queue' :
            queue'[i] = Sentinel /\ queue'[j] = Sentinel => i = j
      BY <3>1, <3>2 DEF OneSentinel
    <3>4. QED
      BY <1>9, <2>3, <3>3 DEF SinkPut, OneSentinel
  <2>5. QueuedEvents' = QueuedEvents + 1
    BY <2>1, <2>3 DEF QueuedEvents, TypeOK
  <2>6. Cardinality(Reserved') = Cardinality(Reserved) - 1
    BY <1>9, ReleaseOne DEF SinkPut
  <2>7. SlotAccounting' /\ inflight' <= MaxInflight
    BY <1>9, <1>0, <2>5, <2>6 DEF SinkPut, SlotAccounting, InHand, TypeOK
  <2>8. QED
    BY <1>00, <2>2, <2>4, <2>7
<1>10. CASE Connect
  <2>1. TypeOK'
    <3>1. StartMsg \in Messages
      BY MessageTypes
    <3>2. wire' \in Seq(Messages)
      BY <1>10, <3>1 DEF Connect, TypeOK
    <3>3. QED
      BY <1>10, <3>2 DEF Connect, TypeOK
  <2>2. OneSentinel'
    BY <1>10 DEF Connect, OneSentinel, SentinelQueued, HoldsSentinel
  <2>3. SlotAccounting' /\ inflight' <= MaxInflight
    BY <1>10 DEF Connect, SlotAccounting, QueuedEvents, InHand, Reserved,
       SentinelQueued, HoldsSentinel
  <2>4. QED
    BY <1>00, <2>1, <2>2, <2>3
<1>11. CASE ConnectFails
  <2>1. TypeOK'
    BY <1>11 DEF ConnectFails, TypeOK
  <2>2. OneSentinel'
    BY <1>11 DEF ConnectFails, OneSentinel, SentinelQueued, HoldsSentinel
  <2>3. SlotAccounting' /\ inflight' <= MaxInflight
    BY <1>11 DEF ConnectFails, SlotAccounting, QueuedEvents, InHand, Reserved,
       SentinelQueued, HoldsSentinel
  <2>4. QED
    BY <1>00, <2>1, <2>2, <2>3
<1>12. CASE Take
  <2>1. TypeOK'
    BY <1>12, AfterGet DEF Take, TypeOK
  <2>2. OneSentinel'
    BY <1>12, AfterGet DEF Take, OneSentinel
  <2>3. \/ QueuedEvents' = QueuedEvents /\ InHand' = InHand
        \/ QueuedEvents' = QueuedEvents - 1 /\ InHand' = InHand + 1
    BY <1>12, <1>0, AfterGet DEF Take, InHand
  <2>4. Reserved' = Reserved
    BY <1>12 DEF Take, Reserved
  <2>5. QueuedEvents' \in Int /\ InHand' \in Int
    BY <1>12, <1>0, AfterGet DEF Take, InHand
  <2>6. SlotAccounting' /\ inflight' <= MaxInflight
    <3>1. /\ inflight' = inflight /\ lost' = lost
          /\ connectionLost' <=> connectionLost
      BY <1>12 DEF Take
    <3>2. Cardinality(Reserved') = Cardinality(Reserved)
      BY <2>4
    <3>3. lost \in Nat /\ inflight \in Nat
      BY DEF TypeOK
    <3>4. SlotAccounting'
      BY <1>0, <2>3, <2>5, <3>1, <3>2, <3>3 DEF SlotAccounting
    <3>5. QED
      BY <3>1, <3>4
  <2>7. QED
    BY <1>00, <2>1, <2>2, <2>6
<1>13. CASE SendOk
  <2>1. TypeOK'
    <3>1. EventMsg(hand) \in Messages
      BY <1>13, MessageTypes DEF SendOk, Control, TypeOK
    <3>2. wire' \in Seq(Messages)
      BY <1>13, <3>1 DEF SendOk, TypeOK
    <3>3. QED
      BY <1>13, <3>2 DEF SendOk, TypeOK
  <2>2. OneSentinel'
    BY <1>13 DEF SendOk, OneSentinel, SentinelQueued, HoldsSentinel
  <2>3. SlotAccounting' /\ inflight' <= MaxInflight
    BY <1>13 DEF SendOk, SlotAccounting, QueuedEvents, InHand, Reserved,
       SentinelQueued, HoldsSentinel
  <2>4. QED
    BY <1>00, <2>1, <2>2, <2>3
<1>14. CASE CountSent
  <2>1. InHand = 1 /\ InHand' = 0
    BY <1>14 DEF CountSent, InHand
  <2>2. inflight >= 1
    BY <1>0, <2>1 DEF SlotAccounting, TypeOK
  <2>3. TypeOK'
    BY <1>14, <2>2 DEF CountSent, TypeOK
  <2>4. OneSentinel'
    BY <1>14 DEF CountSent, OneSentinel, SentinelQueued, HoldsSentinel
  <2>5. Reserved' = Reserved /\ QueuedEvents' = QueuedEvents
    BY <1>14 DEF CountSent, Reserved, QueuedEvents, SentinelQueued, HoldsSentinel
  <2>6. SlotAccounting' /\ inflight' <= MaxInflight
    BY <1>14, <1>0, <2>1, <2>5, SenderAssumption
       DEF CountSent, SlotAccounting, TypeOK
  <2>7. QED
    BY <1>00, <2>3, <2>4, <2>6
<1>15. CASE SendFails
  <2>1. InHand = 1 /\ InHand' = 0
    BY <1>15 DEF SendFails, InHand
  <2>2. TypeOK'
    BY <1>15 DEF SendFails, TypeOK
  <2>3. OneSentinel'
    BY <1>15 DEF SendFails, OneSentinel, SentinelQueued, HoldsSentinel
  <2>4. Reserved' = Reserved /\ QueuedEvents' = QueuedEvents
    BY <1>15 DEF SendFails, Reserved, QueuedEvents, SentinelQueued, HoldsSentinel
  <2>5. SlotAccounting' /\ inflight' <= MaxInflight
    <3>1. inflight' = inflight /\ lost' = lost + 1 /\ connectionLost'
      BY <1>15 DEF SendFails
    <3>2. Cardinality(Reserved') = Cardinality(Reserved)
      BY <2>4
    <3>3. lost \in Nat /\ inflight \in Nat
      BY DEF TypeOK
    <3>4. QED
      BY <1>0, <2>1, <2>4, <3>1, <3>2, <3>3 DEF SlotAccounting
  <2>6. QED
    BY <1>00, <2>2, <2>3, <2>5
<1>16. CASE Flush
  <2>1. TypeOK'
    BY <1>16, AfterGet DEF Flush, TypeOK
  <2>2. OneSentinel'
    BY <1>16, AfterGet DEF Flush, OneSentinel
  <2>3. \/ QueuedEvents' = QueuedEvents /\ lost' = lost
        \/ QueuedEvents' = QueuedEvents - 1 /\ lost' = lost + 1
    BY <1>16, <1>0, AfterGet DEF Flush, TypeOK
  <2>4. Reserved' = Reserved /\ InHand' = InHand
    BY <1>16 DEF Flush, Reserved, InHand
  <2>5. QueuedEvents' \in Int /\ lost' \in Int
    BY <1>16, <1>0, AfterGet DEF Flush, TypeOK
  <2>6. connectionLost'
    BY <1>16 DEF Flush, Control
  <2>7. SlotAccounting' /\ inflight' <= MaxInflight
    <3>1. inflight' = inflight
      BY <1>16 DEF Flush
    <3>2. Cardinality(Reserved') = Cardinality(Reserved)
      BY <2>4
    <3>3. lost \in Nat /\ inflight \in Nat
      BY DEF TypeOK
    <3>4. InHand' \in Nat
      BY <1>0, <2>4
    <3>5. SlotAccounting'
      BY <1>0, <2>3, <2>4, <2>5, <2>6, <3>1, <3>2, <3>3, <3>4 DEF SlotAccounting
    <3>6. QED
      BY <3>1, <3>5
  <2>8. QED
    BY <1>00, <2>1, <2>2, <2>7
<1>17. CASE EndOk
  <2>1. TypeOK'
    <3>1. EndMsg(sent) \in Messages
      BY MessageTypes DEF TypeOK
    <3>2. wire' \in Seq(Messages)
      BY <1>17, <3>1 DEF EndOk, TypeOK
    <3>3. QED
      BY <1>17, <3>2 DEF EndOk, TypeOK
  <2>2. OneSentinel'
    BY <1>17 DEF EndOk, OneSentinel, SentinelQueued, HoldsSentinel
  <2>3. SlotAccounting' /\ inflight' <= MaxInflight
    BY <1>17 DEF EndOk, SlotAccounting, QueuedEvents, InHand, Reserved,
       SentinelQueued, HoldsSentinel
  <2>4. QED
    BY <1>00, <2>1, <2>2, <2>3
<1>18. CASE EndFails
  <2>1. TypeOK'
    BY <1>18 DEF EndFails, TypeOK
  <2>2. OneSentinel'
    BY <1>18 DEF EndFails, OneSentinel, SentinelQueued, HoldsSentinel
  <2>3. SlotAccounting' /\ inflight' <= MaxInflight
    BY <1>18 DEF EndFails, SlotAccounting, QueuedEvents, InHand, Reserved,
       SentinelQueued, HoldsSentinel
  <2>4. QED
    BY <1>00, <2>1, <2>2, <2>3
<1>19. CASE UNCHANGED vars
  <2>1. TypeOK'
    BY <1>19 DEF vars, TypeOK
  <2>2. OneSentinel'
    BY <1>19 DEF vars, OneSentinel, SentinelQueued, HoldsSentinel
  <2>3. SlotAccounting' /\ inflight' <= MaxInflight
    BY <1>19 DEF vars, SlotAccounting, QueuedEvents, InHand, Reserved,
       SentinelQueued, HoldsSentinel
  <2>4. QED
    BY <1>00, <2>1, <2>2, <2>3
<1>20. QED
  BY <1>1, <1>2, <1>3, <1>4, <1>5, <1>6, <1>7, <1>8, <1>9, <1>10, <1>11, <1>12,
     <1>13, <1>14, <1>15, <1>16, <1>17, <1>18, <1>19 DEF Next, Main, Sink, Sender

-----------------------------------------------------------------------------
(* The end of the stream.                                                  *)

\* No session_end was sent yet.
StillOpen == \A i \in DOMAIN wire : wire[i].kind # "end"

\* What the wire holds at each point of the sender thread, and what the main
\* thread may conclude when it has joined it.
WireInv ==
  /\ snd \in {"off", "connecting"} => wire = <<>> /\ sent = 0 /\ ~connected
  /\ snd = "connecting" => main \in {"starting", "failed"}
  /\ snd \in {"polling", "sending", "ending"} =>
       StillOpen /\ Len(wire) = sent + 1
  /\ snd = "counting" => StillOpen /\ Len(wire) = sent + 2
  /\ snd = "flushing" => StillOpen /\ connectionLost
  /\ snd = "exited" =>
       \/ connectionLost \/ connectError
       \/ EndSent /\ wire[Len(wire)].count = sent
  /\ connectError => main \in {"starting", "failed"} /\ snd = "exited"
  /\ main = "new" => snd = "off"
  /\ main = "done" => snd = "exited" /\ result = sent

EndInv == TypeOK /\ WireInv /\ EndCountExact

\* Adding a message keeps what was on the wire.
LEMMA AppendMessage ==
  ASSUME NEW w \in Seq(Messages), NEW m \in Messages
  PROVE  /\ Append(w, m) \in Seq(Messages)
         /\ DOMAIN w = 1 .. Len(w)
         /\ DOMAIN Append(w, m) = 1 .. Len(w) + 1
         /\ Len(Append(w, m)) = Len(w) + 1
         /\ Append(w, m)[Len(w) + 1] = m
         /\ \A i \in 1 .. Len(w) : Append(w, m)[i] = w[i]
OBVIOUS

LEMMA EndInvInit == Init => EndInv
<1> SUFFICES ASSUME Init PROVE EndInv
  OBVIOUS
<1>1. TypeOK
  BY SlotInvInit DEF SlotInv
<1>2. WireInv
  BY DEF Init, WireInv, StillOpen
<1>3. EndCountExact
  BY DEF Init, EndCountExact
<1>4. QED
  BY <1>1, <1>2, <1>3 DEF EndInv

LEMMA EndInvNext == EndInv /\ TypeOK' /\ Control /\ [Next]_vars => EndInv'
<1> SUFFICES ASSUME EndInv, TypeOK', Control, [Next]_vars PROVE EndInv'
  OBVIOUS
<1> USE DEF EndInv, mainVars, sinkVars, linkVars
<1>1. CASE Main
  <2>1. wire' = wire /\ sent' = sent
    BY <1>1 DEF Main, StartThread, StartWakes, StartTimesOut, Finish,
       FinishReturns
  <2>2. StillOpen' <=> StillOpen
    BY <2>1 DEF StillOpen
  <2>3. WireInv'
    BY <1>1, <2>1, <2>2 DEF WireInv, EndSent, Main, StartThread, StartWakes,
       StartTimesOut, Finish, FinishReturns
  <2>4. EndCountExact'
    BY <2>1 DEF EndCountExact
  <2>5. QED
    BY <2>3, <2>4
<1>2. ASSUME NEW t \in Threads, Sink(t) PROVE EndInv'
  <2>1. /\ wire' = wire /\ sent' = sent /\ snd' = snd /\ main' = main
        /\ result' = result
        /\ connectionLost' <=> connectionLost
        /\ connectError' <=> connectError
        /\ connected' <=> connected
    BY <1>2 DEF Sink, SinkEnter, SinkDrop, SinkReserve, SinkPut
  <2>2. WireInv'
    BY <2>1 DEF WireInv, EndSent, StillOpen
  <2>3. EndCountExact'
    BY <2>1 DEF EndCountExact
  <2>4. QED
    BY <2>2, <2>3
<1>3. CASE Connect
  <2>1. wire' = <<StartMsg>> /\ StartMsg.kind = "start" /\ sent = 0
    BY <1>3 DEF Connect, WireInv, StartMsg
  <2>2. QED
    BY <1>3, <2>1 DEF Connect, WireInv, StillOpen, EndCountExact, EndSent
<1>4. CASE ConnectFails
  <2>1. wire' = wire
    BY <1>4 DEF ConnectFails
  <2>2. WireInv' /\ EndCountExact'
    BY <1>4, <2>1 DEF ConnectFails, WireInv, StillOpen, EndCountExact, EndSent, TypeOK
  <2>3. QED
    BY <2>2
<1>5. CASE Take
  <2>1. wire' = wire
    BY <1>5 DEF Take
  <2>2. WireInv' /\ EndCountExact'
    BY <1>5, <2>1 DEF Take, WireInv, StillOpen, EndCountExact, EndSent, TypeOK
  <2>3. QED
    BY <2>2
<1>6. CASE SendOk
  <2>1. EventMsg(hand) \in Messages /\ EventMsg(hand).kind = "event"
    BY <1>6, MessageTypes DEF SendOk, Control, EventMsg
  <2>2. /\ Len(wire') = Len(wire) + 1
        /\ StillOpen'
    BY <1>6, <2>1, AppendMessage DEF SendOk, TypeOK, WireInv, StillOpen
  <2>3. WireInv'
    BY <1>6, <2>2 DEF SendOk, WireInv, TypeOK
  <2>4. EndCountExact'
    BY <2>2 DEF EndCountExact, StillOpen
  <2>5. QED
    BY <2>3, <2>4
<1>7. CASE CountSent
  <2>1. wire' = wire
    BY <1>7 DEF CountSent
  <2>2. WireInv' /\ EndCountExact'
    BY <1>7, <2>1 DEF CountSent, WireInv, StillOpen, EndCountExact, EndSent, TypeOK
  <2>3. QED
    BY <2>2
<1>8. CASE SendFails
  <2>1. wire' = wire
    BY <1>8 DEF SendFails
  <2>2. WireInv' /\ EndCountExact'
    BY <1>8, <2>1 DEF SendFails, WireInv, StillOpen, EndCountExact, EndSent, TypeOK
  <2>3. QED
    BY <2>2
<1>9. CASE Flush
  <2>1. wire' = wire
    BY <1>9 DEF Flush
  <2>2. WireInv' /\ EndCountExact'
    BY <1>9, <2>1 DEF Flush, WireInv, StillOpen, EndCountExact, EndSent, TypeOK
  <2>3. QED
    BY <2>2
<1>10. CASE EndOk
  <2>1. /\ EndMsg(sent) \in Messages
        /\ EndMsg(sent).kind = "end" /\ EndMsg(sent).count = sent
    BY MessageTypes DEF EndMsg, TypeOK
  <2>2. StillOpen /\ Len(wire) = sent + 1
    BY <1>10 DEF EndOk, WireInv
  <2>3. /\ DOMAIN wire' = 1 .. Len(wire) + 1 /\ Len(wire') = Len(wire) + 1
        /\ wire'[Len(wire) + 1] = EndMsg(sent)
        /\ \A i \in 1 .. Len(wire) : wire'[i].kind # "end"
        /\ Len(wire) \in Nat
    <3>1. wire' = Append(wire, EndMsg(sent)) /\ wire \in Seq(Messages)
      BY <1>10 DEF EndOk, TypeOK
    <3>2. /\ DOMAIN wire = 1 .. Len(wire)
          /\ DOMAIN wire' = 1 .. Len(wire) + 1
          /\ Len(wire') = Len(wire) + 1
          /\ wire'[Len(wire) + 1] = EndMsg(sent)
          /\ \A i \in 1 .. Len(wire) : wire'[i] = wire[i]
      BY <2>1, <3>1, AppendMessage
    <3>3. QED
      BY <2>2, <3>1, <3>2 DEF StillOpen
  <2>4. wire' # <<>>
    BY <2>3
  <2>5. EndCountExact'
    <3>1. sent \in Nat
      BY DEF TypeOK
    <3>2. ASSUME NEW i \in DOMAIN wire', wire'[i].kind = "end"
          PROVE  i = Len(wire') /\ wire'[i].count = Len(wire') - 2
      BY <2>1, <2>2, <2>3, <3>1, <3>2
    <3>3. QED
      BY <3>2 DEF EndCountExact
  <2>6. EndSent' /\ wire'[Len(wire')].count = sent
    BY <2>1, <2>3, <2>4 DEF EndSent
  <2>7. WireInv'
    BY <1>10, <2>6 DEF EndOk, WireInv
  <2>8. QED
    BY <2>5, <2>7
<1>11. CASE EndFails
  <2>1. wire' = wire
    BY <1>11 DEF EndFails
  <2>2. WireInv' /\ EndCountExact'
    BY <1>11, <2>1 DEF EndFails, WireInv, StillOpen, EndCountExact, EndSent, TypeOK
  <2>3. QED
    BY <2>2
<1>12. CASE UNCHANGED vars
  <2>1. wire' = wire
    BY <1>12 DEF vars
  <2>2. WireInv' /\ EndCountExact'
    BY <1>12, <2>1 DEF vars, WireInv, StillOpen, EndCountExact, EndSent, TypeOK
  <2>3. QED
    BY <2>2
<1>13. QED
  BY <1>1, <1>2, <1>3, <1>4, <1>5, <1>6, <1>7, <1>8, <1>9, <1>10, <1>11, <1>12
     DEF Next, Sender

-----------------------------------------------------------------------------
(* The theorems.                                                           *)

LEMMA SlotInvariant == Spec => []SlotInv
<1>1. QED
  BY SlotInvInit, SlotInvNext, PTL DEF Spec

\* The counters, the queue and the wire keep their types; in particular the
\* inflight counter never goes below zero.
THEOREM TypeCorrect == Spec => []TypeOK
<1>1. SlotInv => TypeOK
  BY DEF SlotInv
<1>2. QED
  BY <1>1, SlotInvariant, PTL

\* Every slot is held by exactly one event, or leaked by a lost connection.
THEOREM SlotsAccounted == Spec => []SlotAccounting
<1>1. SlotInv => SlotAccounting
  BY DEF SlotInv
<1>2. QED
  BY <1>1, SlotInvariant, PTL

\* The queue never holds more than the cap allows, plus the sentinel.
THEOREM QueueStaysBounded == Spec => []QueueBounded
<1>1. SlotInv => QueueBounded
  <2> SUFFICES ASSUME SlotInv PROVE QueueBounded
    OBVIOUS
  <2> USE DEF SlotInv
  <2>1. Cardinality(Reserved) \in Nat /\ Len(queue) \in Nat
    BY ReservedCount DEF TypeOK
  <2>2. Len(queue) <= QueuedEvents + 1 /\ QueuedEvents \in Int
    BY <2>1 DEF QueuedEvents
  <2>3. InHand \in Nat /\ lost \in Nat
    BY DEF InHand, TypeOK
  <2>4. QueuedEvents <= inflight
    BY <2>1, <2>2, <2>3 DEF SlotAccounting, TypeOK
  <2>5. QED
    BY <2>1, <2>2, <2>4, SenderAssumption DEF QueueBounded, TypeOK
<1>2. QED
  BY <1>1, SlotInvariant, PTL

LEMMA EndInvariant == Spec => []EndInv
<1>1. SlotInv => TypeOK /\ Control
  BY DEF SlotInv
<1>2. QED
  BY <1>1, SlotInvariant, EndInvInit, EndInvNext, PTL DEF Spec

\* trace_session_end is the last message and carries the number of events
\* that were sent before it.
THEOREM EndCountIsExact == Spec => []EndCountExact
<1>1. EndInv => EndCountExact
  BY DEF EndInv
<1>2. QED
  BY <1>1, EndInvariant, PTL

\* When finish() joined the thread and connection_lost is false, the server
\* was sent the end of the stream, with the count finish() returned.
THEOREM FinishTellsTheTruth == Spec => []FinishIsTruthful
<1>1. EndInv => FinishIsTruthful
  BY DEF EndInv, WireInv, FinishIsTruthful
<1>2. QED
  BY <1>1, EndInvariant, PTL

-----------------------------------------------------------------------------
(* The tail.  After finish() what is queued behind the sentinel belongs to  *)
(* other threads, and once the sentinel is taken nothing else is queued.    *)

Finished == main \in {"joining", "done", "timedOut"}

NotOfMain(q, j) ==
  \/ q[j] = Sentinel \/ q[j][1] # MainThread
  \/ \E i \in DOMAIN q : j < i /\ q[i] = Sentinel

TailInv ==
  /\ Finished => pc[MainThread] = "idle" /\ \A j \in DOMAIN queue : NotOfMain(queue, j)
  /\ ~Finished => ~SentinelQueued /\ snd # "ending" /\ ~EndSent
  /\ snd = "ending" \/ EndSent => ~SentinelQueued
  /\ EndSent => snd = "exited"

LEMMA TailTaken ==
  ASSUME NEW q \in Seq(Events \cup {Sentinel}), q # <<>>,
         \A j \in DOMAIN q : NotOfMain(q, j)
  PROVE  \A j \in DOMAIN Tail(q) : NotOfMain(Tail(q), j)
<1>1. /\ DOMAIN q = 1 .. Len(q) /\ Len(q) \in Nat \ {0}
      /\ DOMAIN Tail(q) = 1 .. Len(q) - 1
      /\ \A i \in 1 .. Len(q) - 1 : Tail(q)[i] = q[i + 1]
  OBVIOUS
<1> SUFFICES ASSUME NEW j \in 1 .. Len(q) - 1 PROVE NotOfMain(Tail(q), j)
  BY <1>1
<1>2. NotOfMain(q, j + 1) /\ Tail(q)[j] = q[j + 1]
  BY <1>1
<1>3. ASSUME NEW i \in DOMAIN q, j + 1 < i, q[i] = Sentinel
      PROVE  i - 1 \in DOMAIN Tail(q) /\ j < i - 1 /\ Tail(q)[i - 1] = Sentinel
  BY <1>1, <1>3
<1>4. QED
  BY <1>2, <1>3 DEF NotOfMain

LEMMA TailAppended ==
  ASSUME NEW q \in Seq(Events \cup {Sentinel}), NEW e \in Events \cup {Sentinel}
  PROVE  /\ e = Sentinel => \A j \in DOMAIN Append(q, e) : NotOfMain(Append(q, e), j)
         /\ e[1] # MainThread /\ (\A j \in DOMAIN q : NotOfMain(q, j)) =>
              \A j \in DOMAIN Append(q, e) : NotOfMain(Append(q, e), j)
<1>1. /\ DOMAIN Append(q, e) = 1 .. Len(q) + 1 /\ DOMAIN q = 1 .. Len(q) /\ Len(q) \in Nat
      /\ Append(q, e)[Len(q) + 1] = e
      /\ \A i \in 1 .. Len(q) : Append(q, e)[i] = q[i]
  OBVIOUS
<1>2. QED
  BY <1>1 DEF NotOfMain

LEMMA TailInvInit == Init => TailInv
BY DEF Init, TailInv, Finished, SentinelQueued, HoldsSentinel, EndSent

LEMMA TailInvNext == TailInv /\ SlotInv /\ [Next]_vars => TailInv'
<1> SUFFICES ASSUME TailInv, SlotInv, [Next]_vars PROVE TailInv'
  OBVIOUS
<1>1. /\ TypeOK /\ Control /\ queue \in Seq(Events \cup {Sentinel})
      /\ \A i, j \in DOMAIN queue : queue[i] = Sentinel /\ queue[j] = Sentinel => i = j
      /\ SentinelQueued => Finished
  BY DEF SlotInv, OneSentinel, TypeOK, Finished
\* Steps that leave queue and wire alone.
<1>2. ASSUME UNCHANGED <<queue, wire>>, Finished' <=> Finished,
             Finished => pc'[MainThread] = "idle",
             snd' = "ending" => snd = "ending", EndSent => snd' = "exited"
      PROVE  TailInv'
  BY <1>1, <1>2 DEF TailInv, NotOfMain, SentinelQueued, HoldsSentinel, EndSent
<1>3. CASE StartThread \/ StartWakes \/ StartTimesOut \/ FinishReturns
  BY <1>2, <1>3 DEF StartThread, StartWakes, StartTimesOut, FinishReturns, TailInv,
                    Finished, sinkVars, Control, SlotInv
<1>4. CASE Finish
  <2>1. /\ queue' = Append(queue, Sentinel) /\ Finished' /\ ~Finished
        /\ pc[MainThread] = "idle" /\ UNCHANGED <<pc, snd, wire>>
    BY <1>4 DEF Finish, Finished, sinkVars
  <2>2. \A j \in DOMAIN queue' : NotOfMain(queue', j)
    BY <1>1, <2>1, TailAppended
  <2>3. snd' # "ending" /\ ~EndSent'
    BY <2>1 DEF TailInv, EndSent
  <2>4. QED
    BY <2>1, <2>2, <2>3 DEF TailInv
<1>5. ASSUME NEW t \in Threads, Sink(t)
      PROVE  TailInv'
  <2>1. CASE SinkEnter(t)
    <3>1. main = "running"
      BY <2>1 DEF SinkEnter
    <3>2. ~Finished /\ ~Finished'
      BY <2>1, <3>1 DEF SinkEnter, Finished, mainVars
    <3>3. QED
      BY <1>2, <2>1, <3>2 DEF SinkEnter, mainVars, TailInv
  <2>2. CASE SinkDrop(t) \/ SinkReserve(t)
    <3>1. Finished => t # MainThread
      BY <2>2 DEF SinkDrop, SinkReserve, TailInv
    <3>2. UNCHANGED <<main, snd, queue, wire>> /\ \A u \in Threads \ {t} : pc'[u] = pc[u]
      BY <1>1, <2>2 DEF SinkDrop, SinkReserve, mainVars, TypeOK
    <3>3. (Finished' <=> Finished) /\ (Finished => pc'[MainThread] = "idle")
      BY <3>1, <3>2, SenderAssumption DEF TailInv, Finished
    <3>4. QED
      BY <1>2, <3>2, <3>3 DEF TailInv
  <2>3. CASE SinkPut(t)
    <3> DEFINE e == <<t, calls[t]>>
    <3>1. /\ queue' = Append(queue, e) /\ pc[t] = "reserved" /\ pc' = [pc EXCEPT ![t] = "idle"]
          /\ UNCHANGED <<main, snd, wire>>
      BY <2>3 DEF SinkPut, mainVars
    <3>2. e \in Events /\ e[1] = t
      BY <1>1, <3>1, SenderAssumption DEF TypeOK, Control, Events
    <3>3. Finished => t # MainThread
      BY <3>1 DEF TailInv
    <3> HIDE DEF e
    <3>4. Finished => pc'[MainThread] = "idle" /\ \A j \in DOMAIN queue' : NotOfMain(queue', j)
      <4>1. ASSUME Finished PROVE pc'[MainThread] = "idle"
        BY <1>1, <3>1, <3>3, <4>1, SenderAssumption DEF TailInv, TypeOK
      <4>2. ASSUME Finished PROVE \A j \in DOMAIN queue' : NotOfMain(queue', j)
        <5>1. e[1] # MainThread /\ \A j \in DOMAIN queue : NotOfMain(queue, j)
          BY <3>2, <3>3, <4>2 DEF TailInv
        <5>2. QED
          BY <1>1, <3>1, <3>2, <5>1, TailAppended
      <4>3. QED
        BY <4>1, <4>2
    <3>5. SentinelQueued' <=> SentinelQueued
      BY <1>1, <3>1, <3>2, AppendEvent DEF SentinelQueued
    <3>6. QED
      BY <3>1, <3>4, <3>5 DEF TailInv, Finished, EndSent
  <2>4. QED
    BY <1>5, <2>1, <2>2, <2>3 DEF Sink
<1>6. CASE Connect
  <2>1. wire' = <<StartMsg>> /\ snd = "connecting" /\ snd' = "polling" /\ UNCHANGED <<main, pc, queue>>
    BY <1>6 DEF Connect, mainVars, sinkVars
  <2>2. ~EndSent'
    BY <2>1 DEF EndSent, StartMsg
  <2>3. QED
    BY <2>1, <2>2 DEF TailInv, Finished, NotOfMain, SentinelQueued, HoldsSentinel
<1>7. CASE ConnectFails \/ CountSent \/ SendFails \/ EndFails
  BY <1>2, <1>7 DEF ConnectFails, CountSent, SendFails, EndFails, mainVars, sinkVars,
                    Finished, TailInv
<1>8. CASE Take \/ Flush
  <2>1. /\ queue # <<>> /\ queue' = Tail(queue) /\ UNCHANGED <<main, pc, wire>>
        /\ snd \in {"polling", "flushing"}
        /\ snd' = "ending" => Head(queue) = Sentinel
    BY <1>8 DEF Take, Flush, mainVars, sinkVars
  <2>2. /\ Head(queue) = Sentinel => SentinelQueued /\ ~SentinelQueued'
        /\ Head(queue) # Sentinel => (SentinelQueued' <=> SentinelQueued)
    BY <1>1, <2>1, TakeItem DEF SentinelQueued
  <2>3. Finished => \A j \in DOMAIN queue' : NotOfMain(queue', j)
    BY <1>1, <2>1, TailTaken DEF TailInv
  <2>4. ~EndSent /\ ~EndSent'
    BY <2>1 DEF TailInv, EndSent
  <2>5. QED
    BY <1>1, <2>1, <2>2, <2>3, <2>4 DEF TailInv, Finished
<1>9. CASE SendOk
  <2>1. /\ wire' = Append(wire, EventMsg(hand)) /\ snd = "sending" /\ snd' = "counting"
        /\ UNCHANGED <<main, pc, queue>> /\ wire \in Seq(Messages) /\ EventMsg(hand) \in Messages
    BY <1>1, <1>9, MessageTypes DEF SendOk, mainVars, sinkVars, TypeOK, Control
  <2>2. wire'[Len(wire')] = EventMsg(hand)
    BY <2>1
  <2>3. ~EndSent'
    BY <2>2 DEF EndSent, EventMsg
  <2>4. QED
    BY <2>1, <2>3 DEF TailInv, Finished, NotOfMain, SentinelQueued, HoldsSentinel
<1>10. CASE EndOk
  BY <1>10 DEF EndOk, mainVars, sinkVars, TailInv, Finished, NotOfMain, SentinelQueued, HoldsSentinel
<1>11. CASE UNCHANGED vars
  BY <1>2, <1>11 DEF vars, mainVars, sinkVars, linkVars, TailInv, Finished
<1>12. QED
  BY <1>3, <1>4, <1>5, <1>6, <1>7, <1>8, <1>9, <1>10, <1>11 DEF Next, Main, Sender

\* When the stream was ended in order, each event of the main thread was sent or
\* dropped at the cap, whatever other threads still put into the queue.
THEOREM TheTailIsSent == Spec => []NoTailLoss
<1>1. TailInv => NoTailLoss
  <2> SUFFICES ASSUME TailInv, EndSent, NEW e \in Undecided PROVE e[1] # MainThread
    BY DEF NoTailLoss
  <2>1. Finished /\ ~SentinelQueued /\ snd = "exited" /\ pc[MainThread] = "idle"
    BY DEF TailInv
  <2>2. CASE e \in {<<t, calls[t]>> : t \in {u \in Threads : pc[u] # "idle"}}
    BY <2>1, <2>2
  <2>3. CASE e \in {queue[i] : i \in {j \in DOMAIN queue : queue[j] # Sentinel}}
    BY <2>1, <2>3 DEF TailInv, NotOfMain, SentinelQueued, HoldsSentinel
  <2>4. QED
    BY <2>1, <2>2, <2>3 DEF Undecided
<1>2. QED
  BY <1>1, SlotInvariant, TailInvInit, TailInvNext, PTL DEF Spec

-----------------------------------------------------------------------------
(* The refinement.  An event whose fate is undecided is in one place only,  *)
(* and before the later ones of its thread: so what the sender sends or      *)
(* discards is what the abstract stream may deliver or discard.              *)

InCalls(p, c) == {<<t, c[t]>> : t \in {u \in Threads : p[u] # "idle"}}
EventsIn(q) == {q[i] : i \in {j \in DOMAIN q : q[j] # Sentinel}}
InSend == IF snd = "sending" THEN {hand} ELSE {}

InOrder(q) ==
  \A i, j \in DOMAIN q :
    i < j /\ q[i] # Sentinel /\ q[j] # Sentinel /\ q[i][1] = q[j][1] => q[i][2] < q[j][2]

\* e was issued, and before the call its thread is in.
IssuedBefore(e, p, c) ==
  e[2] <= c[e[1]] /\ (p[e[1]] # "idle" => e[2] < c[e[1]])

OrderInv ==
  /\ InOrder(queue)
  /\ \A e \in EventsIn(queue) : IssuedBefore(e, pc, calls)
  /\ snd = "sending" =>
       /\ IssuedBefore(hand, pc, calls)
       /\ \A e \in EventsIn(queue) : e[1] = hand[1] => hand[2] < e[2]

LEMMA UndecidedParts == Undecided = InCalls(pc, calls) \cup EventsIn(queue) \cup InSend
BY DEF Undecided, InCalls, EventsIn, InSend

LEMMA EventsAppended ==
  ASSUME NEW q \in Seq(Events \cup {Sentinel}), NEW e \in Events \cup {Sentinel}
  PROVE  /\ EventsIn(Append(q, e)) = EventsIn(q) \cup ({e} \ {Sentinel})
         /\ EventsIn(q) \subseteq Events
         /\ InOrder(q) /\ (e # Sentinel => \A f \in EventsIn(q) : f[1] = e[1] => f[2] < e[2])
              => InOrder(Append(q, e))
<1>1. /\ DOMAIN Append(q, e) = 1 .. Len(q) + 1 /\ DOMAIN q = 1 .. Len(q) /\ Len(q) \in Nat
      /\ Append(q, e)[Len(q) + 1] = e
      /\ \A i \in 1 .. Len(q) : Append(q, e)[i] = q[i] /\ q[i] \in Events \cup {Sentinel}
  OBVIOUS
<1>2. EventsIn(Append(q, e)) = EventsIn(q) \cup ({e} \ {Sentinel})
  BY <1>1 DEF EventsIn
<1>3. EventsIn(q) \subseteq Events
  BY <1>1 DEF EventsIn
<1>4. ASSUME InOrder(q), e # Sentinel => \A f \in EventsIn(q) : f[1] = e[1] => f[2] < e[2]
      PROVE  InOrder(Append(q, e))
  <2> SUFFICES ASSUME NEW i \in 1 .. Len(q) + 1, NEW j \in 1 .. Len(q) + 1, i < j,
                      Append(q, e)[i] # Sentinel, Append(q, e)[j] # Sentinel,
                      Append(q, e)[i][1] = Append(q, e)[j][1]
               PROVE  Append(q, e)[i][2] < Append(q, e)[j][2]
    BY <1>1 DEF InOrder
  <2>1. i \in 1 .. Len(q) /\ Append(q, e)[i] = q[i] /\ q[i] \in EventsIn(q)
    BY <1>1 DEF EventsIn
  <2>2. CASE j = Len(q) + 1
    BY <1>1, <1>4, <2>1, <2>2
  <2>3. CASE j # Len(q) + 1
    BY <1>1, <1>4, <2>1, <2>3 DEF InOrder
  <2>4. QED
    BY <2>2, <2>3
<1>5. QED
  BY <1>2, <1>3, <1>4

LEMMA EventsTaken ==
  ASSUME NEW q \in Seq(Events \cup {Sentinel}), q # <<>>, InOrder(q)
  PROVE  /\ EventsIn(q) = EventsIn(Tail(q)) \cup ({Head(q)} \ {Sentinel})
         /\ InOrder(Tail(q))
         /\ Head(q) # Sentinel =>
              /\ Head(q) \in Events
              /\ \A e \in EventsIn(Tail(q)) : e[1] = Head(q)[1] => Head(q)[2] < e[2]
<1>1. /\ DOMAIN q = 1 .. Len(q) /\ Len(q) \in Nat \ {0} /\ Head(q) = q[1]
      /\ DOMAIN Tail(q) = 1 .. Len(q) - 1
      /\ \A i \in 1 .. Len(q) - 1 : Tail(q)[i] = q[i + 1]
      /\ Head(q) \in Events \cup {Sentinel}
  OBVIOUS
<1>2. ASSUME NEW i \in 1 .. Len(q), i # 1
      PROVE  i - 1 \in 1 .. Len(q) - 1 /\ Tail(q)[i - 1] = q[i]
  BY <1>1, <1>2
<1>3. EventsIn(q) = EventsIn(Tail(q)) \cup ({Head(q)} \ {Sentinel})
  <2>1. ASSUME NEW e \in EventsIn(q) PROVE e \in EventsIn(Tail(q)) \cup ({Head(q)} \ {Sentinel})
    <3>1. PICK i \in 1 .. Len(q) : q[i] = e /\ q[i] # Sentinel
      BY <1>1, <2>1 DEF EventsIn
    <3>2. QED
      BY <1>1, <1>2, <3>1 DEF EventsIn
  <2>2. ASSUME NEW e \in EventsIn(Tail(q)) PROVE e \in EventsIn(q)
    <3>1. PICK i \in 1 .. Len(q) - 1 : Tail(q)[i] = e /\ e # Sentinel
      BY <1>1, <2>2 DEF EventsIn
    <3>2. i + 1 \in 1 .. Len(q) /\ q[i + 1] = e
      BY <1>1, <3>1
    <3>3. QED
      BY <1>1, <3>1, <3>2 DEF EventsIn
  <2>3. Head(q) # Sentinel => Head(q) \in EventsIn(q)
    BY <1>1 DEF EventsIn
  <2>4. QED
    BY <2>1, <2>2, <2>3
<1>4. InOrder(Tail(q))
  BY <1>1 DEF InOrder
<1>5. ASSUME Head(q) # Sentinel, NEW e \in EventsIn(Tail(q)), e[1] = Head(q)[1]
      PROVE  Head(q)[2] < e[2]
  <2>1. PICK i \in 1 .. Len(q) - 1 : Tail(q)[i] = e /\ e # Sentinel
    BY <1>1, <1>5 DEF EventsIn
  <2>2. i + 1 \in 1 .. Len(q) /\ q[i + 1] = e /\ 1 \in 1 .. Len(q) /\ 1 < i + 1
    BY <1>1, <2>1
  <2>3. QED
    BY <1>1, <1>5, <2>1, <2>2 DEF InOrder
<1>6. QED
  BY <1>1, <1>3, <1>4, <1>5

\* No event is in two places, and the one in hand is the first of its thread.
LEMMA OnePlace ==
  ASSUME TypeOK, Control, OrderInv
  PROVE  /\ EventsIn(queue) \subseteq Events
         /\ \A t \in Threads : pc[t] # "idle" => <<t, calls[t]>> \notin EventsIn(queue) \cup InSend
         /\ snd = "sending" =>
              /\ hand \in Events
              /\ hand \notin InCalls(pc, calls) \cup EventsIn(queue)
              /\ \A f \in Undecided : f[1] = hand[1] => hand[2] <= f[2]
<1>1. queue \in Seq(Events \cup {Sentinel}) /\ calls \in [Threads -> 0 .. MaxCalls] /\ MaxCalls \in Nat
  BY SenderAssumption DEF TypeOK
<1>2. EventsIn(queue) \subseteq Events
  BY <1>1, EventsAppended
<1>3. \A e \in Events : e[1] \in Threads /\ e[2] \in Nat
  BY <1>1 DEF Events
<1>4. ASSUME NEW t \in Threads, pc[t] # "idle"
      PROVE  /\ <<t, calls[t]>> \notin EventsIn(queue) \cup InSend
             /\ snd = "sending" /\ hand[1] = t => hand[2] < calls[t]
  <2>1. calls[t] \in Nat
    BY <1>1
  <2>2. \A e \in Events : IssuedBefore(e, pc, calls) /\ e[1] = t => e[2] < calls[t] /\ e # <<t, calls[t]>>
    BY <1>3, <1>4, <2>1 DEF IssuedBefore
  <2>3. <<t, calls[t]>>[1] = t
    OBVIOUS
  <2>4. QED
    BY <1>2, <2>2, <2>3 DEF OrderInv, InSend, Control
<1>5. ASSUME snd = "sending"
      PROVE  /\ hand \in Events
             /\ hand \notin InCalls(pc, calls) \cup EventsIn(queue)
             /\ \A f \in Undecided : f[1] = hand[1] => hand[2] <= f[2]
  <2>1. hand \in Events
    BY <1>5 DEF Control
  <2>2. hand \notin EventsIn(queue)
    BY <1>3, <1>5, <2>1 DEF OrderInv
  <2>3. hand \notin InCalls(pc, calls)
    BY <1>4, <1>5 DEF InCalls, InSend
  <2>4. ASSUME NEW f \in InCalls(pc, calls), f[1] = hand[1] PROVE hand[2] <= f[2]
    <3>1. PICK t \in Threads : pc[t] # "idle" /\ f = <<t, calls[t]>>
      BY <2>4 DEF InCalls
    <3>2. f[1] = t /\ f[2] = calls[t] /\ calls[t] \in Nat /\ hand[2] \in Nat
      BY <1>1, <1>3, <2>1, <3>1
    <3>3. QED
      BY <1>4, <1>5, <2>4, <3>1, <3>2
  <2>5. \A f \in EventsIn(queue) : f[1] = hand[1] => hand[2] <= f[2]
    BY <1>2, <1>3, <1>5, <2>1 DEF OrderInv
  <2>6. hand[2] <= hand[2]
    BY <1>3, <2>1
  <2>7. QED
    BY <1>5, <2>1, <2>2, <2>3, <2>4, <2>5, <2>6, UndecidedParts DEF InSend
<1>6. QED
  BY <1>2, <1>4, <1>5

LEMMA OrderInvInit == Init => OrderInv
BY DEF Init, OrderInv, InOrder, EventsIn

LEMMA OrderInvNext == OrderInv /\ TypeOK /\ Control /\ [Next]_vars => OrderInv'
<1> SUFFICES ASSUME OrderInv, TypeOK, Control, [Next]_vars PROVE OrderInv'
  OBVIOUS
<1>1. /\ queue \in Seq(Events \cup {Sentinel}) /\ calls \in [Threads -> 0 .. MaxCalls]
      /\ MaxCalls \in Nat /\ Sentinel \notin Events /\ DOMAIN pc = Threads
  BY SenderAssumption DEF TypeOK
<1>2. EventsIn(queue) \subseteq Events
  BY OnePlace
<1>3. \A e \in Events : e[1] \in Threads /\ e[2] \in Nat
  BY <1>1 DEF Events
\* Steps that touch neither queue nor calls and take nothing in hand.
<1>4. ASSUME UNCHANGED <<queue, calls>>, snd' = "sending" => snd = "sending" /\ hand' = hand,
             \A u \in Threads : pc'[u] # "idle" => pc[u] # "idle"
      PROVE  OrderInv'
  <2>1. \A e \in Events : IssuedBefore(e, pc, calls) => IssuedBefore(e, pc', calls')
    BY <1>3, <1>4 DEF IssuedBefore
  <2>2. QED
    BY <1>2, <1>4, <2>1 DEF OrderInv, Control
<1>5. CASE StartThread \/ StartWakes \/ StartTimesOut \/ FinishReturns
  BY <1>4, <1>5 DEF StartThread, StartWakes, StartTimesOut, FinishReturns, sinkVars
<1>6. CASE Finish
  <2>1. queue' = Append(queue, Sentinel) /\ UNCHANGED <<pc, calls, snd, hand>>
    BY <1>6 DEF Finish, sinkVars
  <2>2. EventsIn(queue') = EventsIn(queue) /\ InOrder(queue')
    BY <1>1, <2>1, EventsAppended DEF OrderInv
  <2>3. QED
    BY <2>1, <2>2 DEF OrderInv
<1>7. ASSUME NEW t \in Threads, Sink(t)
      PROVE  OrderInv'
  <2>1. CASE SinkEnter(t)
    <3>1. /\ pc[t] = "idle" /\ pc' = [pc EXCEPT ![t] = "entered"]
          /\ calls' = [calls EXCEPT ![t] = @ + 1] /\ UNCHANGED <<queue, snd, hand>>
      BY <2>1 DEF SinkEnter
    <3>2. ASSUME NEW e \in Events, IssuedBefore(e, pc, calls)
          PROVE  IssuedBefore(e, pc', calls')
      <4>1. e[1] \in Threads /\ e[2] \in Nat /\ calls[t] \in Nat
        BY <1>1, <1>3
      <4>2. QED
        BY <1>1, <3>1, <3>2, <4>1 DEF IssuedBefore
    <3>3. QED
      BY <1>2, <3>1, <3>2 DEF OrderInv, Control
  <2>2. CASE SinkDrop(t) \/ SinkReserve(t)
    BY <1>1, <1>4, <2>2 DEF SinkDrop, SinkReserve
  <2>3. CASE SinkPut(t)
    <3> DEFINE e == <<t, calls[t]>>
    <3>1. /\ pc[t] = "reserved" /\ pc' = [pc EXCEPT ![t] = "idle"]
          /\ queue' = Append(queue, e) /\ UNCHANGED <<calls, snd, hand>>
      BY <2>3 DEF SinkPut
    <3>2. e \in Events /\ e[1] = t /\ e[2] = calls[t] /\ calls[t] \in Nat
      BY <1>1, <3>1 DEF TypeOK, Control, Events
    <3> HIDE DEF e
    <3>3. \A f \in EventsIn(queue) : f[1] = e[1] => f[2] < e[2]
      BY <1>2, <1>3, <3>1, <3>2 DEF OrderInv, IssuedBefore
    <3>4. EventsIn(queue') = EventsIn(queue) \cup {e} /\ InOrder(queue')
      BY <1>1, <3>1, <3>2, <3>3, EventsAppended DEF OrderInv
    <3>5. \A f \in Events : IssuedBefore(f, pc, calls) => IssuedBefore(f, pc', calls')
      BY <1>1, <1>3, <3>1 DEF IssuedBefore
    <3>6. IssuedBefore(e, pc', calls')
      BY <1>1, <3>1, <3>2 DEF IssuedBefore
    <3>7. snd = "sending" => hand \in Events /\ (e[1] = hand[1] => hand[2] < e[2])
      BY <1>3, <3>1, <3>2 DEF OrderInv, IssuedBefore, Control
    <3>8. QED
      BY <1>2, <3>1, <3>4, <3>5, <3>6, <3>7 DEF OrderInv
  <2>4. QED
    BY <1>7, <2>1, <2>2, <2>3 DEF Sink
<1>8. CASE Connect \/ ConnectFails \/ SendOk \/ CountSent \/ SendFails \/ EndOk \/ EndFails
  BY <1>4, <1>8 DEF Connect, ConnectFails, SendOk, CountSent, SendFails, EndOk, EndFails, sinkVars
<1>9. CASE Take \/ Flush
  <2>1. /\ queue # <<>> /\ queue' = Tail(queue) /\ UNCHANGED <<pc, calls>>
        /\ snd' = "sending" => Head(queue) # Sentinel /\ hand' = Head(queue)
    BY <1>9 DEF Take, Flush, sinkVars
  <2>2. /\ EventsIn(queue) = EventsIn(queue') \cup ({Head(queue)} \ {Sentinel})
        /\ InOrder(queue')
        /\ Head(queue) # Sentinel =>
             \A e \in EventsIn(queue') : e[1] = Head(queue)[1] => Head(queue)[2] < e[2]
    BY <1>1, <2>1, EventsTaken DEF OrderInv
  <2>3. QED
    BY <2>1, <2>2 DEF OrderInv
<1>10. CASE UNCHANGED vars
  BY <1>4, <1>10 DEF vars, sinkVars
<1>11. QED
  BY <1>5, <1>6, <1>7, <1>8, <1>9, <1>10 DEF Next, Main, Sender

\* What a message on the wire does to the delivered events.
LEMMA EventsOfStart == EventsOf(<<StartMsg>>) = <<>>
<1>1. Len(<<StartMsg>>) = 1 /\ <<StartMsg>>[1].kind = "start"
  BY DEF StartMsg
<1>2. EventsOf(<<StartMsg>>) = [i \in 1 .. 0 |-> <<StartMsg>>[i + 1].event]
  BY <1>1 DEF EventsOf
<1>3. QED
  BY <1>2

LEMMA EventsOfOpen ==
  ASSUME NEW w \in Seq(Messages), w # <<>>, w[Len(w)].kind # "end"
  PROVE  /\ EventsOf(w) = [i \in 1 .. Len(w) - 1 |-> w[i + 1].event]
         /\ EventsOf(w) \in Seq({w[i].event : i \in 1 .. Len(w)})
         /\ Len(EventsOf(w)) = Len(w) - 1 /\ Len(w) - 1 \in Nat
<1>1. Len(w) \in Nat \ {0}
  OBVIOUS
<1>2. EventsOf(w) = [i \in 1 .. Len(w) - 1 |-> w[i + 1].event]
  BY <1>1 DEF EventsOf
<1> DEFINE S == {w[i].event : i \in 1 .. Len(w)}
<1>3. Len(w) - 1 \in Nat /\ \A i \in 1 .. Len(w) - 1 : w[i + 1].event \in S
  BY <1>1
<1>4. EventsOf(w) \in [1 .. Len(w) - 1 -> S]
  BY <1>2, <1>3
<1>5. EventsOf(w) \in Seq(S)
  BY <1>3, <1>4, SeqDef
<1>6. Len(EventsOf(w)) = Len(w) - 1
  BY <1>3, <1>4, <1>5
<1>7. QED
  BY <1>2, <1>3, <1>5, <1>6

LEMMA EventsOfSent ==
  ASSUME NEW w \in Seq(Messages), w # <<>>, w[Len(w)].kind # "end", NEW e \in Events
  PROVE  EventsOf(Append(w, EventMsg(e))) = Append(EventsOf(w), e)
<1> DEFINE m == EventMsg(e)
           a == Append(w, m)
           S == {w[i].event : i \in 1 .. Len(w)} \cup {e}
<1>1. m \in Messages /\ m.kind = "event" /\ m.event = e
  BY MessageTypes DEF EventMsg
<1>2. /\ a \in Seq(Messages) /\ Len(a) = Len(w) + 1 /\ Len(w) \in Nat \ {0}
      /\ a[Len(w) + 1] = m /\ \A i \in 1 .. Len(w) : a[i] = w[i]
  BY <1>1
<1>3. /\ EventsOf(w) = [i \in 1 .. Len(w) - 1 |-> w[i + 1].event]
      /\ EventsOf(w) \in Seq(S) /\ Len(EventsOf(w)) = Len(w) - 1
  BY EventsOfOpen, SeqMonotonic
<1> HIDE DEF m, a
<1>4. EventsOf(a) = [i \in 1 .. Len(w) |-> a[i + 1].event]
  <2>1. a[Len(a)].kind # "end" /\ a # <<>> /\ Len(a) - 1 = Len(w)
    BY <1>1, <1>2
  <2>2. QED
    BY <1>2, <2>1, EventsOfOpen
<1> HIDE DEF S
<1>5. /\ Append(EventsOf(w), e) = [i \in 1 .. Len(w) |-> IF i = Len(w) THEN e ELSE EventsOf(w)[i]]
  <2>1. Len(EventsOf(w)) + 1 = Len(w)
    BY <1>2, <1>3
  <2>2. e \in S
    BY DEF S
  <2>3. QED
    BY <1>2, <1>3, <2>1, <2>2
<1>6. ASSUME NEW i \in 1 .. Len(w)
      PROVE  a[i + 1].event = IF i = Len(w) THEN e ELSE EventsOf(w)[i]
  <2>1. CASE i = Len(w)
    BY <1>1, <1>2, <2>1
  <2>2. CASE i # Len(w)
    <3>1. i \in 1 .. Len(w) - 1 /\ i + 1 \in 1 .. Len(w)
      BY <1>2, <2>2
    <3>2. QED
      BY <1>2, <1>3, <2>2, <3>1
  <2>3. QED
    BY <2>1, <2>2
<1>7. QED
  BY <1>4, <1>5, <1>6 DEF a, m

LEMMA EventsOfEnded ==
  ASSUME NEW w \in Seq(Messages), w # <<>>, w[Len(w)].kind # "end", NEW n \in Nat
  PROVE  EventsOf(Append(w, EndMsg(n))) = EventsOf(w)
<1> DEFINE m == EndMsg(n)
           a == Append(w, m)
<1>1. m \in Messages /\ m.kind = "end"
  BY MessageTypes DEF EndMsg
<1>2. /\ Len(a) = Len(w) + 1 /\ Len(w) \in Nat \ {0}
      /\ a[Len(w) + 1] = m /\ \A i \in 1 .. Len(w) : a[i] = w[i]
  BY <1>1
<1> HIDE DEF m, a
<1>3. EventsOf(a) = [i \in 1 .. Len(w) - 1 |-> a[i + 1].event]
  <2>1. a[Len(a)].kind = "end" /\ Len(a) - 1 - 1 = Len(w) - 1
    BY <1>1, <1>2
  <2>2. QED
    BY <2>1 DEF EventsOf
<1>4. EventsOf(w) = [i \in 1 .. Len(w) - 1 |-> w[i + 1].event]
  BY EventsOfOpen
<1>5. \A i \in 1 .. Len(w) - 1 : a[i + 1] = w[i + 1]
  BY <1>2
<1>6. QED
  BY <1>3, <1>4, <1>5 DEF a, m

LEMMA RefinesInit == Init => Abstract!Init
<1> SUFFICES ASSUME Init PROVE Abstract!Init
  OBVIOUS
<1>1. Undecided = {}
  BY DEF Init, Undecided
<1>2. QED
  BY <1>1 DEF Init, Abstract!Init, EndSent

\* Each step of the sender and its callers is one of the abstract stream, or a
\* stutter.
LEMMA RefinesNext ==
  SlotInv /\ TailInv /\ EndInv /\ OrderInv /\ [Next]_vars => [Abstract!Next]_(Abstract!evars)
<1> SUFFICES ASSUME SlotInv, TailInv, EndInv, OrderInv, [Next]_vars
             PROVE  Abstract!Next \/ UNCHANGED Abstract!evars
  OBVIOUS
<1>1. /\ TypeOK /\ Control /\ queue \in Seq(Events \cup {Sentinel}) /\ wire \in Seq(Messages)
      /\ calls \in [Threads -> 0 .. MaxCalls] /\ MaxCalls \in Nat /\ DOMAIN pc = Threads
      /\ sent \in Nat
  BY SenderAssumption DEF SlotInv, TypeOK
<1>2. /\ EventsIn(queue) \subseteq Events
      /\ \A t \in Threads : pc[t] # "idle" => <<t, calls[t]>> \notin EventsIn(queue) \cup InSend
      /\ snd = "sending" =>
           /\ hand \in Events
           /\ hand \notin InCalls(pc, calls) \cup EventsIn(queue)
           /\ \A f \in Undecided : f[1] = hand[1] => hand[2] <= f[2]
  BY <1>1, OnePlace
<1> DEFINE U == InCalls(pc, calls) \cup EventsIn(queue) \cup InSend
           V == InCalls(pc', calls') \cup EventsIn(queue') \cup InSend'
<1>3. Undecided = U /\ Undecided' = V
  BY DEF Undecided, InCalls, EventsIn, InSend
<1>4. ASSUME UNCHANGED <<calls, wire>>, V = U PROVE UNCHANGED Abstract!evars
  BY <1>3, <1>4 DEF Abstract!evars, EndSent
\* What the sender thread has put on the wire while it is at work.
<1>5. snd \in {"polling", "sending", "ending"} => wire # <<>> /\ wire[Len(wire)].kind # "end" /\ ~EndSent
  <2>1. ASSUME snd \in {"polling", "sending", "ending"} PROVE Len(wire) = sent + 1 /\ StillOpen
    BY <2>1 DEF EndInv, WireInv
  <2>2. QED
    BY <1>1, <2>1 DEF StillOpen, EndSent
<1>6. CASE StartThread \/ StartWakes \/ StartTimesOut \/ FinishReturns
  <2>1. UNCHANGED <<pc, calls, queue, wire>> /\ InSend' = InSend
    BY <1>1, <1>6 DEF StartThread, StartWakes, StartTimesOut, FinishReturns, sinkVars, InSend, Control
  <2>2. QED
    BY <1>4, <2>1
<1>7. CASE Finish
  <2>1. UNCHANGED <<pc, calls, snd, hand, wire>> /\ queue' = Append(queue, Sentinel)
    BY <1>7 DEF Finish, sinkVars
  <2>2. EventsIn(queue') = EventsIn(queue) /\ InSend' = InSend
    BY <1>1, <2>1, EventsAppended DEF InSend
  <2>3. QED
    BY <1>4, <2>1, <2>2
<1>8. ASSUME NEW t \in Threads, Sink(t)
      PROVE  Abstract!Next \/ UNCHANGED Abstract!evars
  <2>1. CASE SinkEnter(t)
    <3>1. /\ main = "running" /\ pc[t] = "idle" /\ pc' = [pc EXCEPT ![t] = "entered"]
          /\ calls' = [calls EXCEPT ![t] = @ + 1] /\ UNCHANGED <<queue, snd, hand, wire>>
      BY <2>1 DEF SinkEnter
    <3>2. InCalls(pc', calls') = InCalls(pc, calls) \cup {<<t, calls[t] + 1>>}
      BY <1>1, <3>1 DEF InCalls
    <3>3. V = U \cup {<<t, calls[t] + 1>>}
      BY <3>1, <3>2 DEF InSend
    <3>4. ~EndSent /\ ~EndSent'
      BY <3>1 DEF TailInv, Finished, EndSent
    <3>5. Abstract!Issue(t)
      BY <1>3, <3>1, <3>3, <3>4 DEF Abstract!Issue
    <3>6. QED
      BY <3>5 DEF Abstract!Next
  <2>2. CASE SinkDrop(t)
    <3> DEFINE e == <<t, calls[t]>>
    <3>1. /\ pc[t] = "entered" /\ pc' = [pc EXCEPT ![t] = "idle"]
          /\ UNCHANGED <<calls, queue, snd, hand, wire>>
      BY <2>2 DEF SinkDrop
    <3>2. e \in InCalls(pc, calls) /\ InCalls(pc', calls') = InCalls(pc, calls) \ {e}
      BY <1>1, <3>1 DEF InCalls
    <3>3. e \in U /\ V = U \ {e}
      BY <1>2, <3>1, <3>2 DEF InSend
    <3>4. Abstract!Discard(e) /\ e \in Undecided
      BY <1>3, <3>1, <3>3 DEF Abstract!Discard, EndSent
    <3>5. QED
      BY <3>4 DEF Abstract!Next
  <2>3. CASE SinkReserve(t)
    <3>1. /\ pc[t] = "entered" /\ pc' = [pc EXCEPT ![t] = "reserved"]
          /\ UNCHANGED <<calls, queue, snd, hand, wire>>
      BY <2>3 DEF SinkReserve
    <3>2. InCalls(pc', calls') = InCalls(pc, calls) /\ InSend' = InSend
      BY <1>1, <3>1 DEF InCalls, InSend
    <3>3. QED
      BY <1>4, <3>1, <3>2
  <2>4. CASE SinkPut(t)
    <3> DEFINE e == <<t, calls[t]>>
    <3>1. /\ pc[t] = "reserved" /\ pc' = [pc EXCEPT ![t] = "idle"]
          /\ queue' = Append(queue, e) /\ UNCHANGED <<calls, snd, hand, wire>>
      BY <2>4 DEF SinkPut
    <3>2. e \in Events /\ e # Sentinel
      BY <1>1, <3>1, SenderAssumption DEF TypeOK, Control, Events
    <3>3. InCalls(pc, calls) = InCalls(pc', calls') \cup {e}
      BY <1>1, <3>1 DEF InCalls
    <3>4. EventsIn(queue') = EventsIn(queue) \cup {e}
      BY <1>1, <3>1, <3>2, EventsAppended
    <3>5. QED
      BY <1>4, <3>1, <3>3, <3>4 DEF InSend
  <2>5. QED
    BY <1>8, <2>1, <2>2, <2>3, <2>4 DEF Sink
<1>9. CASE Connect
  <2>1. wire = <<>> /\ wire' = <<StartMsg>> /\ UNCHANGED <<pc, calls, queue>> /\ InSend' = InSend
    BY <1>9 DEF Connect, sinkVars, EndInv, WireInv, InSend
  <2>2. V = U
    BY <2>1
  <2>3. ~EndSent /\ ~EndSent' /\ wire' # <<>>
    BY <2>1 DEF EndSent, StartMsg
  <2>4. QED
    BY <1>3, <2>1, <2>2, <2>3, EventsOfStart DEF Abstract!evars
<1>10. CASE ConnectFails \/ CountSent \/ EndFails
  <2>1. UNCHANGED <<pc, calls, queue, wire>> /\ InSend' = InSend
    BY <1>10 DEF ConnectFails, CountSent, EndFails, sinkVars, InSend
  <2>2. QED
    BY <1>4, <2>1
<1>11. CASE Take
  <2>1. /\ queue # <<>> /\ queue' = Tail(queue) /\ UNCHANGED <<pc, calls, wire>> /\ snd = "polling"
        /\ IF Head(queue) = Sentinel THEN snd' = "ending" ELSE snd' = "sending" /\ hand' = Head(queue)
    BY <1>11 DEF Take, sinkVars
  <2>2. EventsIn(queue) = EventsIn(queue') \cup ({Head(queue)} \ {Sentinel})
    BY <1>1, <2>1, EventsTaken DEF OrderInv
  <2>3. InSend = {} /\ InSend' = {Head(queue)} \ {Sentinel}
    BY <2>1 DEF InSend
  <2>4. QED
    BY <1>4, <2>1, <2>2, <2>3
<1>12. CASE SendOk
  <2>1. /\ snd = "sending" /\ snd' = "counting" /\ wire' = Append(wire, EventMsg(hand))
        /\ UNCHANGED <<pc, calls, queue>>
    BY <1>12 DEF SendOk, sinkVars
  <2>2. hand \in U /\ V = U \ {hand}
    BY <1>2, <2>1 DEF InSend
  <2>3. EventsOf(wire') = Append(EventsOf(wire), hand) /\ wire' # <<>>
    BY <1>1, <1>2, <1>5, <2>1, EventsOfSent
  <2>4. wire'[Len(wire')].kind # "end"
    <3>1. EventMsg(hand) \in Messages /\ EventMsg(hand).kind # "end"
      BY <1>2, <2>1, MessageTypes DEF EventMsg
    <3>2. QED
      BY <1>1, <2>1, <3>1
  <2>5. ~EndSent /\ ~EndSent' /\ wire # <<>>
    BY <1>5, <2>1, <2>4 DEF EndSent
  <2>6. Abstract!Deliver(hand) /\ hand \in Undecided
    BY <1>2, <1>3, <2>1, <2>2, <2>3, <2>5 DEF Abstract!Deliver
  <2>7. QED
    BY <2>6 DEF Abstract!Next
<1>13. CASE SendFails
  <2>1. snd = "sending" /\ snd' = "flushing" /\ UNCHANGED <<pc, calls, queue, wire>>
    BY <1>13 DEF SendFails, sinkVars
  <2>2. hand \in U /\ V = U \ {hand}
    BY <1>2, <2>1 DEF InSend
  <2>3. Abstract!Discard(hand) /\ hand \in Undecided
    BY <1>3, <2>1, <2>2 DEF Abstract!Discard, EndSent
  <2>4. QED
    BY <2>3 DEF Abstract!Next
<1>14. CASE Flush
  <2>1. /\ queue # <<>> /\ queue' = Tail(queue) /\ UNCHANGED <<pc, calls, wire>>
        /\ snd = "flushing" /\ snd' # "sending"
    BY <1>14 DEF Flush, sinkVars
  <2> DEFINE h == Head(queue)
  <2>2. /\ EventsIn(queue) = EventsIn(queue') \cup ({h} \ {Sentinel})
        /\ h # Sentinel => h \in Events /\ \A e \in EventsIn(queue') : e[1] = h[1] => h[2] < e[2]
    BY <1>1, <2>1, EventsTaken DEF OrderInv
  <2>3. InSend = {} /\ InSend' = {}
    BY <2>1 DEF InSend
  <2> HIDE DEF h
  <2>4. CASE h = Sentinel
    BY <1>4, <2>1, <2>2, <2>3, <2>4
  <2>5. CASE h # Sentinel
    <3>1. h \notin EventsIn(queue')
      BY <1>1, <2>2, <2>5 DEF Events
    <3>2. h \notin InCalls(pc, calls)
      BY <1>2, <2>2, <2>5 DEF InCalls
    <3>3. h \in U /\ V = U \ {h}
      BY <2>1, <2>2, <2>3, <2>5, <3>1, <3>2
    <3>4. Abstract!Discard(h) /\ h \in Undecided
      BY <1>3, <2>1, <3>3 DEF Abstract!Discard, EndSent
    <3>5. QED
      BY <3>4 DEF Abstract!Next
  <2>6. QED
    BY <2>4, <2>5
<1>15. CASE EndOk
  <2>1. /\ snd = "ending" /\ snd' = "exited" /\ wire' = Append(wire, EndMsg(sent))
        /\ UNCHANGED <<pc, calls, queue>>
    BY <1>15 DEF EndOk, sinkVars
  <2>2. V = U
    BY <2>1 DEF InSend
  <2>3. /\ EventsOf(wire') = EventsOf(wire) /\ Len(EventsOf(wire)) = Len(wire) - 1
        /\ wire # <<>> /\ ~EndSent
    BY <1>1, <1>5, <2>1, EventsOfEnded, EventsOfOpen
  <2>4. wire'[Len(wire')] = EndMsg(sent) /\ wire' # <<>>
    <3>1. EndMsg(sent) \in Messages
      BY <1>1, MessageTypes
    <3>2. QED
      BY <1>1, <2>1, <3>1
  <2>5. EndSent' /\ wire'[Len(wire')].count = sent /\ Len(wire) = sent + 1
    BY <2>1, <2>4 DEF EndSent, EndMsg, EndInv, WireInv
  <2>6. Len(EventsOf(wire)) = sent
    BY <1>1, <2>3, <2>5
  <2>7. Abstract!Close
    BY <1>3, <2>1, <2>2, <2>3, <2>4, <2>5, <2>6 DEF Abstract!Close
  <2>8. QED
    BY <2>7 DEF Abstract!Next
<1>16. CASE UNCHANGED vars
  BY <1>4, <1>16 DEF vars, sinkVars, InSend
<1>17. QED
  BY <1>6, <1>7, <1>8, <1>9, <1>10, <1>11, <1>12, <1>13, <1>14, <1>15, <1>16 DEF Next, Main, Sender

LEMMA OrderInvariant == Spec => [](TailInv /\ OrderInv)
<1>1. SlotInv => TypeOK /\ Control
  BY DEF SlotInv
<1>2. QED
  BY <1>1, SlotInvariant, TailInvInit, TailInvNext, OrderInvInit, OrderInvNext, PTL DEF Spec

\* The stream of the sender is one the abstract stream allows, for any threads,
\* cap and calls: at most once, in order thread by thread, closed once by the
\* count of what was delivered.
THEOREM SenderImplementsStream == Spec => ImplementsEventStream
<1>1. QED
  BY RefinesInit, RefinesNext, SlotInvariant, EndInvariant, OrderInvariant, PTL
     DEF Spec, Abstract!Spec, ImplementsEventStream
=============================================================================

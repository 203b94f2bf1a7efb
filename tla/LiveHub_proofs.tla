---------------------------- MODULE LiveHub_proofs ----------------------------
(***************************************************************************)
(* Proof that a flushed client missed nothing, for any clients, ring cap    *)
(* and age trim.  The handlers of the server interleave at every send: what *)
(* a client was not sent is then in its copy of the ring or being broadcast. *)
(***************************************************************************)
EXTENDS LiveHub, SequenceTheorems, TLAPS

TypeInv ==
    /\ DOMAIN pc = Clients
    /\ open \subseteq Clients /\ connections \subseteq Clients
    /\ taken \in [Producers -> 0 .. MaxMsgs]
    /\ ring \in Seq(Messages) /\ log \in Seq(Messages)
    /\ history \in [Clients -> Seq(Messages)]
    /\ fanout \in [Producers -> SUBSET Clients]
    /\ \A p \in Producers : fanout[p] # {} => taken[p] > 0
    /\ wire \in [Clients -> Seq(Messages \cup {Graph})]
    /\ joined \in [Clients -> Nat]

\* Who is open has been registered, and is until its handler ends.
RegisteredInv ==
    /\ \A c \in open : pc[c] # "away"
    /\ \A c \in Clients : pc[c] \in {"graph", "flush", "receive"} => c \in connections
    /\ \A c \in Clients : pc[c] = "receive" => history[c] = <<>>

\* The ring is the end of the log.
RingInv ==
    /\ Len(ring) <= Len(log)
    /\ \A i \in 1 .. Len(ring) : ring[i] = log[Len(log) - Len(ring) + i]

Holds(s, m) == \E i \in 1 .. Len(s) : s[i] = m
OnItsWay(last, sends, c, m) == m.n = last[m.from] /\ c \in sends[m.from]

\* What a client lacks is its own, in its copy of the ring, or being broadcast.
MissInv ==
    \A c \in open : pc[c] \in {"flush", "receive"} =>
      \A i \in joined[c] + 1 .. Len(log) :
        \/ log[i].from = c
        \/ Holds(wire[c], log[i])
        \/ OnItsWay(taken, fanout, c, log[i])
        \/ Holds(history[c], log[i])

HubInv == TypeInv /\ RegisteredInv /\ RingInv /\ MissInv

LEMMA InitInv == ASSUME Init PROVE HubInv
<1>1. TypeInv
  <2>1. <<>> \in Seq(Messages) /\ <<>> \in Seq(Messages \cup {Graph})
    OBVIOUS
  <2>2. 0 \in 0 .. MaxMsgs
    BY HubAssumption
  <2> QED BY <2>1, <2>2 DEF Init, TypeInv
<1>2. RegisteredInv /\ RingInv /\ MissInv
  BY DEF Init, RegisteredInv, RingInv, MissInv
<1> QED BY <1>1, <1>2 DEF HubInv

\* A send appends to one client's wire, if that is still open.
LEMMA SendAppends ==
    ASSUME TypeInv, NEW c \in Clients, NEW r \in Clients,
           NEW item \in Messages \cup {Graph}, SendTo(c, r, item)
    PROVE  /\ wire' \in [Clients -> Seq(Messages \cup {Graph})]
           /\ \A d \in Clients : \A m : Holds(wire[d], m) => Holds(wire'[d], m)
           /\ r \in open => Holds(wire'[r], item)
<1>1. CASE r \in open
  <2>1. wire' = [wire EXCEPT ![r] = Append(@, item)]
    BY <1>1 DEF SendTo
  <2>2. wire \in [Clients -> Seq(Messages \cup {Graph})]
    BY DEF TypeInv
  <2> DEFINE w == wire[r]
  <2>3. /\ w \in Seq(Messages \cup {Graph}) /\ wire'[r] = Append(w, item)
        /\ \A d \in Clients \ {r} : wire'[d] = wire[d]
        /\ wire' \in [Clients -> Seq(Messages \cup {Graph})]
    BY <2>1, <2>2
  <2>4. /\ Len(wire'[r]) = Len(w) + 1 /\ wire'[r][Len(w) + 1] = item
        /\ \A i \in 1 .. Len(w) : wire'[r][i] = w[i]
        /\ Len(w) \in Nat
    BY <2>3
  <2>5. \A m : Holds(wire[r], m) => Holds(wire'[r], m)
    BY <2>4 DEF Holds
  <2>6. \A d \in Clients \ {r} : \A m : Holds(wire[d], m) => Holds(wire'[d], m)
    BY <2>3 DEF Holds
  <2>7. Holds(wire'[r], item)
    BY <2>4 DEF Holds
  <2> QED BY <2>3, <2>5, <2>6, <2>7
<1>2. CASE r \notin open
  BY <1>2 DEF SendTo, TypeInv, Holds
<1> QED BY <1>1, <1>2

\* Graph, log and broadcasts are as they were; no client was flushed or opened.
LEMMA PeersKeep == ASSUME HubInv, NEW c \in Clients, Connect(c) \/ Close(c) \/ Stall(c) PROVE HubInv'
<1>1. CASE Connect(c)
  <2>1. /\ pc' = [pc EXCEPT ![c] = "graph"] /\ open' = open \cup {c}
        /\ connections' = connections \cup {c} /\ wire' = [wire EXCEPT ![c] = Append(@, Graph)]
        /\ UNCHANGED <<ring, taken, history, fanout, log, joined>>
    BY <1>1 DEF Connect, history_vars
  <2>2. TypeInv'
    BY <2>1 DEF HubInv, TypeInv
  <2>3. RegisteredInv' /\ RingInv'
    BY <2>1 DEF HubInv, TypeInv, RegisteredInv, RingInv
  <2>4. \A d \in Clients \ {c} : \A m :
          /\ Holds(wire[d], m) => Holds(wire'[d], m)
          /\ Holds(history[d], m) => Holds(history'[d], m)
          /\ OnItsWay(taken, fanout, d, m) => OnItsWay(taken', fanout', d, m)
    BY <2>1 DEF Holds, OnItsWay, HubInv, TypeInv
  <2>5. MissInv'
    <3> SUFFICES ASSUME NEW d \in open', pc'[d] \in {"flush", "receive"},
                        NEW i \in joined'[d] + 1 .. Len(log')
                 PROVE  \/ log'[i].from = d \/ Holds(wire'[d], log'[i])
                        \/ OnItsWay(taken', fanout', d, log'[i]) \/ Holds(history'[d], log'[i])
      BY DEF MissInv
    <3>1. d \in open /\ d # c /\ pc[d] \in {"flush", "receive"}
      BY <2>1 DEF HubInv, TypeInv
    <3> QED BY <2>1, <2>4, <3>1 DEF HubInv, MissInv
  <2> QED BY <2>2, <2>3, <2>5 DEF HubInv
<1>2. CASE Close(c) \/ Stall(c)
  <2>1. open' \subseteq open
        /\ UNCHANGED <<pc, connections, ring, taken, history, fanout, wire, log, joined>>
    BY <1>2 DEF Close, Stall, history_vars
  <2>2. TypeInv' /\ RegisteredInv' /\ RingInv'
    BY <2>1 DEF HubInv, TypeInv, RegisteredInv, RingInv
  <2>3. MissInv'
    BY <2>1 DEF HubInv, MissInv
  <2> QED BY <2>2, <2>3 DEF HubInv
<1> QED BY <1>1, <1>2

LEMMA StartFlushKeeps == ASSUME HubInv, NEW c \in Clients, StartFlush(c) PROVE HubInv'
<1>1. /\ pc[c] = "graph" /\ pc' = [pc EXCEPT ![c] = "flush"]
      /\ history' = [history EXCEPT ![c] = ring]
      /\ joined' = [joined EXCEPT ![c] = Len(log) - Len(ring)]
      /\ UNCHANGED <<open, connections, ring, taken, fanout, wire, log>>
  BY DEF StartFlush
<1>2. Len(log) \in Nat /\ Len(ring) \in Nat /\ Len(log) - Len(ring) \in Nat
  BY DEF HubInv, TypeInv, RingInv
<1>3. TypeInv' /\ RegisteredInv' /\ RingInv'
  BY <1>1, <1>2 DEF HubInv, TypeInv, RegisteredInv, RingInv
<1>4. ASSUME NEW i \in joined'[c] + 1 .. Len(log)
      PROVE  Holds(history'[c], log[i])
  <2>1. joined'[c] = Len(log) - Len(ring) /\ history'[c] = ring
    BY <1>1 DEF HubInv, TypeInv
  <2> DEFINE j == i - joined'[c]
  <2>2. j \in 1 .. Len(ring) /\ i = Len(log) - Len(ring) + j
    BY <1>2, <2>1
  <2>3. ring[j] = log[i]
    BY <2>2 DEF HubInv, RingInv
  <2> QED BY <1>1, <2>1, <2>2, <2>3 DEF Holds
<1>5. MissInv'
  <2> SUFFICES ASSUME NEW d \in open', pc'[d] \in {"flush", "receive"},
                      NEW i \in joined'[d] + 1 .. Len(log')
               PROVE  \/ log'[i].from = d \/ Holds(wire'[d], log'[i])
                      \/ OnItsWay(taken', fanout', d, log'[i]) \/ Holds(history'[d], log'[i])
    BY DEF MissInv
  <2>1. CASE d = c
    BY <1>1, <1>4, <2>1
  <2>2. CASE d # c
    BY <1>1, <2>2 DEF HubInv, MissInv, TypeInv, Holds, OnItsWay
  <2> QED BY <2>1, <2>2
<1> QED BY <1>3, <1>5 DEF HubInv

LEMMA FlushOneKeeps == ASSUME HubInv, NEW c \in Clients, FlushOne(c) PROVE HubInv'
<1> DEFINE h == history[c]
<1>1. /\ h # <<>> /\ h \in Seq(Messages) /\ pc[c] = "flush" /\ SendTo(c, c, Head(h))
      /\ history' = [history EXCEPT ![c] = IF c \in open THEN Tail(h) ELSE <<>>]
      /\ UNCHANGED <<pc, open, connections, ring, taken, fanout, log, joined>>
  BY DEF FlushOne, HubInv, TypeInv, history_vars
<1>2. Head(h) \in Messages /\ Tail(h) \in Seq(Messages)
      /\ Head(h) = h[1] /\ Len(Tail(h)) = Len(h) - 1 /\ Len(h) \in Nat
      /\ \A j \in 1 .. Len(h) - 1 : Tail(h)[j] = h[j + 1]
  BY <1>1
<1>3. /\ wire' \in [Clients -> Seq(Messages \cup {Graph})]
      /\ \A d \in Clients : \A m : Holds(wire[d], m) => Holds(wire'[d], m)
      /\ c \in open => Holds(wire'[c], h[1])
  BY <1>1, <1>2, SendAppends DEF HubInv
<1>4. TypeInv' /\ RegisteredInv' /\ RingInv'
  <2>1. history' \in [Clients -> Seq(Messages)]
    <3>1. history \in [Clients -> Seq(Messages)] /\ <<>> \in Seq(Messages)
      BY DEF HubInv, TypeInv
    <3> QED BY <1>1, <1>2, <3>1
  <2>2. TypeInv'
    BY <1>1, <1>3, <2>1 DEF HubInv, TypeInv
  <2>3. RegisteredInv' /\ RingInv'
    BY <1>1 DEF HubInv, TypeInv, RegisteredInv, RingInv
  <2> QED BY <2>2, <2>3
<1>5. ASSUME c \in open, NEW m, Holds(history[c], m) PROVE Holds(wire'[c], m) \/ Holds(history'[c], m)
  <2>1. PICK j \in 1 .. Len(h) : h[j] = m
    BY <1>5 DEF Holds
  <2>2. history'[c] = Tail(h)
    BY <1>1, <1>5 DEF HubInv, TypeInv
  <2>3. CASE j = 1
    BY <1>3, <1>5, <2>1, <2>3
  <2>4. CASE j # 1
    <3>1. j - 1 \in 1 .. Len(Tail(h)) /\ Tail(h)[j - 1] = m
      BY <1>2, <2>1, <2>4
    <3> QED BY <2>2, <3>1 DEF Holds
  <2> QED BY <2>3, <2>4
<1>6. ASSUME NEW d \in Clients \ {c}, NEW m, Holds(history[d], m) PROVE Holds(history'[d], m)
  BY <1>1, <1>6 DEF Holds, HubInv, TypeInv
<1>7. MissInv'
  <2> SUFFICES ASSUME NEW d \in open', pc'[d] \in {"flush", "receive"},
                      NEW i \in joined'[d] + 1 .. Len(log')
               PROVE  \/ log'[i].from = d \/ Holds(wire'[d], log'[i])
                      \/ OnItsWay(taken', fanout', d, log'[i]) \/ Holds(history'[d], log'[i])
    BY DEF MissInv
  <2>1. d \in Clients /\ d \in open
    BY <1>1 DEF HubInv, TypeInv, RegisteredInv
  <2>2. \/ log[i].from = d \/ Holds(wire[d], log[i])
        \/ OnItsWay(taken, fanout, d, log[i]) \/ Holds(history[d], log[i])
    BY <1>1 DEF HubInv, MissInv
  <2>3. OnItsWay(taken, fanout, d, log[i]) => OnItsWay(taken', fanout', d, log[i])
    BY <1>1 DEF OnItsWay
  <2> QED BY <1>1, <1>3, <1>5, <1>6, <2>1, <2>2, <2>3
<1> QED BY <1>4, <1>7 DEF HubInv

\* Its copy of the ring is empty: nothing has to be found there.
LEMMA FlushDoneKeeps == ASSUME HubInv, NEW c \in Clients, FlushDone(c) \/ Leave(c) PROVE HubInv'
<1>1. /\ pc' = [pc EXCEPT ![c] = "receive"] \/ (pc' = [pc EXCEPT ![c] = "gone"] /\ c \notin open)
      /\ pc'[c] = "receive" => pc[c] = "flush" /\ history[c] = <<>> /\ connections' = connections
      /\ connections \ {c} \subseteq connections' /\ connections' \subseteq connections
      /\ UNCHANGED <<open, ring, taken, history, fanout, wire, log, joined>>
  BY DEF FlushDone, Leave, history_vars, HubInv, TypeInv
<1>2. TypeInv' /\ RingInv'
  BY <1>1 DEF HubInv, TypeInv, RingInv
<1>3. RegisteredInv'
  BY <1>1 DEF HubInv, TypeInv, RegisteredInv
<1>4. MissInv'
  <2> SUFFICES ASSUME NEW d \in open, pc'[d] \in {"flush", "receive"}
               PROVE  pc[d] \in {"flush", "receive"}
    BY <1>1 DEF HubInv, MissInv
  <2>1. d \in Clients /\ DOMAIN pc = Clients
    BY DEF HubInv, TypeInv
  <2> QED BY <1>1, <2>1
<1> QED BY <1>2, <1>3, <1>4 DEF HubInv

\* The producer's last message has reached whom it had to: its broadcast is over.
LEMMA IngestKeeps == ASSUME HubInv, NEW p \in Producers, Ingest(p) PROVE HubInv'
<1> DEFINE msg == [from |-> p, n |-> taken[p] + 1]
           r == Append(ring, msg)
<1>1. /\ pc[p] = "receive" /\ fanout[p] = {} /\ taken[p] < MaxMsgs
      /\ log' = Append(log, msg) /\ taken' = [taken EXCEPT ![p] = @ + 1]
      /\ fanout' = [fanout EXCEPT ![p] = connections \ {p}]
      /\ UNCHANGED <<pc, open, connections, history, wire, joined>>
  BY DEF Ingest, Idle
<1>2. taken[p] \in Nat /\ msg \in Messages /\ r \in Seq(Messages) /\ log' \in Seq(Messages)
      /\ MaxMsgs \in Nat
  BY <1>1, HubAssumption DEF HubInv, TypeInv, Messages
<1>3. PICK k \in 1 .. Len(r) : ring' = SubSeq(r, k, Len(r))
  BY DEF Ingest, Kept
<1>4. /\ Len(log') = Len(log) + 1 /\ Len(log) \in Nat
      /\ \A i \in 1 .. Len(log) : log'[i] = log[i]
      /\ log'[Len(log) + 1] = msg
  BY <1>1, <1>2 DEF HubInv, TypeInv
<1>5. /\ Len(r) = Len(ring) + 1 /\ Len(ring) \in Nat
      /\ \A i \in 1 .. Len(ring) : r[i] = ring[i]
      /\ r[Len(ring) + 1] = msg
  BY <1>2 DEF HubInv, TypeInv
<1> HIDE DEF r
<1>6. /\ ring' \in Seq(Messages) /\ Len(ring') = Len(r) - k + 1
      /\ \A i \in 1 .. Len(r) - k + 1 : ring'[i] = r[k + i - 1]
  <2>1. Len(r) \in Nat /\ k \in 1 .. Len(r) /\ r \in Seq(Messages)
    BY <1>2
  <2>2. \A i \in k .. Len(r) : r[i] \in Messages
    BY <2>1
  <2>3. /\ SubSeq(r, k, Len(r)) \in Seq(Messages)
        /\ Len(SubSeq(r, k, Len(r))) = Len(r) - k + 1
        /\ \A i \in 1 .. Len(r) - k + 1 : SubSeq(r, k, Len(r))[i] = r[k + i - 1]
    BY <2>1, <2>2, SubSeqProperties
  <2> QED BY <1>3, <2>3
<1>7. TypeInv'
  <2>1. /\ taken' \in [Producers -> 0 .. MaxMsgs] /\ fanout' \in [Producers -> SUBSET Clients]
        /\ \A q \in Producers : fanout'[q] # {} => taken'[q] > 0
    BY <1>1, <1>2 DEF HubInv, TypeInv
  <2> QED BY <1>1, <1>2, <1>6, <2>1 DEF HubInv, TypeInv
<1>8. RegisteredInv'
  BY <1>1 DEF HubInv, RegisteredInv
<1>9. RingInv'
  <2>1. Len(ring') <= Len(log')
    BY <1>3, <1>4, <1>5, <1>6 DEF HubInv, RingInv
  <2>2. ASSUME NEW i \in 1 .. Len(ring')
        PROVE  ring'[i] = log'[Len(log') - Len(ring') + i]
    <3> DEFINE j == k + i - 1
    <3>1. ring'[i] = r[j] /\ j \in 1 .. Len(ring) + 1
          /\ Len(log') - Len(ring') + i = Len(log) - Len(ring) + j
      BY <1>3, <1>4, <1>5, <1>6
    <3>2. CASE j = Len(ring) + 1
      BY <1>4, <1>5, <3>1, <3>2
    <3>3. CASE j # Len(ring) + 1
      <4>1. j \in 1 .. Len(ring) /\ Len(log) - Len(ring) + j \in 1 .. Len(log)
        BY <1>4, <1>5, <3>1, <3>3 DEF HubInv, RingInv
      <4>2. r[j] = ring[j] /\ ring[j] = log[Len(log) - Len(ring) + j]
        BY <1>5, <4>1 DEF HubInv, RingInv
      <4> QED BY <1>4, <3>1, <4>1, <4>2
    <3> QED BY <3>2, <3>3
  <2> QED BY <2>1, <2>2 DEF RingInv
<1>10. MissInv'
  <2> SUFFICES ASSUME NEW d \in open', pc'[d] \in {"flush", "receive"},
                      NEW i \in joined'[d] + 1 .. Len(log')
               PROVE  \/ log'[i].from = d \/ Holds(wire'[d], log'[i])
                      \/ OnItsWay(taken', fanout', d, log'[i]) \/ Holds(history'[d], log'[i])
    BY DEF MissInv
  <2>0. d \in Clients /\ d \in connections /\ d \in open /\ joined[d] \in Nat
        /\ joined'[d] = joined[d]
    BY <1>1 DEF HubInv, TypeInv, RegisteredInv
  <2>1. CASE i = Len(log) + 1
    <3>1. log'[i] = msg /\ msg.from = p /\ msg.n = taken'[p]
      BY <1>1, <1>2, <1>4, <2>1 DEF HubInv, TypeInv
    <3>2. d # p => d \in fanout'[p]
      BY <1>1, <2>0 DEF HubInv, TypeInv
    <3> QED BY <3>1, <3>2 DEF OnItsWay
  <2>2. CASE i # Len(log) + 1
    <3>1. i \in joined[d] + 1 .. Len(log) /\ i \in 1 .. Len(log)
      BY <1>4, <2>0, <2>2
    <3>2. log'[i] = log[i] /\ log[i] \in Messages
      BY <1>4, <3>1 DEF HubInv, TypeInv
    <3>3. \/ log[i].from = d \/ Holds(wire[d], log[i])
          \/ OnItsWay(taken, fanout, d, log[i]) \/ Holds(history[d], log[i])
      BY <1>1, <2>0, <3>1 DEF HubInv, MissInv
    <3>4. Holds(wire[d], log[i]) => Holds(wire'[d], log[i])
      BY <1>1, <3>2 DEF Holds
    <3>5. Holds(history[d], log[i]) => Holds(history'[d], log[i])
      BY <1>1, <3>2 DEF Holds
    <3>6. OnItsWay(taken, fanout, d, log[i]) => OnItsWay(taken', fanout', d, log[i])
      <4>1. log[i].from \in Producers
        BY <3>2 DEF Messages
      <4>2. OnItsWay(taken, fanout, d, log[i]) => log[i].from # p
        BY <1>1 DEF OnItsWay
      <4> QED BY <1>1, <3>2, <4>1, <4>2 DEF OnItsWay, HubInv, TypeInv
    <3> QED BY <3>2, <3>3, <3>4, <3>5, <3>6
  <2> QED BY <2>1, <2>2
<1> QED BY <1>7, <1>8, <1>9, <1>10 DEF HubInv

LEMMA FanOutKeeps == ASSUME HubInv, NEW p \in Producers, FanOut(p) PROVE HubInv'
<1> DEFINE msg == [from |-> p, n |-> taken[p]]
<1>1. PICK r \in fanout[p] : /\ SendTo(p, r, msg)
                             /\ fanout' = [fanout EXCEPT ![p] = @ \ {r}]
  BY DEF FanOut
<1>2. UNCHANGED <<pc, open, connections, ring, taken, history, log, joined>>
  BY DEF FanOut, history_vars
<1>3. r \in Clients /\ p \in Clients /\ msg \in Messages /\ msg.from = p /\ msg.n = taken[p]
  <2>1. taken[p] \in 0 .. MaxMsgs /\ fanout[p] \subseteq Clients /\ taken[p] > 0
    BY <1>1 DEF HubInv, TypeInv
  <2>2. taken[p] \in 1 .. MaxMsgs
    BY HubAssumption, <2>1
  <2> QED BY <1>1, <2>1, <2>2 DEF Messages, Clients
<1>4. /\ wire' \in [Clients -> Seq(Messages \cup {Graph})]
      /\ \A d \in Clients : \A m : Holds(wire[d], m) => Holds(wire'[d], m)
      /\ r \in open => Holds(wire'[r], msg)
  BY <1>1, <1>3, SendAppends DEF HubInv
<1>5. TypeInv'
  BY <1>1, <1>2, <1>3, <1>4 DEF HubInv, TypeInv
<1>6. RegisteredInv' /\ RingInv'
  BY <1>2 DEF HubInv, RegisteredInv, RingInv
<1>7. MissInv'
  <2> SUFFICES ASSUME NEW d \in open', pc'[d] \in {"flush", "receive"},
                      NEW i \in joined'[d] + 1 .. Len(log')
               PROVE  \/ log'[i].from = d \/ Holds(wire'[d], log'[i])
                      \/ OnItsWay(taken', fanout', d, log'[i]) \/ Holds(history'[d], log'[i])
    BY DEF MissInv
  <2>1. d \in Clients /\ d \in open /\ joined[d] \in Nat /\ log'[i] = log[i]
    BY <1>2 DEF HubInv, TypeInv
  <2>2. log[i] \in Messages
    BY <1>2, <2>1 DEF HubInv, TypeInv
  <2>3. \/ log[i].from = d \/ Holds(wire[d], log[i])
        \/ OnItsWay(taken, fanout, d, log[i]) \/ Holds(history[d], log[i])
    BY <1>2 DEF HubInv, MissInv
  <2>4. OnItsWay(taken, fanout, d, log[i]) => Holds(wire'[d], log[i]) \/ OnItsWay(taken', fanout', d, log[i])
    <3>1. CASE log[i].from = p /\ d = r
      <4>1. OnItsWay(taken, fanout, d, log[i]) => log[i] = msg
        BY <1>3, <2>2, <3>1 DEF OnItsWay, Messages
      <4> QED BY <1>4, <2>1, <3>1, <4>1
    <3>2. CASE ~(log[i].from = p /\ d = r)
      <4>1. log[i].from \in Producers
        BY <2>2 DEF Messages
      <4> QED BY <1>1, <1>2, <3>2, <4>1 DEF OnItsWay, HubInv, TypeInv
    <3> QED BY <3>1, <3>2
  <2>5. Holds(history[d], log[i]) => Holds(history'[d], log[i])
    BY <1>2 DEF Holds
  <2> QED BY <1>4, <2>1, <2>3, <2>4, <2>5
<1> QED BY <1>5, <1>6, <1>7 DEF HubInv

LEMMA NextInv == ASSUME HubInv, [Next]_vars PROVE HubInv'
<1>1. ASSUME NEW c \in Clients, Task(c) \/ Peer(c) PROVE HubInv'
  BY <1>1, PeersKeep, StartFlushKeeps, FlushOneKeeps, FlushDoneKeeps, IngestKeeps, FanOutKeeps
     DEF Task, Peer
<1>2. CASE UNCHANGED vars
  BY <1>2 DEF vars, history_vars, HubInv, TypeInv, RegisteredInv, RingInv, MissInv, Holds, OnItsWay
<1> QED BY <1>1, <1>2 DEF Next

\* Nothing a client had not been sent when it connected, and nothing ingested
\* later, is missing at a client that has been flushed: the handlers hand the
\* ring and the broadcasts over to each other without a gap.
THEOREM FlushedClientsMissNothing == Spec => []NothingMissed
<1>1. HubInv => NothingMissed
  <2> SUFFICES ASSUME HubInv, NEW c \in open, pc[c] = "receive",
                      NEW i \in joined[c] + 1 .. Len(log)
               PROVE  \/ log[i].from = c \/ Holds(wire[c], log[i])
                      \/ log[i].n = taken[log[i].from] /\ c \in fanout[log[i].from]
    BY DEF NothingMissed, SentTo, Holds
  <2>1. c \in Clients
    BY DEF HubInv, TypeInv
  <2>2. ~Holds(history[c], log[i])
    BY <2>1 DEF HubInv, RegisteredInv, Holds
  <2> QED BY <2>2 DEF HubInv, MissInv, OnItsWay
<1> QED BY <1>1, InitInv, NextInv, PTL DEF Spec

(***************************************************************************)
(* The order of the live part.  A message is counted before it is sent, and  *)
(* its producer's broadcast sends it to a client once.                       *)
(***************************************************************************)
Counted(m, last) == m \in Messages => m.n <= last[m.from]

CountedInv ==
    /\ \A i \in 1 .. Len(log) : Counted(log[i], taken)
    /\ \A i \in 1 .. Len(ring) : Counted(ring[i], taken)
    /\ \A c \in Clients : \A i \in 1 .. Len(history[c]) : Counted(history[c][i], taken)
    /\ \A c \in Clients : \A i \in 1 .. Len(wire[c]) : Counted(wire[c][i], taken)

\* m is one of the entries of log l after the first k.
After(l, k, m) == \E i \in k + 1 .. Len(l) : l[i] = m

\* What is late and on the wire is older than what is still to be sent.
SentInv ==
    \A c \in Clients : pc[c] = "receive" =>
      \A i \in 1 .. Len(wire[c]) :
        LET m == wire[c][i] IN
        After(log, live[c], m) =>
          /\ c \in fanout[m.from] => m.n < taken[m.from]
          /\ \A j \in 1 .. Len(wire[c]) :
               i < j /\ After(log, live[c], wire[c][j]) /\ wire[c][j].from = m.from
                 => m.n < wire[c][j].n

OrderInv == live \in [Clients -> Nat] /\ CountedInv /\ SentInv

LEMMA OrderInit == ASSUME Init PROVE OrderInv
BY DEF Init, OrderInv, CountedInv, SentInv, Clients

\* Messages, counters and what was sent to clients that receive stay.
LEMMA OrderQuiet ==
    ASSUME HubInv, OrderInv, UNCHANGED <<ring, history, fanout, taken, log>>,
           live' \in [Clients -> Nat],
           \A c \in Clients : \A i \in 1 .. Len(wire'[c]) : Counted(wire'[c][i], taken),
           \A c \in Clients : pc'[c] = "receive" =>
             \/ pc[c] = "receive" /\ wire'[c] = wire[c] /\ live'[c] = live[c]
             \/ live'[c] = Len(log)
    PROVE  OrderInv'
<1>1. CountedInv'
  BY DEF OrderInv, CountedInv
<1>2. \A m : ~After(log, Len(log), m)
  BY DEF After, HubInv, TypeInv
<1>3. SentInv'
  BY <1>2 DEF OrderInv, SentInv
<1> QED BY <1>1, <1>3 DEF OrderInv

\* The wire of one client, an item longer.
LEMMA WireGrows ==
    ASSUME NEW w \in Seq(Messages \cup {Graph}), NEW item \in Messages \cup {Graph}
    PROVE  /\ Len(Append(w, item)) = Len(w) + 1 /\ Len(w) \in Nat
           /\ Append(w, item)[Len(w) + 1] = item
           /\ \A i \in 1 .. Len(w) : Append(w, item)[i] = w[i]
OBVIOUS

LEMMA OrderStep == ASSUME HubInv, OrderInv, [Next]_vars PROVE OrderInv'
<1>0. /\ live \in [Clients -> Nat] /\ DOMAIN pc = Clients /\ log \in Seq(Messages)
      /\ wire \in [Clients -> Seq(Messages \cup {Graph})] /\ Graph \notin Messages
      /\ Len(log) \in Nat /\ ring \in Seq(Messages) /\ history \in [Clients -> Seq(Messages)]
      /\ taken \in [Producers -> Nat]
  BY HubAssumption DEF OrderInv, HubInv, TypeInv
<1>9. ASSUME NEW d \in Clients, NEW m, After(log, live[d], m)
      PROVE  m \in Messages /\ m.from \in Producers /\ m.n \in Nat
  <2>1. PICK l \in live[d] + 1 .. Len(log) : log[l] = m
    BY <1>9 DEF After
  <2>2. live[d] \in Nat
    BY <1>0
  <2>3. l \in 1 .. Len(log)
    BY <1>0, <2>2
  <2>4. m \in Messages
    BY <1>0, <2>1, <2>3
  <2> QED BY <2>4 DEF Messages
<1>1. ASSUME NEW c \in Clients, Connect(c) PROVE OrderInv'
  <2>1. /\ pc' = [pc EXCEPT ![c] = "graph"] /\ wire' = [wire EXCEPT ![c] = Append(@, Graph)]
        /\ UNCHANGED <<ring, history, fanout, taken, log, live>>
    BY <1>1 DEF Connect, history_vars
  <2>2. \A d \in Clients : \A i \in 1 .. Len(wire'[d]) : Counted(wire'[d][i], taken)
    <3>1. \A i \in 1 .. Len(Append(wire[c], Graph)) : Counted(Append(wire[c], Graph)[i], taken)
      BY <1>0, WireGrows DEF OrderInv, CountedInv, Counted
    <3> QED BY <1>0, <2>1, <3>1 DEF OrderInv, CountedInv
  <2> QED BY <1>0, <2>1, <2>2, OrderQuiet
<1>2. ASSUME NEW c \in Clients, Close(c) \/ Stall(c) \/ Leave(c) PROVE OrderInv'
  <2>1. /\ pc' = pc \/ pc' = [pc EXCEPT ![c] = "gone"]
        /\ UNCHANGED <<ring, history, fanout, taken, log, live, wire>>
    BY <1>2 DEF Close, Stall, Leave, history_vars
  <2>2. \A d \in Clients : pc'[d] = "receive" => pc[d] = "receive"
    BY <1>0, <2>1
  <2> QED BY <1>0, <2>1, <2>2, OrderQuiet DEF OrderInv, CountedInv
<1>3. ASSUME NEW c \in Clients, StartFlush(c) PROVE OrderInv'
  <2>1. /\ pc' = [pc EXCEPT ![c] = "flush"] /\ history' = [history EXCEPT ![c] = ring]
        /\ UNCHANGED <<ring, fanout, taken, log, live, wire>>
    BY <1>3 DEF StartFlush
  <2>2. CountedInv'
    BY <1>0, <2>1 DEF OrderInv, CountedInv
  <2>3. SentInv'
    BY <1>0, <2>1 DEF OrderInv, SentInv
  <2> QED BY <2>1, <2>2, <2>3 DEF OrderInv
<1>4. ASSUME NEW c \in Clients, FlushOne(c) PROVE OrderInv'
  <2> DEFINE h == history[c]
  <2>1. /\ pc[c] = "flush" /\ h # <<>> /\ h \in Seq(Messages) /\ SendTo(c, c, Head(h))
        /\ history' = [history EXCEPT ![c] = IF c \in open THEN Tail(h) ELSE <<>>]
        /\ UNCHANGED <<pc, ring, fanout, taken, log, live>>
    BY <1>0, <1>4 DEF FlushOne, history_vars
  <2>2. /\ Head(h) = h[1] /\ 1 \in 1 .. Len(h) /\ Head(h) \in Messages
        /\ \A i \in 1 .. Len(Tail(h)) : Tail(h)[i] = h[i + 1] /\ i + 1 \in 1 .. Len(h)
    BY <2>1
  <2>3. \A i \in 1 .. Len(history'[c]) : Counted(history'[c][i], taken)
    <3>1. history'[c] = Tail(h) \/ history'[c] = <<>>
      BY <1>0, <2>1
    <3>2. \A i \in 1 .. Len(h) : Counted(h[i], taken)
      BY DEF OrderInv, CountedInv
    <3>3. \A i \in 1 .. Len(Tail(h)) : Counted(Tail(h)[i], taken)
      BY <2>2, <3>2
    <3>4. Len(<<>>) = 0
      OBVIOUS
    <3>5. CASE history'[c] = Tail(h)
      BY <3>3, <3>5
    <3>6. CASE history'[c] = <<>>
      BY <3>4, <3>6
    <3> QED BY <3>1, <3>5, <3>6
  <2>4. wire' = [wire EXCEPT ![c] = Append(@, h[1])] \/ wire' = wire
    BY <2>1, <2>2 DEF SendTo
  <2>5. \A i \in 1 .. Len(wire'[c]) : Counted(wire'[c][i], taken)
    <3>1. Counted(h[1], taken)
      BY <2>2 DEF OrderInv, CountedInv
    <3>2. \A i \in 1 .. Len(Append(wire[c], h[1])) : Counted(Append(wire[c], h[1])[i], taken)
      BY <1>0, <2>2, <3>1, WireGrows DEF OrderInv, CountedInv
    <3>3. CASE wire' = [wire EXCEPT ![c] = Append(@, h[1])]
      <4>1. wire'[c] = Append(wire[c], h[1])
        BY <1>0, <3>3
      <4> QED BY <3>2, <4>1
    <3>4. CASE wire' = wire
      BY <3>4 DEF OrderInv, CountedInv
    <3> QED BY <2>4, <3>3, <3>4
  <2>6. \A d \in Clients \ {c} : wire'[d] = wire[d] /\ history'[d] = history[d]
    BY <1>0, <2>1, <2>4
  <2>7. CountedInv'
    BY <2>1, <2>3, <2>5, <2>6 DEF OrderInv, CountedInv
  <2>8. SentInv'
    <3>1. \A d \in Clients : pc[d] = "receive" => d # c
      BY <2>1
    <3> QED BY <2>1, <2>6, <3>1 DEF OrderInv, SentInv
  <2> QED BY <2>1, <2>7, <2>8 DEF OrderInv
<1>5. ASSUME NEW c \in Clients, FlushDone(c) PROVE OrderInv'
  <2>1. /\ pc' = [pc EXCEPT ![c] = "receive"] /\ live' = [live EXCEPT ![c] = Len(log)]
        /\ UNCHANGED <<ring, history, fanout, taken, log, wire>>
    BY <1>5 DEF FlushDone
  <2>2. live' \in [Clients -> Nat] /\ live'[c] = Len(log)
        /\ \A d \in Clients \ {c} : pc'[d] = pc[d] /\ live'[d] = live[d]
    BY <1>0, <2>1
  <2> QED BY <2>1, <2>2, OrderQuiet DEF OrderInv, CountedInv
<1>6. ASSUME NEW p \in Producers, Ingest(p) PROVE OrderInv'
  <2> DEFINE msg == [from |-> p, n |-> taken[p] + 1]
             r == Append(ring, msg)
  <2>1. /\ log' = Append(log, msg) /\ taken' = [taken EXCEPT ![p] = @ + 1]
        /\ fanout' = [fanout EXCEPT ![p] = connections \ {p}]
        /\ taken[p] < MaxMsgs /\ taken[p] \in Nat /\ msg.from = p /\ msg.n = taken[p] + 1
        /\ UNCHANGED <<pc, history, wire, live>>
    BY <1>0, <1>6 DEF Ingest
  <2>2. msg \in Messages /\ r \in Seq(Messages)
    BY <1>0, <2>1, HubAssumption DEF Messages
  <2>3. PICK k \in 1 .. Len(r) : ring' = SubSeq(r, k, Len(r))
    BY <1>6 DEF Ingest, Kept
  <2> HIDE DEF msg
  <2>4. \A m : Counted(m, taken) => Counted(m, taken')
    <3> SUFFICES ASSUME NEW m \in Messages, m.n <= taken[m.from] PROVE m.n <= taken'[m.from]
      BY DEF Counted
    <3>1. m.from \in Producers /\ m.n \in Nat
      BY DEF Messages
    <3> QED BY <1>0, <2>1, <3>1
  <2>5. Counted(msg, taken') /\ ~Counted(msg, taken)
    BY <1>0, <2>1, <2>2 DEF Counted
  <2>6. /\ Len(log') = Len(log) + 1 /\ log'[Len(log) + 1] = msg
        /\ \A i \in 1 .. Len(log) : log'[i] = log[i]
    BY <1>0, <2>1, <2>2
  <2>7. \A i \in 1 .. Len(log') : Counted(log'[i], taken')
    <3>1. \A i \in 1 .. Len(log) : Counted(log'[i], taken')
      BY <2>4, <2>6 DEF OrderInv, CountedInv
    <3>2. \A i \in 1 .. Len(log') : i \in 1 .. Len(log) \/ i = Len(log) + 1
      BY <1>0, <2>6
    <3> QED BY <2>5, <2>6, <3>1, <3>2
  <2>8. \A i \in 1 .. Len(ring') : Counted(ring'[i], taken')
    <3>1. /\ Len(r) = Len(ring) + 1 /\ Len(ring) \in Nat /\ r[Len(ring) + 1] = msg
          /\ \A i \in 1 .. Len(ring) : r[i] = ring[i]
      BY <1>0, <2>2
    <3> HIDE DEF r
    <3>2. \A i \in 1 .. Len(r) : Counted(r[i], taken')
      BY <2>4, <2>5, <3>1 DEF OrderInv, CountedInv
    <3>3. \A i \in k .. Len(r) : r[i] \in Messages
      BY <2>2, <2>3
    <3>4. /\ Len(ring') = Len(r) - k + 1
          /\ \A i \in 1 .. Len(r) - k + 1 : ring'[i] = r[k + i - 1]
      <4>1. /\ Len(SubSeq(r, k, Len(r))) = IF k <= Len(r) THEN Len(r) - k + 1 ELSE 0
            /\ \A i \in 1 .. Len(r) - k + 1 : SubSeq(r, k, Len(r))[i] = r[k + i - 1]
        BY <3>1, <3>3, SubSeqProperties
      <4> QED BY <2>3, <3>1, <4>1
    <3>5. ASSUME NEW i \in 1 .. Len(ring') PROVE Counted(ring'[i], taken')
      <4>1. k + i - 1 \in 1 .. Len(r) /\ ring'[i] = r[k + i - 1]
        BY <2>3, <3>1, <3>4
      <4> QED BY <3>2, <4>1
    <3> QED BY <3>5
  <2>9. CountedInv'
    BY <2>1, <2>4, <2>7, <2>8 DEF OrderInv, CountedInv
  <2>10. SentInv'
    <3> SUFFICES ASSUME NEW c \in Clients, pc[c] = "receive", NEW i \in 1 .. Len(wire[c]),
                        After(log', live[c], wire[c][i])
                 PROVE  /\ c \in fanout'[wire[c][i].from] => wire[c][i].n < taken'[wire[c][i].from]
                        /\ \A j \in 1 .. Len(wire[c]) :
                             i < j /\ After(log', live[c], wire[c][j]) /\ wire[c][j].from = wire[c][i].from
                               => wire[c][i].n < wire[c][j].n
      BY <2>1 DEF SentInv
    <3>1. ASSUME NEW j \in 1 .. Len(wire[c]), After(log', live[c], wire[c][j])
          PROVE  After(log, live[c], wire[c][j]) /\ wire[c][j] \in Messages
      <4>1. PICK l \in live[c] + 1 .. Len(log') : log'[l] = wire[c][j]
        BY <3>1 DEF After
      <4>2. wire[c][j] # msg
        BY <2>5 DEF OrderInv, CountedInv
      <4>3. l \in live[c] + 1 .. Len(log) /\ l \in 1 .. Len(log)
        BY <1>0, <2>6, <4>1, <4>2
      <4>4. After(log, live[c], wire[c][j])
        BY <2>6, <4>1, <4>3 DEF After
      <4> QED BY <1>9, <4>4
    <3> DEFINE m == wire[c][i]
    <3>2. m \in Messages /\ m.from \in Producers /\ m.n \in Nat /\ After(log, live[c], m)
      BY <3>1 DEF Messages
    <3>3. m.n <= taken[m.from]
      BY <3>2 DEF OrderInv, CountedInv, Counted
    <3>4. c \in fanout'[m.from] => m.n < taken'[m.from]
      <4>1. CASE m.from = p
        BY <1>0, <2>1, <3>2, <3>3, <4>1
      <4>2. CASE m.from # p
        <5>1. fanout'[m.from] = fanout[m.from] /\ taken'[m.from] = taken[m.from]
          BY <1>0, <2>1, <3>2, <4>2 DEF HubInv, TypeInv
        <5> QED BY <3>2, <5>1 DEF OrderInv, SentInv
      <4> QED BY <4>1, <4>2
    <3> QED BY <3>1, <3>2, <3>4 DEF OrderInv, SentInv
  <2> QED BY <2>1, <2>9, <2>10 DEF OrderInv
<1>7. ASSUME NEW p \in Producers, FanOut(p) PROVE OrderInv'
  <2> DEFINE msg == [from |-> p, n |-> taken[p]]
  <2>1. PICK c \in fanout[p] : /\ SendTo(p, c, msg)
                               /\ fanout' = [fanout EXCEPT ![p] = @ \ {c}]
    BY <1>7 DEF FanOut
  <2>2. UNCHANGED <<pc, ring, taken, history, log, live>>
    BY <1>7 DEF FanOut, history_vars
  <2>3. /\ c \in Clients /\ msg \in Messages /\ msg.from = p /\ msg.n = taken[p] /\ taken[p] \in Nat
    <3>1. taken[p] \in 0 .. MaxMsgs /\ fanout[p] \subseteq Clients /\ taken[p] > 0
      BY <2>1 DEF HubInv, TypeInv
    <3>2. taken[p] \in 1 .. MaxMsgs
      BY HubAssumption, <3>1
    <3> QED BY <2>1, <3>1, <3>2 DEF Messages
  <2>4. \/ wire' = wire
        \/ wire' = [wire EXCEPT ![c] = Append(@, msg)]
    BY <2>1 DEF SendTo
  <2> HIDE DEF msg
  <2>5. /\ \A q \in Producers : fanout'[q] \subseteq fanout[q]
        /\ c \notin fanout'[p] /\ DOMAIN fanout = Producers
    BY <2>1 DEF HubInv, TypeInv
  <2>6. Counted(msg, taken)
    BY <2>3 DEF Counted
  <2>7. CASE wire' = wire
    <3>1. CountedInv'
      BY <2>2, <2>7 DEF OrderInv, CountedInv
    <3>2. \A d \in Clients : \A i \in 1 .. Len(wire[d]) :
            After(log, live[d], wire[d][i]) => wire[d][i].from \in Producers
      BY <1>9
    <3>3. SentInv'
      BY <2>2, <2>5, <2>7, <3>2 DEF OrderInv, SentInv
    <3> QED BY <2>2, <3>1, <3>3 DEF OrderInv
  <2>8. CASE wire' = [wire EXCEPT ![c] = Append(@, msg)]
    <3> DEFINE w == wire[c]
               a == Append(w, msg)
    <3>1. /\ Len(a) = Len(w) + 1 /\ Len(w) \in Nat /\ a[Len(w) + 1] = msg
          /\ \A i \in 1 .. Len(w) : a[i] = w[i]
      BY <1>0, <2>3, WireGrows
    <3>2. wire'[c] = a /\ \A d \in Clients \ {c} : wire'[d] = wire[d]
      BY <1>0, <2>3, <2>8
    <3> HIDE DEF a
    <3>3. CountedInv'
      BY <2>2, <2>6, <3>1, <3>2 DEF OrderInv, CountedInv
    <3>4. SentInv'
      <4> SUFFICES ASSUME NEW d \in Clients, pc[d] = "receive", NEW i \in 1 .. Len(wire'[d]),
                          After(log, live[d], wire'[d][i])
                   PROVE  LET m == wire'[d][i] IN
                          /\ d \in fanout'[m.from] => m.n < taken[m.from]
                          /\ \A j \in 1 .. Len(wire'[d]) :
                               i < j /\ After(log, live[d], wire'[d][j]) /\ wire'[d][j].from = m.from
                                 => m.n < wire'[d][j].n
        BY <2>2 DEF SentInv
      <4>1. wire'[d][i] \in Messages /\ wire'[d][i].from \in Producers
        BY <1>9
      <4>2. CASE d # c
        BY <2>5, <3>2, <4>1, <4>2 DEF OrderInv, SentInv
      <4>3. CASE d = c /\ i = Len(w) + 1
        <5>1. wire'[d][i] = msg /\ \A j \in 1 .. Len(wire'[d]) : ~(i < j)
          BY <3>1, <3>2, <4>3
        <5> QED BY <2>3, <2>5, <4>3, <5>1
      <4>4. CASE d = c /\ i # Len(w) + 1
        <5>1. i \in 1 .. Len(w) /\ wire'[d][i] = w[i]
          BY <3>1, <3>2, <4>4
        <5> DEFINE m == w[i]
        <5>2. /\ d \in fanout[m.from] => m.n < taken[m.from]
              /\ \A j \in 1 .. Len(w) :
                   i < j /\ After(log, live[d], w[j]) /\ w[j].from = m.from => m.n < w[j].n
          BY <4>4, <5>1 DEF OrderInv, SentInv
        <5>3. ASSUME NEW j \in 1 .. Len(a), i < j, After(log, live[d], a[j]), a[j].from = m.from
              PROVE  m.n < a[j].n
          <6>1. CASE j = Len(w) + 1
            BY <2>1, <2>3, <3>1, <4>4, <5>2, <5>3, <6>1
          <6>2. CASE j # Len(w) + 1
            BY <3>1, <5>2, <5>3, <6>2
          <6> QED BY <6>1, <6>2
        <5>4. d \in fanout'[m.from] => m.n < taken[m.from]
          BY <2>5, <4>1, <5>1, <5>2
        <5> QED BY <3>2, <4>4, <5>1, <5>3, <5>4
      <4> QED BY <4>2, <4>3, <4>4
    <3> QED BY <2>2, <3>3, <3>4 DEF OrderInv
  <2> QED BY <2>4, <2>7, <2>8
<1>8. CASE UNCHANGED vars
  BY <1>8 DEF vars, history_vars, OrderInv, CountedInv, SentInv
<1> QED BY <1>1, <1>2, <1>3, <1>4, <1>5, <1>6, <1>7, <1>8 DEF Next, Task, Peer

\* Once a client has been flushed, each producer's later messages come once each
\* and in the order they were ingested, whatever the other handlers do.
THEOREM LiveMessagesAreInOrder == Spec => []LiveInOrder
<1>1. OrderInv => LiveInOrder
  BY DEF OrderInv, SentInv, LiveInOrder, Late, After
<1> QED BY <1>1, InitInv, NextInv, OrderInit, OrderStep, PTL DEF Spec
=============================================================================

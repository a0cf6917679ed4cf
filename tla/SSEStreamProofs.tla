--------------------------- MODULE SSEStreamProofs ---------------------------
(***************************************************************************)
(* Proofs about SSEStream, for every number of senders, buffer size and    *)
(* bound: order without a gap, one timeout per sender, complete ends.      *)
(***************************************************************************)
EXTENDS SSEStream, TLAPS

Ev(s, k) == [from |-> s, n |-> k]
Logged(s, k) == \E i \in DOMAIN log : log[i] = Ev(s, k)

\* A sender that is not in send_event has all its events in the log, as long
\* as nothing was refused; one that is has all but the event at hand.  After a
\* timeout the stream is closed, so there is no second one.
SenderInv == \A s \in Senders :
    /\ pc[s] = "idle" /\ ~finished /\ ~closed => \A k \in 1..calls[s] : Logged(s, k)
    /\ pc[s] # "idle" =>
         /\ calls[s] >= 1 /\ timeouts[s] = 0
         /\ \A k \in 1..(calls[s] - 1) : Logged(s, k)
         /\ ~Logged(s, calls[s])
    /\ timeouts[s] <= 1
    /\ timeouts[s] = 1 => closed

\* The log holds only events that were sent.
SentInv == \A i \in DOMAIN log : log[i] # End => log[i].n <= calls[log[i].from]

\* Before a sentinel stand all the events the finishing task had sent, and a
\* stream that was finished but not closed has a sentinel.
EndInv ==
    /\ finishes # 0 /\ ~closed => \E i \in DOMAIN log : log[i] = End
    /\ finishes = 0 =>
         /\ ~finished
         /\ \A i \in DOMAIN log : log[i] # End
         /\ \A s \in Senders : cut[s] = 0
    /\ ~closed => \A i \in DOMAIN log : log[i] = End =>
         \A s \in Senders : \A k \in 1..cut[s] : \E j \in 1..(i - 1) : log[j] = Ev(s, k)
    /\ client = "ended" => taken \in DOMAIN log /\ log[taken] = End

IInv == TypeOK /\ SenderInv /\ SentInv /\ NoGap /\ EndInv

-----------------------------------------------------------------------------
LEMMA InitInv == Init => IInv
<1> SUFFICES ASSUME Init PROVE IInv
  OBVIOUS
<1> USE StreamAssumption
<1>0. log = << >> /\ taken = 0 /\ Len(log) = 0 /\ log \in Seq(Item)
  BY DEF Init
<1>1. TypeOK
  <2>1. taken \in 0..Len(log) /\ QSize <= BufferSize
    BY <1>0 DEF QSize
  <2>2. /\ pc \in [Senders -> {"idle", "put", "waiting"}]
        /\ calls \in [Senders -> 0..MaxEvents] /\ cut \in [Senders -> 0..MaxEvents]
        /\ timeouts \in [Senders -> Nat] /\ finishes \in 0..MaxFinish
    BY DEF Init
  <2>3. finished \in BOOLEAN /\ closed \in BOOLEAN /\ dropped \in Nat /\ timed \in BOOLEAN
    BY DEF Init
  <2>4. client \in {"reading", "ended", "expired", "failed", "gone"}
    BY DEF Init
  <2> QED BY <1>0, <2>1, <2>2, <2>3, <2>4 DEF TypeOK
<1>2. SenderInv
  <2>1. \A s \in Senders : pc[s] = "idle" /\ calls[s] = 0 /\ timeouts[s] = 0
    BY DEF Init
  <2>2. ASSUME NEW s \in Senders
        PROVE  /\ pc[s] = "idle" /\ 1..calls[s] = {}
               /\ timeouts[s] <= 1 /\ timeouts[s] # 1
    BY <2>1
  <2> QED BY <2>2, Zenon DEF SenderInv
<1>3. SentInv /\ NoGap /\ EndInv
  BY DEF Init, SentInv, NoGap, EndInv
<1> QED BY <1>1, <1>2, <1>3 DEF IInv

\* What an item appended to the log leaves and adds.
LEMMA AppendItem ==
    ASSUME TypeOK, NEW x \in Item, log' = Append(log, x)
    PROVE  /\ log' \in Seq(Item)
           /\ DOMAIN log = 1..Len(log) /\ DOMAIN log' = 1..(Len(log) + 1)
           /\ Len(log) \in Nat /\ Len(log') = Len(log) + 1
           /\ \A i \in 1..Len(log) : log'[i] = log[i]
           /\ log'[Len(log) + 1] = x
BY DEF TypeOK

\* Every event of the log is one of Event.
LEMMA EventItem ==
    ASSUME TypeOK, NEW i \in DOMAIN log, log[i] # End
    PROVE  /\ log[i] \in Event /\ log[i].from \in Senders /\ log[i].n \in 1..MaxEvents
           /\ log[i] = Ev(log[i].from, log[i].n)
BY DEF TypeOK, Item, Event, Ev

LEMMA SendEventInv == ASSUME IInv, NEW s \in Senders, SendEvent(s) PROVE IInv'
<1> USE DEF IInv, SendEvent
<1>1. TypeOK'
  <2>1. calls' \in [Senders -> 0..MaxEvents]
    BY StreamAssumption DEF TypeOK
  <2>2. \/ pc' = pc /\ dropped' = dropped + 1
        \/ pc' = [pc EXCEPT ![s] = "put"] /\ dropped' = dropped
    OBVIOUS
  <2>5. pc \in [Senders -> {"idle", "put", "waiting"}] /\ dropped \in Nat
    BY DEF TypeOK
  <2> HIDE DEF IInv, SendEvent
  <2>4. pc' \in [Senders -> {"idle", "put", "waiting"}] /\ dropped' \in Nat
    BY <2>2, <2>5
  <2> USE DEF IInv, SendEvent
  <2>3. UNCHANGED QSize
    BY DEF QSize
  <2> QED BY <2>1, <2>4, <2>3 DEF TypeOK
<1>2. UNCHANGED <<log, closed, finished, timeouts, taken, client, cut, finishes>>
  OBVIOUS
<1>3. calls[s] \in Nat /\ calls'[s] = calls[s] + 1 /\ \A u \in Senders \ {s} : calls'[u] = calls[u]
  BY DEF TypeOK
<1>4. SentInv'
  <2> SUFFICES ASSUME NEW i \in DOMAIN log, log[i] # End
               PROVE  log[i].n <= calls'[log[i].from]
    BY <1>2 DEF SentInv
  <2>1. log[i].from \in Senders /\ log[i].n \in Nat
    BY EventItem, StreamAssumption
  <2>2. log[i].n <= calls[log[i].from]
    BY DEF SentInv
  <2>3. calls[log[i].from] \in Nat /\ calls'[log[i].from] \in Nat
        /\ calls[log[i].from] <= calls'[log[i].from]
    BY <2>1, <1>3 DEF TypeOK
  <2> QED BY <2>1, <2>2, <2>3
<1>5. SenderInv'
  <2> SUFFICES ASSUME NEW u \in Senders
               PROVE  /\ pc'[u] = "idle" /\ ~finished /\ ~closed =>
                           \A k \in 1..calls'[u] : Logged(u, k)
                      /\ pc'[u] # "idle" =>
                           /\ calls'[u] >= 1 /\ timeouts[u] = 0
                           /\ \A k \in 1..(calls'[u] - 1) : Logged(u, k)
                           /\ ~Logged(u, calls'[u])
                      /\ timeouts[u] <= 1
                      /\ timeouts[u] = 1 => closed
    BY <1>2 DEF SenderInv, Logged
  <2>1. CASE u # s
    BY <2>1, <1>3 DEF TypeOK, SenderInv
  <2>2. CASE u = s /\ (finished \/ closed)
    BY <2>2 DEF TypeOK, SenderInv
  <2>3. CASE u = s /\ ~(finished \/ closed)
    <3>1. pc'[u] = "put"
      BY <2>3 DEF TypeOK
    <3>2. \A k \in 1..(calls'[u] - 1) : Logged(u, k)
      BY <2>3, <1>3 DEF SenderInv
    <3>3. ~Logged(u, calls'[u])
      <4> SUFFICES ASSUME NEW i \in DOMAIN log, log[i] = Ev(u, calls'[u]) PROVE FALSE
        BY DEF Logged
      <4>1. Ev(u, calls'[u]) \in Event
        BY <1>1, <1>3, <2>3, StreamAssumption DEF Ev, Event, TypeOK
      <4>2. log[i] # End
        BY <4>1, StreamAssumption
      <4>3. log[i].n = calls'[u] /\ log[i].from = u
        BY DEF Ev
      <4> QED BY <4>2, <4>3, <1>3, <2>3 DEF SentInv
    <3>4. timeouts[u] = 0
      BY <2>3 DEF SenderInv, TypeOK
    <3> QED BY <3>1, <3>2, <3>3, <3>4, <1>3, <2>3 DEF SenderInv
  <2> QED BY <2>1, <2>2, <2>3
<1>6. NoGap' /\ EndInv'
  BY <1>2 DEF NoGap, EndInv
<1> QED BY <1>1, <1>4, <1>5, <1>6

\* Put: the pending event of s is the next of its events in the log.
LEMMA PutInv == ASSUME IInv, NEW s \in Senders, Put(s) PROVE IInv'
<1> DEFINE x == Pending(s)
<1>0. TypeOK /\ SenderInv /\ SentInv /\ NoGap /\ EndInv
  BY DEF IInv
<1>1. /\ pc[s] # "idle" /\ calls[s] >= 1 /\ timeouts[s] = 0
      /\ \A k \in 1..(calls[s] - 1) : Logged(s, k)
      /\ ~Logged(s, calls[s])
  <2>1. pc[s] # "idle"
    BY DEF Put
  <2> QED BY <1>0, <2>1 DEF SenderInv
<1>2. x \in Event /\ x \in Item /\ x # End /\ x = Ev(s, calls[s]) /\ calls[s] \in 1..MaxEvents
  BY <1>0, <1>1, StreamAssumption DEF Pending, Event, Item, Ev, TypeOK
<1>3. /\ log' = Append(log, x) /\ ~Full
      /\ pc' = [pc EXCEPT ![s] = "idle"]
      /\ UNCHANGED <<taken, finished, closed, dropped, calls, timeouts, cut, finishes, timed, client>>
  BY DEF Put
<1> HIDE DEF x
<1>4. /\ log' \in Seq(Item)
      /\ DOMAIN log = 1..Len(log) /\ DOMAIN log' = 1..(Len(log) + 1)
      /\ Len(log) \in Nat /\ Len(log') = Len(log) + 1
      /\ \A i \in 1..Len(log) : log'[i] = log[i]
      /\ log'[Len(log) + 1] = x
  BY <1>0, <1>2, <1>3, AppendItem
<1>5. TypeOK'
  <2>1. taken' \in 0..Len(log') /\ QSize' <= BufferSize
    BY <1>0, <1>3, <1>4, StreamAssumption DEF TypeOK, QSize, Full
  <2>2. pc' \in [Senders -> {"idle", "put", "waiting"}]
    BY <1>0, <1>3 DEF TypeOK
  <2> QED BY <1>0, <1>3, <1>4, <2>1, <2>2 DEF TypeOK
<1>6. \A u \in Senders, k \in Nat : Logged(u, k)' <=> Logged(u, k) \/ (u = s /\ k = calls[s])
  <2> SUFFICES ASSUME NEW u \in Senders, NEW k \in Nat
               PROVE  (\E i \in DOMAIN log' : log'[i] = Ev(u, k))
                        <=> (\E i \in DOMAIN log : log[i] = Ev(u, k)) \/ (u = s /\ k = calls[s])
    BY DEF Logged, Ev
  <2>1. Ev(u, k) = x <=> u = s /\ k = calls[s]
    BY <1>2 DEF Ev
  <2> QED BY <1>4, <2>1
<1>7. SenderInv'
  <2> SUFFICES ASSUME NEW u \in Senders
               PROVE  /\ pc'[u] = "idle" /\ ~finished /\ ~closed =>
                           \A k \in 1..calls[u] : Logged(u, k)'
                      /\ pc'[u] # "idle" =>
                           /\ calls[u] >= 1 /\ timeouts[u] = 0
                           /\ \A k \in 1..(calls[u] - 1) : Logged(u, k)'
                           /\ ~Logged(u, calls[u])'
                      /\ timeouts[u] <= 1
                      /\ timeouts[u] = 1 => closed
    BY <1>3, Zenon DEF SenderInv
  <2>0. calls[u] \in Nat /\ timeouts[u] \in Nat
    BY <1>0, StreamAssumption DEF TypeOK
  <2>1. CASE u # s
    <3>1. pc'[u] = pc[u]
      BY <1>0, <1>3, <2>1 DEF TypeOK
    <3>2. \A k \in Nat : Logged(u, k)' <=> Logged(u, k)
      BY <1>6, <2>1
    <3>3. /\ pc[u] = "idle" /\ ~finished /\ ~closed => \A k \in 1..calls[u] : Logged(u, k)
          /\ pc[u] # "idle" =>
               /\ calls[u] >= 1 /\ timeouts[u] = 0
               /\ \A k \in 1..(calls[u] - 1) : Logged(u, k)
               /\ ~Logged(u, calls[u])
          /\ timeouts[u] <= 1
          /\ timeouts[u] = 1 => closed
      BY <1>0, Zenon DEF SenderInv
    <3>4. \A k \in 1..calls[u] : k \in Nat
      BY <2>0
    <3>5. \A k \in 1..(calls[u] - 1) : k \in Nat
      BY <2>0
    <3>6. pc'[u] = "idle" /\ ~finished /\ ~closed => \A k \in 1..calls[u] : Logged(u, k)'
      BY <3>1, <3>2, <3>3, <3>4, Zenon
    <3>7. ASSUME pc'[u] # "idle"
          PROVE  /\ calls[u] >= 1 /\ timeouts[u] = 0
                 /\ \A k \in 1..(calls[u] - 1) : Logged(u, k)'
                 /\ ~Logged(u, calls[u])'
      <4>1. pc[u] # "idle"
        BY <3>1, <3>7
      <4>2. \A k \in 1..(calls[u] - 1) : Logged(u, k)'
        BY <3>2, <3>3, <3>5, <4>1, Zenon
      <4>3. ~Logged(u, calls[u])'
        <5>1. ~(\E i \in DOMAIN log' : log'[i] = Ev(u, calls[u]))
          BY <2>0, <3>2, <3>3, <4>1, Zenon DEF Logged, Ev
        <5> QED BY <1>3, <5>1, Zenon DEF Logged, Ev
      <4> QED BY <3>3, <4>1, <4>2, <4>3, Zenon
    <3> QED BY <3>3, <3>6, <3>7, Zenon
  <2>2. CASE u = s
    <3>1. pc'[u] = "idle"
      BY <1>0, <1>3, <2>2 DEF TypeOK
    <3>2. \A k \in 1..calls[u] : Logged(u, k)'
      BY <1>1, <1>6, <2>0, <2>2
    <3>3. timeouts[u] <= 1 /\ timeouts[u] # 1
      BY <1>1, <2>2
    <3> QED BY <3>1, <3>2, <3>3
  <2> QED BY <2>1, <2>2
<1>8. SentInv'
  <2> SUFFICES ASSUME NEW i \in 1..(Len(log) + 1), log'[i] # End
               PROVE  log'[i].n <= calls[log'[i].from]
    BY <1>3, <1>4 DEF SentInv
  <2>1. CASE i \in 1..Len(log)
    BY <1>0, <1>4, <2>1 DEF SentInv
  <2>2. CASE i = Len(log) + 1
    BY <1>2, <1>4, <2>2 DEF Ev
  <2> QED BY <1>4, <2>1, <2>2
<1>9. NoGap'
  <2>1. \A i \in 1..Len(log) : log[i] # x
    BY <1>1, <1>2, <1>4 DEF Logged
  <2> SUFFICES ASSUME NEW i \in 1..(Len(log) + 1), log'[i] # End
               PROVE  /\ \A j \in 1..(Len(log) + 1) : log'[j] = log'[i] => j = i
                      /\ log'[i].n > 1 => \E j \in 1..(i - 1) :
                             log'[j] = [from |-> log'[i].from, n |-> log'[i].n - 1]
    BY <1>4, Zenon DEF NoGap
  <2>2. CASE i \in 1..Len(log)
    <3>1. \A j \in 1..Len(log) : log[j] = log[i] => j = i
      BY <1>0, <1>4, <2>2 DEF NoGap
    <3>2. \A j \in 1..(Len(log) + 1) : log'[j] = log'[i] => j = i
      BY <1>4, <2>1, <2>2, <3>1
    <3>3. log[i].n > 1 => \E j \in 1..(i - 1) :
             log[j] = [from |-> log[i].from, n |-> log[i].n - 1]
      BY <1>0, <1>4, <2>2 DEF NoGap
    <3>4. \A j \in 1..(i - 1) : log'[j] = log[j]
      BY <1>4, <2>2
    <3> QED BY <1>4, <2>2, <3>2, <3>3, <3>4
  <2>3. CASE i = Len(log) + 1
    <3>1. log'[i] = x /\ x.from = s /\ x.n = calls[s]
      BY <1>2, <1>4, <2>3 DEF Ev
    <3>2. \A j \in 1..(Len(log) + 1) : log'[j] = log'[i] => j = i
      BY <1>4, <2>1, <2>3, <3>1
    <3>3. calls[s] > 1 => Logged(s, calls[s] - 1)
      BY <1>1, <1>2
    <3>4. calls[s] > 1 => \E j \in 1..(i - 1) : log'[j] = [from |-> s, n |-> calls[s] - 1]
      BY <1>4, <2>3, <3>3 DEF Logged, Ev
    <3> QED BY <3>1, <3>2, <3>4
  <2> QED BY <1>4, <2>2, <2>3
<1>10. EndInv'
  <2>1. finishes = 0 => \A i \in 1..(Len(log) + 1) : log'[i] # End
    BY <1>0, <1>2, <1>4 DEF EndInv
  <2>2. ASSUME ~closed, NEW i \in 1..(Len(log) + 1), log'[i] = End,
               NEW u \in Senders, NEW k \in 1..cut[u]
        PROVE  \E j \in 1..(i - 1) : log'[j] = Ev(u, k)
    <3>1. i \in 1..Len(log) /\ log[i] = End
      BY <1>2, <1>4, <2>2
    <3>2. \E j \in 1..(i - 1) : log[j] = Ev(u, k)
      BY <1>0, <1>4, <2>2, <3>1 DEF EndInv
    <3> QED BY <1>4, <3>1, <3>2
  <2>3. client = "ended" => taken \in 1..(Len(log) + 1) /\ log'[taken] = End
    BY <1>0, <1>4 DEF EndInv
  <2>4. /\ finishes = 0 => ~finished
        /\ finishes = 0 => \A u \in Senders : cut[u] = 0
    BY <1>0 DEF EndInv
  <2>5. ~closed => \A i \in 1..(Len(log) + 1) : log'[i] = End =>
          \A u \in Senders : \A k \in 1..cut[u] : \E j \in 1..(i - 1) : log'[j] = Ev(u, k)
    BY <2>2
  <2>6. DOMAIN log' = 1..(Len(log) + 1)
    BY <1>4
  <2>7. (finishes = 0 =>
           /\ ~finished
           /\ \A i \in DOMAIN log : log[i] # End
           /\ \A u \in Senders : cut[u] = 0)'
    BY <1>3, <2>1, <2>4, <2>6, Zenon
  <2>8. (~closed => \A i \in DOMAIN log : log[i] = End =>
           \A u \in Senders : \A k \in 1..cut[u] : \E j \in 1..(i - 1) : log[j] = Ev(u, k))'
    BY <1>3, <2>5, <2>6, Zenon DEF Ev
  <2>9. (client = "ended" => taken \in DOMAIN log /\ log[taken] = End)'
    BY <1>3, <2>3, <2>6, Zenon
  <2>10. (finishes # 0 /\ ~closed => \E i \in DOMAIN log : log[i] = End)'
    <3>1. ASSUME finishes # 0, ~closed PROVE \E i \in DOMAIN log' : log'[i] = End
      <4>1. PICK i \in DOMAIN log : log[i] = End
        BY <1>0, <3>1, Zenon DEF EndInv
      <4> QED BY <1>4, <4>1
    <3> QED BY <1>3, <3>1, Zenon
  <2> QED BY <2>7, <2>8, <2>9, <2>10, Zenon DEF EndInv
<1> QED BY <1>5, <1>7, <1>8, <1>9, <1>10 DEF IInv

\* A step that moves no sender in or out of send_event, and leaves the log and
\* the flags alone, keeps SenderInv.
LEMMA Steady ==
    ASSUME SenderInv, UNCHANGED <<log, finished, closed, calls, timeouts>>,
           \A u \in Senders : pc'[u] = "idle" <=> pc[u] = "idle"
    PROVE  SenderInv'
<1>0. /\ log' = log /\ finished' = finished /\ closed' = closed
      /\ calls' = calls /\ timeouts' = timeouts
  OBVIOUS
<1> SUFFICES ASSUME NEW u \in Senders
             PROVE  /\ pc'[u] = "idle" /\ ~finished /\ ~closed =>
                         \A k \in 1..calls[u] : Logged(u, k)'
                    /\ pc'[u] # "idle" =>
                         /\ calls[u] >= 1 /\ timeouts[u] = 0
                         /\ \A k \in 1..(calls[u] - 1) : Logged(u, k)'
                         /\ ~Logged(u, calls[u])'
                    /\ timeouts[u] <= 1
                    /\ timeouts[u] = 1 => closed
  BY <1>0, SMTT(20) DEF SenderInv
<1>1. \A k : (\E i \in DOMAIN log' : log'[i] = Ev(u, k)) <=> Logged(u, k)
  BY <1>0 DEF Logged
<1>2. \A k : Logged(u, k)' <=> Logged(u, k)
  BY <1>1, Zenon DEF Logged, Ev
<1>3. Logged(u, calls[u])' <=> Logged(u, calls[u])
  BY <1>0, <1>1, Zenon DEF Logged, Ev
<1>4. pc'[u] = "idle" <=> pc[u] = "idle"
  OBVIOUS
<1> QED BY <1>2, <1>3, <1>4, Zenon DEF SenderInv

LEMMA WaitInv == ASSUME IInv, NEW s \in Senders, Wait(s) PROVE IInv'
<1>0. TypeOK /\ SenderInv /\ SentInv /\ NoGap /\ EndInv
  BY DEF IInv
<1>1. /\ pc[s] # "idle" /\ pc' = [pc EXCEPT ![s] = "waiting"]
      /\ UNCHANGED <<log, taken, finished, closed, dropped, calls, timeouts, cut, finishes,
                     timed, client>>
  BY DEF Wait
<1>2. TypeOK'
  <2>1. pc' \in [Senders -> {"idle", "put", "waiting"}]
    BY <1>0, <1>1 DEF TypeOK
  <2> QED BY <1>0, <1>1, <2>1 DEF TypeOK, QSize
<1>3. \A u \in Senders : pc'[u] = "idle" <=> pc[u] = "idle"
  BY <1>0, <1>1 DEF TypeOK
<1>4. SenderInv'
  BY <1>0, <1>1, <1>3, Steady
<1>5. SentInv' /\ NoGap' /\ EndInv'
  BY <1>0, <1>1 DEF SentInv, NoGap, EndInv, Ev
<1> QED BY <1>2, <1>4, <1>5 DEF IInv

\* Timeout: the stream is closed, which no sender passes a second time.
LEMMA TimeoutInv == ASSUME IInv, NEW s \in Senders, Timeout(s) PROVE IInv'
<1>0. TypeOK /\ SenderInv /\ SentInv /\ NoGap /\ EndInv
  BY DEF IInv
<1>1. /\ pc[s] # "idle" /\ pc' = [pc EXCEPT ![s] = "idle"]
      /\ timeouts' = [timeouts EXCEPT ![s] = @ + 1]
      /\ closed' = TRUE /\ dropped' = dropped + 1
      /\ UNCHANGED <<log, taken, finished, calls, cut, finishes, timed, client>>
  BY DEF Timeout
<1>2. TypeOK'
  <2>1. pc' \in [Senders -> {"idle", "put", "waiting"}] /\ timeouts' \in [Senders -> Nat]
    BY <1>0, <1>1 DEF TypeOK
  <2>2. closed' \in BOOLEAN /\ dropped' \in Nat
    BY <1>0, <1>1 DEF TypeOK
  <2> QED BY <1>0, <1>1, <2>1, <2>2 DEF TypeOK, QSize
<1>3. timeouts[s] = 0
  BY <1>0, <1>1 DEF SenderInv
<1>4. SenderInv'
  <2> SUFFICES ASSUME NEW u \in Senders
               PROVE  /\ pc'[u] # "idle" =>
                           /\ calls[u] >= 1 /\ timeouts'[u] = 0
                           /\ \A k \in 1..(calls[u] - 1) : Logged(u, k)
                           /\ ~Logged(u, calls[u])
                      /\ timeouts'[u] <= 1
    BY <1>1, ZenonT(40) DEF SenderInv, Logged, Ev
  <2>1. CASE u = s
    <3>1. pc'[u] = "idle"
      BY <1>0, <1>1, <2>1 DEF TypeOK
    <3>2. timeouts'[u] = 1
      BY <1>0, <1>1, <1>3, <2>1 DEF TypeOK
    <3> QED BY <3>1, <3>2
  <2>2. CASE u # s
    <3>1. pc'[u] = pc[u]
      BY <1>0, <1>1, <2>2 DEF TypeOK
    <3>2. timeouts'[u] = timeouts[u]
      BY <1>0, <1>1, <2>2 DEF TypeOK
    <3> QED BY <1>0, <3>1, <3>2 DEF SenderInv
  <2> QED BY <2>1, <2>2
<1>5. SentInv' /\ NoGap'
  BY <1>0, <1>1 DEF SentInv, NoGap
<1>6. EndInv'
  BY <1>0, <1>1, Zenon DEF EndInv, Ev
<1> QED BY <1>2, <1>4, <1>5, <1>6 DEF IInv

\* The steps of the client leave the senders and the log alone.
LEMMA ClientInv == ASSUME IInv, Take \/ Deadline \/ Broken \/ Leave PROVE IInv'
<1>0. TypeOK /\ SenderInv /\ SentInv /\ NoGap /\ EndInv
  BY DEF IInv
<1>1. /\ client = "reading"
      /\ client' \in {"reading", "ended", "expired", "failed", "gone"}
      /\ UNCHANGED <<log, finished, closed, dropped, pc, calls, timeouts, cut, finishes, timed>>
  BY DEF Take, Deadline, Broken, Leave
<1>2. taken' \in taken..Len(log)
  BY <1>0 DEF Take, Deadline, Broken, Leave, TypeOK, QSize
<1>3. client' = "ended" => taken' \in DOMAIN log /\ log[taken'] = End
  <2>1. ASSUME client' = "ended" PROVE Take /\ log[taken + 1] = End
    BY <2>1 DEF Take, Deadline, Broken, Leave
  <2>2. ASSUME Take PROVE taken' = taken + 1 /\ taken + 1 \in DOMAIN log
    BY <1>0, <2>2 DEF Take, TypeOK, QSize
  <2> QED BY <2>1, <2>2
<1>4. TypeOK'
  <2>1. taken' \in 0..Len(log) /\ QSize' <= BufferSize
    BY <1>0, <1>1, <1>2, StreamAssumption DEF TypeOK, QSize
  <2> QED BY <1>0, <1>1, <2>1 DEF TypeOK
<1>5. SenderInv'
  BY <1>0, <1>1, Steady
<1>6. SentInv' /\ NoGap'
  BY <1>0, <1>1 DEF SentInv, NoGap
<1>7. EndInv'
  BY <1>0, <1>1, <1>3, Zenon DEF EndInv, Ev
<1> QED BY <1>4, <1>5, <1>6, <1>7 DEF IInv

\* Finish: a sentinel that goes into a stream still open stands behind all the
\* finishing task has sent, since that task is not in send_event.
LEMMA FinishInv == ASSUME IInv, NEW s \in Senders, Finish(s) PROVE IInv'
<1>0. TypeOK /\ SenderInv /\ SentInv /\ NoGap /\ EndInv
  BY DEF IInv
<1>1. /\ pc[s] = "idle" /\ finishes < MaxFinish /\ finishes' = finishes + 1
      /\ finished' = TRUE
      /\ cut' = IF finishes = 0 THEN [cut EXCEPT ![s] = calls[s]] ELSE cut
      /\ UNCHANGED <<taken, pc, calls, timeouts, timed, client>>
  BY DEF Finish
<1>2. finishes \in Nat /\ finishes' # 0
  BY <1>0, <1>1, StreamAssumption DEF TypeOK
<1>3. cut' \in [Senders -> 0..MaxEvents] /\ finishes' \in 0..MaxFinish
  BY <1>0, <1>1, StreamAssumption DEF TypeOK
<1>4. CASE Full
  <2>1. closed' = TRUE /\ dropped' = dropped + 1 /\ log' = log
    BY <1>4 DEF Finish
  <2>2. TypeOK'
    <3>1. dropped' \in Nat
      BY <1>0, <2>1 DEF TypeOK
    <3> QED BY <1>0, <1>1, <1>3, <2>1, <3>1 DEF TypeOK, QSize
  <2>3. SenderInv'
    <3> SUFFICES ASSUME NEW u \in Senders
                 PROVE  /\ pc[u] # "idle" =>
                             /\ calls[u] >= 1 /\ timeouts[u] = 0
                             /\ \A k \in 1..(calls[u] - 1) : Logged(u, k)
                             /\ ~Logged(u, calls[u])
                        /\ timeouts[u] <= 1
      BY <1>1, <2>1, Zenon DEF SenderInv, Logged, Ev
    <3> QED BY <1>0, Zenon DEF SenderInv
  <2>4. SentInv' /\ NoGap'
    BY <1>0, <1>1, <2>1 DEF SentInv, NoGap
  <2>5. client = "ended" => taken \in DOMAIN log /\ log[taken] = End
    BY <1>0, Zenon DEF EndInv
  <2>6. EndInv'
    BY <1>1, <1>2, <2>1, <2>5, Zenon DEF EndInv
  <2> QED BY <2>2, <2>3, <2>4, <2>6 DEF IInv
<1>5. CASE ~Full
  <2>1. log' = Append(log, End) /\ closed' = closed /\ dropped' = dropped
    BY <1>5 DEF Finish
  <2>2. End \in Item
    BY DEF Item
  <2>3. /\ log' \in Seq(Item)
        /\ DOMAIN log = 1..Len(log) /\ DOMAIN log' = 1..(Len(log) + 1)
        /\ Len(log) \in Nat /\ Len(log') = Len(log) + 1
        /\ \A i \in 1..Len(log) : log'[i] = log[i]
        /\ log'[Len(log) + 1] = End
    BY <1>0, <2>1, <2>2, AppendItem
  <2>4. TypeOK'
    <3>1. taken' \in 0..Len(log') /\ QSize' <= BufferSize
      BY <1>0, <1>1, <1>5, <2>3, StreamAssumption DEF TypeOK, QSize, Full
    <3> QED BY <1>0, <1>1, <1>3, <2>1, <2>3, <3>1 DEF TypeOK
  <2>5. \A u \in Senders : \A k \in 1..MaxEvents : Ev(u, k) # End
    BY StreamAssumption DEF Ev, Event
  <2>6. SenderInv'
    <3> SUFFICES ASSUME NEW u \in Senders
                 PROVE  /\ pc[u] # "idle" =>
                             /\ calls[u] >= 1 /\ timeouts[u] = 0
                             /\ \A k \in 1..(calls[u] - 1) :
                                  \E i \in DOMAIN log' : log'[i] = Ev(u, k)
                             /\ ~(\E i \in DOMAIN log' : log'[i] = Ev(u, calls[u]))
                        /\ timeouts[u] <= 1
                        /\ timeouts[u] = 1 => closed
      BY <1>1, <2>1, Zenon DEF SenderInv, Logged, Ev
    <3>1. timeouts[u] <= 1 /\ (timeouts[u] = 1 => closed)
      BY <1>0, Zenon DEF SenderInv
    <3>2. ASSUME pc[u] # "idle"
          PROVE  /\ calls[u] >= 1 /\ timeouts[u] = 0
                 /\ \A k \in 1..(calls[u] - 1) :
                      \E i \in DOMAIN log' : log'[i] = Ev(u, k)
                 /\ ~(\E i \in DOMAIN log' : log'[i] = Ev(u, calls[u]))
      <4>1. /\ calls[u] >= 1 /\ timeouts[u] = 0
            /\ \A k \in 1..(calls[u] - 1) : Logged(u, k)
            /\ ~Logged(u, calls[u])
        BY <1>0, <3>2, Zenon DEF SenderInv
      <4>2. \A k \in 1..(calls[u] - 1) : \E i \in DOMAIN log' : log'[i] = Ev(u, k)
        BY <2>3, <4>1 DEF Logged
      <4>3. calls[u] \in 1..MaxEvents
        BY <1>0, <4>1, StreamAssumption DEF TypeOK
      <4>4. ~(\E i \in DOMAIN log' : log'[i] = Ev(u, calls[u]))
        BY <2>3, <2>5, <4>1, <4>3 DEF Logged
      <4> QED BY <4>1, <4>2, <4>4, Zenon
    <3> QED BY <3>1, <3>2, Zenon
  <2>7. SentInv'
    <3> SUFFICES ASSUME NEW i \in 1..(Len(log) + 1), log'[i] # End
                 PROVE  log'[i].n <= calls[log'[i].from]
      BY <1>1, <2>3 DEF SentInv
    <3>1. i \in 1..Len(log) /\ log'[i] = log[i]
      BY <2>3
    <3> QED BY <1>0, <2>3, <3>1 DEF SentInv
  <2>8. NoGap'
    <3> SUFFICES ASSUME NEW i \in 1..(Len(log) + 1), log'[i] # End
                 PROVE  /\ \A j \in 1..(Len(log) + 1) : log'[j] = log'[i] => j = i
                        /\ log'[i].n > 1 => \E j \in 1..(i - 1) :
                               log'[j] = [from |-> log'[i].from, n |-> log'[i].n - 1]
      BY <2>3, Zenon DEF NoGap
    <3>1. i \in 1..Len(log) /\ log'[i] = log[i]
      BY <2>3
    <3>2. /\ \A j \in 1..Len(log) : log[j] = log[i] => j = i
          /\ log[i].n > 1 => \E j \in 1..(i - 1) :
                 log[j] = [from |-> log[i].from, n |-> log[i].n - 1]
      BY <1>0, <2>3, <3>1 DEF NoGap
    <3>3. \A j \in 1..(i - 1) : log'[j] = log[j]
      BY <2>3, <3>1
    <3> QED BY <2>3, <3>1, <3>2, <3>3
  <2>9. EndInv'
    <3>1. ASSUME ~closed, NEW i \in 1..(Len(log) + 1), log'[i] = End,
                 NEW u \in Senders, NEW k \in 1..cut'[u]
          PROVE  \E j \in 1..(i - 1) : log'[j] = Ev(u, k)
      <4>1. CASE finishes = 0
        <5>1. /\ ~finished /\ \A v \in Senders : cut[v] = 0
              /\ \A j \in DOMAIN log : log[j] # End
          BY <1>0, <4>1 DEF EndInv
        <5>2. i = Len(log) + 1
          BY <2>3, <3>1, <5>1
        <5>3. u = s /\ k \in 1..calls[s]
          <6>1. cut' = [cut EXCEPT ![s] = calls[s]]
            BY <1>1, <4>1
          <6>2. u # s => cut'[u] = 0
            BY <1>0, <5>1, <6>1 DEF TypeOK
          <6>3. u = s
            BY <3>1, <6>2
          <6> QED BY <1>0, <3>1, <6>1, <6>3 DEF TypeOK
        <5>4. Logged(s, k)
          BY <1>0, <1>1, <3>1, <5>1, <5>3 DEF SenderInv
        <5> QED BY <2>3, <5>2, <5>3, <5>4 DEF Logged
      <4>2. CASE finishes # 0
        <5>1. k \in 1..cut[u] /\ cut[u] \in Nat
          BY <1>0, <1>1, <3>1, <4>2, StreamAssumption DEF TypeOK
        <5>2. PICK e \in 1..Len(log) : log[e] = End
          BY <1>0, <2>3, <3>1, <4>2 DEF EndInv
        <5>3. \E j \in 1..(e - 1) : log[j] = Ev(u, k)
          BY <1>0, <2>3, <3>1, <5>1, <5>2 DEF EndInv
        <5>4. CASE i = Len(log) + 1
          BY <2>3, <5>2, <5>3, <5>4
        <5>5. CASE i \in 1..Len(log)
          <6>1. \E j \in 1..(i - 1) : log[j] = Ev(u, k)
            BY <1>0, <2>3, <3>1, <5>1, <5>5 DEF EndInv
          <6> QED BY <2>3, <5>5, <6>1
        <5> QED BY <2>3, <5>4, <5>5
      <4> QED BY <4>1, <4>2
    <3>2. client = "ended" => taken \in 1..(Len(log) + 1) /\ log'[taken] = End
      BY <1>0, <2>3 DEF EndInv
    <3>3. (finishes # 0 /\ ~closed => \E i \in DOMAIN log : log[i] = End)'
      BY <2>3
    <3>4. (finishes = 0 => /\ ~finished
                           /\ \A i \in DOMAIN log : log[i] # End
                           /\ \A u \in Senders : cut[u] = 0)'
      BY <1>2
    <3>5. ~closed => \A i \in 1..(Len(log) + 1) : log'[i] = End =>
            \A u \in Senders : \A k \in 1..cut'[u] : \E j \in 1..(i - 1) : log'[j] = Ev(u, k)
      BY <3>1
    <3>6. DOMAIN log' = 1..(Len(log) + 1)
      BY <2>3
    <3>7. (~closed => \A i \in DOMAIN log : log[i] = End =>
             \A u \in Senders : \A k \in 1..cut[u] : \E j \in 1..(i - 1) : log[j] = Ev(u, k))'
      BY <2>1, <3>5, <3>6, Zenon DEF Ev
    <3>8. (client = "ended" => taken \in DOMAIN log /\ log[taken] = End)'
      BY <1>1, <3>2, <3>6, Zenon
    <3> QED BY <3>3, <3>4, <3>7, <3>8, Zenon DEF EndInv
  <2> QED BY <2>4, <2>6, <2>7, <2>8, <2>9 DEF IInv
<1> QED BY <1>4, <1>5

LEMMA StepInv == IInv /\ [Next]_vars => IInv'
<1> SUFFICES ASSUME IInv, [Next]_vars PROVE IInv'
  OBVIOUS
<1>1. ASSUME NEW s \in Senders, SendEvent(s) PROVE IInv'
  BY <1>1, SendEventInv
<1>2. ASSUME NEW s \in Senders, Put(s) PROVE IInv'
  BY <1>2, PutInv
<1>3. ASSUME NEW s \in Senders, Wait(s) PROVE IInv'
  BY <1>3, WaitInv
<1>4. ASSUME NEW s \in Senders, Timeout(s) PROVE IInv'
  BY <1>4, TimeoutInv
<1>5. ASSUME NEW s \in Senders, Finish(s) PROVE IInv'
  BY <1>5, FinishInv
<1>6. CASE Take \/ Deadline \/ Broken \/ Leave
  BY <1>6, ClientInv
<1>7. CASE UNCHANGED vars
  <2>0. TypeOK /\ SenderInv /\ SentInv /\ NoGap /\ EndInv
    BY DEF IInv
  <2>1. TypeOK'
    BY <1>7, <2>0 DEF vars, TypeOK, QSize
  <2>2. SenderInv'
    BY <1>7, <2>0, Steady DEF vars
  <2>3. SentInv' /\ NoGap'
    BY <1>7, <2>0 DEF vars, SentInv, NoGap
  <2>4. EndInv'
    BY <1>7, <2>0, Zenon DEF vars, EndInv, Ev
  <2> QED BY <2>1, <2>2, <2>3, <2>4 DEF IInv
<1> QED BY <1>1, <1>2, <1>3, <1>4, <1>5, <1>6, <1>7 DEF Next

LEMMA AlwaysIInv == Spec => []IInv
BY InitInv, StepInv, PTL DEF Spec

\* The queue of the adapter never holds more than its maxsize, however many
\* puts wait for room, and every counter keeps its range.
THEOREM StreamTypeCorrect == Spec => []TypeOK
<1>1. IInv => TypeOK
  BY DEF IInv
<1> QED BY <1>1, AlwaysIInv, PTL

\* Whatever is dropped by a timeout, a close or a finish, the client reads the
\* events of each task in the order of its send_event calls, without a gap.
THEOREM AlwaysNoGap == Spec => []NoGap
<1>1. IInv => NoGap
  BY DEF IInv
<1> QED BY <1>1, AlwaysIInv, PTL

\* A client that stopped reading costs no task more than one put_timeout: the
\* first closes the stream, and send_event on a closed stream returns at once.
THEOREM AlwaysOneTimeout == Spec => []OneTimeoutEach
<1>1. IInv => OneTimeoutEach
  BY Zenon DEF IInv, SenderInv, OneTimeoutEach
<1> QED BY <1>1, AlwaysIInv, PTL

\* The sentinel of finish() that reaches the client of a stream never closed
\* comes after every event the finishing task had sent.
THEOREM AlwaysEndComplete == Spec => []EndComplete
<1>1. IInv => EndComplete
  <2> SUFFICES ASSUME IInv, client = "ended", ~closed,
                      NEW s \in Senders, NEW k \in 1..cut[s]
               PROVE  Ev(s, k) \in Received
    BY DEF EndComplete, Ev
  <2>1. TypeOK /\ taken \in DOMAIN log /\ log[taken] = End
    BY DEF IInv, EndInv
  <2>2. \E j \in 1..(taken - 1) : log[j] = Ev(s, k)
    BY <2>1 DEF IInv, EndInv
  <2>3. taken \in Nat /\ \A j \in 1..(taken - 1) : j \in 1..taken
    BY <2>1 DEF TypeOK
  <2> QED BY <2>2, <2>3, Zenon DEF Received
<1> QED BY <1>1, AlwaysIInv, PTL

=============================================================================

---------------------------- MODULE StoreProofs -----------------------------
(***************************************************************************)
(* Proofs about Store for any number of requests, addresses, codes and     *)
(* blocks: its type and safety invariants, and that every step of it is a  *)
(* step of StorePromise or leaves its variables alone.                     *)
(*                                                                         *)
(* The order of the queue is what the promise rests on.  Queued says that  *)
(* what a pending request has in its buffer, followed by the data events   *)
(* of its that wait in the queue, is what its server sent, and that its    *)
(* complete event is behind all of them.                                   *)
(***************************************************************************)
EXTENDS Store, TLAPS

\* The positions in the queue of the data events of a request.
DataOf(r) == {i \in DOMAIN events : events[i].of = r /\ events[i].type = "data"}

\* A sequence that holds the first blocks of a request, in their order.
Numbered(s, r) == \A k \in 1..Len(s) : s[k] = <<r, k>>

Quiet ==
  \A r \in Request :
    /\ outcome[r] = "unasked" => reply[r] = <<>>
    /\ Numbered(reply[r], r) /\ Len(reply[r]) <= MaxBlocks

Ended ==
  \A i \in DOMAIN events : events[i].type = "complete" =>
    /\ verdict[events[i].of] # Open
    /\ \A j \in DOMAIN events : events[j].of = events[i].of => j <= i

QueuedOf(r) ==
  LET b == buf[pointer[r]]
  IN  /\ Numbered(b, r) /\ Len(b) <= Len(reply[r])
      /\ \A i \in DataOf(r) : \E k \in (Len(b) + 1)..Len(reply[r]) : events[i].data = <<r, k>>
      /\ \A k \in (Len(b) + 1)..Len(reply[r]) : \E i \in DataOf(r) : events[i].data = <<r, k>>
      /\ \A i, j \in DataOf(r) : i < j => events[i].data[2] < events[j].data[2]

Queued == \A r \in Request : outcome[r] = "pending" => QueuedOf(r)

StoreInv ==
  /\ TypeOK /\ NoStaleHandler /\ OnlySentLeft
  /\ Quiet /\ Ended /\ Queued

-----------------------------------------------------------------------------
LEMMA EventFacts ==
  ASSUME TypeOK
  PROVE  /\ events \in Seq(Events) /\ Len(events) \in Nat
         /\ DOMAIN events = 1..Len(events)
         /\ \A i \in DOMAIN events :
              /\ events[i] \in Events /\ events[i].of \in Request
              /\ events[i].type \in {"data", "complete"}
              /\ events[i].type = "data" => events[i].data \in Block
<1>1. events \in Seq(Events)
  BY DEF TypeOK
<1>2. \A i \in DOMAIN events : events[i] \in Events
  BY <1>1
<1> QED
  BY <1>1, <1>2 DEF Events

\* An event at the end of the queue.
LEMMA AppendFacts ==
  ASSUME TypeOK, NEW e \in Events, events' = Append(events, e)
  PROVE  /\ events' \in Seq(Events)
         /\ DOMAIN events' = 1..(Len(events) + 1)
         /\ events'[Len(events) + 1] = e
         /\ \A i \in DOMAIN events : i \in DOMAIN events' /\ events'[i] = events[i]
         /\ \A i \in DOMAIN events' : i \in DOMAIN events \/ i = Len(events) + 1
<1>1. events \in Seq(Events) /\ Len(events) \in Nat /\ DOMAIN events = 1..Len(events)
  BY EventFacts
<1> QED
  BY <1>1

\* The queue without its first event.
LEMMA TailFacts ==
  ASSUME TypeOK, events # <<>>, events' = Tail(events)
  PROVE  /\ events' \in Seq(Events) /\ 1 \in DOMAIN events /\ Head(events) = events[1]
         /\ \A i \in DOMAIN events' : i + 1 \in DOMAIN events /\ events'[i] = events[i + 1]
         /\ \A i \in DOMAIN events : i # 1 => i - 1 \in DOMAIN events' /\ events'[i - 1] = events[i]
         /\ DOMAIN events' \subseteq Nat \ {0} /\ DOMAIN events \subseteq Nat \ {0}
<1>1. events \in Seq(Events) /\ Len(events) \in Nat /\ DOMAIN events = 1..Len(events)
  BY EventFacts
<1>2. Len(events) > 0 /\ Len(events') = Len(events) - 1 /\ DOMAIN events' = 1..(Len(events) - 1)
  BY <1>1
<1> QED
  BY <1>1, <1>2

\* A pending request owns the address of its connection, with both handlers.
LEMMA PendingFacts ==
  ASSUME TypeOK, NoStaleHandler, NEW r \in Request, outcome[r] = "pending"
  PROVE  /\ pointer[r] \in Addr /\ owner[pointer[r]] = r
         /\ \A a \in Addr : owner[a] = r => a = pointer[r]
         /\ <<"ed", pointer[r]>> \in handlers /\ <<"ec", pointer[r]>> \in handlers
<1>1. {a \in Addr : owner[a] = r} = {pointer[r]}
  BY DEF NoStaleHandler
<1>2. pointer[r] \in Addr /\ owner[pointer[r]] = r /\ \A a \in Addr : owner[a] = r => a = pointer[r]
  BY <1>1
<1>3. r # Nobody
  BY StoreAssumption
<1> QED
  BY <1>2, <1>3 DEF NoStaleHandler

\* The handlers that take an event of a pending request are its own.
LEMMA HandlingFacts ==
  ASSUME TypeOK, NoStaleHandler, NEW e \in Events, outcome[e.of] = "pending",
         NEW h \in {"ed", "ec"}
  PROVE  e.of \in Request /\ Handling(h, e) = {pointer[e.of]}
<1>1. e.of \in Request
  BY DEF Events
<1>2. pointer[e.of] \in Addr /\ <<h, pointer[e.of]>> \in handlers
  BY <1>1, PendingFacts
<1> QED
  BY <1>1, <1>2 DEF Handling, ForMe

\* A step that leaves the data events and the buffer of a request alone.
LEMMA SameQueue ==
  ASSUME NEW q \in Request, QueuedOf(q),
         buf'[pointer'[q]] = buf[pointer[q]], reply'[q] = reply[q],
         DataOf(q)' = DataOf(q), \A i \in DataOf(q) : events'[i] = events[i]
  PROVE  QueuedOf(q)'
<1> DEFINE b == buf[pointer[q]]
<1>1. Numbered(b, q)' /\ Len(b') <= Len(reply'[q])
  BY DEF QueuedOf, Numbered
<1>2. \A i \in DataOf(q)' : \E k \in (Len(b') + 1)..Len(reply'[q]) : events'[i].data = <<q, k>>
  BY DEF QueuedOf
<1>3. \A k \in (Len(b') + 1)..Len(reply'[q]) : \E i \in DataOf(q)' : events'[i].data = <<q, k>>
  BY DEF QueuedOf
<1>4. \A i, j \in DataOf(q)' : i < j => events'[i].data[2] < events'[j].data[2]
  BY DEF QueuedOf
<1> QED
  BY <1>1, <1>2, <1>3, <1>4 DEF QueuedOf

-----------------------------------------------------------------------------
LEMMA StoreInit == Init => StoreInv
<1> SUFFICES ASSUME Init PROVE StoreInv
  OBVIOUS
<1>1. TypeOK
  BY DEF Init, TypeOK, Events
<1>2. NoStaleHandler
  BY StoreAssumption DEF Init, NoStaleHandler
<1>3. OnlySentLeft
  BY DEF Init, OnlySentLeft
<1>4. Quiet /\ Ended /\ Queued
  BY StoreAssumption DEF Init, Quiet, Numbered, Ended, Queued
<1> QED
  BY <1>1, <1>2, <1>3, <1>4 DEF StoreInv

-----------------------------------------------------------------------------
LEMMA FailsKeeps ==
  ASSUME StoreInv, NEW r \in Request, StoreAddFails(r)
  PROVE  StoreInv'
<1>1. outcome' = [outcome EXCEPT ![r] = "refused"] /\ outcome[r] = "unasked"
  BY DEF StoreAddFails
<1>2. TypeOK
  BY DEF StoreInv
<1>3. \A n \in 1..Post : Unwound(r, n) \subseteq Sent(r)
  BY DEF Unwound
<1>4. held' \subseteq held \cup Sent(r)
  BY <1>3 DEF StoreAddFails
<1>5. TypeOK'
  BY <1>1, <1>2, <1>4 DEF StoreAddFails, TypeOK, Sent, serverVars
<1>6. NoStaleHandler'
  BY <1>1, <1>2, EventFacts DEF StoreAddFails, NoStaleHandler, TypeOK, StoreInv
<1>7. OnlySentLeft'
  <2> SUFFICES ASSUME NEW h \in held' PROVE outcome'[h[1]] = "pending" \/ h[2] = "sent"
    BY DEF OnlySentLeft
  <2>1. CASE h \in Sent(r)
    BY <2>1 DEF Sent
  <2>2. CASE h \in held
    BY <1>1, <1>2, <2>2 DEF OnlySentLeft, StoreInv, TypeOK
  <2> QED
    BY <2>1, <2>2, <1>4
<1>8. Quiet' /\ Ended'
  BY <1>1, <1>2 DEF StoreAddFails, serverVars, Quiet, Numbered, Ended, StoreInv, TypeOK
<1>9. Queued'
  <2> SUFFICES ASSUME NEW q \in Request, outcome'[q] = "pending" PROVE QueuedOf(q)'
    BY DEF Queued
  <2>1. outcome[q] = "pending" /\ QueuedOf(q)
    BY <1>1, <1>2 DEF Queued, StoreInv, TypeOK
  <2>2. UNCHANGED <<buf, pointer, reply, events>>
    BY DEF StoreAddFails, serverVars
  <2> QED
    BY <2>1, <2>2, SameQueue DEF DataOf
<1> QED
  BY <1>5, <1>6, <1>7, <1>8, <1>9 DEF StoreInv

LEMMA AddKeeps ==
  ASSUME StoreInv, NEW r \in Request, StoreAdd(r)
  PROVE  StoreInv'
<1>1. PICK a \in Addr :
        /\ owner[a] = Nobody
        /\ owner' = [owner EXCEPT ![a] = r]
        /\ pointer' = [pointer EXCEPT ![r] = a]
        /\ buf' = [buf EXCEPT ![a] = <<>>]
        /\ handlers' = handlers \cup {<<"ed", a>>, <<"ec", a>>}
  BY DEF StoreAdd
<1>2. /\ outcome[r] = "unasked" /\ outcome' = [outcome EXCEPT ![r] = "pending"]
      /\ held' = held \cup Resources(r, Len(Taken)) \cup Sent(r)
      /\ UNCHANGED <<answer, reply, verdict, events>>
  BY DEF StoreAdd, serverVars
<1>3. TypeOK /\ NoStaleHandler
  BY DEF StoreInv
<1>4. Resources(r, Len(Taken)) \cup Sent(r) \subseteq {r} \X {"sa", "url", "buf", "ed", "ec", "sent"}
  BY DEF Resources, Taken, Sent
<1>5. \A i \in DOMAIN events : events[i].of # r /\ events[i].of \in Request
  BY <1>2, <1>3, EventFacts DEF NoStaleHandler
<1>6. TypeOK'
  BY <1>1, <1>2, <1>3, <1>4 DEF TypeOK
<1>7. NoStaleHandler'
  <2>1. \A q \in Request \ {r} : {b \in Addr : owner'[b] = q} = {b \in Addr : owner[b] = q}
    BY <1>1, <1>3, StoreAssumption DEF TypeOK
  <2>2. {b \in Addr : owner[b] = r} = {}
    BY <1>2, <1>3 DEF NoStaleHandler
  <2>3. {b \in Addr : owner'[b] = r} = {a}
    BY <1>1, <1>3, <2>2 DEF TypeOK
  <2>4. \A q \in Request :
          {b \in Addr : owner'[b] = q} = IF outcome'[q] = "pending" THEN {pointer'[q]} ELSE {}
    BY <1>1, <1>2, <1>3, <2>1, <2>3 DEF NoStaleHandler, TypeOK
  <2>5. handlers' = {"ed", "ec"} \X {b \in Addr : owner'[b] # Nobody}
    BY <1>1, <1>3, StoreAssumption DEF NoStaleHandler, TypeOK
  <2>6. \A i \in DOMAIN events' : outcome'[events'[i].of] = "pending"
    BY <1>2, <1>3, <1>5 DEF NoStaleHandler, TypeOK
  <2> QED
    BY <2>4, <2>5, <2>6 DEF NoStaleHandler
<1>8. OnlySentLeft'
  BY <1>2, <1>3, <1>4 DEF OnlySentLeft, StoreInv, TypeOK
<1>9. Quiet' /\ Ended'
  BY <1>2, <1>3 DEF Quiet, Numbered, Ended, StoreInv, TypeOK
<1>10. Queued'
  <2> SUFFICES ASSUME NEW q \in Request, outcome'[q] = "pending" PROVE QueuedOf(q)'
    BY DEF Queued
  <2>1. CASE q = r
    <3>1. buf'[pointer'[q]] = <<>> /\ reply'[q] = <<>> /\ DataOf(q)' = {}
      BY <1>1, <1>2, <1>3, <1>5, <2>1 DEF Quiet, StoreInv, TypeOK, DataOf
    <3> QED
      BY <3>1 DEF QueuedOf, Numbered
  <2>2. CASE q # r
    <3>1. outcome[q] = "pending" /\ pointer'[q] = pointer[q]
      BY <1>1, <1>2, <1>3, <2>2 DEF TypeOK
    <3>2. owner[pointer[q]] = q
      BY <1>3, <3>1, PendingFacts
    <3>3. pointer[q] # a /\ pointer[q] \in Addr
      BY <1>1, <1>3, <3>1, <3>2, PendingFacts, StoreAssumption
    <3>4. buf'[pointer'[q]] = buf[pointer[q]]
      BY <1>1, <1>3, <3>1, <3>3 DEF TypeOK
    <3> QED
      BY <1>2, <1>3, <2>2, <3>1, <3>4, SameQueue DEF Queued, DataOf, StoreInv
  <2> QED
    BY <2>1, <2>2
<1> QED
  BY <1>6, <1>7, <1>8, <1>9, <1>10 DEF StoreInv

LEMMA EndsKeeps ==
  ASSUME StoreInv, NEW r \in Request, NEW c \in Code, ConnectionEnds(r, c)
  PROVE  StoreInv'
<1> DEFINE e == [type |-> "complete", of |-> r]
<1>1. /\ outcome[r] = "pending" /\ verdict[r] = Open
      /\ verdict' = [verdict EXCEPT ![r] = c] /\ events' = Append(events, e)
      /\ UNCHANGED <<outcome, answer, reply, pointer, owner, buf, handlers, held>>
  BY DEF ConnectionEnds, callVars, memoryVars
<1>2. TypeOK /\ NoStaleHandler /\ c # Open
  BY StoreAssumption DEF StoreInv
<1>3. e \in Events
  BY DEF Events
<1>4. /\ events' \in Seq(Events) /\ DOMAIN events' = 1..(Len(events) + 1)
      /\ events'[Len(events) + 1] = e
      /\ \A i \in DOMAIN events : i \in DOMAIN events' /\ events'[i] = events[i]
      /\ \A i \in DOMAIN events' : i \in DOMAIN events \/ i = Len(events) + 1
      /\ Len(events) \in Nat /\ DOMAIN events = 1..Len(events)
  BY <1>1, <1>2, <1>3, AppendFacts, EventFacts
<1>5. TypeOK'
  BY <1>1, <1>2, <1>4 DEF TypeOK
<1>6. NoStaleHandler'
  BY <1>1, <1>2, <1>4 DEF NoStaleHandler
<1>7. OnlySentLeft' /\ Quiet'
  BY <1>1 DEF OnlySentLeft, Quiet, Numbered, StoreInv
<1>8. Ended'
  <2> SUFFICES ASSUME NEW i \in DOMAIN events', events'[i].type = "complete"
               PROVE  /\ verdict'[events'[i].of] # Open
                      /\ \A j \in DOMAIN events' : events'[j].of = events'[i].of => j <= i
    BY DEF Ended
  <2>1. CASE i = Len(events) + 1
    BY <1>1, <1>2, <1>4, <2>1 DEF TypeOK
  <2>2. CASE i \in DOMAIN events
    <3>1. events[i].type = "complete" /\ events[i].of \in Request /\ events'[i] = events[i]
      BY <1>2, <1>4, <2>2, EventFacts
    <3>2. verdict[events[i].of] # Open /\ events[i].of # r
      BY <1>1, <2>2, <3>1 DEF Ended, StoreInv
    <3> QED
      BY <1>1, <1>2, <1>4, <2>2, <3>1, <3>2 DEF Ended, StoreInv, TypeOK
  <2> QED
    BY <1>4, <2>1, <2>2
<1>9. \A q \in Request : DataOf(q)' = DataOf(q)
  BY <1>4 DEF DataOf
<1>10. Queued'
  <2> SUFFICES ASSUME NEW q \in Request, outcome'[q] = "pending" PROVE QueuedOf(q)'
    BY DEF Queued
  <2>1. \A i \in DataOf(q) : events'[i] = events[i]
    BY <1>4 DEF DataOf
  <2> QED
    BY <1>1, <1>9, <2>1, SameQueue DEF Queued, StoreInv
<1> QED
  BY <1>5, <1>6, <1>7, <1>8, <1>10 DEF StoreInv

LEMMA ArrivesKeeps ==
  ASSUME StoreInv, NEW r \in Request, DataArrives(r)
  PROVE  StoreInv'
<1> DEFINE L == Len(reply[r])
           block == <<r, L + 1>>
           e == [type |-> "data", of |-> r, data |-> block]
           last == Len(events) + 1
<1>1. /\ outcome[r] = "pending" /\ verdict[r] = Open /\ L < MaxBlocks
      /\ reply' = [reply EXCEPT ![r] = Append(@, block)] /\ events' = Append(events, e)
      /\ UNCHANGED <<outcome, answer, verdict, pointer, owner, buf, handlers, held>>
  BY DEF DataArrives, callVars, memoryVars
<1>2. TypeOK /\ NoStaleHandler /\ L \in Nat /\ reply[r] \in Seq(Block)
  BY DEF StoreInv, TypeOK
<1>3. block \in Block /\ e \in Events
  BY <1>1, <1>2, StoreAssumption DEF Events, Block
<1>4. /\ events' \in Seq(Events) /\ DOMAIN events' = 1..last
      /\ events'[last] = e
      /\ \A i \in DOMAIN events : i \in DOMAIN events' /\ events'[i] = events[i]
      /\ \A i \in DOMAIN events' : i \in DOMAIN events \/ i = last
      /\ Len(events) \in Nat /\ DOMAIN events = 1..Len(events)
  BY <1>1, <1>2, <1>3, AppendFacts, EventFacts
<1>5. /\ reply'[r] \in Seq(Block) /\ Len(reply'[r]) = L + 1 /\ reply'[r][L + 1] = block
      /\ \A k \in 1..L : reply'[r][k] = reply[r][k]
      /\ \A q \in Request \ {r} : reply'[q] = reply[q]
  BY <1>1, <1>2, <1>3 DEF TypeOK
<1>6. TypeOK'
  BY <1>1, <1>2, <1>3, <1>4 DEF TypeOK
<1>7. NoStaleHandler' /\ OnlySentLeft'
  BY <1>1, <1>2, <1>4 DEF NoStaleHandler, OnlySentLeft, StoreInv
<1>8. Quiet'
  <2>1. Numbered(reply[r], r)
    BY DEF Quiet, StoreInv
  <2>2. Numbered(reply'[r], r) /\ Len(reply'[r]) <= MaxBlocks
    BY <1>1, <1>2, <1>5, <2>1, StoreAssumption DEF Numbered
  <2> QED
    BY <1>1, <1>5, <2>2 DEF Quiet, Numbered, StoreInv
<1>9. Ended'
  BY <1>1, <1>2, <1>4, EventFacts DEF Ended, StoreInv
<1>10. Queued'
  <2> SUFFICES ASSUME NEW q \in Request, outcome'[q] = "pending" PROVE QueuedOf(q)'
    BY DEF Queued
  <2>1. QueuedOf(q) /\ buf'[pointer'[q]] = buf[pointer[q]]
    BY <1>1 DEF Queued, StoreInv
  <2>2. CASE q # r
    <3>1. DataOf(q)' = DataOf(q) /\ \A i \in DataOf(q) : events'[i] = events[i]
      BY <1>4, <2>2 DEF DataOf
    <3> QED
      BY <1>5, <2>1, <2>2, <3>1, SameQueue
  <2>3. CASE q = r
    <3> DEFINE b == buf[pointer[q]]
    <3>1. DataOf(q)' = DataOf(q) \cup {last} /\ \A i \in DataOf(q) : events'[i] = events[i] /\ i < last
      BY <1>4, <2>3 DEF DataOf
    <3>2. Len(b) \in Nat
      BY <1>1, <1>2, <2>3, PendingFacts DEF TypeOK
    <3>3. Numbered(b, q)' /\ Len(b') <= Len(reply'[q])
      BY <1>2, <1>5, <2>1, <2>3, <3>2 DEF QueuedOf, Numbered
    <3>4. \A i \in DataOf(q) : \E k \in (Len(b) + 1)..L : events'[i].data = <<q, k>>
      BY <2>1, <2>3, <3>1 DEF QueuedOf
    <3>5. \A i \in DataOf(q)' : \E k \in (Len(b') + 1)..Len(reply'[q]) : events'[i].data = <<q, k>>
      <4>1. L + 1 \in (Len(b) + 1)..(L + 1) /\ events'[last].data = <<q, L + 1>>
        BY <1>2, <1>4, <2>1, <2>3, <3>2 DEF QueuedOf
      <4> QED
        BY <1>2, <1>5, <2>1, <2>3, <3>1, <3>2, <3>4, <4>1
    <3>6. \A k \in (Len(b') + 1)..Len(reply'[q]) : \E i \in DataOf(q)' : events'[i].data = <<q, k>>
      <4> SUFFICES ASSUME NEW k \in (Len(b) + 1)..(L + 1)
                   PROVE  \E i \in DataOf(q)' : events'[i].data = <<q, k>>
        BY <1>5, <2>1, <2>3
      <4>1. CASE k = L + 1
        BY <1>4, <2>3, <3>1, <4>1
      <4>2. CASE k # L + 1
        <5>1. k \in (Len(b) + 1)..Len(reply[q])
          BY <1>2, <2>3, <3>2, <4>2
        <5> QED
          BY <2>1, <3>1, <5>1 DEF QueuedOf
      <4> QED
        BY <4>1, <4>2
    <3>7. \A i, j \in DataOf(q)' : i < j => events'[i].data[2] < events'[j].data[2]
      <4> SUFFICES ASSUME NEW i \in DataOf(q)', NEW j \in DataOf(q)', i < j
                   PROVE  events'[i].data[2] < events'[j].data[2]
        OBVIOUS
      <4>1. i \in DataOf(q)
        BY <1>4, <3>1 DEF DataOf
      <4>2. CASE j \in DataOf(q)
        BY <2>1, <3>1, <4>1, <4>2 DEF QueuedOf
      <4>3. CASE j = last
        <5>1. PICK k \in (Len(b) + 1)..L : events'[i].data = <<q, k>>
          BY <3>4, <4>1
        <5> QED
          BY <1>2, <1>4, <3>2, <4>3, <5>1
      <4> QED
        BY <3>1, <4>2, <4>3
    <3> QED
      BY <3>3, <3>5, <3>6, <3>7 DEF QueuedOf
  <2> QED
    BY <2>2, <2>3
<1> QED
  BY <1>6, <1>7, <1>8, <1>9, <1>10 DEF StoreInv

-----------------------------------------------------------------------------
\* The data events that are left when the head of the queue is taken.
LEMMA DataShift ==
  ASSUME TypeOK, events # <<>>, events' = Tail(events), NEW q \in Request
  PROVE  /\ \A i \in DataOf(q)' : i \in Nat \ {0} /\ i + 1 \in DataOf(q) /\ events'[i] = events[i + 1]
         /\ \A i \in DataOf(q) : i \in Nat /\ (i # 1 => i - 1 \in DataOf(q)' /\ events'[i - 1] = events[i])
<1>1. /\ \A i \in DOMAIN events' : i + 1 \in DOMAIN events /\ events'[i] = events[i + 1]
      /\ \A i \in DOMAIN events : i # 1 => i - 1 \in DOMAIN events' /\ events'[i - 1] = events[i]
      /\ DOMAIN events' \subseteq Nat \ {0} /\ DOMAIN events \subseteq Nat \ {0}
  BY TailFacts
<1> QED
  BY <1>1 DEF DataOf

\* The event at the head is not data of this request.
LEMMA ShiftQueue ==
  ASSUME NEW q \in Request, QueuedOf(q),
         \A i \in DataOf(q)' : i \in Nat /\ i + 1 \in DataOf(q) /\ events'[i] = events[i + 1],
         \A i \in DataOf(q) : i - 1 \in DataOf(q)' /\ events'[i - 1] = events[i],
         buf'[pointer'[q]] = buf[pointer[q]], reply'[q] = reply[q]
  PROVE  QueuedOf(q)'
<1> DEFINE b == buf[pointer[q]]
<1>1. Numbered(b, q)' /\ Len(b') <= Len(reply'[q])
  BY DEF QueuedOf, Numbered
<1>2. \A i \in DataOf(q)' : \E k \in (Len(b') + 1)..Len(reply'[q]) : events'[i].data = <<q, k>>
  BY DEF QueuedOf
<1>3. \A k \in (Len(b') + 1)..Len(reply'[q]) : \E i \in DataOf(q)' : events'[i].data = <<q, k>>
  BY DEF QueuedOf
<1>4. \A i, j \in DataOf(q)' : i < j => events'[i].data[2] < events'[j].data[2]
  <2> SUFFICES ASSUME NEW i \in DataOf(q)', NEW j \in DataOf(q)', i < j
               PROVE  events'[i].data[2] < events'[j].data[2]
    OBVIOUS
  <2>1. /\ i + 1 \in DataOf(q) /\ j + 1 \in DataOf(q) /\ i + 1 < j + 1
        /\ events'[i] = events[i + 1] /\ events'[j] = events[j + 1]
    OBVIOUS
  <2> QED
    BY <2>1 DEF QueuedOf
<1> QED
  BY <1>1, <1>2, <1>3, <1>4 DEF QueuedOf

LEMMA EndedShift ==
  ASSUME TypeOK, Ended, events # <<>>, events' = Tail(events), UNCHANGED verdict
  PROVE  Ended'
<1>1. /\ \A i \in DOMAIN events' : i \in Nat /\ i + 1 \in DOMAIN events /\ events'[i] = events[i + 1]
  BY TailFacts
<1> SUFFICES ASSUME NEW i \in DOMAIN events', events'[i].type = "complete"
             PROVE  /\ verdict'[events'[i].of] # Open
                    /\ \A j \in DOMAIN events' : events'[j].of = events'[i].of => j <= i
  BY DEF Ended
<1>2. /\ verdict[events[i + 1].of] # Open
      /\ \A j \in DOMAIN events : events[j].of = events[i + 1].of => j <= i + 1
  BY <1>1 DEF Ended
<1> HIDE DEF Ended
<1>3. verdict'[events'[i].of] # Open
  BY <1>1, <1>2
<1>4. ASSUME NEW j \in DOMAIN events', events'[j].of = events'[i].of PROVE j <= i
  <2>1. i \in Nat /\ j \in Nat /\ j + 1 \in DOMAIN events /\ events[j + 1].of = events[i + 1].of
    BY <1>1, <1>4
  <2>2. j + 1 <= i + 1
    BY <1>2, <2>1
  <2> QED
    BY <2>1, <2>2
<1> QED
  BY <1>3, <1>4

\* The block at the head of the queue is the next one of its request.
LEMMA NextBlock ==
  ASSUME TypeOK, events # <<>>, NEW r \in Request, QueuedOf(r), 1 \in DataOf(r),
         Len(buf[pointer[r]]) \in Nat, Len(reply[r]) \in Nat
  PROVE  /\ Len(buf[pointer[r]]) + 1 <= Len(reply[r])
         /\ events[1].data = <<r, Len(buf[pointer[r]]) + 1>>
<1> DEFINE n == Len(buf[pointer[r]]) + 1
<1>1. PICK k \in n..Len(reply[r]) : events[1].data = <<r, k>>
  BY DEF QueuedOf
<1>2. PICK i \in DataOf(r) : events[i].data = <<r, n>>
  BY <1>1 DEF QueuedOf
<1>3. i = 1 \/ 1 < i
  BY EventFacts DEF DataOf
<1>4. ~(1 < i)
  <2> SUFFICES ASSUME 1 < i PROVE FALSE
    OBVIOUS
  <2>1. events[1].data[2] < events[i].data[2]
    BY DEF QueuedOf
  <2> QED
    BY <1>1, <1>2, <2>1
<1> QED
  BY <1>1, <1>2, <1>3, <1>4

\* The handlers of the data events take the head of the queue.
LEMMA TakeBlock ==
  ASSUME NEW r \in Request, QueuedOf(r), 1 \in DataOf(r),
         NEW b, b = buf[pointer[r]], b \in Seq(Block), Len(reply[r]) \in Nat,
         Len(b) + 1 <= Len(reply[r]), events[1].data = <<r, Len(b) + 1>>,
         events[1].data \in Block,
         buf'[pointer'[r]] = Append(b, events[1].data), reply'[r] = reply[r],
         \A i \in DataOf(r)' : i \in Nat \ {0} /\ i + 1 \in DataOf(r) /\ events'[i] = events[i + 1],
         \A i \in DataOf(r) : i \in Nat /\ (i # 1 => i - 1 \in DataOf(r)' /\ events'[i - 1] = events[i])
  PROVE  QueuedOf(r)'
<1> DEFINE n == Len(b) + 1
           c == Append(b, events[1].data)
<1>1. /\ Len(c) = n /\ n \in Nat /\ c[n] = <<r, n>>
      /\ \A k \in 1..Len(b) : c[k] = b[k]
  OBVIOUS
<1>2. \A k \in 1..Len(c) : c[k] = <<r, k>>
  BY <1>1 DEF QueuedOf, Numbered
<1>3. ASSUME NEW i \in DataOf(r)'
      PROVE  \E k \in (n + 1)..Len(reply[r]) : events'[i].data = <<r, k>>
  <2>1. i + 1 \in DataOf(r) /\ 1 < i + 1 /\ events'[i] = events[i + 1]
    OBVIOUS
  <2>2. PICK k \in n..Len(reply[r]) : events[i + 1].data = <<r, k>>
    BY <2>1 DEF QueuedOf
  <2>3. events[1].data[2] < events[i + 1].data[2]
    BY <2>1 DEF QueuedOf
  <2>4. n < k
    BY <2>2, <2>3
  <2> QED
    BY <1>1, <2>1, <2>2, <2>4
<1>4. ASSUME NEW k \in (n + 1)..Len(reply[r])
      PROVE  \E i \in DataOf(r)' : events'[i].data = <<r, k>>
  <2>0. k \in (Len(b) + 1)..Len(reply[r]) /\ k # n
    BY <1>1
  <2>1. PICK i \in DataOf(r) : events[i].data = <<r, k>>
    BY <2>0 DEF QueuedOf
  <2>2. i # 1
    BY <2>0, <2>1
  <2> QED
    BY <2>1, <2>2
<1>5. ASSUME NEW i \in DataOf(r)', NEW j \in DataOf(r)', i < j
      PROVE  events'[i].data[2] < events'[j].data[2]
  <2>1. /\ i + 1 \in DataOf(r) /\ j + 1 \in DataOf(r) /\ i + 1 < j + 1
        /\ events'[i] = events[i + 1] /\ events'[j] = events[j + 1]
    BY <1>5
  <2> QED
    BY <2>1 DEF QueuedOf
<1>6. Numbered(buf'[pointer'[r]], r) /\ Len(buf'[pointer'[r]]) <= Len(reply'[r])
  BY <1>1, <1>2 DEF Numbered
<1>7. Len(buf'[pointer'[r]]) = n /\ reply'[r] = reply[r]
  BY <1>1
<1>8. /\ \A i \in DataOf(r)' : \E k \in (Len(buf'[pointer'[r]]) + 1)..Len(reply'[r]) : events'[i].data = <<r, k>>
      /\ \A k \in (Len(buf'[pointer'[r]]) + 1)..Len(reply'[r]) : \E i \in DataOf(r)' : events'[i].data = <<r, k>>
  BY <1>3, <1>4, <1>7
<1> QED
  BY <1>5, <1>6, <1>8 DEF QueuedOf

LEMMA EventDataKeeps ==
  ASSUME StoreInv, EventData
  PROVE  StoreInv'
<1> DEFINE e == events[1]
           r == e.of
<1>1. TypeOK /\ NoStaleHandler /\ Quiet /\ Ended /\ Queued
  BY DEF StoreInv
<1>2. /\ events # <<>> /\ events' = Tail(events) /\ e.type = "data"
      /\ 1 \in DOMAIN events /\ Head(events) = e
  BY <1>1, TailFacts DEF EventData
<1>3. /\ e \in Events /\ r \in Request /\ e.data \in Block /\ outcome[r] = "pending" /\ 1 \in DataOf(r)
  BY <1>1, <1>2, EventFacts DEF NoStaleHandler, DataOf
<1>4. /\ buf' = [a \in Addr |-> IF a = pointer[r] THEN Append(buf[a], e.data) ELSE buf[a]]
      /\ UNCHANGED <<outcome, answer, reply, verdict, pointer, owner, handlers, held>>
  <2>1. Handling("ed", e) = {pointer[r]}
    BY <1>1, <1>3, HandlingFacts
  <2> QED
    BY <1>2, <2>1 DEF EventData, callVars, serverVars
<1>5. /\ events' \in Seq(Events)
      /\ \A i \in DOMAIN events' : i + 1 \in DOMAIN events /\ events'[i] = events[i + 1]
  BY <1>1, <1>2, TailFacts
<1>6. pointer[r] \in Addr /\ owner[pointer[r]] = r
  BY <1>1, <1>3, PendingFacts
<1>7. TypeOK'
  BY <1>1, <1>3, <1>4, <1>5 DEF TypeOK
<1>8. NoStaleHandler' /\ OnlySentLeft'
  BY <1>1, <1>4, <1>5 DEF NoStaleHandler, OnlySentLeft, StoreInv
<1>9. Quiet' /\ Ended'
  BY <1>1, <1>2, <1>4, EndedShift DEF Quiet, Numbered
<1>10. Queued'
  <2> SUFFICES ASSUME NEW q \in Request, outcome'[q] = "pending" PROVE QueuedOf(q)'
    BY DEF Queued
  <2>1. outcome[q] = "pending" /\ QueuedOf(q) /\ pointer'[q] = pointer[q] /\ reply'[q] = reply[q]
    BY <1>1, <1>4 DEF Queued
  <2>2. /\ \A i \in DataOf(q)' : i \in Nat \ {0} /\ i + 1 \in DataOf(q) /\ events'[i] = events[i + 1]
        /\ \A i \in DataOf(q) : i \in Nat /\ (i # 1 => i - 1 \in DataOf(q)' /\ events'[i - 1] = events[i])
    BY <1>1, <1>2, DataShift
  <2>3. CASE q = r
    <3> DEFINE b == buf[pointer[q]]
    <3>1. b \in Seq(Block) /\ Len(b) \in Nat /\ Len(reply[q]) \in Nat
      BY <1>1, <1>6, <2>3 DEF TypeOK
    <3>2. Len(b) + 1 <= Len(reply[q]) /\ events[1].data = <<q, Len(b) + 1>>
      BY <1>1, <1>2, <1>3, <2>1, <2>3, <3>1, NextBlock
    <3>3. buf'[pointer'[q]] = Append(b, events[1].data)
      BY <1>4, <1>6, <2>1, <2>3
    <3> HIDE DEF b, e
    <3>4. 1 \in DataOf(q) /\ events[1].data \in Block
      BY <1>3, <2>3 DEF e
    <3> QED
      BY <2>1, <2>2, <3>1, <3>2, <3>3, <3>4, TakeBlock DEF b
  <2>4. CASE q # r
    <3>1. pointer[q] # pointer[r] /\ pointer[q] \in Addr
      BY <1>1, <1>6, <2>1, <2>4, PendingFacts
    <3>2. buf'[pointer'[q]] = buf[pointer[q]]
      BY <1>4, <2>1, <3>1
    <3>3. 1 \notin DataOf(q)
      BY <2>4 DEF DataOf
    <3>4. \A i \in DataOf(q) : i - 1 \in DataOf(q)' /\ events'[i - 1] = events[i]
      BY <2>2, <3>3
    <3> QED
      BY <2>1, <2>2, <3>2, <3>4, ShiftQueue
  <2> QED
    BY <2>3, <2>4
<1> QED
  BY <1>7, <1>8, <1>9, <1>10 DEF StoreInv

-----------------------------------------------------------------------------
\* A request whose connection has ended and that has no data in the queue was
\* given all that its server sent.
LEMMA AllGiven ==
  ASSUME StoreInv, NEW r \in Request, outcome[r] = "pending", DataOf(r) = {}
  PROVE  buf[pointer[r]] = reply[r]
<1> DEFINE b == buf[pointer[r]]
<1>1. TypeOK /\ NoStaleHandler /\ Quiet /\ QueuedOf(r)
  BY DEF StoreInv, Queued
<1>2. /\ b \in Seq(Block) /\ reply[r] \in Seq(Block)
      /\ Len(b) \in Nat /\ Len(reply[r]) \in Nat
  <2>1. pointer[r] \in Addr
    BY <1>1, PendingFacts
  <2> QED
    BY <1>1, <2>1 DEF TypeOK
<1>3. Len(b) = Len(reply[r])
  <2>1. Len(b) <= Len(reply[r])
    BY <1>1 DEF QueuedOf
  <2>2. ~(Len(b) < Len(reply[r]))
    <3>1. \A k \in (Len(b) + 1)..Len(reply[r]) : FALSE
      BY <1>1 DEF QueuedOf
    <3>2. Len(b) < Len(reply[r]) => Len(reply[r]) \in (Len(b) + 1)..Len(reply[r])
      BY <1>2
    <3> QED
      BY <3>1, <3>2
  <2> QED
    BY <1>2, <2>1, <2>2
<1>4. \A k \in 1..Len(b) : b[k] = reply[r][k]
  BY <1>1, <1>3 DEF QueuedOf, Quiet, Numbered
<1> HIDE DEF b
<1>5. b = reply[r]
  BY <1>2, <1>3, <1>4
<1> QED
  BY <1>5 DEF b

LEMMA CompleteStep ==
  ASSUME StoreInv, EventComplete, NEW e, e = events[1], NEW r, r = e.of
  PROVE  /\ r \in Request /\ outcome[r] = "pending" /\ verdict[r] # Open
         /\ events # <<>> /\ events' = Tail(events) /\ 1 \in DOMAIN events
         /\ outcome' = [outcome EXCEPT ![r] = Told(r)]
         /\ answer' = [answer EXCEPT ![r] = reply[r]]
         /\ owner' = [owner EXCEPT ![pointer[r]] = Nobody]
         /\ handlers' = handlers \ ({"ed", "ec"} \X {pointer[r]})
         /\ held' = held \ Resources(r, Len(Taken))
         /\ UNCHANGED <<reply, verdict, pointer, buf>>
         /\ pointer[r] \in Addr /\ owner[pointer[r]] = r
         /\ \A j \in DOMAIN events : events[j].of = r => j <= 1
<1>1. TypeOK /\ NoStaleHandler /\ Ended
  BY DEF StoreInv
<1>2. /\ events # <<>> /\ events' = Tail(events) /\ e.type = "complete"
      /\ 1 \in DOMAIN events /\ Head(events) = e
  BY <1>1, TailFacts DEF EventComplete
<1>3. /\ e \in Events /\ r \in Request /\ outcome[r] = "pending" /\ verdict[r] # Open
      /\ \A j \in DOMAIN events : events[j].of = r => j <= 1
  BY <1>1, <1>2, EventFacts DEF NoStaleHandler, Ended
<1>4. pointer[r] \in Addr /\ owner[pointer[r]] = r
  BY <1>1, <1>3, PendingFacts
<1>5. Handling("ec", e) = {pointer[r]} /\ {owner[a] : a \in {pointer[r]}} = {r}
  BY <1>1, <1>3, <1>4, HandlingFacts
<1>6. /\ outcome' = [q \in Request |-> IF q \in {r} THEN Told(q) ELSE outcome[q]]
      /\ answer' = [q \in Request |-> IF q \in {r} THEN buf[pointer[q]] ELSE answer[q]]
      /\ Free({pointer[r]})
      /\ UNCHANGED <<reply, verdict, pointer, buf>>
  BY <1>2, <1>5 DEF EventComplete, serverVars
<1>7. DataOf(r) = {}
  BY <1>1, <1>2, <1>3, EventFacts DEF DataOf
<1>8. buf[pointer[r]] = reply[r]
  BY <1>3, <1>7, AllGiven
<1>9. /\ outcome' = [outcome EXCEPT ![r] = Told(r)]
      /\ answer' = [answer EXCEPT ![r] = reply[r]]
  BY <1>1, <1>3, <1>6, <1>8 DEF TypeOK
<1>10. /\ owner' = [owner EXCEPT ![pointer[r]] = Nobody]
       /\ handlers' = handlers \ ({"ed", "ec"} \X {pointer[r]})
  BY <1>1, <1>4, <1>6 DEF TypeOK, Free
<1>11. held' = held \ Resources(r, Len(Taken))
  <2>1. UNION {Resources(owner[a], Len(Taken)) : a \in {pointer[r]}} = Resources(r, Len(Taken))
    BY <1>4, Zenon
  <2> QED
    BY <1>6, <2>1 DEF Free
<1> QED
  BY <1>2, <1>3, <1>4, <1>6, <1>9, <1>10, <1>11

LEMMA CompleteKeeps ==
  ASSUME StoreInv, EventComplete
  PROVE  StoreInv'
<1> DEFINE e == events[1]
           r == e.of
<1>1. TypeOK /\ NoStaleHandler /\ Quiet /\ Ended /\ Queued /\ OnlySentLeft
  BY DEF StoreInv
<1>2. /\ r \in Request /\ outcome[r] = "pending" /\ verdict[r] # Open
      /\ events # <<>> /\ events' = Tail(events) /\ 1 \in DOMAIN events
      /\ outcome' = [outcome EXCEPT ![r] = Told(r)]
      /\ answer' = [answer EXCEPT ![r] = reply[r]]
      /\ owner' = [owner EXCEPT ![pointer[r]] = Nobody]
      /\ handlers' = handlers \ ({"ed", "ec"} \X {pointer[r]})
      /\ held' = held \ Resources(r, Len(Taken))
      /\ UNCHANGED <<reply, verdict, pointer, buf>>
      /\ pointer[r] \in Addr /\ owner[pointer[r]] = r
      /\ \A j \in DOMAIN events : events[j].of = r => j <= 1
  BY CompleteStep
<1> HIDE DEF r
<1>3. Told(r) \in {"done", "error"}
  BY DEF Told
<1>4. /\ events' \in Seq(Events)
      /\ \A i \in DOMAIN events' : i \in Nat \ {0} /\ i + 1 \in DOMAIN events /\ events'[i] = events[i + 1]
  BY <1>1, <1>2, TailFacts
<1>5. \A i \in DOMAIN events' : events'[i].of # r /\ events'[i].of \in Request
  <2> SUFFICES ASSUME NEW i \in DOMAIN events' PROVE events'[i].of # r /\ events'[i].of \in Request
    OBVIOUS
  <2>1. i + 1 \in DOMAIN events /\ ~(i + 1 <= 1) /\ events'[i] = events[i + 1]
    BY <1>4
  <2> QED
    BY <1>1, <1>2, <2>1, EventFacts
<1>6. TypeOK'
  <2>1. handlers' \subseteq handlers /\ held' \subseteq held
    BY <1>2
  <2>2. /\ outcome' \in [Request -> {"unasked", "refused", "pending", "done", "error"}]
        /\ answer' \in [Request -> Seq(Block)]
        /\ owner' \in [Addr -> Request \cup {Nobody}]
    BY <1>1, <1>2, <1>3 DEF TypeOK
  <2> QED
    BY <1>1, <1>2, <1>4, <2>1, <2>2 DEF TypeOK
<1>7. NoStaleHandler'
  <2>1. \A q \in Request :
          {a \in Addr : owner'[a] = q} = IF outcome'[q] = "pending" THEN {pointer'[q]} ELSE {}
    <3> SUFFICES ASSUME NEW q \in Request
        PROVE {a \in Addr : owner'[a] = q} = IF outcome'[q] = "pending" THEN {pointer'[q]} ELSE {}
      OBVIOUS
    <3>1. {a \in Addr : owner[a] = q} = IF outcome[q] = "pending" THEN {pointer[q]} ELSE {}
      BY <1>1 DEF NoStaleHandler
    <3>2. CASE q = r
      <4>0. r # Nobody /\ \A a \in Addr : owner[a] = r => a = pointer[r]
        BY <1>1, <1>2, PendingFacts, StoreAssumption
      <4>1. \A a \in Addr : owner'[a] # q
        BY <1>1, <1>2, <3>2, <4>0 DEF TypeOK
      <4> QED
        BY <1>1, <1>2, <1>3, <3>2, <4>1 DEF TypeOK
    <3>3. CASE q # r
      <4>1. \A a \in Addr : owner'[a] = q <=> owner[a] = q
        BY <1>1, <1>2, <3>3, StoreAssumption DEF TypeOK
      <4>2. outcome'[q] = outcome[q] /\ pointer'[q] = pointer[q]
        BY <1>1, <1>2, <3>3 DEF TypeOK
      <4> QED
        BY <3>1, <4>1, <4>2
    <3> QED
      BY <3>2, <3>3
  <2>2. handlers' = {"ed", "ec"} \X {a \in Addr : owner'[a] # Nobody}
    <3>1. handlers = {"ed", "ec"} \X {a \in Addr : owner[a] # Nobody}
      BY <1>1 DEF NoStaleHandler
    <3>2. {a \in Addr : owner'[a] # Nobody} = {a \in Addr : owner[a] # Nobody} \ {pointer[r]}
      BY <1>1, <1>2 DEF TypeOK
    <3> QED
      BY <1>2, <3>1, <3>2
  <2>3. \A i \in DOMAIN events' : outcome'[events'[i].of] = "pending"
    BY <1>1, <1>2, <1>4, <1>5 DEF NoStaleHandler, TypeOK
  <2> QED
    BY <2>1, <2>2, <2>3 DEF NoStaleHandler
<1>8. OnlySentLeft'
  <2> SUFFICES ASSUME NEW h \in held' PROVE outcome'[h[1]] = "pending" \/ h[2] = "sent"
    BY DEF OnlySentLeft
  <2>1. /\ h \in held /\ h \notin Resources(r, Len(Taken)) /\ h[1] \in Request
        /\ h = <<h[1], h[2]>> /\ h[2] \in {"sa", "url", "buf", "ed", "ec", "sent"}
    BY <1>1, <1>2 DEF TypeOK
  <2>2. CASE h[1] = r
    <3>1. \A i \in 1..5 : h # <<r, Taken[i]>>
      BY <2>1 DEF Resources, Taken
    <3> QED
      BY <2>1, <2>2, <3>1 DEF Taken
  <2>3. CASE h[1] # r
    BY <1>1, <1>2, <2>1, <2>3 DEF OnlySentLeft, TypeOK
  <2> QED
    BY <2>2, <2>3
<1>9. Quiet' /\ Ended'
  <2>1. Quiet'
    BY <1>1, <1>2, <1>3 DEF Quiet, Numbered, TypeOK
  <2> QED
    BY <1>1, <1>2, <2>1, EndedShift
<1>10. Queued'
  <2> SUFFICES ASSUME NEW q \in Request, outcome'[q] = "pending" PROVE QueuedOf(q)'
    BY DEF Queued
  <2>1. q # r
    BY <1>1, <1>2, <1>3 DEF TypeOK
  <2>2. QueuedOf(q) /\ buf'[pointer'[q]] = buf[pointer[q]] /\ reply'[q] = reply[q]
    BY <1>1, <1>2, <2>1 DEF Queued, TypeOK
  <2>3. 1 \notin DataOf(q)
    BY <2>1 DEF DataOf, r
  <2>4. /\ \A i \in DataOf(q)' : i \in Nat /\ i + 1 \in DataOf(q) /\ events'[i] = events[i + 1]
        /\ \A i \in DataOf(q) : i - 1 \in DataOf(q)' /\ events'[i - 1] = events[i]
    BY <1>1, <1>2, <2>3, DataShift
  <2> QED
    BY <2>2, <2>4, ShiftQueue
<1> QED
  BY <1>6, <1>7, <1>8, <1>9, <1>10 DEF StoreInv

-----------------------------------------------------------------------------
LEMMA StoreStep == StoreInv /\ [Next]_vars => StoreInv'
<1> SUFFICES ASSUME StoreInv, [Next]_vars PROVE StoreInv'
  OBVIOUS
<1>1. CASE UNCHANGED vars
  <2> USE <1>1 DEF vars, callVars, serverVars, memoryVars
  <2>1. TypeOK' /\ NoStaleHandler' /\ OnlySentLeft'
    BY DEF StoreInv, TypeOK, NoStaleHandler, OnlySentLeft
  <2>2. Quiet' /\ Ended'
    BY DEF StoreInv, Quiet, Numbered, Ended
  <2>3. Queued'
    BY SameQueue DEF StoreInv, Queued, DataOf
  <2> QED
    BY <2>1, <2>2, <2>3 DEF StoreInv
<1>2. CASE Caller
  BY <1>2, AddKeeps, FailsKeeps DEF Caller
<1>3. CASE Server
  BY <1>3, ArrivesKeeps, EndsKeeps DEF Server
<1>4. CASE Handlers
  BY <1>4, EventDataKeeps, CompleteKeeps DEF Handlers
<1>5. CASE Idle
  BY <1>1, <1>5 DEF Idle, vars
<1> QED
  BY <1>1, <1>2, <1>3, <1>4, <1>5 DEF Next

(***************************************************************************)
(* Every variable of libstore keeps its type.                              *)
(***************************************************************************)
THEOREM StoreTypes == Spec => []TypeOK
<1>1. StoreInv => TypeOK
  BY DEF StoreInv
<1> QED
  BY <1>1, StoreInit, StoreStep, PTL DEF Spec

(***************************************************************************)
(* For any number of requests and of addresses that are used again: each   *)
(* Store_Add, each of its handlers and each queued event is one of a       *)
(* request that waits, so no event reaches a Store_Add it is not for.      *)
(***************************************************************************)
THEOREM NoStaleHandlerAlways == Spec => []NoStaleHandler
<1>1. StoreInv => NoStaleHandler
  BY DEF StoreInv
<1> QED
  BY <1>1, StoreInit, StoreStep, PTL DEF Spec

(***************************************************************************)
(* Whichever step of store_add fails, and after the callback, nothing but  *)
(* the copy of the document is left.                                       *)
(***************************************************************************)
THEOREM OnlySentLeftAlways == Spec => []OnlySentLeft
<1>1. StoreInv => OnlySentLeft
  BY DEF StoreInv
<1> QED
  BY <1>1, StoreInit, StoreStep, PTL DEF Spec

(***************************************************************************)
(* libstore implements StorePromise: store_add refuses or accepts, and an  *)
(* accepted request is called back once, with the callback of its own      *)
(* code and all that its own server sent.                                  *)
(***************************************************************************)
THEOREM StoreKeepsPromise == Spec => PromiseSafety
<1>1. Init => Promise!PromiseInit
  BY DEF Init, Open, Promise!PromiseInit, Promise!Open
<1>2. StoreInv /\ [Next]_vars => [Promise!PromiseNext]_(Promise!promiseVars)
  <2> SUFFICES ASSUME StoreInv, [Next]_vars
               PROVE  Promise!PromiseNext \/ UNCHANGED Promise!promiseVars
    OBVIOUS
  <2>1. CASE UNCHANGED vars
    BY <2>1 DEF vars, callVars, serverVars, Promise!promiseVars
  <2>2. ASSUME NEW r \in Request, StoreAdd(r) PROVE Promise!Ask(r)
    BY <2>2 DEF StoreAdd, serverVars, Promise!Ask
  <2>3. ASSUME NEW r \in Request, StoreAddFails(r) PROVE Promise!Ask(r)
    BY <2>3 DEF StoreAddFails, serverVars, Promise!Ask
  <2>4. ASSUME NEW r \in Request, DataArrives(r) PROVE Promise!Serve(r)
    <3>1. Len(reply[r]) \in Nat
      BY DEF StoreInv, TypeOK
    <3>2. <<r, Len(reply[r]) + 1>> \in Block
      BY <2>4, <3>1, StoreAssumption DEF DataArrives, Block
    <3> QED
      BY <2>4, <3>2 DEF DataArrives, callVars, Promise!Serve, Open, Promise!Open
  <2>5. ASSUME NEW r \in Request, NEW c \in Code, ConnectionEnds(r, c) PROVE Promise!Serve(r)
    BY <2>5 DEF ConnectionEnds, callVars, Promise!Serve, Open, Promise!Open
  <2>6. CASE EventData
    BY <2>6 DEF EventData, callVars, serverVars, Promise!promiseVars
  <2>7. CASE EventComplete
    <3> DEFINE r == events[1].of
    <3>1. /\ r \in Request /\ outcome[r] = "pending" /\ verdict[r] # Open
          /\ outcome' = [outcome EXCEPT ![r] = Told(r)]
          /\ answer' = [answer EXCEPT ![r] = reply[r]]
          /\ UNCHANGED <<reply, verdict>>
      BY <2>7, CompleteStep
    <3> HIDE DEF r
    <3>2. Promise!Call(r)
      BY <3>1 DEF Promise!Call, Told, Open, Promise!Open
    <3> QED
      BY <3>1, <3>2 DEF Promise!PromiseNext
  <2>8. CASE Idle
    BY <2>1, <2>8 DEF Idle
  <2> QED
    BY <2>1, <2>2, <2>3, <2>4, <2>5, <2>6, <2>7, <2>8
       DEF Next, Caller, Server, Handlers, Promise!PromiseNext
<1> QED
  BY <1>1, <1>2, StoreInit, StoreStep, PTL DEF Spec, PromiseSafety, Promise!PromiseSafety
=============================================================================

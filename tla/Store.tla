------------------------------- MODULE Store --------------------------------
(***************************************************************************)
(* libstore (src/src/lib/store): store_add posts one document to the       *)
(* server and returns.  What comes back arrives as events of the main loop *)
(* that Ecore_Con gives to the handlers of all the requests; each handler  *)
(* compares the data pointer of the connection with its own Store_Add to   *)
(* know whether the event is for it.  A Store_Add lives at an address that *)
(* is used again once it is freed.                                         *)
(*                                                                         *)
(* The server, the network and the 10 s timeout of the connection are the  *)
(* environment; Ecore_Con ends each connection with one complete event,    *)
(* behind all of its data events.                                          *)
(***************************************************************************)
EXTENDS Integers, Sequences

CONSTANTS Request,    \* the calls of store_add
          Addr,       \* the addresses calloc gives to a Store_Add
          Code,       \* the HTTP codes; one of them stands for a lost server
          Success,    \* the codes store_event_complete takes for a success
          MaxBlocks   \* bound: the blocks of one answer

Nobody == "nobody"
Open == "open"

ASSUME StoreAssumption ==
  /\ Success \subseteq Code
  /\ MaxBlocks \in Nat
  /\ Nobody \notin Request \cup Addr
  /\ Open \notin Code

VARIABLES
  outcome,     \* per call: unasked, refused, pending, or the callback called
  answer,      \* per call: the buffer the callback was given
  reply,       \* per call: the blocks its server sent
  verdict,     \* per call: Open, or the code its connection ended with
  pointer,     \* per call: the address set as data of its connection
  owner,       \* per address: the call whose Store_Add is there, or Nobody
  buf,         \* per address: sa->data.buf
  handlers,    \* the registered handlers: "ed" or "ec", and the address
  held,        \* the allocations of each call that are not freed
  events       \* the events of Ecore_Con, in the queue of the main loop

callVars == <<outcome, answer>>
serverVars == <<reply, verdict>>
memoryVars == <<pointer, owner, buf, handlers, held>>
vars == <<callVars, serverVars, memoryVars, events>>

Block == {<<r, n>> : r \in Request, n \in 1..MaxBlocks}

Init ==
  /\ outcome = [r \in Request |-> "unasked"]
  /\ answer = [r \in Request |-> <<>>]
  /\ reply = [r \in Request |-> <<>>]
  /\ verdict = [r \in Request |-> Open]
  /\ pointer = [r \in Request |-> Nobody]
  /\ owner = [a \in Addr |-> Nobody]
  /\ buf = [a \in Addr |-> <<>>]
  /\ handlers = {}
  /\ held = {}
  /\ events = <<>>

-----------------------------------------------------------------------------
(***************************************************************************)
(* store_add takes five things one after the other, the copy of the        *)
(* document, and then posts.  A failure of the n-th step jumps to the      *)
(* label that frees what the steps before it took.                         *)
(***************************************************************************)
Taken == <<"sa", "url", "buf", "ed", "ec">>
Post == Len(Taken) + 1

Resources(r, n) == {<<r, Taken[i]>> : i \in 1..n}
Sent(r) == {<<r, "sent">>}

\* Mutant: each goto of store_add names the label after the right one.
Unwound_OneLabelShort(r, n) ==
  LET taken == Resources(r, n - 1) \cup (IF n = Post THEN Sent(r) ELSE {})
  IN  taken \ Resources(r, n - 2)

\* What the steps before the n-th leave once the labels have run.
Unwound(r, n) ==
  LET taken == Resources(r, n - 1) \cup (IF n = Post THEN Sent(r) ELSE {})
  IN  taken \ Resources(r, n - 1)

StoreAddFails(r) ==
  /\ outcome[r] = "unasked"
  /\ \E n \in 1..Post : held' = held \cup Unwound(r, n)
  /\ outcome' = [outcome EXCEPT ![r] = "refused"]
  /\ UNCHANGED <<answer, serverVars, pointer, owner, buf, handlers, events>>

StoreAdd(r) ==
  /\ outcome[r] = "unasked"
  /\ \E a \in Addr :
       /\ owner[a] = Nobody
       /\ owner' = [owner EXCEPT ![a] = r]
       /\ pointer' = [pointer EXCEPT ![r] = a]
       /\ buf' = [buf EXCEPT ![a] = <<>>]
       /\ handlers' = handlers \cup {<<"ed", a>>, <<"ec", a>>}
  /\ held' = held \cup Resources(r, Len(Taken)) \cup Sent(r)
  /\ outcome' = [outcome EXCEPT ![r] = "pending"]
  /\ UNCHANGED <<answer, serverVars, events>>

-----------------------------------------------------------------------------
(***************************************************************************)
(* Ecore_Con: a block of the answer arrives, or the connection ends with a *)
(* code, also when the server never answers or the time is over.           *)
(***************************************************************************)
DataArrives(r) ==
  /\ outcome[r] = "pending" /\ verdict[r] = Open
  /\ Len(reply[r]) < MaxBlocks
  /\ LET block == <<r, Len(reply[r]) + 1>>
     IN  /\ reply' = [reply EXCEPT ![r] = Append(@, block)]
         /\ events' = Append(events, [type |-> "data", of |-> r, data |-> block])
  /\ UNCHANGED <<callVars, verdict, memoryVars>>

ConnectionEnds(r, c) ==
  /\ outcome[r] = "pending" /\ verdict[r] = Open
  /\ verdict' = [verdict EXCEPT ![r] = c]
  /\ events' = Append(events, [type |-> "complete", of |-> r])
  /\ UNCHANGED <<callVars, reply, memoryVars>>

(***************************************************************************)
(* The handlers.  ecore_con_url_data_get gives the pointer store_add set   *)
(* on the connection; a handler leaves the events of the others alone.     *)
(***************************************************************************)
\* Mutant: a handler takes every event for its own.
ForMe_Always(a, e) == TRUE

ForMe(a, e) == pointer[e.of] = a

Handling(handler, e) == {a \in Addr : <<handler, a>> \in handlers /\ ForMe(a, e)}

\* Mutant: the connection of the event is kept in the buffer, not its bytes.
EventData_Connection ==
  /\ events # <<>> /\ Head(events).type = "data"
  /\ events' = Tail(events)
  /\ LET e == Head(events)
     IN  buf' = [a \in Addr |-> IF a \in Handling("ed", e) THEN Append(buf[a], e.of)
                               ELSE buf[a]]
  /\ UNCHANGED <<callVars, serverVars, pointer, owner, handlers, held>>

EventData ==                                          \* store_event_data
  /\ events # <<>> /\ Head(events).type = "data"
  /\ events' = Tail(events)
  /\ LET e == Head(events)
     IN  buf' = [a \in Addr |-> IF a \in Handling("ed", e) THEN Append(buf[a], e.data)
                               ELSE buf[a]]
  /\ UNCHANGED <<callVars, serverVars, pointer, owner, handlers, held>>

\* Mutant: an HTTP error jumps over the error callback.
Told_OnlyDone(r) == IF verdict[r] \in Success THEN "done" ELSE outcome[r]

\* The callback that is called, from the status code of the request's connection.
Told(r) == IF verdict[r] \in Success THEN "done" ELSE "error"

\* Mutant: the handler of the data events is not deleted.
Free_KeepsData(gone) ==
  /\ owner' = [a \in Addr |-> IF a \in gone THEN Nobody ELSE owner[a]]
  /\ handlers' = handlers \ ({"ec"} \X gone)
  /\ held' = held \ UNION {Resources(owner[a], Len(Taken)) : a \in gone}

Free(gone) ==                        \* store_add_free, at each of the addresses
  /\ owner' = [a \in Addr |-> IF a \in gone THEN Nobody ELSE owner[a]]
  /\ handlers' = handlers \ ({"ed", "ec"} \X gone)
  /\ held' = held \ UNION {Resources(owner[a], Len(Taken)) : a \in gone}

EventComplete ==                                      \* store_event_complete
  /\ events # <<>> /\ Head(events).type = "complete"
  /\ events' = Tail(events)
  /\ LET mine == Handling("ec", Head(events))
         called == {owner[a] : a \in mine}
     IN  /\ outcome' = [r \in Request |-> IF r \in called THEN Told(r) ELSE outcome[r]]
         /\ answer' = [r \in Request |-> IF r \in called THEN buf[pointer[r]] ELSE answer[r]]
         /\ Free(mine)
  /\ UNCHANGED <<serverVars, pointer, buf>>

-----------------------------------------------------------------------------
Caller == \E r \in Request : StoreAdd(r) \/ StoreAddFails(r)
Server == \E r \in Request : DataArrives(r) \/ \E c \in Code : ConnectionEnds(r, c)
Handlers == EventData \/ EventComplete

\* Every call was made and the queue is empty: the main loop has nothing to do.
Idle ==
  /\ events = <<>>
  /\ \A r \in Request : outcome[r] = "pending" => verdict[r] # Open
  /\ \A r \in Request : outcome[r] # "unasked"
  /\ UNCHANGED vars

Next == Caller \/ Server \/ Handlers \/ Idle

Spec == Init /\ [][Next]_vars

(***************************************************************************)
(* Every connection ends, at the latest by its timeout, and the main loop  *)
(* handles its events.                                                     *)
(***************************************************************************)
Fairness ==
  /\ \A r \in Request : WF_vars(\E c \in Code : ConnectionEnds(r, c))
  /\ WF_vars(Handlers)

FairSpec == Spec /\ Fairness

-----------------------------------------------------------------------------
Events == [type : {"data"}, of : Request, data : Block] \cup
          [type : {"complete"}, of : Request]

(***************************************************************************)
(* Every variable keeps its type.                                          *)
(***************************************************************************)
TypeOK ==
  /\ outcome \in [Request -> {"unasked", "refused", "pending", "done", "error"}]
  /\ answer \in [Request -> Seq(Block)] /\ reply \in [Request -> Seq(Block)]
  /\ verdict \in [Request -> Code \cup {Open}]
  /\ pointer \in [Request -> Addr \cup {Nobody}]
  /\ owner \in [Addr -> Request \cup {Nobody}]
  /\ buf \in [Addr -> Seq(Block)]
  /\ handlers \subseteq {"ed", "ec"} \X Addr
  /\ held \subseteq Request \X {"sa", "url", "buf", "ed", "ec", "sent"}
  /\ events \in Seq(Events)

(***************************************************************************)
(* The Store_Adds, the handlers and the waiting callers are the same: a    *)
(* pending call owns one address, both handlers are registered there and   *)
(* nowhere else, and an event still in the queue belongs to a pending call *)
(* - so no event can reach a Store_Add put at a freed address.             *)
(***************************************************************************)
NoStaleHandler ==
  /\ \A r \in Request :
       {a \in Addr : owner[a] = r} = IF outcome[r] = "pending" THEN {pointer[r]} ELSE {}
  /\ handlers = {"ed", "ec"} \X {a \in Addr : owner[a] # Nobody}
  /\ \A i \in DOMAIN events : outcome[events[i].of] = "pending"

(***************************************************************************)
(* Whatever step of store_add fails, and after the callback, nothing of a  *)
(* request is left but the copy of the document.                           *)
(***************************************************************************)
OnlySentLeft ==
  \A h \in held : outcome[h[1]] = "pending" \/ h[2] = "sent"

(***************************************************************************)
(* libstore implements what StorePromise says.                             *)
(***************************************************************************)
Promise == INSTANCE StorePromise

PromiseSafety == Promise!PromiseSafety
PromiseLiveness == Promise!PromiseLiveness
=============================================================================

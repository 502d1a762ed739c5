---------------------------- MODULE StorePromise ----------------------------
(***************************************************************************)
(* What libstore promises to a caller of store_add: the request is refused *)
(* at once, or it is accepted and one of its two callbacks is called, one  *)
(* time, the one its own server's HTTP code calls for, with all that its   *)
(* own server sent.                                                        *)
(***************************************************************************)
EXTENDS Sequences

CONSTANTS Request,  \* the calls of store_add
          Block,    \* what a server may send
          Code,     \* the HTTP codes; one of them stands for a lost server
          Success   \* the codes of a stored document

VARIABLES outcome,  \* what the caller was told
          answer,   \* what the callback was given
          reply,    \* the blocks each server sent
          verdict   \* the code each server ended with

Open == "open"      \* the verdict of a server that has not ended

promiseVars == <<outcome, answer, reply, verdict>>

PromiseInit ==
  /\ outcome = [r \in Request |-> "unasked"]
  /\ answer = [r \in Request |-> <<>>]
  /\ reply = [r \in Request |-> <<>>]
  /\ verdict = [r \in Request |-> Open]

Ask(r) ==
  /\ outcome[r] = "unasked"
  /\ \E told \in {"refused", "pending"} : outcome' = [outcome EXCEPT ![r] = told]
  /\ UNCHANGED <<answer, reply, verdict>>

Serve(r) ==
  /\ outcome[r] = "pending" /\ verdict[r] = Open
  /\ \/ /\ \E b \in Block : reply' = [reply EXCEPT ![r] = Append(@, b)]
        /\ UNCHANGED verdict
     \/ /\ \E c \in Code : verdict' = [verdict EXCEPT ![r] = c]
        /\ UNCHANGED reply
  /\ UNCHANGED <<outcome, answer>>

Call(r) ==
  /\ outcome[r] = "pending" /\ verdict[r] # Open
  /\ outcome' = [outcome EXCEPT ![r] = IF verdict[r] \in Success THEN "done" ELSE "error"]
  /\ answer' = [answer EXCEPT ![r] = reply[r]]
  /\ UNCHANGED <<reply, verdict>>

PromiseNext == \E r \in Request : Ask(r) \/ Serve(r) \/ Call(r)

PromiseSafety == PromiseInit /\ [][PromiseNext]_promiseVars

(***************************************************************************)
(* Nobody waits for ever for a callback.                                   *)
(***************************************************************************)
PromiseLiveness ==
  \A r \in Request : outcome[r] = "pending" ~> outcome[r] \in {"done", "error"}
=============================================================================

----------------------------- MODULE InitCount ------------------------------
(***************************************************************************)
(* The init and shutdown functions of libconf, librules, libspy and        *)
(* libstore (conf_main.c, rules_main.c, spy_main.c, store_main.c).  Each   *)
(* library counts its inits.  The first one sets up, in order, the parts   *)
(* of EFL the library needs, its log domain and, for librules, libconf;    *)
(* when one step fails the labels at the end of the function undo the      *)
(* steps before it.  The shutdown that takes the count to 0 undoes all.    *)
(*                                                                         *)
(* EFL counts the inits of its own parts in the same way.  A client calls  *)
(* one function at a time; only rules_init and rules_shutdown call another *)
(* of these functions, conf_init and conf_shutdown.                        *)
(***************************************************************************)
EXTENDS Integers, Sequences, FiniteSets

CONSTANT MaxHeld   \* bound: the inits of one library, or part, a client holds

ASSUME CountAssumption == MaxHeld \in Nat

Library == {"conf", "rules", "spy", "store"}
Efl == {"eina", "ecore", "eio", "con", "url"}

\* What the init function of a library does, in this order.
Steps ==
  [conf  |-> <<"eina", "domain", "ecore", "eio">>,
   rules |-> <<"eina", "domain", "ecore", "eio", "conf">>,
   spy   |-> <<"eina", "domain", "ecore">>,
   store |-> <<"eina", "domain", "ecore", "con", "url">>]

Height(l) == Len(Steps[l])

VARIABLES
  count,    \* _conf_init_count and the like
  op,       \* the function of the library that is running, or "rest"
  at,       \* how many steps of the library stand
  efl,      \* the counts inside EFL
  domains,  \* the libraries whose log domain is registered
  held,     \* the inits of each library its client counts on
  own       \* the inits of EFL the client made itself

libVars == <<count, op, at>>
clientVars == <<held, own>>
countVars == <<libVars, efl, domains, clientVars>>

CountInit ==
  /\ count = [l \in Library |-> 0]
  /\ op = [l \in Library |-> "rest"] /\ at = [l \in Library |-> 0]
  /\ efl = [m \in Efl |-> 0] /\ domains = {}
  /\ held = [l \in Library |-> 0] /\ own = [m \in Efl |-> 0]

-----------------------------------------------------------------------------
\* The first lines of an init function: only the first init does anything.
Enter(l) ==
  /\ count' = [count EXCEPT ![l] = @ + 1]
  /\ op' = IF count[l] = 0 THEN [op EXCEPT ![l] = "init"] ELSE op

\* Mutant: the guard on a count that is already 0 is missing.
Leave_Unguarded(l) ==
  /\ count' = [count EXCEPT ![l] = @ - 1]
  /\ op' = IF count[l] = 1 THEN [op EXCEPT ![l] = "shutdown"] ELSE op

\* Mutant: every shutdown undoes the steps, not only the last one.
Leave_AtOnce(l) ==
  IF count[l] <= 0 THEN UNCHANGED <<count, op>>
  ELSE /\ count' = [count EXCEPT ![l] = @ - 1]
       /\ op' = [op EXCEPT ![l] = "shutdown"]

\* The first lines of a shutdown function: only the last one does anything.
Leave(l) ==
  IF count[l] <= 0 THEN UNCHANGED <<count, op>>
  ELSE /\ count' = [count EXCEPT ![l] = @ - 1]
       /\ op' = IF count[l] = 1 THEN [op EXCEPT ![l] = "shutdown"] ELSE op

\* l runs, and is not waiting for libconf.
Runs(l) == op[l] # "rest" /\ (l = "rules" => op["conf"] = "rest")

(***************************************************************************)
(* One step of an init.  A part of EFL that is up only counts, so it fails *)
(* only when its count is 0.                                               *)
(***************************************************************************)
Take(l, step) ==
  \/ /\ step \in Efl /\ efl' = [efl EXCEPT ![step] = @ + 1]
     /\ UNCHANGED <<count, op, domains>>
  \/ /\ step = "domain" /\ domains' = domains \cup {l}
     /\ UNCHANGED <<count, op, efl>>
  \/ /\ step = "conf" /\ Enter("conf")
     /\ UNCHANGED <<efl, domains>>

InitStep(l) ==
  /\ Runs(l) /\ op[l] = "init" /\ at[l] < Height(l)
  /\ at' = [at EXCEPT ![l] = @ + 1]
  /\ Take(l, Steps[l][at[l] + 1])
  /\ UNCHANGED clientVars

MayFail(step) == step = "domain" \/ (step \in Efl /\ efl[step] = 0)

\* Mutant: goto one label too far.
InitFails_LabelTooFar(l) ==
  /\ Runs(l) /\ op[l] = "init" /\ at[l] < Height(l)
  /\ MayFail(Steps[l][at[l] + 1])
  /\ op' = [op EXCEPT ![l] = "undo"]
  /\ at' = [at EXCEPT ![l] = IF @ > 0 THEN @ - 1 ELSE 0]
  /\ UNCHANGED <<count, efl, domains, clientVars>>

InitFails(l) ==
  /\ Runs(l) /\ op[l] = "init" /\ at[l] < Height(l)
  /\ MayFail(Steps[l][at[l] + 1])
  /\ op' = [op EXCEPT ![l] = "undo"]
  /\ UNCHANGED <<count, at, efl, domains, clientVars>>

InitDone(l) ==
  /\ Runs(l) /\ op[l] = "init" /\ at[l] = Height(l)
  /\ op' = [op EXCEPT ![l] = "rest"]
  /\ UNCHANGED <<count, at, efl, domains, clientVars>>

(***************************************************************************)
(* The labels of an init, or a shutdown, undo the last step that stands.   *)
(***************************************************************************)
Drop(l, step) ==
  \/ /\ step \in Efl /\ efl' = [efl EXCEPT ![step] = IF @ > 0 THEN @ - 1 ELSE 0]
     /\ UNCHANGED <<count, op, domains>>
  \/ /\ step = "domain" /\ domains' = domains \ {l}
     /\ UNCHANGED <<count, op, efl>>
  \/ /\ step = "conf" /\ Leave("conf")
     /\ UNCHANGED <<efl, domains>>

Unwind(l) ==
  /\ Runs(l) /\ op[l] \in {"undo", "shutdown"} /\ at[l] > 0
  /\ at' = [at EXCEPT ![l] = @ - 1]
  /\ Drop(l, Steps[l][at[l]])
  /\ UNCHANGED clientVars

\* A failed conf_init makes the rules_init that called it fail.
UndoDone(l) ==
  /\ Runs(l) /\ op[l] = "undo" /\ at[l] = 0
  /\ count' = [count EXCEPT ![l] = @ - 1]
  /\ IF l = "conf" /\ op["rules"] = "init"
     THEN /\ op' = [op EXCEPT !["conf"] = "rest", !["rules"] = "undo"]
          /\ at' = [at EXCEPT !["rules"] = @ - 1]
          /\ UNCHANGED held
     ELSE /\ op' = [op EXCEPT ![l] = "rest"]
          /\ held' = [held EXCEPT ![l] = @ - 1]
          /\ UNCHANGED at
  /\ UNCHANGED <<efl, domains, own>>

ShutdownDone(l) ==
  /\ Runs(l) /\ op[l] = "shutdown" /\ at[l] = 0
  /\ op' = [op EXCEPT ![l] = "rest"]
  /\ UNCHANGED <<count, at, efl, domains, clientVars>>

LibraryStep(l) ==
  \/ InitStep(l) \/ InitFails(l) \/ InitDone(l)
  \/ Unwind(l) \/ UndoDone(l) \/ ShutdownDone(l)

-----------------------------------------------------------------------------
(***************************************************************************)
(* The client calls when nothing runs.  It shuts down what it holds; a     *)
(* shutdown of a library that is down does nothing, and is allowed.        *)
(***************************************************************************)
Resting == \A l \in Library : op[l] = "rest"

CallInit(l) ==
  /\ Resting /\ held[l] < MaxHeld
  /\ Enter(l)
  /\ held' = [held EXCEPT ![l] = @ + 1]
  /\ UNCHANGED <<at, efl, domains, own>>

Shutdown(l) ==
  /\ Resting
  /\ Leave(l)
  /\ held' = [held EXCEPT ![l] = IF @ > 0 THEN @ - 1 ELSE 0]
  /\ UNCHANGED <<at, efl, domains, own>>

CallShutdown(l) == (held[l] > 0 \/ count[l] = 0) /\ Shutdown(l)

CallEflInit(m) ==
  /\ Resting /\ own[m] < MaxHeld
  /\ efl' = [efl EXCEPT ![m] = @ + 1]
  /\ own' = [own EXCEPT ![m] = @ + 1]
  /\ UNCHANGED <<libVars, domains, held>>

EflShutdown(m) ==
  /\ Resting
  /\ efl' = [efl EXCEPT ![m] = IF @ > 0 THEN @ - 1 ELSE 0]
  /\ own' = [own EXCEPT ![m] = IF @ > 0 THEN @ - 1 ELSE 0]
  /\ UNCHANGED <<libVars, domains, held>>

CallEflShutdown(m) == (own[m] > 0 \/ efl[m] = 0) /\ EflShutdown(m)

CountNext ==
  \/ \E l \in Library : LibraryStep(l) \/ CallInit(l) \/ CallShutdown(l)
  \/ \E m \in Efl : CallEflInit(m) \/ CallEflShutdown(m)

CountSpec == CountInit /\ [][CountNext]_countVars

-----------------------------------------------------------------------------
(***************************************************************************)
(* Every variable keeps its type; no count goes below 0.                   *)
(***************************************************************************)
CountTypeOK ==
  /\ count \in [Library -> Nat] /\ held \in [Library -> Nat]
  /\ op \in [Library -> {"rest", "init", "undo", "shutdown"}]
  /\ at \in [Library -> Nat] /\ \A l \in Library : at[l] <= Height(l)
  /\ efl \in [Efl -> Nat] /\ own \in [Efl -> Nat]
  /\ domains \subseteq Library

Needs(l) == {Steps[l][i] : i \in 1..Height(l)}
Up == {l \in Library : count[l] > 0}

(***************************************************************************)
(* Whatever inits failed at whatever step, and in whatever order the       *)
(* libraries went up and down: between two calls each part of EFL is held  *)
(* once by each library that is up and needs it, besides what the client   *)
(* holds, a log domain is registered exactly for each library that is up,  *)
(* and libconf counts its client and librules.                             *)
(***************************************************************************)
Balanced ==
  Resting =>
    /\ \A m \in Efl : efl[m] = own[m] + Cardinality({l \in Up : m \in Needs(l)})
    /\ domains = Up
    /\ count["conf"] = held["conf"] + Cardinality(Up \cap {"rules"})

(***************************************************************************)
(* A library whose init succeeded keeps all it needs until its own last    *)
(* shutdown, also in the middle of the inits, the failures and the         *)
(* shutdowns of the others.                                                *)
(***************************************************************************)
UpWhileHeld ==
  \A l \in Library : held[l] > 0 /\ op[l] \notin {"init", "undo"} =>
    /\ \A m \in Needs(l) \cap Efl : efl[m] > 0
    /\ l \in domains
    /\ "conf" \in Needs(l) => count["conf"] > 0 /\ op["conf"] = "rest"
=============================================================================

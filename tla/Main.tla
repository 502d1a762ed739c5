-------------------------------- MODULE Main --------------------------------
(***************************************************************************)
(* main.c: smman as the client of its four libraries.  main calls their    *)
(* init functions and ignores what they return, makes its Smman, starts    *)
(* the loads and runs the main loop, and shuts everything down again.  The *)
(* loop itself is one step here: what happens in it is in Reload, SpyFile, *)
(* Store and Lines.                                                        *)
(***************************************************************************)
EXTENDS InitCount

VARIABLES
  next,       \* the call main makes next, an index of Calls
  status,     \* "running", "early" (returned before the loop), or "over"
  logDomain   \* smman's own log domain is registered

mainVars == <<countVars, next, status, logDomain>>

Call(what, of) == [what |-> what, of |-> of]

Startup ==
  << Call("efl_init", "eina"), Call("efl_init", "ecore"), Call("options", "argv"),
     Call("init", "conf"), Call("init", "rules"), Call("init", "spy"),
     Call("init", "store"), Call("new", "smman"), Call("loop", "ecore") >>

\* Mutant: libconf is shut down before librules, which uses it.
Teardown_ConfFirst ==
  << Call("shutdown", "conf"), Call("shutdown", "store"), Call("shutdown", "spy"),
     Call("shutdown", "rules"), Call("efl_shutdown", "ecore"),
     Call("unregister", "smman"), Call("efl_shutdown", "eina") >>

\* Mutant: libspy is never shut down.
Teardown_NoSpy ==
  << Call("shutdown", "store"), Call("shutdown", "rules"), Call("shutdown", "conf"),
     Call("efl_shutdown", "ecore"), Call("unregister", "smman"),
     Call("efl_shutdown", "eina") >>

Teardown ==
  << Call("shutdown", "store"), Call("shutdown", "spy"), Call("shutdown", "rules"),
     Call("shutdown", "conf"), Call("efl_shutdown", "ecore"),
     Call("unregister", "smman"), Call("efl_shutdown", "eina") >>

Calls == Startup \o Teardown

MainInit ==
  CountInit /\ next = 1 /\ status = "running" /\ logDomain = FALSE

Now(what) ==
  /\ status = "running" /\ Resting
  /\ next \in DOMAIN Calls /\ Calls[next].what = what

GoOn == next' = next + 1 /\ UNCHANGED status
ReturnEarly == status' = "early" /\ UNCHANGED next

MainEflInit ==
  /\ Now("efl_init") /\ GoOn /\ UNCHANGED logDomain
  /\ LET m == Calls[next].of IN
       \/ CallEflInit(m)
       \/ efl[m] = 0 /\ UNCHANGED countVars

MainOptions ==
  /\ Now("options")
  /\ GoOn \/ ReturnEarly
  /\ UNCHANGED <<countVars, logDomain>>

MainLibraryInit ==
  /\ Now("init") /\ GoOn /\ UNCHANGED logDomain
  /\ CallInit(Calls[next].of)

\* init: the log domain, the structure, the Rules and the Spy may fail.
MainNew ==
  /\ Now("new")
  /\ \/ logDomain' = TRUE /\ (GoOn \/ ReturnEarly)
     \/ ReturnEarly /\ UNCHANGED logDomain
  /\ UNCHANGED countVars

MainLoop ==
  Now("loop") /\ GoOn /\ UNCHANGED <<countVars, logDomain>>

MainShutdown ==
  /\ Now("shutdown") /\ GoOn /\ UNCHANGED logDomain
  /\ Shutdown(Calls[next].of)

MainUnregister ==
  /\ Now("unregister") /\ GoOn
  /\ logDomain' = FALSE
  /\ UNCHANGED countVars

MainEflShutdown ==
  /\ Now("efl_shutdown") /\ GoOn /\ UNCHANGED logDomain
  /\ EflShutdown(Calls[next].of)

MainReturn ==
  /\ status = "running" /\ next > Len(Calls)
  /\ status' = "over"
  /\ UNCHANGED <<countVars, next, logDomain>>

Returned == status # "running" /\ UNCHANGED mainVars

MainCall ==
  \/ MainEflInit \/ MainOptions \/ MainLibraryInit \/ MainNew \/ MainLoop
  \/ MainShutdown \/ MainUnregister \/ MainEflShutdown \/ MainReturn

MainNext ==
  \/ MainCall \/ Returned
  \/ (\E l \in Library : LibraryStep(l)) /\ UNCHANGED <<next, status, logDomain>>

MainSpec == MainInit /\ [][MainNext]_mainVars

-----------------------------------------------------------------------------
(***************************************************************************)
(* Whatever init failed unnoticed, main shuts a library or a part of EFL   *)
(* down only while it holds it, or when it is down: what librules holds of *)
(* libconf is never taken away, since main shuts librules down first.      *)
(***************************************************************************)
CallsAreLegal == CountSpec

(***************************************************************************)
(* When main returns 0 after the main loop, nothing is left initialised,   *)
(* whatever failed at startup.                                             *)
(***************************************************************************)
CleanExit ==
  status = "over" =>
    /\ \A l \in Library : count[l] = 0
    /\ \A m \in Efl : efl[m] = 0
    /\ domains = {} /\ ~logDomain
=============================================================================

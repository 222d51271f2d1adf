-------------------------- MODULE MCEventDispatch --------------------------
(* Instances of EventDispatch for TLC.                                     *)
EXTENDS EventDispatchProperties

CONSTANTS e1, e2, e3, g1

\* An event of the control server with actions, without special settings.
OnDemand ==
  [kind |-> "default", source |-> "rpc", canCancel |-> TRUE,
   processActions |-> TRUE, blockLogin |-> TRUE, workingWindow |-> FALSE]

\* A passive event of a generator: syncs the caches, no actions.
Sync ==
  [OnDemand EXCEPT !.source = g1, !.canCancel = FALSE,
                   !.processActions = FALSE, !.blockLogin = FALSE]

\* A timer event of a generator, with actions.
Timer == [OnDemand EXCEPT !.source = g1, !.canCancel = FALSE]

Panic == [OnDemand EXCEPT !.kind = "panic", !.source = g1, !.canCancel = FALSE,
                          !.blockLogin = FALSE]

\* A user login reported by RPC, and one with a working window.
Login == [OnDemand EXCEPT !.kind = "login", !.blockLogin = FALSE]
Windowed == [OnDemand EXCEPT !.workingWindow = TRUE]

By(a, b, c) == [e \in Events |-> CASE e = e1 -> a [] e = e2 -> b [] OTHER -> c]

Default == By(OnDemand, Timer, Sync)
AllKinds == By(Windowed, Login, Panic)
=============================================================================

---------------------------- MODULE RunRefinement ----------------------------
(***************************************************************************)
(* The daemon implements RunProtocol: the rows of the store are its runs,  *)
(* and everything else the daemon keeps is hidden.                         *)
(***************************************************************************)
EXTENDS RunLifecycle

Protocol ==
  INSTANCE RunProtocol WITH state <- runState, card <- runCard, space <- cardSpace

(* Whatever dispatcher, launches, finalizations, requests, watchers and    *)
(* restarts do, the store moves as the protocol allows: a promotion by     *)
(* register_spawned_run, seconds after its pass has read the queue, still  *)
(* starts the oldest run of a free space within max_concurrent.            *)
ImplementsRunProtocol == Protocol!Spec
=============================================================================

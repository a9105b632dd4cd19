------------------------ MODULE MCRestartCoordinator ------------------------
(* Small instances of RestartCoordinator. *)
EXTENDS RestartCoordinator
=============================================================================

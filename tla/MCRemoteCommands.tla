-------------------------- MODULE MCRemoteCommands --------------------------
(***************************************************************************)
(* Model-checking instances of RemoteCommands.                             *)
(***************************************************************************)
EXTENDS RemoteCommands

CONSTANTS o1, worker, shell
=============================================================================

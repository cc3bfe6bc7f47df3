---------------------------- MODULE MCServerImpl ----------------------------
(***************************************************************************)
(* Small instances of ServerImpl for TLC.                                  *)
(***************************************************************************)
EXTENDS ServerImpl
=============================================================================

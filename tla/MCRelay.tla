------------------------------- MODULE MCRelay -------------------------------
(***************************************************************************)
(* An instance of Relay: heads of two units, and four units at most from  *)
(* each peer.                                                              *)
(***************************************************************************)
EXTENDS Relay
=============================================================================

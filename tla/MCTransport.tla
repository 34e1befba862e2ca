---------------------------- MODULE MCTransport -----------------------------
(* The instance of Transport for TLC: every constant gets its value in the   *)
(* configuration.                                                            *)
EXTENDS Transport
=============================================================================

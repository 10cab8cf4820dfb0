---------------------------- MODULE MCCagraGraph ----------------------------
(* CagraGraph on small instances.                                          *)
EXTENDS CagraGraph
=============================================================================

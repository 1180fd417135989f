----------------------------- MODULE MCEndpoint -----------------------------
(* Instances of Endpoint for TLC: see the .cfg file named after it.        *)
EXTENDS Endpoint
=============================================================================

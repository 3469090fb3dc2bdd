---------------------------- MODULE MCAppServerRpc ----------------------------
(* Instances of AppServerRpc for TLC.  The request that comes after         *)
(* `initialize' is asked as it is in a subscription, so that the goals      *)
(* "probe" and "subscribe" reach every step.                                *)
EXTENDS AppServerRpc
===============================================================================

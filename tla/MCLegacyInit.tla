---------------------------- MODULE MCLegacyInit ----------------------------
(***************************************************************************)
(* Model checking of LegacyInit: two web views, of which the server asks   *)
(* for either with delay and for one without, and a page without a hash.   *)
(* Each way to get a page occurs.                                          *)
(***************************************************************************)
EXTENDS LegacyInit

CONSTANTS v1, v2

ServedConfigs ==
  {[hash |-> v1, delay |-> TRUE, source |-> "file"],
   [hash |-> v2, delay |-> TRUE, source |-> "file"],
   [hash |-> v2, delay |-> FALSE, source |-> "download"],
   [hash |-> NoHash, delay |-> FALSE, source |-> "remote"]}
=============================================================================

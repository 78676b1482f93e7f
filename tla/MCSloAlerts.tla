------------------------------ MODULE MCSloAlerts ----------------------------
(***************************************************************************)
(* An instance of SloAlerts on a host that does not keep UTC.  The local   *)
(* time of a host is hours from UTC, the age of the stuck rule is minutes: *)
(* a zone east of UTC is ahead of it by that age at least.                 *)
(***************************************************************************)
EXTENDS SloAlerts

EastOfUtc == Stuck
=============================================================================

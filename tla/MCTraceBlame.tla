---------------------------- MODULE MCTraceBlame ----------------------------
(***************************************************************************)
(* Costs of spans for TLC.  A span may get any of the ids that are left, so *)
(* one assignment of costs to ids gives the spans every order of costs.    *)
(***************************************************************************)
EXTENDS TraceBlame

MCLatencyOf == [i \in Ids |-> i - 1]
MCTokensOf == [i \in Ids |-> MaxSpans - i]
=============================================================================

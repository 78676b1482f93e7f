----------------------------- MODULE Incidents -----------------------------
(***************************************************************************)
(* The incident lifecycle (alerting/incidents.py) as the alerting worker   *)
(* (alerting/worker.py) and the API's ack and resolve endpoints drive it.  *)
(*                                                                         *)
(* One incident key.  tracing.incidents is a ReplacingMergeTree keyed by   *)
(* updated_at, set by the server at insert, and always read with FINAL: its*)
(* visible row is the one inserted last.  Every operation reads the row    *)
(* and then inserts a whole new one; nothing orders the two against other  *)
(* actors.  Times are numbers of alerts: an alert's time is its number.    *)
(***************************************************************************)
EXTENDS Naturals

CONSTANTS
    Requests,   \* HTTP requests to ack or resolve the incident
    MaxAlerts,  \* bound: alerts the rules raise in a behaviour
    MaxFaults   \* bound: crashes of the worker and exceptions in its pass

ASSUME ConstantsAssumption ==
    /\ MaxAlerts \in Nat
    /\ MaxFaults \in Nat

VARIABLES
    row,        \* the visible row: state, last_seen_at, occurrence_count
    now,        \* alerts recorded so far, the clock
    horizon,    \* alerts up to this one are older than AUTO_RESOLVE_SEC
    pc,         \* where the worker is in its pass, see Steps
    copy,       \* the Incident the worker fetched
    api,        \* [Requests -> the request's progress and its Incident]
    pages,      \* webhooks sent
    openings,   \* rows inserted with status new or reopened
    resolutions,\* rows inserted by resolve()
    faults      \* faults so far, bounded by MaxFaults

vars == <<row, now, horizon, pc, copy, api, pages, openings, resolutions, faults>>

Steps == {
    "rules",        \* about to evaluate the rules
    "fetch",        \* record_alert, before its query
    "record",       \* record_alert, before its insert
    "page",         \* about to send the webhook
    "sweep",        \* auto_resolve_stale, before its query
    "resolve",      \* resolve(), before its query
    "autoresolve"}  \* resolve(), before its insert

States == {"none", "open", "ack", "resolved"}
Incident == [state : States, seen : 0..MaxAlerts, count : 0..MaxAlerts]
NoIncident == [state |-> "none", seen |-> 0, count |-> 0]

\* acknowledge and resolve return early unless the incident is open or acked.
Live(inc) == inc.state \in {"open", "ack"}

Init ==
    /\ row = NoIncident
    /\ now = 0
    /\ horizon = 0
    /\ pc = "rules"
    /\ copy = NoIncident
    /\ api = [r \in Requests |-> [at |-> "new", inc |-> NoIncident]]
    /\ pages = 0
    /\ openings = 0
    /\ resolutions = 0
    /\ faults = 0

-----------------------------------------------------------------------------
(* The worker's pass: run_loop.                                             *)

Go(here, there) == pc = here /\ pc' = there

\* The rules raise an alert for this key, or none.
RulesRaise ==
    /\ Go("rules", "fetch")
    /\ now < MaxAlerts
    /\ UNCHANGED <<row, now, horizon, copy, api, pages, openings, resolutions, faults>>

RulesQuiet ==
    /\ Go("rules", "sweep")
    /\ UNCHANGED <<row, now, horizon, copy, api, pages, openings, resolutions, faults>>

\* record_alert takes the time and fetches the latest row.
Fetch ==
    /\ Go("fetch", "record")
    /\ now' = now + 1
    /\ copy' = row
    /\ UNCHANGED <<row, horizon, api, pages, openings, resolutions, faults>>

\* Whether record_alert answers "new" or "reopened".
Opens == ~Live(copy)

\* Mutant of Record: an acknowledged incident that fires again is re-opened.
RecordReopensAcked ==
    /\ Go("record", IF copy.state # "open" THEN "page" ELSE "sweep")
    /\ row' = [state |-> "open", seen |-> now, count |-> copy.count + 1]
    /\ openings' = IF copy.state # "open" THEN openings + 1 ELSE openings
    /\ UNCHANGED <<now, horizon, copy, api, pages, resolutions, faults>>

\* Mutant of Record: only a new incident pages, a re-opened one does not.
RecordPagesNewOnly ==
    /\ Go("record", IF copy.state = "none" THEN "page" ELSE "sweep")
    /\ row' = [state |-> IF Opens THEN "open" ELSE copy.state,
               seen  |-> now, count |-> copy.count + 1]
    /\ openings' = IF Opens THEN openings + 1 ELSE openings
    /\ UNCHANGED <<now, horizon, copy, api, pages, resolutions, faults>>

\* record_alert inserts: a fresh or re-opened incident is open, a live one
\* keeps its state; the count grows either way.
Record ==
    /\ Go("record", IF Opens THEN "page" ELSE "sweep")
    /\ row' = [state |-> IF Opens THEN "open" ELSE copy.state,
               seen  |-> now, count |-> copy.count + 1]
    /\ openings' = IF Opens THEN openings + 1 ELSE openings
    /\ UNCHANGED <<now, horizon, copy, api, pages, resolutions, faults>>

\* _send_webhook; its failure is logged and forgotten, as if it had arrived.
Page ==
    /\ Go("page", "sweep")
    /\ pages' = pages + 1
    /\ UNCHANGED <<row, now, horizon, copy, api, openings, resolutions, faults>>

Stale(inc) == Live(inc) /\ inc.seen <= horizon

\* Mutant of Sweep: acknowledged incidents are not swept.
SweepOpenOnly ==
    /\ Go("sweep", IF Stale(row) /\ row.state = "open" THEN "resolve" ELSE "rules")
    /\ UNCHANGED <<row, now, horizon, copy, api, pages, openings, resolutions, faults>>

\* auto_resolve_stale selects the live incidents not seen since the horizon.
Sweep ==
    /\ Go("sweep", IF Stale(row) THEN "resolve" ELSE "rules")
    /\ UNCHANGED <<row, now, horizon, copy, api, pages, openings, resolutions, faults>>

\* resolve() fetches the selected incident again.
ResolveFetch ==
    /\ Go("resolve", IF Live(row) THEN "autoresolve" ELSE "rules")
    /\ copy' = row
    /\ UNCHANGED <<row, now, horizon, api, pages, openings, resolutions, faults>>

\* resolve() inserts the Incident it fetched, resolved.
Resolved(inc) ==
    /\ row' = [inc EXCEPT !.state = "resolved"]
    /\ resolutions' = resolutions + 1

AutoResolve ==
    /\ Go("autoresolve", "rules")
    /\ Resolved(copy)
    /\ UNCHANGED <<now, horizon, copy, api, pages, openings, faults>>

\* The worker dies and is restarted, or a query or an insert raises and the
\* loop begins a new pass: what the pass had in hand is forgotten.
Interrupted ==
    /\ pc # "rules"
    /\ faults < MaxFaults
    /\ faults' = faults + 1
    /\ pc' = "rules"
    /\ UNCHANGED <<row, now, horizon, copy, api, pages, openings, resolutions>>

\* AUTO_RESOLVE_SEC pass after some of the alerts so far.
TimePasses ==
    /\ horizon < now
    /\ horizon' \in (horizon + 1)..now
    /\ UNCHANGED <<row, now, pc, copy, api, pages, openings, resolutions, faults>>

-----------------------------------------------------------------------------
(* The API's requests, each on a thread of its own.                         *)

\* ack_incident or resolve_incident fetches the row.
ApiFetch(r) ==
    /\ api[r].at = "new"
    /\ \E op \in {"ack", "resolve"} :
          api' = [api EXCEPT ![r] = [at |-> IF Live(row) THEN op ELSE "done", inc |-> row]]
    /\ UNCHANGED <<row, now, horizon, pc, copy, pages, openings, resolutions, faults>>

Done(r) == api' = [api EXCEPT ![r].at = "done"]

\* Mutant of ApiAck: the acknowledgement counts as an occurrence.
ApiAckCounts(r) ==
    /\ api[r].at = "ack"
    /\ row' = [api[r].inc EXCEPT !.state = "ack", !.count = @ + 1]
    /\ Done(r)
    /\ UNCHANGED <<now, horizon, pc, copy, pages, openings, resolutions, faults>>

\* acknowledge() inserts the Incident it fetched, acknowledged.
ApiAck(r) ==
    /\ api[r].at = "ack"
    /\ row' = [api[r].inc EXCEPT !.state = "ack"]
    /\ Done(r)
    /\ UNCHANGED <<now, horizon, pc, copy, pages, openings, resolutions, faults>>

ApiResolve(r) ==
    /\ api[r].at = "resolve"
    /\ Resolved(api[r].inc)
    /\ Done(r)
    /\ UNCHANGED <<now, horizon, pc, copy, pages, openings, faults>>

Pass ==
    \/ RulesRaise \/ RulesQuiet \/ Fetch \/ Record \/ Page
    \/ Sweep \/ ResolveFetch \/ AutoResolve

Next ==
    \/ Pass \/ Interrupted \/ TimePasses
    \/ \E r \in Requests : ApiFetch(r) \/ ApiAck(r) \/ ApiResolve(r)

Spec == Init /\ [][Next]_vars

\* The worker polls for ever and time passes.  Nobody has to send a request,
\* and a request need not get as far as its insert.
FairSpec ==
    /\ Spec
    /\ WF_vars(Pass)
    /\ WF_vars(TimePasses)
-----------------------------------------------------------------------------
(* Safety                                                                   *)

\* The types and bounds of the variables.
TypeOK ==
    /\ row \in Incident
    /\ now \in 0..MaxAlerts
    /\ horizon \in 0..now
    /\ pc \in Steps
    /\ copy \in Incident
    /\ api \in [Requests -> [at : {"new", "ack", "resolve", "done"}, inc : Incident]]
    /\ pages \in Nat /\ openings \in Nat /\ resolutions \in Nat
    /\ faults \in 0..MaxFaults

\* alerting/incidents.py:10-11: repeated anomalies do not create alert storms,
\* even across worker restarts.  However alerts, restarts and stale writes of
\* the API interleave, each page but the first needs a resolution of its own.
NoAlertStorm == pages <= 1 + resolutions

\* Every opening is paged, except the ones whose pass was interrupted between
\* the insert and the webhook: those are never paged.
OpeningsArePaged ==
    openings <= pages + faults + (IF pc = "page" THEN 1 ELSE 0)

\* occurrence_count never exceeds the alerts that were recorded; updates lost
\* to a stale write can only make it smaller.
OccurrencesNotOvercounted == row.count <= now

\* alerting/incidents.py:7-8: "the webhook only pages on transitions into 'open'
\* (new or re-opened from 'resolved')", and those transitions do page: no step
\* re-opens a resolved incident without its page to follow.
ReopeningPages ==
    [][row.state = "resolved" /\ row'.state = "open" => pc' = "page"]_vars

-----------------------------------------------------------------------------
(* Liveness                                                                 *)

\* Once the alerts are over, the incident ends up resolved for good, whoever
\* acknowledged it and whatever stale write resurrected it.
QuietIncidentResolves == <>[](~Live(row))
=============================================================================

-------------------------- MODULE IncidentsProofs --------------------------
(***************************************************************************)
(* The incident lifecycle creates no alert storm and loses no page to      *)
(* anything but a crash, for any set of concurrent API requests and any    *)
(* number of alerts, crashes and restarts of the worker.                   *)
(***************************************************************************)
EXTENDS Incidents, TLAPS

\* Nothing opens an incident twice without a resolution in between: a resolved
\* row, whether visible or in the worker's hands, stands for a resolution no
\* opening has used yet, and where there is no row nothing was opened.
OpeningsInv ==
    /\ openings <= 1 + resolutions
    /\ row.state = "resolved" => openings <= resolutions
    /\ row.state = "none" => openings = 0
    /\ pc = "record" /\ copy.state = "resolved" => openings <= resolutions
    /\ pc = "record" /\ copy.state = "none" => openings = 0

\* A page is sent only for an opening, and for each at most one.
PagesInv == pages + (IF pc = "page" THEN 1 ELSE 0) <= openings

\* The row and every copy of it count no more than the alerts so far, and the
\* copy that record_alert holds less than that: its own alert is to be added.
CountInv ==
    /\ pc = "fetch" => now < MaxAlerts
    /\ row.count <= now
    /\ copy.count <= now
    /\ pc = "record" => copy.count < now
    /\ \A r \in Requests : api[r].inc.count <= now

IInv ==
    /\ TypeOK
    /\ OpeningsInv
    /\ PagesInv
    /\ CountInv
    /\ OpeningsArePaged

-----------------------------------------------------------------------------
\* The invariant holds initially.
LEMMA InitIInv == Init => IInv
  BY ConstantsAssumption
  DEF Init, IInv, TypeOK, OpeningsInv, PagesInv, CountInv, OpeningsArePaged,
      Incident, NoIncident, States, Steps

\* A step of the rules or of the sweep moves only the program counter, to a
\* point at which the invariant asks for nothing new.
LEMMA MoveStep ==
  ASSUME IInv, RulesRaise \/ RulesQuiet \/ Sweep
  PROVE  IInv'
  BY DEF IInv, TypeOK, OpeningsInv, PagesInv, CountInv, OpeningsArePaged, Steps,
         RulesRaise, RulesQuiet, Sweep, Go

\* record_alert's query.
LEMMA FetchStep == ASSUME IInv, Fetch PROVE IInv'
  <1> USE DEF Fetch, Go
  <1>1. TypeOK'
    BY ConstantsAssumption DEF IInv, TypeOK, CountInv, Steps
  <1>2. OpeningsInv'
    BY DEF IInv, OpeningsInv
  <1>3. PagesInv' /\ OpeningsArePaged'
    BY DEF IInv, PagesInv, OpeningsArePaged
  <1>4. CountInv'
    <2>1. now \in Nat /\ row.count \in Nat /\ row.count <= now /\ row.count < now + 1
      BY ConstantsAssumption DEF IInv, TypeOK, CountInv, Incident
    <2>2. \A r \in Requests : api[r].inc.count <= now + 1
      <3> SUFFICES ASSUME NEW r \in Requests PROVE api[r].inc.count <= now + 1
        OBVIOUS
      <3>1. api[r].inc \in Incident
        BY DEF IInv, TypeOK
      <3>2. api[r].inc.count \in Nat /\ api[r].inc.count <= now
        BY <3>1, ConstantsAssumption DEF IInv, CountInv, Incident
      <3> QED BY <2>1, <3>2
    <2> QED BY <2>1, <2>2 DEF CountInv
  <1> QED BY <1>1, <1>2, <1>3, <1>4 DEF IInv

\* record_alert's insert.
LEMMA RecordStep == ASSUME IInv, Record PROVE IInv'
  <1> USE DEF Record, Go
  <1>1. /\ copy.count + 1 \in 0..MaxAlerts /\ now \in 0..MaxAlerts
        /\ copy.count + 1 <= now
    <2>1. copy \in Incident /\ now \in 0..MaxAlerts /\ copy.count < now
      BY DEF IInv, TypeOK, CountInv
    <2>2. copy.count \in Nat
      BY <2>1, ConstantsAssumption DEF Incident
    <2> QED BY <2>1, <2>2, ConstantsAssumption
  <1>2. row' \in Incident
    BY <1>1 DEF IInv, TypeOK, Incident, States
  <1>3. TypeOK'
    BY <1>2 DEF IInv, TypeOK, Steps
  <1>4. copy.state \in States /\ openings \in Nat /\ resolutions \in Nat
    BY DEF IInv, TypeOK, Incident
  <1>5. OpeningsInv'
    BY <1>4 DEF IInv, OpeningsInv, Opens, Live, States
  <1>6. PagesInv' /\ OpeningsArePaged'
    BY DEF IInv, TypeOK, PagesInv, OpeningsArePaged
  <1>7. CountInv'
    <2>1. pc' \in {"page", "sweep"} /\ row'.count = copy.count + 1
      OBVIOUS
    <2> QED BY <1>1, <2>1 DEF IInv, CountInv
  <1> QED BY <1>3, <1>5, <1>6, <1>7 DEF IInv

\* The webhook.
LEMMA PageStep == ASSUME IInv, Page PROVE IInv'
  BY DEF IInv, TypeOK, OpeningsInv, PagesInv, CountInv, OpeningsArePaged, Steps,
         Page, Go

\* resolve()'s query in the sweep.
LEMMA ResolveFetchStep == ASSUME IInv, ResolveFetch PROVE IInv'
  BY DEF IInv, TypeOK, OpeningsInv, PagesInv, CountInv, OpeningsArePaged, Steps,
         ResolveFetch, Go

\* An insert of a resolved row adds a resolution no opening has used.
LEMMA ResolvedRow ==
  ASSUME NEW inc \in Incident, inc.count <= now, IInv, Resolved(inc),
         UNCHANGED <<now, openings>>
  PROVE  /\ row' \in Incident /\ row'.count <= now /\ row'.state = "resolved"
         /\ resolutions' \in Nat
         /\ openings' <= resolutions' /\ openings' <= 1 + resolutions'
         /\ resolutions <= resolutions'
  BY DEF IInv, TypeOK, OpeningsInv, Resolved, Incident, States

\* The sweep's insert.
LEMMA AutoResolveStep == ASSUME IInv, AutoResolve PROVE IInv'
  <1> USE DEF AutoResolve, Go
  <1>1. copy \in Incident /\ copy.count <= now
    BY DEF IInv, TypeOK, CountInv
  <1>2. /\ row' \in Incident /\ row'.count <= now /\ row'.state = "resolved"
        /\ resolutions' \in Nat
        /\ openings' <= resolutions' /\ openings' <= 1 + resolutions'
    BY <1>1, ResolvedRow
  <1>3. TypeOK'
    BY <1>2 DEF IInv, TypeOK, Steps
  <1>4. OpeningsInv'
    BY <1>2 DEF IInv, OpeningsInv
  <1>5. PagesInv' /\ OpeningsArePaged' /\ CountInv'
    BY <1>2 DEF IInv, TypeOK, PagesInv, OpeningsArePaged, CountInv
  <1> QED BY <1>3, <1>4, <1>5 DEF IInv

\* A crash or an exception in the pass.
LEMMA InterruptedStep == ASSUME IInv, Interrupted PROVE IInv'
  <1> USE DEF Interrupted
  <1>1. TypeOK'
    BY ConstantsAssumption DEF IInv, TypeOK, Steps
  <1>2. OpeningsInv' /\ CountInv'
    BY DEF IInv, OpeningsInv, CountInv
  <1>3. PagesInv' /\ OpeningsArePaged'
    <2>1. pages \in Nat /\ openings \in Nat /\ faults \in Nat
      BY ConstantsAssumption DEF IInv, TypeOK
    <2> QED BY <2>1 DEF IInv, PagesInv, OpeningsArePaged
  <1> QED BY <1>1, <1>2, <1>3 DEF IInv

\* Time.
LEMMA TimePassesStep == ASSUME IInv, TimePasses PROVE IInv'
  BY DEF IInv, TypeOK, OpeningsInv, PagesInv, CountInv, OpeningsArePaged, Steps,
         TimePasses

\* An API request fetches the row.
LEMMA ApiFetchStep == ASSUME IInv, NEW r \in Requests, ApiFetch(r) PROVE IInv'
  <1> USE DEF ApiFetch
  <1>1. PICK op \in {"ack", "resolve"} :
           api' = [api EXCEPT ![r] = [at |-> IF Live(row) THEN op ELSE "done", inc |-> row]]
    OBVIOUS
  <1>2. TypeOK'
    BY <1>1 DEF IInv, TypeOK
  <1>3. OpeningsInv' /\ PagesInv' /\ OpeningsArePaged'
    BY DEF IInv, OpeningsInv, PagesInv, OpeningsArePaged
  <1>4. CountInv'
    BY <1>1 DEF IInv, TypeOK, CountInv
  <1> QED BY <1>2, <1>3, <1>4 DEF IInv

\* A request that comes to its end leaves the other requests alone.
LEMMA DoneStep ==
  ASSUME NEW r \in Requests, IInv, Done(r), UNCHANGED now
  PROVE  /\ api' \in [Requests -> [at : {"new", "ack", "resolve", "done"}, inc : Incident]]
         /\ \A q \in Requests : api'[q].inc.count <= now'
  BY DEF Done, IInv, TypeOK, CountInv

\* An acknowledgement inserts the row its request fetched: not a resolved one,
\* and a row there was.
LEMMA ApiAckStep == ASSUME IInv, NEW r \in Requests, ApiAck(r) PROVE IInv'
  <1> USE DEF ApiAck
  <1>1. /\ api' \in [Requests -> [at : {"new", "ack", "resolve", "done"}, inc : Incident]]
        /\ \A q \in Requests : api'[q].inc.count <= now'
    BY DoneStep
  <1>2. row' \in Incident /\ row'.state = "ack" /\ row'.count <= now
    BY DEF IInv, TypeOK, CountInv, Incident, States
  <1>3. TypeOK'
    BY <1>1, <1>2 DEF IInv, TypeOK
  <1>4. OpeningsInv'
    BY <1>2 DEF IInv, OpeningsInv
  <1>5. PagesInv' /\ OpeningsArePaged' /\ CountInv'
    BY <1>1, <1>2 DEF IInv, PagesInv, OpeningsArePaged, CountInv
  <1> QED BY <1>3, <1>4, <1>5 DEF IInv

\* A manual resolution inserts the row its request fetched, resolved.
LEMMA ApiResolveStep == ASSUME IInv, NEW r \in Requests, ApiResolve(r) PROVE IInv'
  <1> USE DEF ApiResolve
  <1>1. /\ api' \in [Requests -> [at : {"new", "ack", "resolve", "done"}, inc : Incident]]
        /\ \A q \in Requests : api'[q].inc.count <= now'
    BY DoneStep
  <1>2. api[r].inc \in Incident /\ api[r].inc.count <= now
    BY DEF IInv, TypeOK, CountInv
  <1>3. /\ row' \in Incident /\ row'.count <= now /\ row'.state = "resolved"
        /\ resolutions' \in Nat
        /\ openings' <= resolutions' /\ openings' <= 1 + resolutions'
        /\ resolutions <= resolutions'
    BY <1>2, ResolvedRow
  <1>4. TypeOK'
    BY <1>1, <1>3 DEF IInv, TypeOK
  <1>5. OpeningsInv'
    BY <1>3 DEF IInv, OpeningsInv
  <1>6. PagesInv' /\ OpeningsArePaged' /\ CountInv'
    BY <1>1, <1>3 DEF IInv, PagesInv, OpeningsArePaged, CountInv
  <1> QED BY <1>4, <1>5, <1>6 DEF IInv

\* The invariant is inductive.
LEMMA NextIInv == IInv /\ [Next]_vars => IInv'
  <1> SUFFICES ASSUME IInv, [Next]_vars PROVE IInv'
    OBVIOUS
  <1>1. CASE Pass
    BY <1>1, MoveStep, FetchStep, RecordStep, PageStep, ResolveFetchStep,
       AutoResolveStep DEF Pass
  <1>2. CASE Interrupted
    BY <1>2, InterruptedStep
  <1>3. CASE TimePasses
    BY <1>3, TimePassesStep
  <1>4. CASE \E r \in Requests : ApiFetch(r) \/ ApiAck(r) \/ ApiResolve(r)
    BY <1>4, ApiFetchStep, ApiAckStep, ApiResolveStep
  <1>5. CASE UNCHANGED vars
    BY <1>5 DEF vars, IInv, TypeOK, OpeningsInv, PagesInv, CountInv, OpeningsArePaged
  <1> QED BY <1>1, <1>2, <1>3, <1>4, <1>5 DEF Next

-----------------------------------------------------------------------------
\* The inductive invariant holds in every reachable state.
THEOREM Invariance == Spec => []IInv
  BY InitIInv, NextIInv, PTL DEF Spec

\* The variables keep their types and bounds.
THEOREM TypeCorrect == Spec => []TypeOK
  <1>1. IInv => TypeOK
    BY DEF IInv
  <1> QED BY <1>1, Invariance, PTL

\* alerting/incidents.py:10-11: each page but the first needs a resolution of
\* its own, whatever alerts, restarts and stale writes of the API interleave.
THEOREM NoStorm == Spec => []NoAlertStorm
  <1>1. IInv => NoAlertStorm
    BY DEF IInv, TypeOK, OpeningsInv, PagesInv, NoAlertStorm
  <1> QED BY <1>1, Invariance, PTL

\* Only an interruption between the insert and the webhook loses a page.
THEOREM PagesFollowOpenings == Spec => []OpeningsArePaged
  <1>1. IInv => OpeningsArePaged
    BY DEF IInv
  <1> QED BY <1>1, Invariance, PTL

\* occurrence_count never exceeds the alerts recorded.
THEOREM CountsAreSound == Spec => []OccurrencesNotOvercounted
  <1>1. IInv => OccurrencesNotOvercounted
    BY DEF IInv, CountInv, OccurrencesNotOvercounted
  <1> QED BY <1>1, Invariance, PTL
=============================================================================

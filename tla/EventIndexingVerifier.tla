------------------------ MODULE EventIndexingVerifier ------------------------
(***************************************************************************)
(* The service verifier of the event-indexing incident                     *)
(* (integration/event_indexing_verifier.py): one candidate's identities    *)
(* are probed, four events go through Kafka, every record read back is     *)
(* entered in the PostgreSQL ledger and then indexed in OpenSearch, and    *)
(* the three stores are compared with what a right candidate leaves.       *)
(*                                                                         *)
(* Topic and index are new in every run; the ledger is a table that        *)
(* outlives the run.  An event is its number in IntegrationEvents.  What   *)
(* the services do is external: the producer retries (retries=3), so the   *)
(* broker may append an event again or out of order; any call may fail;    *)
(* the controller may kill the verifier, and it may be run again.          *)
(***************************************************************************)
EXTENDS EventIdentities

CONSTANTS
    Candidates,        \* the candidates that may be judged, see Code
    Stressed,          \* those whose broker misbehaves and which run again
    MaxBrokerFaults,   \* appends repeated or out of order, in one run
    MaxRuns            \* runs against the same database

ASSUME BoundsAssumption ==
    /\ Candidates \subseteq Candidate
    /\ Stressed \subseteq Candidates
    /\ MaxBrokerFaults \in Nat /\ MaxRuns \in Nat \ {0}

Expected == 4      \* len(events)
Number == 1..Expected

VARIABLES
    candidate,
    stage,       \* where run() is
    unsent,      \* events the broker has not acknowledged
    topic,       \* what the broker has appended
    records,     \* what consume_events has read
    done,        \* how many of them are processed
    decisions,   \* insert_results
    documents,   \* the index of this run
    ledger,      \* incident.idempotency_ledger: rows [key, event]
    expired,     \* the deadline has passed
    disturbed,   \* history: a service or the deadline got in this run's way
    brokerFaults, runs

run == <<unsent, topic, records, done, decisions, documents>>
environment == <<expired, disturbed, brokerFaults, runs>>
vars == <<candidate, stage, run, ledger, environment>>

ServiceStage == {"evidence", "publish", "consume", "reset", "record",
                 "index", "ledger", "search"}
Ended == {"passed", "failed", "killed"}
Stage == ServiceStage \cup {"probe", "decisions"} \cup Ended

Init ==
    /\ candidate \in Candidates
    /\ stage = "probe"
    /\ unsent = Number /\ topic = <<>> /\ records = <<>> /\ done = 0
    /\ decisions = <<>> /\ documents = [d \in {} |-> 0]
    /\ ledger = {}
    /\ expired = FALSE /\ disturbed = FALSE
    /\ brokerFaults = 0 /\ runs = 1

Key(i) == IntegrationKey(candidate, i)
Document(i) == IntegrationDocument(candidate, i)
EventOf(i) == IntegrationEvents[i]

\* An assertion holds, or the run fails.
Require(holds, next) == stage' = IF holds THEN next ELSE "failed"

-----------------------------------------------------------------------------
(* run(), one call after the other.                                         *)

\* candidate_identities
Probe ==
    /\ stage = "probe"
    /\ Require(IdentitiesAccepted(candidate), "evidence")
    /\ UNCHANGED <<candidate, run, ledger, environment>>

\* verify_read_only_evidence reads what the database was created with, then
\* create_topic and create_index
PrepareServices ==
    /\ stage = "evidence"
    /\ stage' = "publish"
    /\ UNCHANGED <<candidate, run, ledger, environment>>

\* publish_events: the broker appends an event and acknowledges it, or the
\* acknowledgement is lost and the producer will send the event again.
Delivered(i, acknowledged) ==
    /\ stage = "publish" /\ i \in unsent
    /\ topic' = Append(topic, i)
    /\ unsent' = IF acknowledged THEN unsent \ {i} ELSE unsent
    /\ UNCHANGED <<candidate, stage, records, done, decisions, documents,
                   ledger, expired, runs>>

InOrder(i) == \A j \in unsent : i <= j

BrokerAppends ==
    \E i \in unsent :
        /\ InOrder(i) /\ Delivered(i, TRUE)
        /\ UNCHANGED <<disturbed, brokerFaults>>

BrokerMisbehaves ==
    \E i \in unsent :
        /\ candidate \in Stressed /\ brokerFaults < MaxBrokerFaults
        /\ Delivered(i, FALSE) \/ (~InOrder(i) /\ Delivered(i, TRUE))
        /\ brokerFaults' = brokerFaults + 1
        /\ disturbed' = TRUE

Published ==
    /\ stage = "publish" /\ unsent = {}
    /\ stage' = "consume"
    /\ UNCHANGED <<candidate, run, ledger, environment>>

\* Faulty variants, as in IncidentController: of ResetLedger, the rows of an
\* interrupted run stay; of RecordIdempotency, a conflicting row is replaced
\* and reported as inserted, or a second row is inserted for its key; of
\* Consumed, the deadline does not end the loop.
ResetLedgerKeepsRows ==
    /\ stage = "reset"
    /\ stage' = "record"
    /\ UNCHANGED <<candidate, run, ledger, environment>>

RecordIdempotencyReplaces ==
    /\ stage = "record"
    /\ LET i == records[done + 1]
       IN  /\ decisions' = Append(decisions, TRUE)
           /\ ledger' = {row \in ledger : row.key # Key(i)}
                           \cup {[key |-> Key(i), event |-> i]}
    /\ stage' = "index"
    /\ UNCHANGED <<candidate, unsent, topic, records, done, documents,
                   environment>>

RecordIdempotencyWithoutConflict ==
    /\ stage = "record"
    /\ LET i == records[done + 1]
       IN  /\ decisions' = Append(decisions,
                                  \A row \in ledger : row.key # Key(i))
           /\ ledger' = ledger \cup {[key |-> Key(i), event |-> i]}
    /\ stage' = "index"
    /\ UNCHANGED <<candidate, unsent, topic, records, done, documents,
                   environment>>

ConsumedWithoutDeadline ==
    /\ stage = "consume" /\ Len(records) >= Expected
    /\ Require(Len(records) = Expected, "reset")
    /\ UNCHANGED <<candidate, run, ledger, environment>>

\* consume_events: the loop reads until it has enough records or no time; a
\* reading ends after one idle second, with any number of new records.
Poll ==
    /\ stage = "consume" /\ Len(records) < Expected /\ ~expired
    /\ \E n \in Len(records) .. Len(topic) : records' = SubSeq(topic, 1, n)
    /\ UNCHANGED <<candidate, stage, unsent, topic, done, decisions,
                   documents, ledger, environment>>

Consumed ==
    /\ stage = "consume" /\ (Len(records) >= Expected \/ expired)
    /\ Require(Len(records) = Expected, "reset")
    /\ UNCHANGED <<candidate, run, ledger, environment>>

\* reset_disposable_ledger
ResetLedger ==
    /\ stage = "reset"
    /\ ledger' = {}
    /\ stage' = "record"
    /\ UNCHANGED <<candidate, run, environment>>

\* record_idempotency: INSERT ... ON CONFLICT DO NOTHING, committed before
\* the event is indexed.
RecordIdempotency ==
    /\ stage = "record"
    /\ LET i == records[done + 1]
           new == \A row \in ledger : row.key # Key(i)
       IN  /\ decisions' = Append(decisions, new)
           /\ ledger' = IF new
                        THEN ledger \cup {[key |-> Key(i), event |-> i]}
                        ELSE ledger
    /\ stage' = "index"
    /\ UNCHANGED <<candidate, unsent, topic, records, done, documents,
                   environment>>

\* index_event: a PUT under the document identity, of a duplicate as well.
IndexEvent ==
    /\ stage = "index"
    /\ LET i == records[done + 1]
       IN  documents' = Store(documents, Document(i), i)
    /\ done' = done + 1
    /\ stage' = IF done' < Len(records) THEN "record" ELSE "ledger"
    /\ UNCHANGED <<candidate, unsent, topic, records, decisions, ledger,
                   environment>>

\* verify_ledger
VerifyLedger ==
    /\ stage = "ledger"
    /\ Require(/\ Cardinality(ledger) = 3
              /\ {EventOf(row.event) : row \in ledger}
                   = {EventOf(i) : i \in Number},
              "decisions")
    /\ UNCHANGED <<candidate, run, ledger, environment>>

CheckDecisions ==
    /\ stage = "decisions"
    /\ Require(decisions = <<TRUE, FALSE, TRUE, TRUE>>, "search")
    /\ UNCHANGED <<candidate, run, ledger, environment>>

\* verify_search
VerifySearch ==
    /\ stage = "search"
    /\ LET sources == {EventOf(documents[d]) : d \in DOMAIN documents}
       IN  Require(/\ Cardinality(DOMAIN documents) = 2
                  /\ sources = {EventOf(3), EventOf(4)},
                  "passed")
    /\ UNCHANGED <<candidate, run, ledger, environment>>

-----------------------------------------------------------------------------
(* What happens to a run, and the next one.                                 *)

\* A call to a service raises: main reports a failed run.
ServiceFails ==
    /\ stage \in ServiceStage
    /\ stage' = "failed" /\ disturbed' = TRUE
    /\ UNCHANGED <<candidate, run, ledger, expired, brokerFaults, runs>>

DeadlinePasses ==
    /\ stage \notin Ended /\ ~expired
    /\ expired' = TRUE /\ disturbed' = TRUE
    /\ UNCHANGED <<candidate, stage, run, ledger, brokerFaults, runs>>

\* The controller's Compose client is stopped; the database keeps its rows.
Kill ==
    /\ stage \notin Ended
    /\ stage' = "killed"
    /\ UNCHANGED <<candidate, run, ledger, environment>>

RunAgain ==
    /\ stage \in Ended
    /\ candidate \in Stressed /\ runs < MaxRuns
    /\ runs' = runs + 1 /\ stage' = "probe"
    /\ unsent' = Number /\ topic' = <<>> /\ records' = <<>> /\ done' = 0
    /\ decisions' = <<>> /\ documents' = [d \in {} |-> 0]
    /\ expired' = FALSE /\ disturbed' = FALSE /\ brokerFaults' = 0
    /\ UNCHANGED <<candidate, ledger>>

Verifier ==
    \/ Probe \/ PrepareServices \/ BrokerAppends \/ Published \/ Poll
    \/ Consumed \/ ResetLedger \/ RecordIdempotency \/ IndexEvent
    \/ VerifyLedger \/ CheckDecisions \/ VerifySearch

Next == \/ Verifier \/ BrokerMisbehaves \/ ServiceFails \/ DeadlinePasses
        \/ Kill \/ RunAgain

Spec == Init /\ [][Next]_vars

\* The verifier is a sequential program whose calls have timeouts (the
\* producer waits 15 s for each acknowledgement, 240-244), and the clock of
\* its deadline runs.
FairSpec == Spec /\ WF_vars(Verifier) /\ WF_vars(DeadlinePasses)

-----------------------------------------------------------------------------

\* The stores and counters have their shapes.
TypeOK ==
    /\ candidate \in Candidates
    /\ stage \in Stage
    /\ unsent \subseteq Number
    /\ topic \in Seq(Number) /\ records \in Seq(Number)
    /\ done \in 0..Len(records)
    /\ decisions \in Seq(BOOLEAN)
    /\ \A d \in DOMAIN documents : documents[d] \in Number
    /\ \A row \in ledger : row.event \in Number
    /\ \A row, other \in ledger : row.key = other.key => row = other
    /\ expired \in BOOLEAN /\ disturbed \in BOOLEAN
    /\ brokerFaults \in 0..MaxBrokerFaults /\ runs \in 1..MaxRuns

\* Each decision is about this run alone: an event is reported as new exactly
\* if no earlier record of this run has its key, whatever an interrupted run
\* left in the ledger and however often the broker repeats an event
\* (record_idempotency, 329-359, after reset_disposable_ledger, 394-398).
DecisionsAreOfThisRun ==
    \A n \in DOMAIN decisions :
        decisions[n] = \A m \in 1..(n - 1) : Key(records[m]) # Key(records[n])

\* The service run vetoes no candidate the controller's verifier accepts: a
\* run of such a candidate that fails met a failing service, a misbehaving
\* broker or the deadline.  Rows that a killed run left in the database are
\* no reason ("Make repeated local runs deterministic", 395).  (A candidate
\* is one of Code: a look-up may know the one's samples and not the other's.)
VetoHasACause == stage = "failed" /\ LogicAccepts(candidate) => disturbed

\* The candidate is accepted by everything that judges it.
Accepted ==
    stage = "passed" /\ LogicAccepts(candidate) /\ TestsAccept(candidate)

\* Events whose values are single tokens without capitals, and events with
\* tenants that differ in case only and values of which one begins or ends
\* with another: not every expression tells these apart.
EventsOf(tenants, providers, ids) ==
    [event_type : {<<"ready">>, <<"redacted">>}, tenant_id : tenants,
     provider : providers, external_record_id : ids,
     revision : {<<"7">>, <<"8">>}]
PlainEvents(ids) ==
    EventsOf({<<"org-a">>, <<"org-b">>}, {<<"source-a">>, <<"source-b">>}, ids)
AwkwardEvents(ids) ==
    EventsOf({<<"org-a">>, <<"ORG-A">>, <<"org-a", "x">>},
             {<<"source-a">>, <<"x", "source-a">>}, ids)

\* Two events share a key only if they are equal, and a document exactly if
\* they are about the same record of the same tenant.
Right(events) ==
    \A e, f \in events :
        /\ Identity(candidate.event, e) = Identity(candidate.event, f) => e = f
        /\ Identity(candidate.document, e) = Identity(candidate.document, f)
             <=> TenantRecord(e) = TenantRecord(f)

\* The controller's verifier is authority enough for the events of a single
\* external record: identities that pass its six samples are right for every
\* event of that record (verifiers/event_indexing_logic.py:73-125) - if its
\* values are plain, or if they join whole fields with ":".  Of the other
\* expressions it is not so: concatenation without a separator, or of folded
\* fields, passes the samples and merges tenants.  It is said of the first
\* state of a run, which every candidate has.
LogicIsEnoughForOneRecord ==
    stage = "probe" /\ LogicAccepts(candidate) =>
        /\ Right(PlainEvents({<<"r">>}))
        /\ Joins(candidate.event) /\ Joins(candidate.document) =>
               Right(AwkwardEvents({<<"r">>}))

\* A repair that is green in the workspace is refused by the controller's
\* verifier for its form only: because it is not the pair of pure expressions
\* that the probe evaluates ("every unsupported expression fail closed",
\* docs/architecture.md:71).  And nothing that it accepts is red there, so a
\* refusal by one of the two judges is never hidden by the other.
RefusedOnlyForItsForm ==
    stage = "probe" =>
        (LogicAccepts(candidate) <=>
             /\ TestsAccept(candidate)
             /\ \A code \in {candidate.event, candidate.document} : code.pure)

\* What is accepted is right for events of several records.  The diagnosis
\* says "Event identity must include event type, tenant, provider, external
\* record ID, and revision." and "Document identity must include tenant,
\* provider, and external record ID"
\* (fixtures/diagnoses/event-indexing-collision.json:11).
AcceptedIsRight == Accepted => Right(PlainEvents({<<"r">>, <<"s">>}))

\* A run ends: no answer of the broker, or none at all, keeps it going past
\* its deadline.
RunEnds == stage \notin Ended ~> stage \in Ended
=============================================================================

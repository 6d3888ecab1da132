--------------------------- MODULE RecordConsumer ---------------------------
(***************************************************************************)
(* The record-indexing consumer of the fixture application                 *)
(* (fixtures/repositories/event-indexing-collision/app/consumer.py), for   *)
(* any pair of identities.  Events arrive in any order and any number of   *)
(* times: the queue in front of the consumer delivers at least once and    *)
(* does not keep the order of events.                                      *)
(***************************************************************************)
EXTENDS Naturals, FiniteSets

CONSTANTS
    Event,                \* the events that may be delivered
    EventIdentity(_),     \* app/idempotency.py
    DocumentIdentity(_),  \* app/search_documents.py
    RecordOf(_)           \* the tenant's record an event is about

VARIABLES
    ledger,      \* keys of completed events
    documents,   \* the search index: an event for each document identity
    indexed,     \* history: the events the consumer has indexed
    latest,      \* history: of each record, the event indexed last
    answer       \* the consumer's last answer, with its event

vars == <<ledger, documents, indexed, latest, answer>>

Put(map, id, value) ==
    [k \in DOMAIN map \cup {id} |-> IF k = id THEN value ELSE map[k]]

Idle == [event |-> CHOOSE e \in Event : TRUE, outcome |-> "none"]

Init == /\ ledger = {} /\ documents = [d \in {} |-> {}]
        /\ indexed = {} /\ latest = [r \in {} |-> {}]
        /\ answer = Idle

-----------------------------------------------------------------------------

\* The key is in the ledger: nothing is done.
Suppress(event) ==
    /\ EventIdentity(event) \in ledger
    /\ answer' = [event |-> event, outcome |-> "duplicate"]
    /\ UNCHANGED <<ledger, documents, indexed, latest>>

\* A slip the checks must notice: the key of an indexed event is not entered.
IndexWithoutKey(event) ==
    /\ EventIdentity(event) \notin ledger
    /\ documents' = Put(documents, DocumentIdentity(event), event)
    /\ indexed' = indexed \cup {event}
    /\ latest' = Put(latest, RecordOf(event), event)
    /\ answer' = [event |-> event, outcome |-> "indexed"]
    /\ UNCHANGED ledger

\* A slip the checks must notice: the document is filed under the key.
IndexUnderKey(event) ==
    /\ EventIdentity(event) \notin ledger
    /\ documents' = Put(documents, EventIdentity(event), event)
    /\ ledger' = ledger \cup {EventIdentity(event)}
    /\ indexed' = indexed \cup {event}
    /\ latest' = Put(latest, RecordOf(event), event)
    /\ answer' = [event |-> event, outcome |-> "indexed"]

\* The document is replaced, whatever revision it holds, and the key entered.
Index(event) ==
    /\ EventIdentity(event) \notin ledger
    /\ documents' = Put(documents, DocumentIdentity(event), event)
    /\ ledger' = ledger \cup {EventIdentity(event)}
    /\ indexed' = indexed \cup {event}
    /\ latest' = Put(latest, RecordOf(event), event)
    /\ answer' = [event |-> event, outcome |-> "indexed"]

Process(event) == Suppress(event) \/ Index(event)

Next == \E event \in Event : Process(event)

Spec == Init /\ [][Next]_vars

-----------------------------------------------------------------------------

\* The variables have the shape of the ledger, the index and an answer.
TypeOK ==
    /\ ledger \subseteq {EventIdentity(e) : e \in Event}
    /\ DOMAIN documents \subseteq {DocumentIdentity(e) : e \in Event}
    /\ \A d \in DOMAIN documents : documents[d] \in Event
    /\ indexed \subseteq Event
    /\ answer \in [event : Event, outcome : {"none", "indexed", "duplicate"}]

\* Only an exact replay is suppressed: an event answered "duplicate" has been
\* indexed before (app/idempotency.py:10, "suppress exact event replays").
DuplicateMeansReplay == answer.outcome = "duplicate" => answer.event \in indexed

\* The index holds one document for each record indexed so far, and its
\* content is the event of that record that was indexed last: two tenants
\* never share a document and a revision never leaves a second one behind.
IndexHoldsLatest ==
    /\ \A r \in DOMAIN latest :
          \E d \in DOMAIN documents : documents[d] = latest[r]
    /\ \A d \in DOMAIN documents :
          /\ RecordOf(documents[d]) \in DOMAIN latest
          /\ documents[d] = latest[RecordOf(documents[d])]
    /\ \A c, d \in DOMAIN documents :
          RecordOf(documents[c]) = RecordOf(documents[d]) => c = d

\* A replay that arrives late, after newer revisions were indexed, changes
\* nothing: the index never goes back to an event it has already replaced.
ReplayChangesNothing ==
    [][answer'.event \in indexed => documents' = documents]_vars
=============================================================================

--------------------------- MODULE EventIdentities ---------------------------
(***************************************************************************)
(* The two identities of the record-indexing incident and everything that  *)
(* judges a candidate's version of them.                                   *)
(*                                                                         *)
(* A record event has five fields.  Its event identity is the key of the   *)
(* idempotency ledger; its document identity names the search document.    *)
(* Both are strings made of field values, with ":" between them in the     *)
(* fixture and in the reference repair.  A value is a sequence of tokens   *)
(* here and an identity the joined sequence, so two events can share an    *)
(* identity because a field is left out, because a value contains the      *)
(* separator, or because there is none.                                    *)
(*                                                                         *)
(* A candidate may write any Python.  The repository's tests run it; the   *)
(* two verifiers evaluate one pure return expression for each identity and *)
(* refuse everything else (verifiers/candidate_probe.py:80-205).  Of what  *)
(* they evaluate, Code has the expressions that join or concatenate fields *)
(* as they are or case-folded.  Constants, subscripts, look-ups and split  *)
(* are left out, and so is what another program than such an expression    *)
(* may compute: what is said here of candidates is said of these.          *)
(***************************************************************************)
EXTENDS Naturals, Sequences, FiniteSets, Functions

Field == {"event_type", "tenant_id", "provider", "external_record_id",
          "revision"}

\* A candidate's code for one identity: the fields it joins, what it puts
\* between them, those it folds first, and whether it is one pure expression
\* that the probe evaluates or says the same in other Python.
Code == [fields : Seq(Field), separator : {<<":">>, <<>>},
         folded : SUBSET Field, pure : BOOLEAN]
Candidate == [event : Code, document : Code]

\* The parts up to the n-th, with the separator between them.
Prefixes(separator, parts) ==
    LET joined[n \in 0 .. Len(parts)] ==
            IF n = 0 THEN <<>>
            ELSE IF n = 1 THEN parts[1]
            ELSE (joined[n - 1] \o separator) \o parts[n]
    IN  joined

Join(separator, parts) == Prefixes(separator, parts)[Len(parts)]

\* casefold, lower: the tokens here have no capitals, but for one.
Casefold(value) ==
    [i \in DOMAIN value |-> IF value[i] = "ORG-A" THEN "org-a" ELSE value[i]]

\* A field as an expression reads it, and the identity it computes.
Read(code, event, field) ==
    IF field \in code.folded THEN Casefold(event[field]) ELSE event[field]
Identity(code, event) ==
    Join(code.separator,
         [i \in DOMAIN code.fields |-> Read(code, event, code.fields[i])])

\* The code joins whole fields with ":", as the fixture does.
Joins(code) == code.separator = <<":">> /\ code.folded = {}

\* A faulty variant of Probed: the probe imports and calls the candidate.
ProbedByCall(candidate) == TRUE

\* The probe evaluates both identities (candidate_probe.py:80-205).
Probed(candidate) == candidate.event.pure /\ candidate.document.pure

-----------------------------------------------------------------------------
(* The identities of the fixture as shipped, with the incident's bug, and   *)
(* those of the reference repair.  All of them join whole fields with ":".  *)

Joining(fields) ==
    [fields |-> fields, separator |-> <<":">>, folded |-> {}, pure |-> TRUE]

BaselineEventFields == <<"event_type", "provider", "external_record_id">>
BaselineDocumentFields == <<"provider", "external_record_id", "revision">>

ReferenceEventFields ==
    <<"event_type", "provider", "external_record_id", "tenant_id",
      "revision">>
ReferenceDocumentFields == <<"tenant_id", "provider", "external_record_id">>

\* What a document of the index is about.
TenantRecord(event) ==
    <<event.tenant_id, event.provider, event.external_record_id>>

-----------------------------------------------------------------------------
(* Consuming one event: a key already in the ledger is a duplicate, any     *)
(* other event replaces its document and is entered.                        *)

Emptied == [ledger |-> {}, documents |-> <<>>, outcomes |-> <<>>]

Store(documents, id, event) ==
    [k \in DOMAIN documents \cup {id} |->
        IF k = id THEN event ELSE documents[k]]

Consume(store, key, id, event) ==
    IF key \in store.ledger
    THEN [store EXCEPT !.outcomes = Append(@, "duplicate")]
    ELSE [ledger |-> store.ledger \cup {key},
          documents |-> Store(store.documents, id, event),
          outcomes |-> Append(store.outcomes, "indexed")]

-----------------------------------------------------------------------------
(* The judges.  Each is the list of the source's assertions over its own    *)
(* events.                                                                  *)

Sample(type, tenant, provider, revision) ==
    [event_type |-> <<type>>, tenant_id |-> <<tenant>>,
     provider |-> <<provider>>, external_record_id |-> <<"record">>,
     revision |-> <<revision>>]

\* The events of the controller's verifier: base, replay, other tenant, next
\* revision, other type, other provider.
LogicEvents ==
    <<Sample("ready", "org", "source-a", "7"),
      Sample("ready", "org", "source-a", "7"),
      Sample("ready", "org-other", "source-a", "7"),
      Sample("ready", "org", "source-a", "8"),
      Sample("redacted", "org", "source-a", "7"),
      Sample("ready", "org", "source-b", "7")>>

\* A faulty variant of LogicAccepts: the provider case is not compared with
\* the others' keys.
LogicAcceptsAnyProvider(candidate) ==
    LET key == [i \in 1..6 |-> Identity(candidate.event, LogicEvents[i])]
        doc == [i \in 1..6 |-> Identity(candidate.document, LogicEvents[i])]
        step(store, i) == Consume(store, key[i], doc[i], LogicEvents[i])
        end == step(step(step(step(Emptied, 1), 3), 2), 4)
        stored == {end.documents[d] : d \in DOMAIN end.documents}
    IN  /\ Probed(candidate)
        /\ \A i \in 1..6 : key[i] # <<>> /\ doc[i] # <<>>
        /\ key[1] = key[2]
        /\ Cardinality(Range(key)) >= 4
        /\ key[1] \notin {key[i] : i \in 3..5}
        /\ Cardinality({doc[i] : i \in {1, 2, 4, 5}}) = 1
        /\ doc[1] \notin {doc[3], doc[6]}
        /\ Cardinality(Range(doc)) = 3
        /\ end.outcomes = <<"indexed", "indexed", "duplicate", "indexed">>
        /\ Cardinality(end.ledger) = 3
        /\ Cardinality(DOMAIN end.documents) = 2
        /\ {<<e.tenant_id, e.revision>> : e \in stored}
             = {<<<<"org">>, <<"8">>>>, <<<<"org-other">>, <<"7">>>>}

LogicAccepts(candidate) ==
    LET key == [i \in 1..6 |-> Identity(candidate.event, LogicEvents[i])]
        doc == [i \in 1..6 |-> Identity(candidate.document, LogicEvents[i])]
        step(store, i) == Consume(store, key[i], doc[i], LogicEvents[i])
        end == step(step(step(step(Emptied, 1), 3), 2), 4)
        stored == {end.documents[d] : d \in DOMAIN end.documents}
    IN  /\ Probed(candidate)
        /\ \A i \in 1..6 : key[i] # <<>> /\ doc[i] # <<>>
        /\ key[1] = key[2]
        /\ Cardinality(Range(key)) = 5
        /\ key[1] \notin {key[i] : i \in 3..6}
        /\ Cardinality({doc[i] : i \in {1, 2, 4, 5}}) = 1
        /\ doc[1] \notin {doc[3], doc[6]}
        /\ Cardinality(Range(doc)) = 3
        /\ end.outcomes = <<"indexed", "indexed", "duplicate", "indexed">>
        /\ Cardinality(end.ledger) = 3
        /\ Cardinality(DOMAIN end.documents) = 2
        /\ {<<e.tenant_id, e.revision>> : e \in stored}
             = {<<<<"org">>, <<"8">>>>, <<<<"org-other">>, <<"7">>>>}

\* The events of the integration verifier: original, replay, next revision,
\* other tenant.
IntegrationEvents ==
    <<Sample("ready", "org-alpha", "source-a", "7"),
      Sample("ready", "org-alpha", "source-a", "7"),
      Sample("ready", "org-alpha", "source-a", "8"),
      Sample("ready", "org-beta", "source-a", "7")>>

IntegrationKey(candidate, i) ==
    Identity(candidate.event, IntegrationEvents[i])
IntegrationDocument(candidate, i) ==
    Identity(candidate.document, IntegrationEvents[i])

\* What the integration verifier asks of the probed identities before it
\* touches a service.
IdentitiesAccepted(candidate) ==
    LET key == [i \in 1..4 |-> IntegrationKey(candidate, i)]
        doc == [i \in 1..4 |-> IntegrationDocument(candidate, i)]
    IN  /\ Probed(candidate)
        /\ \A i \in 1..4 : key[i] # <<>> /\ doc[i] # <<>>
        /\ key[1] = key[2] /\ key[1] # key[3] /\ key[1] # key[4]
        /\ Cardinality(Range(key)) = 3
        /\ doc[1] = doc[2] /\ doc[1] = doc[3] /\ doc[1] # doc[4]
        /\ Cardinality(Range(doc)) = 2

\* The repository's own tests of the identities, which run the code.
TestsAccept(candidate) ==
    LET base == Sample("ready", "org-alpha", "source-a", "7")
        tenant == Sample("ready", "org-beta", "source-a", "7")
        newer == Sample("ready", "org-alpha", "source-a", "8")
        redacted == Sample("redacted", "org-alpha", "source-a", "7")
        teams == Sample("ready", "org-alpha", "teams", "7")
        key(e) == Identity(candidate.event, e)
        doc(e) == Identity(candidate.document, e)
        step(store, e) == Consume(store, key(e), doc(e), e)
        end == step(step(step(step(Emptied, base), tenant), base), newer)
    IN  /\ key(base) \notin {key(e) : e \in {tenant, newer, redacted, teams}}
        /\ doc(base) \notin {doc(tenant), doc(teams)}
        /\ doc(base) = doc(newer) /\ doc(base) = doc(redacted)
        /\ end.outcomes = <<"indexed", "indexed", "duplicate", "indexed">>
        /\ Cardinality(end.ledger) = 3
        /\ Cardinality(DOMAIN end.documents) = 2
=============================================================================

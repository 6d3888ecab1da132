-------------------------- MODULE MCRecordConsumer --------------------------
(***************************************************************************)
(* RecordConsumer with the identities of the fixture's reference repair.   *)
(***************************************************************************)
EXTENDS RecordConsumer, EventIdentities

CONSTANTS
    Tenants, Providers, Records, Revisions, EventTypes  \* tokens of a field

\* A value is one token: it does not contain the separator ":", although
\* from_mapping (app/events.py:35-37) would admit that.  The documents of
\* (tenant "a", provider "a:a") and (tenant "a:a", provider "a") are one.
MCEvent ==
    [event_type : {<<t>> : t \in EventTypes},
     tenant_id : {<<t>> : t \in Tenants},
     provider : {<<t>> : t \in Providers},
     external_record_id : {<<t>> : t \in Records},
     revision : {<<v>> : v \in Revisions}]

ReferenceEventIdentity(event) ==
    Identity(Joining(ReferenceEventFields), event)
ReferenceDocumentIdentity(event) ==
    Identity(Joining(ReferenceDocumentFields), event)
=============================================================================

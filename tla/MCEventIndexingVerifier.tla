---------------------- MODULE MCEventIndexingVerifier ----------------------
(***************************************************************************)
(* EventIndexingVerifier for TLC: every candidate that joins some of the   *)
(* fields with ":", in the order of the reference repair, and some that    *)
(* write an identity differently.                                          *)
(***************************************************************************)
EXTENDS EventIndexingVerifier

EventOrder == <<"event_type", "provider", "external_record_id", "tenant_id",
                "revision">>
DocumentOrder == <<"tenant_id", "provider", "external_record_id",
                   "event_type", "revision">>

Keeping(order, fields) ==
    Joining(SelectSeq(order, LAMBDA f : f \in fields))

JoiningCandidates ==
    [event : {Keeping(EventOrder, fs) : fs \in SUBSET Field},
     document : {Keeping(DocumentOrder, fs) : fs \in SUBSET Field}]

\* The fixture as shipped, the reference repair, and each of them without the
\* separator, with tenants folded, or in other Python.
Written(fields) ==
    {Joining(fields),
     [Joining(fields) EXCEPT !.separator = <<>>],
     [Joining(fields) EXCEPT !.folded = {"tenant_id"}],
     [Joining(fields) EXCEPT !.pure = FALSE]}
WrittenCandidates ==
    [event : Written(ReferenceEventFields) \cup Written(BaselineEventFields),
     document : Written(ReferenceDocumentFields)
                    \cup Written(BaselineDocumentFields)]

EveryCandidate == JoiningCandidates \cup WrittenCandidates

\* The reference repair, the fixture as shipped, and a candidate that only
\* this verifier accepts.
FewCandidates ==
    {[event |-> Joining(ReferenceEventFields),
      document |-> Joining(ReferenceDocumentFields)],
     [event |-> Joining(BaselineEventFields),
      document |-> Joining(BaselineDocumentFields)],
     [event |-> Joining(<<"tenant_id", "revision">>),
      document |-> Joining(<<"tenant_id">>)]}
=============================================================================

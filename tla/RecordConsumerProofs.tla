------------------------ MODULE RecordConsumerProofs ------------------------
(***************************************************************************)
(* What the consumer does with any set of events, as far as its two        *)
(* identities allow: with keys that tell events apart it suppresses only   *)
(* replays; with document identities that name records it holds the event  *)
(* of each record that it indexed last.                                    *)
(***************************************************************************)
EXTENDS RecordConsumer, EventIdentitiesProofs

\* Different events have different keys.
KeysTellEventsApart ==
    \A e, f \in Event : EventIdentity(e) = EventIdentity(f) => e = f

\* Events share a document exactly if they are about the same record.
DocumentsNameRecords ==
    \A e, f \in Event :
        DocumentIdentity(e) = DocumentIdentity(f) <=> RecordOf(e) = RecordOf(f)

\* The ledger holds the keys of the indexed events.
LedgerInv ==
    /\ indexed \subseteq Event
    /\ ledger = {EventIdentity(e) : e \in indexed}
    /\ answer.outcome = "duplicate" =>
          /\ answer.event \in Event
          /\ EventIdentity(answer.event) \in ledger

\* A document is filed under the identity of its event, and is the event of
\* its record that was indexed last; the last event of a record is there.
IndexInv ==
    /\ \A d \in DOMAIN documents :
          /\ documents[d] \in Event
          /\ DocumentIdentity(documents[d]) = d
          /\ RecordOf(documents[d]) \in DOMAIN latest
          /\ latest[RecordOf(documents[d])] = documents[d]
    /\ \A r \in DOMAIN latest :
          /\ latest[r] \in Event
          /\ RecordOf(latest[r]) = r
          /\ DocumentIdentity(latest[r]) \in DOMAIN documents
          /\ documents[DocumentIdentity(latest[r])] = latest[r]

LEMMA LedgerInit == Init => LedgerInv
  BY DEF Init, Idle, LedgerInv

LEMMA LedgerStep == LedgerInv /\ [Next]_vars => LedgerInv'
<1> SUFFICES ASSUME LedgerInv, [Next]_vars
             PROVE  LedgerInv'
  OBVIOUS
<1>1. ASSUME NEW event \in Event, Suppress(event)
      PROVE  LedgerInv'
  BY <1>1 DEF LedgerInv, Suppress
<1>2. ASSUME NEW event \in Event, Index(event)
      PROVE  LedgerInv'
  BY <1>2 DEF LedgerInv, Index
<1>3. CASE UNCHANGED vars
  BY <1>3 DEF LedgerInv, vars
<1>4. QED
  BY <1>1, <1>2, <1>3 DEF Next, Process

LEMMA IndexInit == Init => IndexInv
  BY DEF Init, IndexInv

LEMMA IndexStep ==
    ASSUME DocumentsNameRecords
    PROVE  IndexInv /\ [Next]_vars => IndexInv'
<1> SUFFICES ASSUME IndexInv, [Next]_vars
             PROVE  IndexInv'
  OBVIOUS
<1>1. ASSUME NEW event \in Event, Suppress(event)
      PROVE  IndexInv'
  BY <1>1 DEF IndexInv, Suppress
<1>2. ASSUME NEW event \in Event, Index(event)
      PROVE  IndexInv'
  <2> DEFINE id == DocumentIdentity(event)
             r0 == RecordOf(event)
  <2>1. /\ DOMAIN documents' = DOMAIN documents \cup {id}
        /\ documents'[id] = event
        /\ \A d \in DOMAIN documents \ {id} : documents'[d] = documents[d]
    BY <1>2, Zenon DEF Index, Put
  <2>2. /\ DOMAIN latest' = DOMAIN latest \cup {r0}
        /\ latest'[r0] = event
        /\ \A r \in DOMAIN latest \ {r0} : latest'[r] = latest[r]
    BY <1>2, Zenon DEF Index, Put
  <2>3. ASSUME NEW d \in DOMAIN documents'
        PROVE  /\ documents'[d] \in Event
               /\ DocumentIdentity(documents'[d]) = d
               /\ RecordOf(documents'[d]) \in DOMAIN latest'
               /\ latest'[RecordOf(documents'[d])] = documents'[d]
    <3>1. CASE d = id
      BY <2>1, <2>2, <3>1
    <3>2. CASE d # id
      <4>1. d \in DOMAIN documents /\ documents'[d] = documents[d]
        BY <2>1, <2>3, <3>2
      <4>2. RecordOf(documents[d]) # r0
        BY <3>2, <4>1 DEF IndexInv, DocumentsNameRecords
      <4>3. QED
        BY <2>2, <4>1, <4>2 DEF IndexInv
    <3>3. QED
      BY <3>1, <3>2
  <2>4. ASSUME NEW r \in DOMAIN latest'
        PROVE  /\ latest'[r] \in Event
               /\ RecordOf(latest'[r]) = r
               /\ DocumentIdentity(latest'[r]) \in DOMAIN documents'
               /\ documents'[DocumentIdentity(latest'[r])] = latest'[r]
    <3>1. CASE r = r0
      BY <2>1, <2>2, <3>1
    <3>2. CASE r # r0
      <4>1. r \in DOMAIN latest /\ latest'[r] = latest[r]
        BY <2>2, <2>4, <3>2
      <4>2. DocumentIdentity(latest[r]) # id
        BY <3>2, <4>1 DEF IndexInv, DocumentsNameRecords
      <4>3. QED
        BY <2>1, <4>1, <4>2 DEF IndexInv
    <3>3. QED
      BY <3>1, <3>2
  <2>5. QED
    BY <2>3, <2>4 DEF IndexInv
<1>3. CASE UNCHANGED vars
  BY <1>3 DEF IndexInv, vars
<1>4. QED
  BY <1>1, <1>2, <1>3 DEF Next, Process

-----------------------------------------------------------------------------

\* Only an exact replay is answered "duplicate", for every set of events whose
\* keys tell them apart.
THEOREM OnlyReplaysSuppressed ==
    ASSUME KeysTellEventsApart
    PROVE  Spec => []DuplicateMeansReplay
<1>1. LedgerInv => DuplicateMeansReplay
  BY DEF LedgerInv, DuplicateMeansReplay, KeysTellEventsApart
<1>2. QED
  BY <1>1, LedgerInit, LedgerStep, PTL DEF Spec

\* The index holds one document for each record, the event indexed last, for
\* every set of events whose document identities name the records.
THEOREM IndexIsLatest ==
    ASSUME DocumentsNameRecords
    PROVE  Spec => []IndexHoldsLatest
<1>1. IndexInv => IndexHoldsLatest
  BY DEF IndexInv, IndexHoldsLatest, DocumentsNameRecords
<1>2. IndexInv /\ [Next]_vars => IndexInv'
  BY IndexStep
<1>3. QED
  BY <1>1, <1>2, IndexInit, PTL DEF Spec

\* A replay changes no document, whatever the identities are.
THEOREM ReplayIsHarmless == Spec => ReplayChangesNothing
<1>1. LedgerInv /\ [Next]_vars =>
        [answer'.event \in indexed => documents' = documents]_vars
  <2> SUFFICES ASSUME LedgerInv, [Next]_vars, answer'.event \in indexed,
                      vars' # vars
               PROVE  documents' = documents
    OBVIOUS
  <2>1. ASSUME NEW event \in Event, Suppress(event)
        PROVE  documents' = documents
    BY <2>1 DEF Suppress
  <2>2. ASSUME NEW event \in Event, Index(event)
        PROVE  FALSE
    BY <2>2 DEF Index, LedgerInv
  <2>3. QED
    BY <2>1, <2>2 DEF Next, Process
<1>2. QED
  BY <1>1, LedgerInit, LedgerStep, PTL DEF Spec, ReplayChangesNothing

-----------------------------------------------------------------------------
\* Every variable keeps its type, if there is an event at all: the ledger and
\* the index are keyed by identities of events (RecordConsumer.process).
THEOREM TypeCorrect ==
    ASSUME Event # {}
    PROVE  Spec => []TypeOK
<1>1. Init => TypeOK
  <2>1. Idle.event \in Event
    BY DEF Idle
  <2> QED BY <2>1 DEF Init, Idle, TypeOK
<1>2. TypeOK /\ [Next]_vars => TypeOK'
  <2> SUFFICES ASSUME TypeOK, [Next]_vars PROVE TypeOK'
    OBVIOUS
  <2>1. ASSUME NEW event \in Event, Suppress(event) PROVE TypeOK'
    BY <2>1 DEF TypeOK, Suppress
  <2>2. ASSUME NEW event \in Event, Index(event) PROVE TypeOK'
    <3>1. /\ DOMAIN documents' = DOMAIN documents
                                    \cup {DocumentIdentity(event)}
          /\ \A d \in DOMAIN documents' : documents'[d] \in Event
      BY <2>2 DEF TypeOK, Index, Put
    <3> QED BY <2>2, <3>1 DEF TypeOK, Index
  <2>3. CASE UNCHANGED vars
    BY <2>3 DEF TypeOK, vars
  <2> QED BY <2>1, <2>2, <2>3 DEF Next, Process
<1> QED BY <1>1, <1>2, PTL DEF Spec

-----------------------------------------------------------------------------
(***************************************************************************)
(* The consumer with the identities of the reference repair.               *)
(***************************************************************************)
\* The consumer joins the fields the reference repair joins, of events whose
\* values are free of the separator.
ReferenceRepair(Token) ==
    /\ ":" \notin Token
    /\ Event \subseteq [Field -> Seq(Token)]
    /\ \A e \in Event :
         /\ EventIdentity(e) = Identity(Joining(ReferenceEventFields), e)
         /\ DocumentIdentity(e) = Identity(Joining(ReferenceDocumentFields), e)
         /\ RecordOf(e) = TenantRecord(e)

\* Its keys tell all such events apart, and its documents name their records.
LEMMA ReferenceIsRight ==
    ASSUME NEW Token, ReferenceRepair(Token)
    PROVE  KeysTellEventsApart /\ DocumentsNameRecords
<1> DEFINE c == [event |-> Joining(ReferenceEventFields),
                 document |-> Joining(ReferenceDocumentFields)]
<1>1. /\ c.event \in Code /\ c.document \in Code
      /\ Joins(c.event) /\ Joins(c.document)
      /\ Discerning(c)
      /\ "external_record_id"
            \in Range(c.event.fields) \cap Range(c.document.fields)
  BY ReferenceIsComplete
<1>2. /\ c.event = Joining(ReferenceEventFields)
      /\ c.document = Joining(ReferenceDocumentFields)
  OBVIOUS
<1> HIDE DEF c
<1>3. \A e \in Event : /\ Legible(Token, c.event, e)
                      /\ Legible(Token, c.document, e)
  BY <1>1 DEF ReferenceRepair, Legible
<1>4. ASSUME NEW e \in Event, NEW f \in Event
      PROVE  /\ EventIdentity(e) = EventIdentity(f) => e = f
             /\ DocumentIdentity(e) = DocumentIdentity(f)
                  <=> RecordOf(e) = RecordOf(f)
  <2>1. /\ Identity(c.event, e) = Identity(c.event, f)
             => \A x \in Field : e[x] = f[x]
        /\ Identity(c.document, e) = Identity(c.document, f)
             <=> TenantRecord(e) = TenantRecord(f)
    BY <1>1, <1>3, TheCompleteAreRight
  <2>2. e \in [Field -> Seq(Token)] /\ f \in [Field -> Seq(Token)]
    BY DEF ReferenceRepair
  <2>3. (\A x \in Field : e[x] = f[x]) => e = f
    BY <2>2
  <2>4. QED
    BY <1>2, <2>1, <2>3, Zenon DEF ReferenceRepair
<1>5. QED
  BY <1>4, Zenon DEF KeysTellEventsApart, DocumentsNameRecords

\* So the repaired consumer suppresses only replays and holds the event of each
\* record that it indexed last, for every set of events, of any number of
\* records, in any order and repeated any number of times.
THEOREM TheReferenceRepairIsRight ==
    ASSUME NEW Token, ReferenceRepair(Token)
    PROVE  Spec => [](DuplicateMeansReplay /\ IndexHoldsLatest)
<1>1. KeysTellEventsApart /\ DocumentsNameRecords
  BY ReferenceIsRight
<1>2. Spec => []DuplicateMeansReplay
  BY <1>1, OnlyReplaysSuppressed
<1>3. Spec => []IndexHoldsLatest
  BY <1>1, IndexIsLatest
<1>4. QED
  BY <1>2, <1>3, PTL
=============================================================================

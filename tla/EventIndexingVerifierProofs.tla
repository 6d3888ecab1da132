-------------------- MODULE EventIndexingVerifierProofs --------------------
(***************************************************************************)
(* Theorems about EventIndexingVerifier, for every candidate, every bound  *)
(* and every number of runs.                                               *)
(*                                                                         *)
(* That the decisions are about this run alone needs only that an event    *)
(* has one key, whatever the candidate's identities are.  That a run which *)
(* nothing disturbs is not failed follows the four events through the      *)
(* three stores, for any candidate that the controller's verifier accepts: *)
(* EventIdentitiesProofs says which of the events then share a key or a    *)
(* document.                                                               *)
(***************************************************************************)
EXTENDS EventIndexingVerifier, EventIdentitiesProofs

\* Nothing is decided in these stages.
Before == {"probe", "evidence", "publish", "consume", "reset"}

\* A decision is taken for each record in turn, none before the ledger is
\* reset.
DecisionsInTurn ==
    /\ stage \in Before => done = 0 /\ decisions = <<>>
    /\ stage = "reset" => Len(records) = Expected
    /\ stage = "record" => done < Len(records) /\ Len(decisions) = done
    /\ stage = "index" => done < Len(records) /\ Len(decisions) = done + 1
    /\ Len(decisions) <= Len(records)

\* From the reset on, the ledger has the keys of the records decided on.
LedgerIsOfThisRun ==
    stage \in {"record", "index"} =>
        {row.key : row \in ledger} =
            {Key(records[m]) : m \in 1 .. Len(decisions)}

\* The inductive invariant of DecisionsAreOfThisRun.
IInv == TypeOK /\ DecisionsInTurn /\ LedgerIsOfThisRun /\ DecisionsAreOfThisRun

-----------------------------------------------------------------------------
\* Before the first step nothing is decided.
LEMMA InvInit == Init => IInv
<1> SUFFICES ASSUME Init
             PROVE  IInv
  OBVIOUS
<1>1. TypeOK
  <2>1. topic \in Seq(Number) /\ records \in Seq(Number)
        /\ decisions \in Seq(BOOLEAN) /\ done \in 0..Len(records)
    BY DEF Init
  <2>2. \A d \in DOMAIN documents : documents[d] \in Number
    BY DEF Init
  <2>3. expired \in BOOLEAN /\ disturbed \in BOOLEAN
    BY Zenon DEF Init
  <2>4. brokerFaults \in 0..MaxBrokerFaults /\ runs \in 1..MaxRuns
    BY BoundsAssumption DEF Init
  <2>5. /\ candidate \in Candidates /\ unsent \subseteq Number
        /\ stage \in Stage /\ ledger = {}
    BY DEF Init, Stage
  <2>6. QED
    BY <2>1, <2>2, <2>3, <2>4, <2>5, Zenon DEF TypeOK
<1>2. DecisionsInTurn
  BY DEF Init, DecisionsInTurn, Before
<1>3. LedgerIsOfThisRun /\ DecisionsAreOfThisRun
  BY DEF Init, LedgerIsOfThisRun, DecisionsAreOfThisRun
<1>4. QED
  BY <1>1, <1>2, <1>3 DEF IInv

\* Steps that change none of what the invariant is about, but the stage.
Turn == UNCHANGED <<candidate, run, ledger, environment>>

\* They keep it, if what it asks of the new stage holds.
LEMMA TurnKeeps ==
    ASSUME IInv, Turn, stage' \in Stage,
           stage' \in Before => stage \in Before,
           stage' = "reset" => Len(records) = Expected,
           stage' \notin {"record", "index"} \/ stage' = stage
    PROVE  IInv'
<1>1. TypeOK'
  <2>1. expired' = expired /\ disturbed' = disturbed
    BY DEF Turn, environment
  <2>2. UNCHANGED <<candidate, run, ledger, brokerFaults, runs>>
    BY DEF Turn, environment
  <2>3. QED
    BY <2>1, <2>2, Zenon DEF IInv, TypeOK, run
<1>2. DecisionsInTurn'
  BY DEF IInv, Turn, DecisionsInTurn, run
<1>3. LedgerIsOfThisRun'
  BY DEF IInv, Turn, LedgerIsOfThisRun, run, Key
<1>4. DecisionsAreOfThisRun'
  BY DEF IInv, Turn, DecisionsAreOfThisRun, run, Key
<1>5. QED
  BY <1>1, <1>2, <1>3, <1>4 DEF IInv

\* A run may be disturbed, and it may end.
LEMMA EndKeeps ==
    ASSUME IInv, UNCHANGED <<candidate, run, ledger, brokerFaults, runs>>,
           stage' \in {stage, "failed", "killed"},
           disturbed' \in {disturbed, TRUE}, expired' \in {expired, TRUE}
    PROVE  IInv'
<1>1. stage' \in Stage
  BY DEF IInv, TypeOK, Stage, Ended
<1>2. disturbed' \in BOOLEAN /\ expired' \in BOOLEAN
  BY Zenon DEF IInv, TypeOK
<1>3. TypeOK'
  BY <1>1, <1>2, Zenon DEF IInv, TypeOK, run
<1>4. DecisionsInTurn' /\ LedgerIsOfThisRun'
  BY DEF IInv, DecisionsInTurn, LedgerIsOfThisRun, run, Key, Before
<1>5. DecisionsAreOfThisRun'
  BY DEF IInv, DecisionsAreOfThisRun, run, Key
<1>6. QED
  BY <1>3, <1>4, <1>5 DEF IInv

\* An assertion that holds leads on, another one ends the run.
LEMMA Required ==
    ASSUME NEW next \in {"evidence", "reset", "decisions", "search", "passed"},
           NEW holds, Require(holds, next)
    PROVE  stage' \in {next, "failed"}
  BY DEF Require

\* Appending to what the broker holds.
LEMMA BrokerKeeps ==
    ASSUME IInv, stage = "publish", stage' = stage,
           UNCHANGED <<candidate, records, done, decisions, documents, ledger,
                       expired, runs>>,
           unsent' \subseteq unsent,
           NEW i \in Number, topic' = Append(topic, i),
           disturbed' \in BOOLEAN, brokerFaults' \in 0..MaxBrokerFaults
    PROVE  IInv'
<1>1. topic' \in Seq(Number)
  BY DEF IInv, TypeOK
<1>2. TypeOK'
  BY <1>1 DEF IInv, TypeOK
<1>3. DecisionsInTurn' /\ LedgerIsOfThisRun'
  BY DEF IInv, DecisionsInTurn, LedgerIsOfThisRun, Before
<1>4. DecisionsAreOfThisRun'
  BY DEF IInv, DecisionsAreOfThisRun, Key
<1>5. QED
  BY <1>2, <1>3, <1>4 DEF IInv

\* One reading of the topic.
LEMMA PollKeeps == IInv /\ Poll => IInv'
<1> SUFFICES ASSUME IInv, Poll
             PROVE  IInv'
  OBVIOUS
<1>1. stage = "consume" /\ decisions = <<>> /\ done = 0
  BY DEF Poll, IInv, DecisionsInTurn, Before
<1>2. PICK n \in Len(records) .. Len(topic) : records' = SubSeq(topic, 1, n)
  BY DEF Poll
<1>3. records' \in Seq(Number)
  BY <1>2 DEF IInv, TypeOK
<1>4. Len(records') \in Nat
  BY <1>3
<1>5. TypeOK'
  BY <1>1, <1>3, <1>4 DEF Poll, IInv, TypeOK, environment
<1>6. DecisionsInTurn' /\ LedgerIsOfThisRun'
  BY <1>1, <1>4 DEF Poll, DecisionsInTurn, LedgerIsOfThisRun, Before
<1>7. DecisionsAreOfThisRun'
  BY <1>1 DEF Poll, DecisionsAreOfThisRun
<1>8. QED
  BY <1>5, <1>6, <1>7 DEF IInv

\* The ledger starts from nothing, as the decisions do.
LEMMA ResetKeeps ==
    ASSUME IInv, ResetLedger
    PROVE  IInv'
<1>1. decisions = <<>> /\ done = 0 /\ ledger' = {} /\ stage' = "record"
  BY DEF ResetLedger, IInv, DecisionsInTurn, Before
<1>2. TypeOK'
  BY <1>1 DEF ResetLedger, IInv, TypeOK, Stage, ServiceStage, run,
     environment
<1>3. DecisionsInTurn' /\ LedgerIsOfThisRun'
  <2>1. UNCHANGED <<records, decisions, done>>
    BY Zenon DEF ResetLedger, run
  <2>2. Len(records) = 4 /\ Len(decisions) = 0
    BY <1>1 DEF ResetLedger, IInv, DecisionsInTurn, Expected
  <2>3. DecisionsInTurn'
    BY <1>1, <2>1, <2>2 DEF DecisionsInTurn, Before
  <2>4. LedgerIsOfThisRun'
    <3>1. 1 .. Len(decisions') = {}
      BY <2>1, <2>2
    <3>2. QED
      BY <1>1, <3>1 DEF LedgerIsOfThisRun
  <2>5. QED
    BY <2>3, <2>4
<1>4. DecisionsAreOfThisRun'
  BY <1>1 DEF ResetLedger, DecisionsAreOfThisRun, run
<1>5. QED
  BY <1>2, <1>3, <1>4 DEF IInv

\* A decision compares the record with those before it, because the ledger
\* has exactly their keys.
LEMMA RecordKeeps == IInv /\ RecordIdempotency => IInv'
<1> SUFFICES ASSUME IInv, RecordIdempotency
             PROVE  IInv'
  OBVIOUS
<1> DEFINE i == records[done + 1]
           new == \A row \in ledger : row.key # Key(i)
           row1 == [key |-> Key(i), event |-> i]
<1>1. /\ stage = "record" /\ stage' = "index"
      /\ decisions' = Append(decisions, new)
      /\ ledger' = IF new THEN ledger \cup {row1} ELSE ledger
      /\ UNCHANGED <<candidate, unsent, topic, records, done, documents,
                     environment>>
  BY Zenon DEF RecordIdempotency
<1>2. /\ records \in Seq(Number) /\ decisions \in Seq(BOOLEAN)
      /\ done \in Nat /\ done < Len(records) /\ Len(decisions) = done
  BY <1>1 DEF IInv, TypeOK, DecisionsInTurn
<1>3. i \in Number /\ new \in BOOLEAN
  BY <1>2
<1> HIDE DEF new
<1>4. /\ decisions' \in Seq(BOOLEAN) /\ Len(decisions') = done + 1
      /\ decisions'[done + 1] = new
      /\ \A n \in 1 .. done : decisions'[n] = decisions[n]
  BY <1>1, <1>2, <1>3, AppendProperties
<1>5. \A k : (\E row \in ledger : row.key = k) <=>
               (\E m \in 1 .. done : Key(records[m]) = k)
  <2>1. {row.key : row \in ledger} = {Key(records[m]) : m \in 1 .. done}
    BY <1>1, <1>2 DEF IInv, LedgerIsOfThisRun
  <2>2. QED
    BY <2>1, Zenon
<1> HIDE DEF i
<1>6. new <=> \A row \in ledger : row.key # Key(i)
  BY Zenon DEF new
<1>7. row1.key = Key(i) /\ row1.event = i
  OBVIOUS
<1>8. /\ new => ledger' = ledger \cup {row1}
      /\ ~new => ledger' = ledger
  BY <1>1, Zenon
<1> HIDE DEF row1
<1>9. new = \A m \in 1 .. done : Key(records[m]) # Key(i)
  BY <1>5, Zenon DEF new
<1>10. TypeOK'
  <2>1. \A row \in ledger' : row.event \in Number
    <3>1. \A row \in ledger : row.event \in Number
      BY DEF IInv, TypeOK
    <3>2. QED
      BY <1>3, <1>7, <1>8, <3>1, Zenon
  <2>2. \A row, other \in ledger' : row.key = other.key => row = other
    <3>1. \A row, other \in ledger : row.key = other.key => row = other
      BY DEF IInv, TypeOK
    <3>2. CASE new
      <4>1. \A row \in ledger : row.key # row1.key
        BY <1>6, <1>7, <3>2, Zenon
      <4>2. QED
        BY <1>8, <3>1, <3>2, <4>1, Zenon
    <3>3. CASE ~new
      BY <1>8, <3>1, <3>3, Zenon
    <3>4. QED
      BY <3>2, <3>3
  <2>3. QED
    BY <1>1, <1>4, <2>1, <2>2 DEF IInv, TypeOK, Stage, ServiceStage,
       environment
<1>11. DecisionsInTurn'
  BY <1>1, <1>2, <1>4 DEF DecisionsInTurn, Before
<1>12. LedgerIsOfThisRun'
  <2>1. {row.key : row \in ledger'} =
          {Key(records[m]) : m \in 1 .. (done + 1)}
    <3>1. \A k : (\E row \in ledger' : row.key = k) <=>
                   (\E row \in ledger : row.key = k) \/ k = Key(i)
      <4>1. CASE new
        BY <1>7, <1>8, <4>1, Zenon
      <4>2. CASE ~new
        BY <1>6, <1>8, <4>2, Zenon
      <4>3. QED
        BY <4>1, <4>2
    <3>2. \A k : (\E m \in 1 .. (done + 1) : Key(records[m]) = k) <=>
                   (\E m \in 1 .. done : Key(records[m]) = k) \/ k = Key(i)
      <4>1. \A m : m \in 1 .. (done + 1) <=> m \in 1 .. done \/ m = done + 1
        BY <1>2
      <4>2. QED
        BY <4>1, Zenon DEF i
    <3>3. QED
      BY <1>5, <3>1, <3>2
  <2>2. \A m : Key(records[m])' = Key(records[m])
    BY <1>1, Zenon DEF Key
  <2>3. Len(decisions') = done + 1
    BY <1>4
  <2>4. {Key(records[m])' : m \in 1 .. Len(decisions')} =
          {Key(records[m]) : m \in 1 .. (done + 1)}
    BY <2>2, <2>3
  <2>5. QED
    BY <2>1, <2>4, Zenon DEF LedgerIsOfThisRun
<1>13. DecisionsAreOfThisRun'
  <2> SUFFICES ASSUME NEW n \in 1 .. (done + 1)
               PROVE  decisions'[n] = \A m \in 1 .. (n - 1) :
                                         Key(records[m]) # Key(records[n])
    <3>1. DOMAIN decisions' = 1 .. (done + 1)
      BY <1>4
    <3>2. records' = records /\ candidate' = candidate
      BY <1>1
    <3>3. QED
      BY <3>1, <3>2, Zenon DEF DecisionsAreOfThisRun, Key
  <2>1. CASE n \in 1 .. done
    <3>1. n \in DOMAIN decisions
      BY <1>2, <2>1
    <3>2. QED
      BY <1>4, <2>1, <3>1, Zenon DEF IInv, DecisionsAreOfThisRun
  <2>2. CASE n = done + 1
    <3>1. n - 1 = done
      BY <1>2, <2>2
    <3>2. decisions'[n] = new
      BY <1>4, <2>2
    <3>3. new = \A m \in 1 .. (n - 1) : Key(records[m]) # Key(records[n])
      BY <1>9, <2>2, <3>1, Zenon DEF i
    <3>4. QED
      BY <3>2, <3>3, Zenon
  <2>3. n \in 1 .. done \/ n = done + 1
    BY <1>2
  <2>4. QED
    BY <2>1, <2>2, <2>3, Zenon
<1>14. QED
  BY <1>10, <1>11, <1>12, <1>13 DEF IInv

\* Indexing moves on to the next record, or to the comparisons.
LEMMA IndexKeeps == IInv /\ IndexEvent => IInv'
<1> SUFFICES ASSUME IInv, IndexEvent
             PROVE  IInv'
  OBVIOUS
<1>1. /\ stage = "index" /\ done' = done + 1
      /\ stage' = IF done' < Len(records) THEN "record" ELSE "ledger"
      /\ documents' = Store(documents, Document(records[done + 1]),
                            records[done + 1])
      /\ UNCHANGED <<candidate, unsent, topic, records, decisions, ledger,
                     environment>>
  BY Zenon DEF IndexEvent
<1>2. /\ records \in Seq(Number) /\ done \in Nat /\ done < Len(records)
      /\ Len(decisions) = done + 1 /\ Len(records) \in Nat
  BY <1>1 DEF IInv, TypeOK, DecisionsInTurn
<1>3. records[done + 1] \in Number
  BY <1>2
<1>4. \A d \in DOMAIN documents' : documents'[d] \in Number
  BY <1>1, <1>3 DEF IInv, TypeOK, Store
<1>5. TypeOK'
  BY <1>1, <1>2, <1>4 DEF IInv, TypeOK, Stage, ServiceStage, environment
<1>6. DecisionsInTurn'
  BY <1>1, <1>2 DEF DecisionsInTurn, Before, IInv
<1>7. LedgerIsOfThisRun'
  BY <1>1 DEF LedgerIsOfThisRun, IInv, Key
<1>8. DecisionsAreOfThisRun'
  BY <1>1 DEF DecisionsAreOfThisRun, IInv, Key
<1>9. QED
  BY <1>5, <1>6, <1>7, <1>8 DEF IInv

\* The next run starts with the ledger of the last one.
LEMMA RunAgainKeeps == IInv /\ RunAgain => IInv'
<1> SUFFICES ASSUME IInv, RunAgain
             PROVE  IInv'
  OBVIOUS
<1>1. TypeOK'
  <2>1. topic' \in Seq(Number) /\ records' \in Seq(Number)
        /\ decisions' \in Seq(BOOLEAN) /\ done' \in 0..Len(records')
    BY DEF RunAgain
  <2>2. \A d \in DOMAIN documents' : documents'[d] \in Number
    BY DEF RunAgain
  <2>3. expired' \in BOOLEAN /\ disturbed' \in BOOLEAN
    BY Zenon DEF RunAgain
  <2>4. brokerFaults' \in 0..MaxBrokerFaults /\ runs' \in 1..MaxRuns
    BY BoundsAssumption DEF RunAgain, IInv, TypeOK
  <2>5. /\ unsent' \subseteq Number /\ stage' \in Stage
        /\ UNCHANGED <<candidate, ledger>>
    BY DEF RunAgain, Stage
  <2>6. QED
    BY <2>1, <2>2, <2>3, <2>4, <2>5, Zenon DEF IInv, TypeOK
<1>2. DecisionsInTurn' /\ LedgerIsOfThisRun' /\ DecisionsAreOfThisRun'
  BY DEF RunAgain, DecisionsInTurn, LedgerIsOfThisRun, DecisionsAreOfThisRun,
     Before
<1>3. QED
  BY <1>1, <1>2 DEF IInv

\* Every step keeps the invariant.
LEMMA InvNext == IInv /\ [Next]_vars => IInv'
<1> SUFFICES ASSUME IInv, [Next]_vars
             PROVE  IInv'
  OBVIOUS
<1> USE DEF Turn, Stage, ServiceStage, Ended, Before
<1>1. CASE Probe
  BY <1>1, Required, TurnKeeps DEF Probe
<1>2. CASE PrepareServices
  BY <1>2, TurnKeeps DEF PrepareServices
<1>3. CASE BrokerAppends \/ BrokerMisbehaves
  <2>1. PICK i \in unsent : /\ Delivered(i, TRUE) \/ Delivered(i, FALSE)
                            /\ disturbed' \in {disturbed, TRUE}
                            /\ \/ brokerFaults' = brokerFaults
                               \/ /\ brokerFaults < MaxBrokerFaults
                                  /\ brokerFaults' = brokerFaults + 1
    BY <1>3, Zenon DEF BrokerAppends, BrokerMisbehaves
  <2>2. i \in Number
    BY DEF IInv, TypeOK
  <2>3. disturbed' \in BOOLEAN
    BY <2>1, Zenon DEF IInv, TypeOK
  <2>4. brokerFaults' \in 0..MaxBrokerFaults
    BY <2>1, BoundsAssumption DEF IInv, TypeOK
  <2>5. QED
    BY <2>1, <2>2, <2>3, <2>4, BrokerKeeps DEF Delivered
<1>4. CASE Published
  BY <1>4, TurnKeeps DEF Published
<1>5. CASE Poll
  BY <1>5, PollKeeps
<1>6. CASE Consumed
  <2>1. /\ stage = "consume" /\ Turn
        /\ \/ stage' = "reset" /\ Len(records) = Expected
           \/ stage' = "failed"
    BY <1>6 DEF Consumed, Require
  <2>2. QED
    BY <2>1, TurnKeeps
<1>7. CASE ResetLedger
  BY <1>7, ResetKeeps
<1>8. CASE RecordIdempotency
  BY <1>8, RecordKeeps
<1>9. CASE IndexEvent
  BY <1>9, IndexKeeps
<1>10. CASE VerifyLedger \/ CheckDecisions \/ VerifySearch
  BY <1>10, Required, TurnKeeps DEF VerifyLedger, CheckDecisions,
     VerifySearch
<1>11. CASE ServiceFails \/ Kill \/ DeadlinePasses
  <2>1. /\ UNCHANGED <<candidate, run, ledger, brokerFaults, runs>>
        /\ stage' \in {stage, "failed", "killed"}
        /\ disturbed' \in {disturbed, TRUE} /\ expired' \in {expired, TRUE}
    BY <1>11, Zenon DEF ServiceFails, Kill, DeadlinePasses, environment
  <2>2. QED
    BY <2>1, EndKeeps
<1>12. CASE RunAgain
  BY <1>12, RunAgainKeeps
<1>13. CASE UNCHANGED vars
  BY <1>13, EndKeeps, Zenon DEF vars, environment
<1>14. QED
  BY <1>1, <1>2, <1>3, <1>4, <1>5, <1>6, <1>7, <1>8, <1>9, <1>10, <1>11,
     <1>12, <1>13 DEF Next, Verifier

\* So it holds in every state.
THEOREM Invariance == Spec => []IInv
  BY InvInit, InvNext, PTL DEF Spec

\* Every store and counter has its shape; no key has two rows.
THEOREM TypeCorrect == Spec => []TypeOK
<1>1. IInv => TypeOK
  BY DEF IInv
<1>2. QED
  BY <1>1, Invariance, PTL

\* Whatever the broker repeats or reorders, and whatever rows a killed run
\* left behind, a decision depends on the records of its own run only.
THEOREM DecisionsAreFresh == Spec => []DecisionsAreOfThisRun
<1>1. IInv => DecisionsAreOfThisRun
  BY DEF IInv
<1>2. QED
  BY <1>1, Invariance, PTL

-----------------------------------------------------------------------------
(***************************************************************************)
(* A run that nothing disturbs.                                            *)
(***************************************************************************)
\* The stages that all four records have been read for.
Afterwards == {"reset", "record", "index", "ledger", "decisions", "search",
               "passed"}

\* The broker has the first events in order, the others are still to be sent,
\* and what was read is a beginning of that.
InOrderSoFar ==
    /\ stage # "failed"
    /\ Len(topic) <= Expected /\ \A i \in 1 .. Len(topic) : topic[i] = i
    /\ unsent = (Len(topic) + 1) .. Expected
    /\ Len(records) <= Expected /\ \A i \in 1 .. Len(records) : records[i] = i
    /\ stage \in {"consume"} \cup Afterwards => Len(topic) = Expected
    /\ stage \in Afterwards => Len(records) = Expected

\* The replay, the second event, is the only duplicate.
Rows(n) ==
    {[key |-> Key(i), event |-> i] : i \in {m \in 1 .. n : m # 2}}

\* The ledger and the decisions follow the events read.
OneDuplicateSoFar ==
    /\ stage \in {"record", "index", "ledger"} => ledger = Rows(Len(decisions))
    /\ \A m \in DOMAIN decisions : decisions[m] = (m # 2)
    /\ stage \in {"ledger", "decisions", "search"} =>
         done = Expected /\ Len(decisions) = Expected

\* The first record's document follows its events up to the new revision; the
\* other tenant's record has its own.
DocumentsSoFar ==
    /\ DOMAIN documents = {Document(m) : m \in 1 .. done}
    /\ \A m \in 1 .. done :
         documents[Document(m)] =
             IF m = 4 THEN 4 ELSE IF done < 3 THEN done ELSE 3

\* The inductive invariant of VetoHasACause.
Undisturbed ==
    LogicAccepts(candidate) /\ ~disturbed =>
        ~expired /\ InOrderSoFar /\ OneDuplicateSoFar /\ DocumentsSoFar

\* What the proofs use of a candidate that the controller's verifier accepts:
\* which of the four events share a key or a document.
LEMMA WhatIsAccepted ==
    ASSUME TypeOK, LogicAccepts(candidate)
    PROVE  /\ Key(1) = Key(2) /\ Key(1) # Key(3) /\ Key(1) # Key(4)
           /\ Key(3) # Key(4)
           /\ Document(1) = Document(2) /\ Document(1) = Document(3)
           /\ Document(1) # Document(4)
           /\ IdentitiesAccepted(candidate)
<1>1. candidate.event \in Code /\ candidate.document \in Code
  BY BoundsAssumption DEF TypeOK, Candidate
<1>2. Probed(candidate) /\ Discerning(candidate)
  BY <1>1, LogicAcceptsTheDiscerning
<1> DEFINE key == [i \in 1..4 |-> IntegrationKey(candidate, i)]
           doc == [i \in 1..4 |-> IntegrationDocument(candidate, i)]
<1>3. /\ key[1] = key[2] /\ key[1] # key[3] /\ key[1] # key[4]
      /\ key[3] # key[4]
      /\ doc[1] = doc[2] /\ doc[1] = doc[3] /\ doc[1] # doc[4]
  BY <1>1, <1>2, IntegrationIdentities
<1>4. /\ key[1] = Key(1) /\ key[2] = Key(2) /\ key[3] = Key(3)
      /\ key[4] = Key(4)
      /\ doc[1] = Document(1) /\ doc[2] = Document(2) /\ doc[3] = Document(3)
      /\ doc[4] = Document(4)
  BY DEF Key, Document
<1>5. IdentitiesAccepted(candidate)
  BY <1>1, <1>2, TheDiscerningAreProbed
<1> HIDE DEF key, doc
<1>6. QED
  BY <1>3, <1>4, <1>5

\* Moving on to a stage that asks for no more than is there.
LEMMA TurnIsClean ==
    ASSUME InOrderSoFar, OneDuplicateSoFar, DocumentsSoFar, Turn,
           stage' # "failed",
           stage' \in {"consume"} \cup Afterwards => Len(topic) = Expected,
           stage' \in Afterwards => Len(records) = Expected,
           stage' \in {"record", "index", "ledger"} => stage' = stage,
           stage' \in {"ledger", "decisions", "search"} =>
             done = Expected /\ Len(decisions) = Expected
    PROVE  InOrderSoFar' /\ OneDuplicateSoFar' /\ DocumentsSoFar'
<1>1. /\ UNCHANGED <<candidate, unsent, topic, records, done, decisions,
                     documents, ledger>>
  BY Zenon DEF Turn, run
<1>2. InOrderSoFar'
  BY <1>1 DEF InOrderSoFar
<1>3. OneDuplicateSoFar'
  BY <1>1 DEF OneDuplicateSoFar, Rows, Key
<1>4. DocumentsSoFar'
  BY <1>1 DEF DocumentsSoFar, Document
<1>5. QED
  BY <1>2, <1>3, <1>4

\* The broker appends the first of the events it has not got.
LEMMA AppendIsClean ==
    ASSUME IInv, InOrderSoFar, OneDuplicateSoFar, DocumentsSoFar,
           BrokerAppends
    PROVE  InOrderSoFar' /\ OneDuplicateSoFar' /\ DocumentsSoFar'
<1>1. PICK i \in unsent : InOrder(i) /\ Delivered(i, TRUE)
  BY DEF BrokerAppends
<1>2. /\ stage = "publish" /\ stage' = stage /\ topic' = Append(topic, i)
      /\ unsent' = unsent \ {i}
      /\ UNCHANGED <<candidate, records, done, decisions, documents, ledger>>
  BY <1>1, Zenon DEF Delivered
<1>3. topic \in Seq(Number) /\ Len(topic) \in Nat
  BY DEF IInv, TypeOK
<1>4. i = Len(topic) + 1 /\ i \in 1..4
  <2>1. unsent = (Len(topic) + 1) .. 4
    BY DEF InOrderSoFar, Expected
  <2>2. Len(topic) + 1 \in unsent
    BY <1>1, <1>3, <2>1
  <2>3. i <= Len(topic) + 1
    BY <1>1, <2>2 DEF InOrder
  <2>4. QED
    BY <1>3, <2>1, <2>3
<1>5. /\ Len(topic') = Len(topic) + 1 /\ topic'[Len(topic) + 1] = i
      /\ \A j \in 1 .. Len(topic) : topic'[j] = topic[j]
  BY <1>2, <1>3, <1>4, AppendProperties DEF Number, Expected
<1>6. InOrderSoFar'
  <2>1. /\ Len(topic') <= Expected
        /\ unsent' = (Len(topic') + 1) .. Expected
    BY <1>2, <1>3, <1>4, <1>5 DEF InOrderSoFar, Expected
  <2>2. \A j \in 1 .. Len(topic') : topic'[j] = j
    BY <1>3, <1>4, <1>5 DEF InOrderSoFar
  <2>3. QED
    BY <1>2, <2>1, <2>2 DEF InOrderSoFar, Afterwards
<1>7. OneDuplicateSoFar'
  BY <1>2 DEF OneDuplicateSoFar, Rows, Key
<1>8. DocumentsSoFar'
  BY <1>2 DEF DocumentsSoFar, Document
<1>9. QED
  BY <1>6, <1>7, <1>8

\* What a reading returns is a beginning of the topic.
LEMMA PollIsClean ==
    ASSUME IInv, InOrderSoFar, OneDuplicateSoFar, DocumentsSoFar, Poll
    PROVE  InOrderSoFar' /\ OneDuplicateSoFar' /\ DocumentsSoFar'
<1>1. /\ stage = "consume" /\ stage' = stage
      /\ UNCHANGED <<candidate, unsent, topic, done, decisions, documents,
                     ledger>>
  BY Zenon DEF Poll
<1>2. PICK n \in Len(records) .. Len(topic) : records' = SubSeq(topic, 1, n)
  BY DEF Poll
<1>3. /\ topic \in Seq(Number) /\ Len(topic) \in Nat /\ Len(records) \in Nat
      /\ Len(topic) = 4
  BY <1>1 DEF IInv, TypeOK, InOrderSoFar, Expected
<1>4. n \in 0 .. Len(topic)
  BY <1>2, <1>3
<1>5. Len(records') = n /\ \A i \in 1 .. n : records'[i] = topic[i]
  BY <1>2, <1>3, <1>4
<1>6. InOrderSoFar'
  BY <1>1, <1>3, <1>4, <1>5 DEF InOrderSoFar, Expected, Afterwards
<1>7. OneDuplicateSoFar'
  BY <1>1 DEF OneDuplicateSoFar, Rows, Key
<1>8. DocumentsSoFar'
  BY <1>1 DEF DocumentsSoFar, Document
<1>9. QED
  BY <1>6, <1>7, <1>8

\* The ledger starts empty, whatever an earlier run left in it.
LEMMA ResetIsClean ==
    ASSUME IInv, InOrderSoFar, OneDuplicateSoFar, DocumentsSoFar, ResetLedger
    PROVE  InOrderSoFar' /\ OneDuplicateSoFar' /\ DocumentsSoFar'
<1>1. /\ stage = "reset" /\ stage' = "record" /\ ledger' = {}
      /\ UNCHANGED <<candidate, unsent, topic, records, done, decisions,
                     documents>>
  BY Zenon DEF ResetLedger, run
<1>2. decisions = <<>>
  BY <1>1 DEF IInv, DecisionsInTurn, Before
<1>3. InOrderSoFar'
  BY <1>1 DEF InOrderSoFar, Afterwards
<1>4. OneDuplicateSoFar'
  <2>1. Len(decisions') = 0 /\ decisions' = decisions
    BY <1>1, <1>2
  <2>2. Rows(0)' = {}
    BY DEF Rows
  <2>3. QED
    BY <1>1, <2>1, <2>2 DEF OneDuplicateSoFar
<1>5. DocumentsSoFar'
  BY <1>1 DEF DocumentsSoFar, Document
<1>6. QED
  BY <1>3, <1>4, <1>5

\* The second event finds its key, every other one brings a new one.
LEMMA RecordIsClean ==
    ASSUME IInv, InOrderSoFar, OneDuplicateSoFar, DocumentsSoFar,
           LogicAccepts(candidate), RecordIdempotency
    PROVE  InOrderSoFar' /\ OneDuplicateSoFar' /\ DocumentsSoFar'
<1> DEFINE n == done + 1
           i == records[n]
           new == \A row \in ledger : row.key # Key(i)
<1>1. /\ stage = "record" /\ stage' = "index"
      /\ decisions' = Append(decisions, new)
      /\ ledger' = IF new THEN ledger \cup {[key |-> Key(i), event |-> i]}
                   ELSE ledger
      /\ UNCHANGED <<candidate, unsent, topic, records, done, documents>>
  BY Zenon DEF RecordIdempotency
<1>2. /\ decisions \in Seq(BOOLEAN) /\ Len(decisions) = done /\ done \in Nat
      /\ n \in 1..4 /\ Len(records) = 4 /\ new \in BOOLEAN
  BY <1>1 DEF IInv, TypeOK, DecisionsInTurn, InOrderSoFar, Expected,
     Afterwards
<1>3. i = n
  BY <1>2 DEF InOrderSoFar
<1>4. ledger = Rows(done)
  BY <1>1, <1>2 DEF OneDuplicateSoFar
<1> DEFINE fresh == \A row \in ledger : row.key # Key(n)
<1>5. new <=> fresh
  BY <1>3
<1>6. /\ decisions' = Append(decisions, new)
      /\ new => ledger' = ledger \cup {[key |-> Key(n), event |-> n]}
      /\ ~new => ledger' = ledger
  <2>1. ledger' = IF new THEN ledger \cup {[key |-> Key(n), event |-> n]}
                  ELSE ledger
    BY <1>1, <1>3
  <2> HIDE DEF new
  <2>2. QED
    BY <1>1, <2>1, Zenon
<1>7. fresh <=> \A m \in 1 .. done : m # 2 => Key(m) # Key(n)
  <2>1. \A row : row \in ledger <=>
          \E m \in 1 .. done : m # 2 /\ row = [key |-> Key(m), event |-> m]
    BY <1>4 DEF Rows
  <2>2. ASSUME fresh, NEW m \in 1 .. done, m # 2
        PROVE  Key(m) # Key(n)
    <3> DEFINE row == [key |-> Key(m), event |-> m]
    <3>1. row \in ledger /\ row.key = Key(m)
      BY <2>1, <2>2
    <3> HIDE DEF row
    <3>2. QED
      BY <2>2, <3>1
  <2>3. ASSUME \A m \in 1 .. done : m # 2 => Key(m) # Key(n),
               NEW row \in ledger
        PROVE  row.key # Key(n)
    <3>1. PICK m \in 1 .. done : m # 2 /\ row = [key |-> Key(m), event |-> m]
      BY <2>1, Zenon
    <3>2. row.key = Key(m)
      BY <3>1
    <3>3. QED
      BY <2>3, <3>1, <3>2
  <2>4. QED
    BY <2>2, <2>3, Zenon
<1> HIDE DEF new, fresh, i
<1>8. fresh <=> n # 2
  <2>1. /\ Key(1) = Key(2) /\ Key(1) # Key(3) /\ Key(1) # Key(4)
        /\ Key(3) # Key(4)
    BY WhatIsAccepted DEF IInv
  <2>2. n = 1 \/ n = 2 \/ n = 3 \/ n = 4
    BY <1>2
  <2>3. CASE n = 1
    <3>1. \A m : m \notin 1 .. done
      BY <1>2, <2>3
    <3>2. QED
      BY <1>7, <2>3, <3>1
  <2>4. CASE n = 2
    <3>1. 1 \in 1 .. done
      BY <1>2, <2>4
    <3>2. QED
      BY <1>7, <2>1, <2>4, <3>1
  <2>5. CASE n = 3
    <3>1. \A m \in 1 .. done : m = 1 \/ m = 2
      BY <1>2, <2>5
    <3>2. QED
      BY <1>7, <2>1, <2>5, <3>1
  <2>6. CASE n = 4
    <3>1. \A m \in 1 .. done : m = 1 \/ m = 2 \/ m = 3
      BY <1>2, <2>6
    <3>2. QED
      BY <1>7, <2>1, <2>6, <3>1
  <2>7. QED
    BY <2>2, <2>3, <2>4, <2>5, <2>6
<1>9. /\ Len(decisions') = n /\ DOMAIN decisions' = 1 .. n
      /\ decisions'[n] = new
      /\ \A m \in 1 .. done : decisions'[m] = decisions[m]
  BY <1>2, <1>6, AppendProperties
<1>10. \A m \in 1 .. n : decisions'[m] = (m # 2)
  <2>1. \A m \in 1 .. done : decisions[m] = (m # 2)
    <3>1. DOMAIN decisions = 1 .. done
      BY <1>2
    <3>2. QED
      BY <3>1, Zenon DEF OneDuplicateSoFar
  <2>2. \A m \in 1 .. n : m \in 1 .. done \/ m = n
    BY <1>2
  <2>3. decisions'[n] = (n # 2)
    <3>1. new <=> n # 2
      BY <1>5, <1>8, Zenon
    <3>2. new = (n # 2)
      BY <1>2, <3>1, Zenon
    <3>3. QED
      BY <1>9, <3>2, Zenon
  <2> HIDE DEF n
  <2>4. QED
    BY <1>9, <2>1, <2>2, <2>3, Zenon
<1>11. ledger' = Rows(n)
  <2>1. \A m : m \in 1 .. n <=> m \in 1 .. done \/ m = n
    BY <1>2
  <2>2. CASE n # 2
    <3>1. ledger' = Rows(done) \cup {[key |-> Key(n), event |-> n]}
      BY <1>4, <1>5, <1>6, <1>8, <2>2, Zenon
    <3> HIDE DEF n
    <3>2. QED
      BY <2>1, <2>2, <3>1 DEF Rows
  <2>3. CASE n = 2
    <3>1. ledger' = Rows(done)
      BY <1>4, <1>5, <1>6, <1>8, <2>3, Zenon
    <3>2. {m \in 1 .. done : m # 2} = {m \in 1 .. n : m # 2}
      BY <2>1, <2>3
    <3>3. QED
      BY <3>1, <3>2, Zenon DEF Rows
  <2>4. QED
    BY <2>2, <2>3
<1>12. InOrderSoFar'
  BY <1>1 DEF InOrderSoFar, Afterwards
<1>13. OneDuplicateSoFar'
  <2>1. ledger' = Rows(Len(decisions))'
    <3>1. candidate' = candidate
      BY <1>1
    <3>2. QED
      BY <1>9, <1>11, <3>1 DEF Rows, Key
  <2>2. \A m \in DOMAIN decisions' : decisions'[m] = (m # 2)
    BY <1>9, <1>10, Zenon
  <2>3. QED
    BY <1>1, <2>1, <2>2, Zenon DEF OneDuplicateSoFar
<1>14. DocumentsSoFar'
  BY <1>1 DEF DocumentsSoFar, Document
<1>15. QED
  BY <1>12, <1>13, <1>14

\* The document of the first record is written three times, of the replay too;
\* the other tenant's is another one.
LEMMA IndexIsClean ==
    ASSUME IInv, InOrderSoFar, OneDuplicateSoFar, DocumentsSoFar,
           LogicAccepts(candidate), IndexEvent
    PROVE  InOrderSoFar' /\ OneDuplicateSoFar' /\ DocumentsSoFar'
<1> DEFINE n == done + 1
<1>1. /\ stage = "index" /\ done' = n
      /\ stage' = IF n < Len(records) THEN "record" ELSE "ledger"
      /\ documents' = Store(documents, Document(records[n]), records[n])
      /\ UNCHANGED <<candidate, unsent, topic, records, decisions, ledger>>
  BY Zenon DEF IndexEvent
<1>2. /\ done \in Nat /\ n \in 1..4 /\ Len(records) = 4 /\ records[n] = n
      /\ Len(decisions) = n
  BY <1>1 DEF IInv, TypeOK, DecisionsInTurn, InOrderSoFar, Expected,
     Afterwards
<1>3. /\ Document(1) = Document(2) /\ Document(1) = Document(3)
      /\ Document(1) # Document(4)
  BY WhatIsAccepted DEF IInv
<1>4. stage' \in {"record", "ledger"} /\ (stage' = "ledger" => n = 4)
  BY <1>1, <1>2
<1>5. InOrderSoFar'
  BY <1>1, <1>4 DEF InOrderSoFar, Afterwards
<1>6. OneDuplicateSoFar'
  <2>1. Rows(Len(decisions))' = Rows(Len(decisions))
    BY <1>1 DEF Rows, Key
  <2>2. QED
    BY <1>1, <1>2, <1>4, <2>1 DEF OneDuplicateSoFar, Expected
<1>7. DocumentsSoFar'
  <2>1. /\ DOMAIN documents' = DOMAIN documents \cup {Document(n)}
        /\ documents'[Document(n)] = n
        /\ \A d \in DOMAIN documents :
             d # Document(n) => documents'[d] = documents[d]
    <3>1. documents' = Store(documents, Document(n), n)
      BY <1>1, <1>2
    <3>2. QED
      BY <3>1 DEF Store
  <2>2. \A m : m \in 1 .. n <=> m \in 1 .. done \/ m = n
    BY <1>2
  <2>3. DOMAIN documents' = {Document(m) : m \in 1 .. n}
    BY <2>1, <2>2 DEF DocumentsSoFar
  <2>4. ASSUME NEW m \in 1 .. n
        PROVE  documents'[Document(m)] =
                   IF m = 4 THEN 4 ELSE IF n < 3 THEN n ELSE 3
    <3>1. m \in 1..4 /\ m <= n
      BY <1>2
    <3>2. CASE n < 4
      <4>1. Document(m) = Document(n)
        BY <1>2, <1>3, <3>1, <3>2
      <4>2. QED
        BY <1>2, <2>1, <3>1, <3>2, <4>1
    <3>3. CASE n = 4 /\ m = 4
      BY <2>1, <3>3
    <3>4. CASE n = 4 /\ m # 4
      <4>1. Document(m) # Document(4)
        BY <1>3, <3>1, <3>4
      <4>2. m \in 1 .. done /\ done = 3
        BY <1>2, <3>1, <3>4
      <4>3. /\ Document(m) \in DOMAIN documents
            /\ documents[Document(m)] = 3
        BY <3>4, <4>2 DEF DocumentsSoFar
      <4>4. QED
        BY <2>1, <3>4, <4>1, <4>3
    <3>5. QED
      BY <1>2, <3>2, <3>3, <3>4
  <2>5. \A m : Document(m)' = Document(m)
    BY <1>1 DEF Document
  <2>6. QED
    BY <1>1, <2>3, <2>4, <2>5 DEF DocumentsSoFar
<1>8. QED
  BY <1>5, <1>6, <1>7

\* The three comparisons find what the candidate should leave: of the ledger,
LEMMA LedgerIsRight ==
    ASSUME IInv, OneDuplicateSoFar, LogicAccepts(candidate), stage = "ledger"
    PROVE  /\ Cardinality(ledger) = 3
           /\ {EventOf(row.event) : row \in ledger}
                = {EventOf(i) : i \in Number}
<1> DEFINE row(i) == [key |-> Key(i), event |-> i]
<1>1. ledger = {row(1), row(3), row(4)}
  <2>1. ledger = {row(i) : i \in {m \in 1 .. 4 : m # 2}}
    BY DEF OneDuplicateSoFar, Rows, Expected
  <2>2. {m \in 1 .. 4 : m # 2} = {1, 3, 4}
    OBVIOUS
  <2> HIDE DEF row
  <2>3. QED
    BY <2>1, <2>2
<1>2. /\ row(1).event = 1 /\ row(3).event = 3 /\ row(4).event = 4
  OBVIOUS
<1> HIDE DEF row
<1>3. Counts({row(1), row(3), row(4)}, 3)
  <2>1. row(1) # row(3) /\ row(1) # row(4) /\ row(3) # row(4)
    BY <1>2
  <2>2. QED
    BY <2>1, SmallSets
<1>4. {EventOf(r.event) : r \in ledger} = {EventOf(1), EventOf(3), EventOf(4)}
  BY <1>1, <1>2
<1>5. {EventOf(i) : i \in Number} = {EventOf(1), EventOf(3), EventOf(4)}
  <2>1. EventOf(2) = EventOf(1)
    BY DEF EventOf, IntegrationEvents
  <2>2. \A i : i \in Number <=> i = 1 \/ i = 2 \/ i = 3 \/ i = 4
    BY DEF Number, Expected
  <2>3. QED
    BY <2>1, <2>2
<1>6. QED
  BY <1>1, <1>3, <1>4, <1>5 DEF Counts

\* ... of the decisions, ...
LEMMA DecisionsAreRight ==
    ASSUME IInv, OneDuplicateSoFar, stage = "decisions"
    PROVE  decisions = <<TRUE, FALSE, TRUE, TRUE>>
<1>1. decisions \in Seq(BOOLEAN) /\ Len(decisions) = 4
  BY DEF IInv, TypeOK, OneDuplicateSoFar, Expected
<1>2. DOMAIN decisions = 1 .. 4
  BY <1>1
<1>3. \A m \in 1 .. 4 : decisions[m] = (m # 2)
  BY <1>2, Zenon DEF OneDuplicateSoFar
<1> DEFINE right == <<TRUE, FALSE, TRUE, TRUE>>
<1>4. right \in Seq(BOOLEAN) /\ Len(right) = 4
  OBVIOUS
<1>5. right[1] = TRUE /\ right[2] = FALSE /\ right[3] = TRUE /\ right[4] = TRUE
  OBVIOUS
<1> HIDE DEF right
<1>6. \A m \in 1 .. 4 : m = 1 \/ m = 2 \/ m = 3 \/ m = 4
  OBVIOUS
<1>7. 1 # 2 /\ 3 # 2 /\ 4 # 2
  OBVIOUS
<1>8. \A m \in 1 .. 4 : decisions[m] = right[m]
  BY <1>3, <1>5, <1>6, <1>7, Zenon
<1>9. decisions = right
  BY <1>1, <1>4, <1>8, SeqEqual
<1>10. QED
  BY <1>9 DEF right

\* ... and of the documents.
LEMMA SearchIsRight ==
    ASSUME IInv, OneDuplicateSoFar, DocumentsSoFar, LogicAccepts(candidate),
           stage = "search"
    PROVE  /\ Cardinality(DOMAIN documents) = 2
           /\ {EventOf(documents[d]) : d \in DOMAIN documents}
                = {EventOf(3), EventOf(4)}
<1>1. done = 4
  BY DEF OneDuplicateSoFar, Expected
<1>2. /\ Document(1) = Document(2) /\ Document(1) = Document(3)
      /\ Document(1) # Document(4)
  BY WhatIsAccepted DEF IInv
<1>3. DOMAIN documents = {Document(1), Document(4)}
  <2>1. \A m : m \in 1 .. done <=> m = 1 \/ m = 2 \/ m = 3 \/ m = 4
    BY <1>1
  <2>2. QED
    BY <1>2, <2>1 DEF DocumentsSoFar
<1>4. documents[Document(1)] = 3 /\ documents[Document(4)] = 4
  BY <1>1 DEF DocumentsSoFar
<1>5. Counts({Document(1), Document(4)}, 2)
  BY <1>2, SmallSets
<1>6. QED
  BY <1>3, <1>4, <1>5 DEF Counts

\* The first run starts clean.
LEMMA UndisturbedInit == Init => Undisturbed
<1> SUFFICES ASSUME Init
             PROVE  Undisturbed
  OBVIOUS
<1>1. ~expired
  BY Zenon DEF Init
<1>2. /\ stage = "probe" /\ unsent = 1..4 /\ topic = <<>> /\ records = <<>>
      /\ done = 0 /\ decisions = <<>> /\ DOMAIN documents = {}
  BY DEF Init, Number, Expected
<1>3. InOrderSoFar
  BY <1>2 DEF InOrderSoFar, Afterwards, Expected
<1>4. OneDuplicateSoFar
  BY <1>2 DEF OneDuplicateSoFar
<1>5. DocumentsSoFar
  BY <1>2 DEF DocumentsSoFar
<1>6. QED
  BY <1>1, <1>3, <1>4, <1>5, Zenon DEF Undisturbed

\* Every new run starts clean.
LEMMA RunAgainIsClean ==
    ASSUME RunAgain
    PROVE  Undisturbed'
<1>1. ~expired'
  BY Zenon DEF RunAgain
<1>2. /\ stage' = "probe" /\ unsent' = 1..4 /\ topic' = <<>>
      /\ records' = <<>> /\ done' = 0 /\ decisions' = <<>>
      /\ DOMAIN documents' = {}
  BY DEF RunAgain, Number, Expected
<1>3. InOrderSoFar'
  BY <1>2 DEF InOrderSoFar, Afterwards, Expected
<1>4. OneDuplicateSoFar'
  BY <1>2 DEF OneDuplicateSoFar
<1>5. DocumentsSoFar'
  BY <1>2 DEF DocumentsSoFar
<1>6. QED
  BY <1>1, <1>3, <1>4, <1>5, Zenon DEF Undisturbed

\* Nothing left to send: all four are sent.
LEMMA AllSent ==
    ASSUME NEW k \in Nat, k <= 4, (k + 1) .. 4 = {}
    PROVE  k = 4
<1>1. SUFFICES ASSUME k # 4
               PROVE  FALSE
  OBVIOUS
<1>2. 4 \in (k + 1) .. 4
  BY <1>1
<1>3. QED
  BY <1>2

\* The steps of the verifier itself.
LEMMA VerifierIsClean ==
    ASSUME IInv, Verifier, LogicAccepts(candidate), ~expired, InOrderSoFar,
           OneDuplicateSoFar, DocumentsSoFar
    PROVE  InOrderSoFar' /\ OneDuplicateSoFar' /\ DocumentsSoFar'
<1> DEFINE Goal == InOrderSoFar' /\ OneDuplicateSoFar' /\ DocumentsSoFar'
<1> SUFFICES Goal
  OBVIOUS
<1> HIDE DEF Goal
<1>1. CASE Probe
  <2>1. IdentitiesAccepted(candidate)
    BY WhatIsAccepted DEF IInv
  <2>2. Turn /\ stage' = "evidence"
    BY <1>1, <2>1, Zenon DEF Probe, Require, Turn
  <2>3. QED
    BY <2>2, TurnIsClean DEF Goal, Afterwards
<1>2. CASE PrepareServices
  BY <1>2, TurnIsClean DEF Goal, Afterwards, PrepareServices, Turn
<1>3. CASE BrokerAppends
  BY <1>3, AppendIsClean DEF Goal
<1>4. CASE Published
  <2>1. Turn /\ stage' = "consume" /\ unsent = {}
    BY <1>4, Zenon DEF Published, Turn
  <2>2. Len(topic) = 4
    <3>1. Len(topic) \in Nat
      BY DEF IInv, TypeOK
    <3>2. Len(topic) <= 4 /\ (Len(topic) + 1) .. 4 = {}
      BY <2>1 DEF InOrderSoFar, Expected
    <3>3. QED
      BY <3>1, <3>2, AllSent
  <2>3. QED
    BY <2>1, <2>2, TurnIsClean DEF Goal, Afterwards, Expected
<1>5. CASE Poll
  BY <1>5, PollIsClean DEF Goal
<1>6. CASE Consumed
  <2>1. Turn /\ stage = "consume" /\ Len(records) >= 4
    BY <1>6, Zenon DEF Consumed, Turn, Expected
  <2>2. Len(records) = 4 /\ Len(topic) = 4
    <3>1. Len(records) \in Nat /\ Len(records) <= 4
      BY DEF IInv, TypeOK, InOrderSoFar, Expected
    <3>2. QED
      BY <2>1, <3>1 DEF InOrderSoFar, Expected
  <2>3. stage' = "reset"
    BY <1>6, <2>2 DEF Consumed, Require, Expected
  <2>4. QED
    BY <2>1, <2>2, <2>3, TurnIsClean DEF Goal, Afterwards, Expected
<1>7. CASE ResetLedger
  BY <1>7, ResetIsClean DEF Goal
<1>8. CASE RecordIdempotency
  BY <1>8, RecordIsClean DEF Goal
<1>9. CASE IndexEvent
  BY <1>9, IndexIsClean DEF Goal
<1>10. CASE VerifyLedger
  <2>1. Turn /\ stage = "ledger"
    BY <1>10, Zenon DEF VerifyLedger, Turn
  <2>2. stage' = "decisions"
    BY <1>10, <2>1, LedgerIsRight DEF VerifyLedger, Require
  <2>3. QED
    BY <2>1, <2>2, TurnIsClean DEF Goal, Afterwards, InOrderSoFar,
       OneDuplicateSoFar
<1>11. CASE CheckDecisions
  <2>1. Turn /\ stage = "decisions"
    BY <1>11, Zenon DEF CheckDecisions, Turn
  <2>2. stage' = "search"
    BY <1>11, <2>1, DecisionsAreRight, Zenon DEF CheckDecisions, Require
  <2>3. QED
    BY <2>1, <2>2, TurnIsClean DEF Goal, Afterwards, InOrderSoFar,
       OneDuplicateSoFar
<1>12. CASE VerifySearch
  <2>1. Turn /\ stage = "search"
    BY <1>12, Zenon DEF VerifySearch, Turn
  <2>2. stage' = "passed"
    BY <1>12, <2>1, SearchIsRight DEF VerifySearch, Require
  <2>3. QED
    BY <2>1, <2>2, TurnIsClean DEF Goal, Afterwards, InOrderSoFar
<1>13. QED
  BY <1>1, <1>2, <1>3, <1>4, <1>5, <1>6, <1>7, <1>8, <1>9, <1>10, <1>11,
     <1>12 DEF Verifier

\* A step that disturbs says so; every other one keeps a clean run clean.
LEMMA UndisturbedNext == IInv /\ Undisturbed /\ [Next]_vars => Undisturbed'
<1> SUFFICES ASSUME IInv, Undisturbed, [Next]_vars
             PROVE  Undisturbed'
  OBVIOUS
<1> DEFINE Clean == InOrderSoFar /\ OneDuplicateSoFar /\ DocumentsSoFar
<1>1. CASE Verifier
  <2>1. UNCHANGED <<candidate, expired, disturbed>>
    <3>1. CASE Probe
      BY <3>1, Zenon DEF Probe, environment
    <3>2. CASE PrepareServices
      BY <3>2, Zenon DEF PrepareServices, environment
    <3>3. CASE BrokerAppends
      BY <3>3, Zenon DEF BrokerAppends, Delivered
    <3>4. CASE Published
      BY <3>4, Zenon DEF Published, environment
    <3>5. CASE Poll
      BY <3>5, Zenon DEF Poll, environment
    <3>6. CASE Consumed
      BY <3>6, Zenon DEF Consumed, environment
    <3>7. CASE ResetLedger
      BY <3>7, Zenon DEF ResetLedger, environment
    <3>8. CASE RecordIdempotency
      BY <3>8, Zenon DEF RecordIdempotency, environment
    <3>9. CASE IndexEvent
      BY <3>9, Zenon DEF IndexEvent, environment
    <3>10. CASE VerifyLedger
      BY <3>10, Zenon DEF VerifyLedger, environment
    <3>11. CASE CheckDecisions
      BY <3>11, Zenon DEF CheckDecisions, environment
    <3>12. CASE VerifySearch
      BY <3>12, Zenon DEF VerifySearch, environment
    <3>13. QED
      BY <1>1, <3>1, <3>2, <3>3, <3>4, <3>5, <3>6, <3>7, <3>8, <3>9, <3>10,
         <3>11, <3>12, Zenon DEF Verifier
  <2> SUFFICES ASSUME LogicAccepts(candidate), ~disturbed
               PROVE  ~expired' /\ Clean'
    BY <2>1, Zenon DEF Undisturbed
  <2>2. ~expired /\ InOrderSoFar /\ OneDuplicateSoFar /\ DocumentsSoFar
    BY Zenon DEF Undisturbed
  <2>3. Clean'
    BY <1>1, <2>2, VerifierIsClean, Zenon
  <2>4. QED
    BY <2>1, <2>2, <2>3, Zenon
<1>2. CASE BrokerMisbehaves \/ ServiceFails \/ DeadlinePasses
  BY <1>2, Zenon
     DEF BrokerMisbehaves, ServiceFails, DeadlinePasses, Undisturbed
<1>3. CASE Kill \/ UNCHANGED vars
  <2>1. UNCHANGED <<candidate, run, ledger, environment>>
    BY <1>3, Zenon DEF Kill, vars
  <2>2. UNCHANGED <<candidate, expired, disturbed>> /\ Turn
    BY <2>1, Zenon DEF environment, Turn
  <2> SUFFICES ASSUME LogicAccepts(candidate), ~disturbed
               PROVE  ~expired' /\ Clean'
    BY <2>2, Zenon DEF Undisturbed
  <2>3. ~expired /\ InOrderSoFar /\ OneDuplicateSoFar /\ DocumentsSoFar
    BY Zenon DEF Undisturbed
  <2>4. CASE Kill
    <3>1. stage' = "killed"
      BY <2>4, Zenon DEF Kill
    <3>2. Clean'
      BY <2>2, <2>3, <3>1, TurnIsClean DEF Afterwards
    <3>3. QED
      BY <2>2, <2>3, <3>2, Zenon
  <2>5. CASE UNCHANGED vars
    <3>1. stage' = stage
      BY <2>5, Zenon DEF vars
    <3>2. Clean'
      BY <2>2, <2>3, <3>1, TurnIsClean DEF InOrderSoFar, OneDuplicateSoFar
    <3>3. QED
      BY <2>2, <2>3, <3>2, Zenon
  <2>6. QED
    BY <1>3, <2>4, <2>5
<1>4. CASE RunAgain
  BY <1>4, RunAgainIsClean
<1>5. QED
  BY <1>1, <1>2, <1>3, <1>4, Zenon DEF Next

\* The service run vetoes no candidate that the controller's verifier accepts,
\* whatever its identities join and in whatever order: if such a run fails, a
\* service, the broker or the deadline got in its way.
THEOREM VetoesHaveACause == Spec => []VetoHasACause
<1>1. Init => IInv /\ Undisturbed
  BY InvInit, UndisturbedInit
<1>2. IInv /\ Undisturbed /\ [Next]_vars => (IInv /\ Undisturbed)'
  BY InvNext, UndisturbedNext, Zenon
<1>3. Undisturbed => VetoHasACause
  BY Zenon DEF Undisturbed, InOrderSoFar, VetoHasACause
<1>4. QED
  BY <1>1, <1>2, <1>3, PTL DEF Spec

-----------------------------------------------------------------------------
(***************************************************************************)
(* What is said of every candidate, in the first state of its run.         *)
(***************************************************************************)

\* The five fields are all there is to an event.
LEMMA SameFieldsSameEvent ==
    ASSUME NEW tenants, NEW providers, NEW ids,
           NEW e \in EventsOf(tenants, providers, ids),
           NEW f \in EventsOf(tenants, providers, ids),
           \A x \in Field : e[x] = f[x]
    PROVE  e = f
<1>1. /\ e["event_type"] = f["event_type"] /\ e["tenant_id"] = f["tenant_id"]
      /\ e["provider"] = f["provider"] /\ e["revision"] = f["revision"]
      /\ e["external_record_id"] = f["external_record_id"]
  BY DEF Field
<1>2. QED
  BY <1>1 DEF EventsOf

\* The tokens of the events judged here; "ORG-A" is not among the plain ones.
PlainToken == {"ready", "redacted", "org-a", "org-b", "source-a", "source-b",
               "7", "8", "r", "s"}
AnyToken == PlainToken \cup {"ORG-A", "x"}

\* Every code of an identity can read the plain events.
LEMMA PlainIsLegible ==
    ASSUME NEW e \in PlainEvents({<<"r">>, <<"s">>}), NEW code
    PROVE  Legible(PlainToken, code, e)
<1>1. /\ e["event_type"] \in {<<"ready">>, <<"redacted">>}
      /\ e["tenant_id"] \in {<<"org-a">>, <<"org-b">>}
      /\ e["provider"] \in {<<"source-a">>, <<"source-b">>}
      /\ e["revision"] \in {<<"7">>, <<"8">>}
      /\ e["external_record_id"] \in {<<"r">>, <<"s">>}
  BY DEF PlainEvents, EventsOf
<1>2. ":" \notin PlainToken /\ "ORG-A" \notin PlainToken
  BY DEF PlainToken
<1> DEFINE One(v) == \E w \in PlainToken : v = <<w>>
<1>3. /\ One(<<"ready">>) /\ One(<<"redacted">>) /\ One(<<"org-a">>)
      /\ One(<<"org-b">>) /\ One(<<"source-a">>) /\ One(<<"source-b">>)
      /\ One(<<"7">>) /\ One(<<"8">>) /\ One(<<"r">>) /\ One(<<"s">>)
  BY DEF PlainToken
<1> HIDE DEF One
<1>4. /\ One(e["event_type"]) /\ One(e["tenant_id"]) /\ One(e["provider"])
      /\ One(e["revision"]) /\ One(e["external_record_id"])
  BY <1>1, <1>3
<1>5. \A x \in Field : One(e[x])
  BY <1>4, Zenon DEF Field
<1> QED BY <1>2, <1>5, Zenon DEF One, Legible

\* Those that join whole fields with ":" can read the awkward ones too.
LEMMA AwkwardIsLegible ==
    ASSUME NEW e \in AwkwardEvents({<<"r">>, <<"s">>}),
           NEW code, Joins(code)
    PROVE  Legible(AnyToken, code, e)
<1>1. /\ e["event_type"] \in {<<"ready">>, <<"redacted">>}
      /\ e["tenant_id"] \in {<<"org-a">>, <<"ORG-A">>, <<"org-a", "x">>}
      /\ e["provider"] \in {<<"source-a">>, <<"x", "source-a">>}
      /\ e["revision"] \in {<<"7">>, <<"8">>}
      /\ e["external_record_id"] \in {<<"r">>, <<"s">>}
  BY DEF AwkwardEvents, EventsOf
<1>2. ":" \notin AnyToken
  BY DEF AnyToken, PlainToken
<1>3. /\ {<<"ready">>, <<"redacted">>} \subseteq Seq(AnyToken)
      /\ {<<"org-a">>, <<"ORG-A">>, <<"org-a", "x">>} \subseteq Seq(AnyToken)
      /\ {<<"source-a">>, <<"x", "source-a">>} \subseteq Seq(AnyToken)
      /\ {<<"7">>, <<"8">>} \subseteq Seq(AnyToken)
      /\ {<<"r">>, <<"s">>} \subseteq Seq(AnyToken)
  BY DEF AnyToken, PlainToken
<1>4. /\ e["event_type"] \in Seq(AnyToken) /\ e["tenant_id"] \in Seq(AnyToken)
      /\ e["provider"] \in Seq(AnyToken) /\ e["revision"] \in Seq(AnyToken)
      /\ e["external_record_id"] \in Seq(AnyToken)
  BY <1>1, <1>3
<1>5. \A x \in Field : e[x] \in Seq(AnyToken)
  BY <1>4, Zenon DEF Field
<1> QED BY <1>2, <1>5, Zenon DEF Legible

\* What both proofs about one record need of its events.
LEMMA RightOnARecord ==
    ASSUME TypeOK, LogicAccepts(candidate), NEW Token,
           NEW tenants, NEW providers,
           NEW events, events = EventsOf(tenants, providers, {<<"r">>}),
           \A e \in events : /\ Legible(Token, candidate.event, e)
                             /\ Legible(Token, candidate.document, e)
    PROVE  Right(events)
<1> SUFFICES ASSUME NEW e \in events, NEW f \in events
             PROVE  /\ Identity(candidate.event, e)
                         = Identity(candidate.event, f) => e = f
                    /\ Identity(candidate.document, e)
                         = Identity(candidate.document, f)
                         <=> TenantRecord(e) = TenantRecord(f)
  BY Zenon DEF Right
<1>1. /\ candidate.event \in Code /\ candidate.document \in Code
      /\ Discerning(candidate)
  <2>1. candidate.event \in Code /\ candidate.document \in Code
    BY BoundsAssumption DEF TypeOK, Candidate
  <2>2. QED
    BY <2>1, LogicAcceptsTheDiscerning
<1>2. e.external_record_id = f.external_record_id
  BY DEF EventsOf
<1>3. /\ Identity(candidate.event, e) = Identity(candidate.event, f)
           => \A x \in Field : e[x] = f[x]
      /\ Identity(candidate.document, e) = Identity(candidate.document, f)
           <=> TenantRecord(e) = TenantRecord(f)
  BY <1>1, <1>2, TheDiscerningAreRightOnARecord
<1>4. QED
  BY <1>3, SameFieldsSameEvent, Zenon

\* The controller's verifier is authority enough for a single external record
\* with plain values, whichever candidate it judges, and with any values free
\* of the separator for candidates that join whole fields.
THEOREM LogicSufficesForOneRecord == Spec => []LogicIsEnoughForOneRecord
<1>1. TypeOK => LogicIsEnoughForOneRecord
  <2> SUFFICES ASSUME TypeOK, LogicAccepts(candidate)
               PROVE  /\ Right(PlainEvents({<<"r">>}))
                      /\ Joins(candidate.event) /\ Joins(candidate.document)
                           => Right(AwkwardEvents({<<"r">>}))
    BY Zenon DEF LogicIsEnoughForOneRecord
  <2>1. /\ PlainEvents({<<"r">>}) \subseteq PlainEvents({<<"r">>, <<"s">>})
        /\ AwkwardEvents({<<"r">>}) \subseteq AwkwardEvents({<<"r">>, <<"s">>})
    BY DEF PlainEvents, AwkwardEvents, EventsOf
  <2>2. Right(PlainEvents({<<"r">>}))
    <3>1. \A e \in PlainEvents({<<"r">>}) :
            /\ Legible(PlainToken, candidate.event, e)
            /\ Legible(PlainToken, candidate.document, e)
      BY <2>1, PlainIsLegible
    <3> QED BY <3>1, RightOnARecord, Zenon DEF PlainEvents
  <2>3. ASSUME Joins(candidate.event), Joins(candidate.document)
        PROVE  Right(AwkwardEvents({<<"r">>}))
    <3>1. \A e \in AwkwardEvents({<<"r">>}) :
            /\ Legible(AnyToken, candidate.event, e)
            /\ Legible(AnyToken, candidate.document, e)
      BY <2>1, <2>3, AwkwardIsLegible
    <3> QED BY <3>1, RightOnARecord, Zenon DEF AwkwardEvents
  <2>4. QED
    BY <2>2, <2>3
<1>2. QED
  BY <1>1, TypeCorrect, PTL

\* The workspace's tests and the controller's verifier look at different
\* events and accept the same candidates, but for those that the verifier
\* cannot evaluate.
THEOREM RefusalIsOfTheForm == Spec => []RefusedOnlyForItsForm
<1>1. TypeOK => RefusedOnlyForItsForm
  <2> SUFFICES ASSUME TypeOK
               PROVE  LogicAccepts(candidate)
                        <=> TestsAccept(candidate) /\ Probed(candidate)
    BY Zenon DEF RefusedOnlyForItsForm, Probed
  <2>1. candidate.event \in Code /\ candidate.document \in Code
    BY BoundsAssumption DEF TypeOK, Candidate
  <2>2. LogicAccepts(candidate) <=> Probed(candidate) /\ Discerning(candidate)
    BY <2>1, LogicAcceptsTheDiscerning, Zenon
  <2>3. TestsAccept(candidate) <=> Discerning(candidate)
    BY <2>1, TestsAcceptTheDiscerning, Zenon
  <2>4. QED
    BY <2>2, <2>3, Zenon
<1>2. QED
  BY <1>1, TypeCorrect, PTL

-----------------------------------------------------------------------------
(***************************************************************************)
(* What the judges leave open.                                             *)
(***************************************************************************)
\* Both identities join the external record's ID, as the diagnosis asks.
Complete ==
    "external_record_id" \in
        Range(candidate.event.fields) \cap Range(candidate.document.fields)

\* Two events of different records that are otherwise the same.
Twin(id) ==
    [event_type |-> <<"ready">>, tenant_id |-> <<"org-a">>,
     provider |-> <<"source-a">>, external_record_id |-> id,
     revision |-> <<"7">>]

\* They differ in the record alone.
LEMMA TwinsDiffer ==
    /\ Twin(<<"r">>) \in PlainEvents({<<"r">>, <<"s">>})
    /\ Twin(<<"s">>) \in PlainEvents({<<"r">>, <<"s">>})
    /\ \A x \in Field \ {"external_record_id"} :
         Twin(<<"r">>)[x] = Twin(<<"s">>)[x]
    /\ Twin(<<"r">>) # Twin(<<"s">>)
    /\ TenantRecord(Twin(<<"r">>)) # TenantRecord(Twin(<<"s">>))
<1>1. <<"r">> # <<"s">>
  OBVIOUS
<1>2. /\ Twin(<<"r">>).external_record_id = <<"r">>
      /\ Twin(<<"s">>).external_record_id = <<"s">>
  BY DEF Twin
<1>3. TenantRecord(Twin(<<"r">>)) # TenantRecord(Twin(<<"s">>))
  BY <1>1, <1>2 DEF TenantRecord
<1>4. \A x \in Field \ {"external_record_id"} :
        Twin(<<"r">>)[x] = Twin(<<"s">>)[x]
  BY DEF Twin, Field
<1>5. \A id \in {<<"r">>, <<"s">>} :
        Twin(id) \in PlainEvents({<<"r">>, <<"s">>})
  BY DEF Twin, PlainEvents, EventsOf
<1>6. QED
  BY <1>1, <1>2, <1>3, <1>4, <1>5

\* A complete candidate is right for the events of two records it can read.
LEMMA CompleteIsRight ==
    ASSUME TypeOK, Accepted, Complete, NEW Token,
           NEW tenants, NEW providers,
           NEW events,
           events = EventsOf(tenants, providers, {<<"r">>, <<"s">>}),
           \A e \in events : /\ Legible(Token, candidate.event, e)
                             /\ Legible(Token, candidate.document, e)
    PROVE  Right(events)
<1> SUFFICES ASSUME NEW e \in events, NEW f \in events
             PROVE  /\ Identity(candidate.event, e)
                         = Identity(candidate.event, f) => e = f
                    /\ Identity(candidate.document, e)
                         = Identity(candidate.document, f)
                         <=> TenantRecord(e) = TenantRecord(f)
  BY Zenon DEF Right
<1>1. /\ candidate.event \in Code /\ candidate.document \in Code
      /\ Discerning(candidate)
  <2>1. candidate.event \in Code /\ candidate.document \in Code
    BY BoundsAssumption DEF TypeOK, Candidate
  <2>2. LogicAccepts(candidate)
    BY Zenon DEF Accepted
  <2>3. QED
    BY <2>1, <2>2, LogicAcceptsTheDiscerning
<1>2. /\ Identity(candidate.event, e) = Identity(candidate.event, f)
           => \A x \in Field : e[x] = f[x]
      /\ Identity(candidate.document, e) = Identity(candidate.document, f)
           <=> TenantRecord(e) = TenantRecord(f)
  BY <1>1, TheCompleteAreRight DEF Complete
<1>3. QED
  BY <1>2, SameFieldsSameEvent, Zenon

\* For events with plain values an accepted candidate is right exactly if both
\* identities join the record's ID: of these the judges overlook nothing else,
\* and that is why AcceptedIsRight fails.  If both join whole fields with ":",
\* it is then right for the awkward events too; of other expressions, which
\* the probe evaluates as well, this is not so.
THEOREM OnlyTheRecordIsOverlooked ==
    Spec => [](Accepted =>
                 /\ Complete <=> Right(PlainEvents({<<"r">>, <<"s">>}))
                 /\ (/\ Complete
                     /\ Joins(candidate.event) /\ Joins(candidate.document))
                    => Right(AwkwardEvents({<<"r">>, <<"s">>})))
<1> DEFINE Plain == PlainEvents({<<"r">>, <<"s">>})
           Awkward == AwkwardEvents({<<"r">>, <<"s">>})
           AllJoins == Joins(candidate.event) /\ Joins(candidate.document)
<1>1. TypeOK /\ Accepted =>
        /\ Complete <=> Right(Plain)
        /\ Complete /\ AllJoins => Right(Awkward)
  <2> SUFFICES ASSUME TypeOK, Accepted
               PROVE  /\ Complete <=> Right(Plain)
                      /\ Complete /\ AllJoins => Right(Awkward)
    OBVIOUS
  <2>1. \A e \in Plain : /\ Legible(PlainToken, candidate.event, e)
                         /\ Legible(PlainToken, candidate.document, e)
    BY PlainIsLegible
  <2>2. ASSUME Complete
        PROVE  Right(Plain)
    BY <2>1, <2>2, CompleteIsRight, Zenon DEF PlainEvents
  <2>3. ASSUME Complete, AllJoins
        PROVE  Right(Awkward)
    <3>1. \A e \in Awkward : /\ Legible(AnyToken, candidate.event, e)
                             /\ Legible(AnyToken, candidate.document, e)
      BY <2>3, AwkwardIsLegible
    <3> QED BY <2>3, <3>1, CompleteIsRight, Zenon DEF AwkwardEvents
  <2>4. ASSUME Right(Plain)
        PROVE  Complete
    <3> DEFINE a == Twin(<<"r">>)
               b == Twin(<<"s">>)
    <3>1. /\ a \in Plain /\ b \in Plain /\ a # b
          /\ TenantRecord(a) # TenantRecord(b)
          /\ \A x \in Field \ {"external_record_id"} : a[x] = b[x]
      BY TwinsDiffer, Zenon
    <3> HIDE DEF a, b
    <3>2. /\ Identity(candidate.event, a) # Identity(candidate.event, b)
          /\ Identity(candidate.document, a) # Identity(candidate.document, b)
      BY <2>4, <3>1, Zenon DEF Right
    <3>3. candidate.event \in Code /\ candidate.document \in Code
      BY BoundsAssumption DEF TypeOK, Candidate
    <3> HIDE DEF Plain
    <3>4. ASSUME NEW code \in Code, code \in {candidate.event,
                                              candidate.document}
          PROVE  "external_record_id" \in Range(code.fields)
      <4>1. Legible(PlainToken, code, a) /\ Legible(PlainToken, code, b)
        BY <2>1, <3>1, <3>4
      <4>2. Identity(code, a) # Identity(code, b)
        BY <3>2, <3>4
      <4>3. ~ \A x \in Range(code.fields) : a[x] = b[x]
        <5>1. Identity(code, a) = Identity(code, b)
                <=> \A x \in Range(code.fields) : a[x] = b[x]
          BY <4>1, IdentityTellsLegible
        <5> QED BY <4>2, <5>1, Zenon
      <4>4. Range(code.fields) \subseteq Field
        BY DEF Range, Code
      <4> QED BY <3>1, <4>3, <4>4, Zenon
    <3>5. QED
      BY <3>3, <3>4 DEF Complete
  <2>5. QED
    BY <2>2, <2>3, <2>4
<1>2. TypeOK => (Accepted =>
                   /\ Complete <=> Right(Plain)
                   /\ Complete /\ AllJoins => Right(Awkward))
  BY <1>1
<1>3. QED
  BY <1>2, TypeCorrect, PTL

-----------------------------------------------------------------------------
(***************************************************************************)
(* How many steps a run can take.                                          *)
(***************************************************************************)
\* What a run has still to do at most, in steps: to publish and to read what
\* is missing of four events, then two steps for each record.
Remaining ==
    IF stage = "probe" THEN 24
    ELSE IF stage = "evidence" THEN 23
    ELSE IF stage = "publish" THEN 18 + Cardinality(unsent)
    ELSE IF stage = "consume"
         THEN 13 + (IF Len(records) < Expected THEN Expected - Len(records)
                    ELSE 0)
    ELSE IF stage = "reset" THEN 4 + 2 * Expected
    ELSE IF stage = "record" THEN 3 + 2 * (Len(records) - done)
    ELSE IF stage = "index" THEN 2 + 2 * (Len(records) - done)
    ELSE IF stage = "ledger" THEN 3
    ELSE IF stage = "decisions" THEN 2
    ELSE IF stage = "search" THEN 1
    ELSE 0

\* All four records are there while they are processed.
FourToProcess ==
    stage \in {"reset", "record", "index"} => Len(records) = Expected

\* What was read is a beginning of what the broker has.
ReadInOrder ==
    /\ Len(records) <= Len(topic)
    /\ \A i \in 1 .. Len(records) : records[i] = topic[i]

\* Nothing is processed before all four are read.
LEMMA FourNext == IInv /\ FourToProcess /\ [Next]_vars => FourToProcess'
<1> SUFFICES ASSUME IInv, FourToProcess, [Next]_vars
             PROVE  FourToProcess'
  OBVIOUS
<1>1. CASE Verifier
  <2>1. CASE Consumed
    BY <2>1 DEF Consumed, Require, FourToProcess, run
  <2>2. CASE ResetLedger \/ RecordIdempotency \/ IndexEvent
    BY <2>2 DEF ResetLedger, RecordIdempotency, IndexEvent, FourToProcess, run
  <2>3. CASE Probe \/ PrepareServices \/ BrokerAppends \/ Published \/ Poll
    <3>1. stage' \in {"evidence", "failed", "publish", "consume"}
      BY <2>3, Zenon DEF Probe, PrepareServices, BrokerAppends, Delivered,
         Published, Poll, Require
    <3>2. QED
      BY <3>1 DEF FourToProcess
  <2>4. CASE VerifyLedger \/ CheckDecisions \/ VerifySearch
    <3>1. stage' \in {"decisions", "search", "passed", "failed"}
      BY <2>4, Zenon DEF VerifyLedger, CheckDecisions, VerifySearch, Require
    <3>2. QED
      BY <3>1 DEF FourToProcess
  <2>5. QED
    BY <1>1, <2>1, <2>2, <2>3, <2>4, Zenon DEF Verifier
<1>2. CASE BrokerMisbehaves \/ ServiceFails \/ Kill \/ RunAgain
  <2>1. stage' \in {"publish", "failed", "killed", "probe"}
    BY <1>2, Zenon DEF BrokerMisbehaves, Delivered, ServiceFails, Kill,
       RunAgain
  <2>2. QED
    BY <2>1 DEF FourToProcess
<1>3. CASE DeadlinePasses \/ UNCHANGED vars
  <2>1. UNCHANGED <<stage, records>>
    BY <1>3, Zenon DEF DeadlinePasses, vars, run
  <2>2. QED
    BY <2>1 DEF FourToProcess
<1>4. QED
  BY <1>1, <1>2, <1>3, Zenon DEF Next

\* Appending and reading keep the order, the rest touches neither.
LEMMA OrderNext == IInv /\ ReadInOrder /\ [Next]_vars => ReadInOrder'
<1> SUFFICES ASSUME IInv, ReadInOrder, [Next]_vars
             PROVE  ReadInOrder'
  OBVIOUS
<1>1. /\ topic \in Seq(Number) /\ Len(topic) \in Nat
      /\ records \in Seq(Number) /\ Len(records) \in Nat
      /\ unsent \subseteq Number
  BY DEF IInv, TypeOK
<1>2. CASE BrokerAppends \/ BrokerMisbehaves
  <2>1. PICK i \in Number : topic' = Append(topic, i) /\ records' = records
    BY <1>1, <1>2, Zenon DEF BrokerAppends, BrokerMisbehaves, Delivered
  <2>2. /\ Len(topic') = Len(topic) + 1
        /\ \A j \in 1 .. Len(topic) : topic'[j] = topic[j]
    BY <1>1, <2>1, AppendProperties
  <2>3. QED
    BY <1>1, <2>1, <2>2 DEF ReadInOrder
<1>3. CASE Poll
  <2>1. topic' = topic
    BY <1>3, Zenon DEF Poll
  <2>2. PICK n \in Len(records) .. Len(topic) :
          records' = SubSeq(topic, 1, n)
    BY <1>3 DEF Poll
  <2>3. Len(records') = n /\ \A i \in 1 .. n : records'[i] = topic[i]
    BY <1>1, <2>2
  <2>4. QED
    BY <1>1, <2>1, <2>2, <2>3 DEF ReadInOrder
<1>4. CASE RunAgain
  BY <1>4 DEF RunAgain, ReadInOrder
<1>5. CASE UNCHANGED <<topic, records>>
  BY <1>5 DEF ReadInOrder
<1>6. QED
  <2>1. CASE Probe \/ PrepareServices \/ Published \/ Consumed
    BY <1>5, <2>1, Zenon DEF Probe, PrepareServices, Published, Consumed, run
  <2>2. CASE ResetLedger \/ RecordIdempotency \/ IndexEvent
    BY <1>5, <2>2, Zenon DEF ResetLedger, RecordIdempotency, IndexEvent, run
  <2>3. CASE VerifyLedger \/ CheckDecisions \/ VerifySearch
    BY <1>5, <2>3, Zenon DEF VerifyLedger, CheckDecisions, VerifySearch, run
  <2>4. CASE ServiceFails \/ DeadlinePasses \/ Kill \/ UNCHANGED vars
    BY <1>5, <2>4, Zenon DEF ServiceFails, DeadlinePasses, Kill, run, vars
  <2>5. QED
    BY <1>2, <1>3, <1>4, <2>1, <2>2, <2>3, <2>4, Zenon DEF Next, Verifier

\* How many events are still to be published, and that one less are after an
\* append.
LEMMA UnsentCounted ==
    ASSUME IInv
    PROVE  /\ Cardinality(unsent) \in 0 .. 4
           /\ \A i \in unsent :
                Cardinality(unsent \ {i}) = Cardinality(unsent) - 1
<1>1. unsent \subseteq 1 .. 4
  BY DEF IInv, TypeOK, Number, Expected
<1>2. IsFiniteSet(1 .. 4) /\ Cardinality(1 .. 4) = 4
  <2>1. 1 \in Int /\ 4 \in Int
    OBVIOUS
  <2>2. /\ IsFiniteSet(1 .. 4)
        /\ Cardinality(1 .. 4) = IF 1 > 4 THEN 0 ELSE 4 - 1 + 1
    BY <2>1, FS_Interval, Zenon
  <2>3. QED
    BY <2>2
<1>3. /\ IsFiniteSet(unsent) /\ Cardinality(unsent) <= 4
      /\ Cardinality(unsent) \in Nat
  BY <1>1, <1>2, FS_Subset, FS_CardinalityType
<1>4. QED
  BY <1>3, FS_RemoveElement

\* The bounds of what remains while the records are read, and while they are
\* processed.
LEMMA RemainingOfTheRecords ==
    ASSUME NEW k \in 0 .. 3
    PROVE  /\ 13 + (4 - k) \in 0 .. 24
           /\ 3 + 2 * (4 - k) \in 0 .. 24
           /\ 2 + 2 * (4 - k) \in 0 .. 24
OBVIOUS

\* What remains is a number, ...
LEMMA RemainingType ==
    ASSUME IInv, FourToProcess
    PROVE  Remaining \in 0 .. 24
<1>1. /\ Cardinality(unsent) \in 0 .. 4 /\ Len(records) \in Nat
      /\ done \in Nat
      /\ stage \in {"record", "index"} => done < Len(records)
  BY UnsentCounted DEF IInv, TypeOK, DecisionsInTurn
<1>2. stage \in {"record", "index"} => Len(records) = 4
  BY DEF FourToProcess, Expected
<1>3. CASE stage = "publish"
  BY <1>1, <1>3 DEF Remaining
<1>4. CASE stage = "consume"
  <2>1. Len(records) \in Nat
    BY <1>1
  <2>2. CASE Len(records) < 4
    <3>1. Remaining = 13 + (4 - Len(records))
      BY <1>4, <2>2 DEF Remaining, Expected
    <3>2. PICK k \in Nat : k = Len(records)
      BY <2>1
    <3>3. k \in 0 .. 3
      BY <2>2, <3>2
    <3>4. 13 + (4 - k) \in 0 .. 24
      BY <3>3, RemainingOfTheRecords, Zenon
    <3>5. Remaining = 13 + (4 - k)
      BY <3>1, <3>2, Zenon
    <3>6. QED
      BY <3>4, <3>5, Zenon
  <2>3. CASE ~(Len(records) < 4)
    BY <1>4, <2>3 DEF Remaining, Expected
  <2>4. QED
    BY <2>2, <2>3
<1>5. CASE stage \in {"record", "index"}
  <2>1. done \in 0 .. 3 /\ Len(records) = 4
    <3>1. Len(records) = 4 /\ done < Len(records) /\ done \in Nat
      BY <1>1, <1>2, <1>5, Zenon
    <3>2. done < 4
      BY <3>1, Zenon
    <3>3. done \in 0 .. 3
      BY <3>1, <3>2
    <3>4. QED
      BY <3>1, <3>3, Zenon
  <2>2. \/ Remaining = 3 + 2 * (4 - done)
        \/ Remaining = 2 + 2 * (4 - done)
    BY <1>5, <2>1 DEF Remaining
  <2>3. /\ 3 + 2 * (4 - done) \in 0 .. 24
        /\ 2 + 2 * (4 - done) \in 0 .. 24
    BY <2>1, RemainingOfTheRecords, Zenon
  <2>4. QED
    BY <2>2, <2>3, Zenon
<1>6. CASE stage \notin {"publish", "consume", "record", "index"}
  BY <1>6 DEF Remaining, Expected
<1>7. QED
  BY <1>3, <1>4, <1>5, <1>6

\* ... which every step of the verifier lowers.  A poll that reads nothing is
\* no step.
LEMMA VerifierAdvances ==
    ASSUME IInv, FourToProcess, ReadInOrder, Verifier, vars' # vars
    PROVE  Remaining' < Remaining
<1>1. /\ Cardinality(unsent) \in 0 .. 4 /\ Len(records) \in Nat
      /\ done \in Nat
      /\ stage \in {"record", "index"} => done < Len(records)
      /\ stage = "reset" => done = 0
  BY UnsentCounted DEF IInv, TypeOK, DecisionsInTurn, Before
<1>2. stage \in {"reset", "record", "index"} => Len(records) = 4
  BY DEF FourToProcess, Expected
<1>3. CASE Probe
  BY <1>3 DEF Probe, Require, Remaining
<1>4. CASE PrepareServices
  BY <1>1, <1>4 DEF PrepareServices, Remaining, run
<1>5. CASE BrokerAppends
  <2>1. PICK i \in unsent : Delivered(i, TRUE)
    BY <1>5 DEF BrokerAppends
  <2>2. stage = "publish" /\ stage' = "publish" /\ unsent' = unsent \ {i}
    BY <2>1, Zenon DEF Delivered
  <2>3. Cardinality(unsent') = Cardinality(unsent) - 1
    BY <2>2, UnsentCounted
  <2>4. QED
    BY <1>1, <2>2, <2>3 DEF Remaining
<1>6. CASE Published
  BY <1>1, <1>6 DEF Published, Remaining, Expected, run
<1>7. CASE Poll
  <2>1. /\ stage = "consume" /\ stage' = stage /\ Len(records) < 4
        /\ UNCHANGED <<candidate, unsent, topic, done, decisions, documents,
                       ledger, environment>>
    BY <1>7, Zenon DEF Poll, Expected
  <2>2. PICK n \in Len(records) .. Len(topic) :
          records' = SubSeq(topic, 1, n)
    BY <1>7 DEF Poll
  <2>3. topic \in Seq(Number) /\ records \in Seq(Number) /\ Len(topic) \in Nat
    BY DEF IInv, TypeOK
  <2>4. Len(records') = n /\ n \in Nat
    BY <1>1, <2>2, <2>3
  <2>5. n # Len(records)
    <3>1. SUFFICES ASSUME n = Len(records)
                   PROVE  FALSE
      OBVIOUS
    <3>2. records' \in Seq(Number) /\ Len(records') = Len(records)
      BY <2>2, <2>3, <2>4, <3>1
    <3>3. \A i \in 1 .. Len(records) : records'[i] = records[i]
      BY <2>2, <2>3, <3>1 DEF ReadInOrder
    <3>4. records' = records
      BY <2>3, <3>2, <3>3, SeqEqual
    <3>5. UNCHANGED vars
      BY <2>1, <3>4, Zenon DEF vars, run
    <3>6. QED
      BY <3>5
  <2>6. QED
    BY <1>1, <2>1, <2>2, <2>4, <2>5 DEF Remaining, Expected
<1>8. CASE Consumed
  <2>1. stage = "consume" /\ stage' \in {"reset", "failed"}
    BY <1>8, Zenon DEF Consumed, Require
  <2>2. Remaining >= 13
    BY <1>1, <2>1 DEF Remaining, Expected
  <2>3. Remaining' \in {12, 0}
    BY <2>1 DEF Remaining, Expected
  <2>4. Remaining \in Int
    BY RemainingType
  <2>5. QED
    BY <2>2, <2>3, <2>4
<1>9. CASE ResetLedger
  <2>1. /\ stage = "reset" /\ stage' = "record" /\ UNCHANGED <<records, done>>
    BY <1>9, Zenon DEF ResetLedger, run
  <2>2. Remaining = 12
    BY <2>1 DEF Remaining, Expected
  <2>3. Len(records') = 4 /\ done' = 0
    BY <1>1, <1>2, <2>1
  <2>4. Remaining' = 3 + 2 * (4 - 0)
    BY <2>1, <2>3 DEF Remaining
  <2>5. QED
    BY <2>2, <2>4
<1>10. CASE RecordIdempotency
  <2>1. stage = "record" /\ stage' = "index" /\ UNCHANGED <<records, done>>
    BY <1>10, Zenon DEF RecordIdempotency
  <2>2. QED
    BY <1>1, <2>1 DEF Remaining
<1>11. CASE IndexEvent
  <2>1. /\ stage = "index" /\ done' = done + 1 /\ UNCHANGED records
        /\ stage' = IF done' < Len(records) THEN "record" ELSE "ledger"
    BY <1>11, Zenon DEF IndexEvent
  <2>2. QED
    BY <1>1, <2>1 DEF Remaining
<1>12. CASE VerifyLedger
  BY <1>12 DEF VerifyLedger, Require, Remaining
<1>13. CASE CheckDecisions
  <2>1. stage = "decisions" /\ stage' \in {"search", "failed"}
    BY <1>13, Zenon DEF CheckDecisions, Require
  <2>2. QED
    BY <2>1 DEF Remaining
<1>14. CASE VerifySearch
  <2>1. stage = "search" /\ stage' \in {"passed", "failed"}
    BY <1>14, Zenon DEF VerifySearch, Require
  <2>2. QED
    BY <2>1 DEF Remaining
<1>15. QED
  BY <1>3, <1>4, <1>5, <1>6, <1>7, <1>8, <1>9, <1>10, <1>11, <1>12, <1>13,
     <1>14 DEF Verifier

\* What happens to a run never gives it more to do.
LEMMA OthersDoNotAdd ==
    ASSUME IInv, FourToProcess, [Next]_vars, ~Verifier, ~RunAgain
    PROVE  Remaining' <= Remaining
<1>1. Remaining \in Nat
  BY RemainingType
<1>2. CASE BrokerMisbehaves
  <2>1. PICK i \in unsent : \/ Delivered(i, FALSE) \/ Delivered(i, TRUE)
    BY <1>2, Zenon DEF BrokerMisbehaves
  <2>2. /\ stage = "publish" /\ stage' = stage
        /\ unsent' \in {unsent, unsent \ {i}}
    BY <2>1, Zenon DEF Delivered
  <2>3. /\ Cardinality(unsent) \in 0 .. 4
        /\ Cardinality(unsent \ {i}) = Cardinality(unsent) - 1
    BY UnsentCounted
  <2>4. QED
    BY <2>2, <2>3 DEF Remaining
<1>3. CASE ServiceFails \/ Kill
  <2>1. stage' \in {"failed", "killed"}
    BY <1>3, Zenon DEF ServiceFails, Kill
  <2>2. Remaining' = 0
    BY <2>1 DEF Remaining
  <2>3. QED
    BY <1>1, <2>2
<1>4. CASE DeadlinePasses \/ UNCHANGED vars
  <2>1. UNCHANGED <<stage, unsent, records, done>>
    BY <1>4, Zenon DEF DeadlinePasses, vars, run
  <2>2. Remaining' = Remaining
    BY <2>1 DEF Remaining
  <2>3. QED
    BY <1>1, <2>2
<1>5. QED
  BY <1>2, <1>3, <1>4, Zenon DEF Next

\* A run takes at most 24 steps of its own, whatever its candidate, the broker,
\* the services and the deadline do: the verifier cannot loop.  (That it goes
\* on at all is RunEnds, which needs fairness.)
THEOREM RunIsBounded ==
    Spec => /\ [](Remaining \in 0 .. 24)
            /\ [][/\ Verifier => Remaining' < Remaining
                  /\ ~RunAgain => Remaining' <= Remaining]_vars
<1> DEFINE Inv == IInv /\ FourToProcess /\ ReadInOrder
           Lowers == /\ Verifier => Remaining' < Remaining
                     /\ ~RunAgain => Remaining' <= Remaining
           Bounded == Remaining \in 0 .. 24
<1>1. Init => Inv
  <2>1. Init => FourToProcess /\ ReadInOrder
    BY DEF Init, FourToProcess, ReadInOrder
  <2>2. QED
    BY <2>1, InvInit
<1>2. Inv /\ [Next]_vars => Inv'
  BY InvNext, FourNext, OrderNext
<1>3. Inv => Bounded
  BY RemainingType
<1>4. Inv /\ Bounded /\ Bounded' /\ [Next]_vars => [Lowers]_vars
  <2> SUFFICES ASSUME Inv, Bounded, Bounded', [Next]_vars, vars' # vars
               PROVE  Lowers
    OBVIOUS
  <2>1. Remaining \in 0 .. 24 /\ Remaining' \in 0 .. 24
    OBVIOUS
  <2>2. CASE Verifier
    <3>1. Remaining' < Remaining
      BY <2>2, VerifierAdvances
    <3>2. QED
      BY <2>1, <3>1
  <2>3. CASE ~Verifier
    BY <2>3, OthersDoNotAdd
  <2>4. QED
    BY <2>2, <2>3
<1> HIDE DEF Inv, Lowers, Bounded
<1>5. Spec => []Bounded /\ [][Lowers]_vars
  BY <1>1, <1>2, <1>3, <1>4, PTL DEF Spec
<1>6. QED
  BY <1>5 DEF Lowers, Bounded
=============================================================================

---------------------------- MODULE DraftDelivery ----------------------------
(***************************************************************************)
(* What a run promises about its mock delivery, without saying how.  A     *)
(* digest is vetted when it passed its own tests and an independent        *)
(* verification; the vetted digest may be authorised once, offered once    *)
(* as a draft, and withdrawn; after that nothing is offered any more.      *)
(***************************************************************************)
CONSTANTS Digest, NoDigest

VARIABLES stage, vetted, offer

vars == <<stage, vetted, offer>>

Init ==
    /\ stage = "open"
    /\ vetted = NoDigest
    /\ offer = NoDigest

\* An attempt of the open run vets a digest, or fails to.
Vet ==
    /\ stage = "open"
    /\ vetted' \in Digest \cup {NoDigest}
    /\ UNCHANGED <<stage, offer>>

Authorise ==
    /\ stage = "open"
    /\ vetted \in Digest
    /\ stage' = "authorised"
    /\ UNCHANGED <<vetted, offer>>

Offer ==
    /\ stage = "authorised"
    /\ stage' = "offered"
    /\ offer' = vetted
    /\ UNCHANGED vetted

\* The run gives up before it offers, or withdraws what it offered.
End ==
    /\ stage # "ended"
    /\ stage' = "ended"
    /\ offer' = NoDigest
    /\ UNCHANGED vetted

Next == Vet \/ Authorise \/ Offer \/ End

Spec == Init /\ [][Next]_vars
=============================================================================

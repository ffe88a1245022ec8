---------------------------- MODULE Verification ----------------------------
(***************************************************************************)
(* AnchorService.verification: what the public page learns about a batch   *)
(* while anchoring goes on underneath.                                     *)
(***************************************************************************)
EXTENDS Anchoring

BatchEvents(b) == {e \in events : Batch[e] = b}

\* batch.events[0]: the harvest, or the fabricated harvest of a recovered lot.
Origin(b) == CHOOSE e \in BatchEvents(b) : Kind[e] # "transfer"

PrimaryDay(b) == Day[Origin(b)]

\* contractVerified: the primary day alone is looked up on the contract, with
\* the root of its current tree.
ContractVerified(b) ==
    /\ anchors[PrimaryDay(b)].status = "confirmed"
    /\ chain[PrimaryDay(b)] = DailyRoot(PrimaryDay(b))

Batches == {Batch[e] : e \in events}

\* What the page says of a batch with contractVerified: the hashes shown, all
\* of them, are under an anchored root.
VerifiedHashesAreAnchored ==
    \A b \in Batches :
        ContractVerified(b) => \A e \in BatchEvents(b) : e \in chain[Day[e]]
=============================================================================

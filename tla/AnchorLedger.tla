---------------------------- MODULE AnchorLedger ----------------------------
(***************************************************************************)
(* What anchoring promises, without callers, transactions or databases.    *)
(* Per business day there is one sealed root on the contract and one root  *)
(* the service claims to have sealed.  A seal is final; a claim may be     *)
(* made only of the sealed root, and may be withdrawn, all at once when    *)
(* the service restarts from an older database row.                        *)
(***************************************************************************)
EXTENDS Integers

CONSTANTS
    LedgerDays,    \* the business days
    LedgerRoots,   \* the Merkle roots, {} standing for the zero root
    NoRoot         \* the zero root

VARIABLES
    sealed,   \* the root the contract holds for each day
    claimed   \* the root a confirmed anchor record names for each day

ledgerVars == <<sealed, claimed>>

LedgerInit ==
    /\ sealed = [d \in LedgerDays |-> NoRoot]
    /\ claimed = [d \in LedgerDays |-> NoRoot]

Seal(d, root) ==
    /\ sealed[d] = NoRoot
    /\ root # NoRoot
    /\ sealed' = [sealed EXCEPT ![d] = root]
    /\ UNCHANGED claimed

Claim(d) ==
    /\ sealed[d] # NoRoot
    /\ claimed' = [claimed EXCEPT ![d] = sealed[d]]
    /\ UNCHANGED sealed

Withdraw(d) ==
    /\ claimed' = [claimed EXCEPT ![d] = NoRoot]
    /\ UNCHANGED sealed

\* A restart trusts whatever rows the database kept; none of them names a
\* root that was not sealed.
Reload(kept) ==
    /\ claimed' = [d \in LedgerDays |-> IF d \in kept THEN sealed[d] ELSE NoRoot]
    /\ UNCHANGED sealed

LedgerNext ==
    \/ \E d \in LedgerDays, root \in LedgerRoots : Seal(d, root)
    \/ \E d \in LedgerDays : Claim(d) \/ Withdraw(d)
    \/ \E kept \in SUBSET LedgerDays : Reload(kept)

LedgerSpec == LedgerInit /\ [][LedgerNext]_ledgerVars
=============================================================================

-------------------------- MODULE SpendingContract --------------------------
(***************************************************************************)
(* What the evaluation's spending ledger promises: under one approval, for *)
(* good, microdollars are promised in order and never taken back, and one  *)
(* that is spent was promised before and is spent once.  The proxy that    *)
(* keeps this through failed writes and restarts is EvaluationBudget.      *)
(***************************************************************************)
EXTENDS Naturals

CONSTANTS
    Approvals,      \* spending approvals an operator can supply
    Allowance,      \* the microdollars each approval allows
    NoApproval

VARIABLES
    approval,       \* the approval the ledger belongs to
    promised,       \* microdollars 1 .. promised may be spent
    spent           \* the microdollars a provider has charged

SpendingVars == <<approval, promised, spent>>

SpendingInit ==
    /\ approval = NoApproval
    /\ promised = 0
    /\ spent = {}

(* The first promise binds the ledger to its approval.                     *)
Promise(a, n) ==
    /\ approval \in {NoApproval, a}
    /\ n \in promised .. Allowance[a]
    /\ approval' = a
    /\ promised' = n
    /\ UNCHANGED spent

Spend(units) ==
    /\ units \subseteq (1 .. promised) \ spent
    /\ spent' = spent \cup units
    /\ UNCHANGED <<approval, promised>>

SpendingNext ==
    \/ \E a \in Approvals : \E n \in 0 .. Allowance[a] : Promise(a, n)
    \/ \E units \in SUBSET (1 .. promised) : Spend(units)

SpendingSpec == SpendingInit /\ [][SpendingNext]_SpendingVars

=============================================================================

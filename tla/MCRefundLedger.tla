--------------------------- MODULE MCRefundLedger ---------------------------
(***************************************************************************)
(* A small instance of RefundLedger for TLC.  MaxEdits bounds how often    *)
(* employees and the schema interfere in one behaviour.                    *)
(***************************************************************************)
EXTENDS RefundLedger, TLC

CONSTANT MaxEdits

VARIABLE edits

MCInit == Init /\ edits = 0

MCNext ==
    \/ /\ \/ \E r \in Requests, o \in OrderNumbers : Propose(r, o)
          \/ \E s \in Sessions, r \in Requests, approved \in BOOLEAN :
                 Begin(s, r, approved)
          \/ \E s \in Sessions : SessionStep(s) \/ Abort(s)
       /\ UNCHANGED edits
    \/ /\ edits < MaxEdits
       /\ EmployeeStep \/ AdoptLegacy
       /\ edits' = edits + 1

MCSpec == MCInit /\ [][MCNext]_<<vars, edits>>

MCFairSpec == MCSpec /\ Fairness

=============================================================================

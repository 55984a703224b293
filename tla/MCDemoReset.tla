---------------------------- MODULE MCDemoReset -----------------------------
(* A small instance of DemoReset.  MaxEdits bounds how often employees and  *)
(* the schema interfere in one behaviour; resets are not bounded.           *)
EXTENDS DemoReset, TLC

CONSTANTS MaxEdits, o1, p1, p2

VARIABLE edits

MCSeedOrders ==
    [o \in OrderNumbers |->
        IF o = o1 THEN [product |-> p1, quantity |-> 1, refund |-> "none"]
        ELSE NoRow]
MCSeedPrices == p1 :> 2 @@ p2 :> 1

MCInit == Init /\ edits = 0

MCNext ==
    \/ /\ \/ \E r \in Requests, o \in OrderNumbers : Propose(r, o)
          \/ \E s \in Sessions, r \in Requests, approved \in BOOLEAN :
                 Begin(s, r, approved)
          \/ \E s \in Sessions : SessionStep(s) \/ Abort(s)
       /\ UNCHANGED edits
    \/ /\ edits < MaxEdits
       /\ EmployeeStep \/ AdoptLegacy
       /\ edits' = edits + 1
    \/ Reset /\ UNCHANGED edits

MCSpec == MCInit /\ [][MCNext]_<<vars, edits>>
=============================================================================

------------------------- MODULE MCEvaluationBudget -------------------------
(* A small instance of EvaluationBudget: two chats that name the same      *)
(* barrier and two embeddings, too dear and too large all together.        *)
EXTENDS EvaluationBudget, TLC

CONSTANTS c1, c2, e1, e2, barrier, a1, a2

MCPrice == c1 :> 2 @@ c2 :> 1 @@ e1 :> 1 @@ e2 :> 1
MCSize == c1 :> 1 @@ c2 :> 1 @@ e1 :> 2 @@ e2 :> 2
MCMarker == c1 :> barrier @@ c2 :> barrier @@ e1 :> NoMarker @@ e2 :> NoMarker
MCAllowance == a1 :> 4 @@ a2 :> 2
=============================================================================

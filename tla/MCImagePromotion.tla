-------------------------- MODULE MCImagePromotion --------------------------
(* A small instance of ImagePromotion: v1 is one chunk, v2 has a blank and *)
(* is cut into five.  Image A adds both documents, B removes one and       *)
(* rewrites the other.                                                     *)
EXTENDS ImagePromotion, TLC

CONSTANTS v1, v2, base, A, B

MCLength == v1 :> 2 @@ v2 :> 6
MCBlanks == v1 :> {} @@ v2 :> {1}
MCDocs ==
    base :> (1 :> v1 @@ 2 :> None) @@ A :> (1 :> v2 @@ 2 :> v1)
    @@ B :> (1 :> v1 @@ 2 :> v2)
=============================================================================

--------------------------- MODULE MCAuthorityState ---------------------------
(***************************************************************************)
(* An instance of AuthorityState: between the views a and b the layer l1   *)
(* changes and l2 is added or removed; materializing the selected bundle's *)
(* own view leaves both unchanged.                                         *)
(***************************************************************************)
EXTENDS AuthorityState, TLC

CONSTANTS l1, l2, p1, p2

MCDigest ==
    [a |-> (l1 :> "d1" @@ l2 :> None),
     b |-> (l1 :> "d3" @@ l2 :> "d2")]
MCViews == DOMAIN MCDigest
MCDigests == {"d1", "d2", "d3"}

=============================================================================

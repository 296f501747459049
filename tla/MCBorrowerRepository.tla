------------------------ MODULE MCBorrowerRepository ------------------------
(* An instance of BorrowerRepository for TLC: three sessions, two of them    *)
(* with the same owner, which has two collections.                           *)
EXTENDS BorrowerRepository, TLC

CONSTANTS s1, s2, s3, o1, o2, c1, c2, c3, p1, p2, p3

MCOwnerOf == (s1 :> o1) @@ (s2 :> o1) @@ (s3 :> o2)
MCCreatorOf == (c1 :> o1) @@ (c2 :> o1) @@ (c3 :> o2)
MCCollectionOf == (p1 :> c1) @@ (p2 :> c2) @@ (p3 :> c3)
=============================================================================

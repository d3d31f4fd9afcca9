---------------------------- MODULE MCAccess ----------------------------
(* An instance of Access for TLC: user 1 owns all organizations; user 2 has  *)
(* created two of them and is a member of the third.  User 1 has tokens,     *)
(* user 2 a session.                                                         *)
EXTENDS Access, TLC

CONSTANTS A, B, C, c1, c2, g1, g2, t1, t2, r1, r2

MCSymmetry == Permutations({r1, r2})

MCUsers == {1, 2}
MCCreatorOf == A :> 2 @@ B :> 2 @@ C :> 1
MCTokenOf == t1 :> [user |-> 1, org |-> A] @@ t2 :> [user |-> 1, org |-> None]

MCFirstRole ==
    [m \in MCUsers \X Orgs |-> IF m[1] = 1 \/ MCCreatorOf[m[2]] = m[1] THEN "OWNER" ELSE "MEMBER"]
MCFirstHome == c1 :> A @@ c2 :> None
MCFirstPage == g1 :> [home |-> A, lists |-> {c1}] @@ g2 :> [home |-> None, lists |-> {}]

MCFirstTokens == t1 :> [made |-> TRUE, revoked |-> FALSE, expiresAt |-> 2, project |-> "there"]
MCNewTokens == [made : {TRUE}, revoked : {FALSE}, expiresAt : {1, 3}, project : {"none"}]

MCFirstPlace == c1 :> A @@ c2 :> B
=============================================================================

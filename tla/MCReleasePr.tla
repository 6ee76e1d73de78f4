---------------------------- MODULE MCReleasePr ----------------------------
(* Instances of ReleasePr and ReleasePrClaims for TLC.                     *)
EXTENDS ReleasePrClaims

CONSTANTS fix, feature, none

(* A push that changes the package alone, and one that takes the release   *)
(* back.                                                                   *)
SamePlan == <<fix, fix, none>>
SameBuild == <<1, 2, 2>>
Bump == [files \in Files |-> files]
=============================================================================

--------------------------- MODULE MCLiveRelease ---------------------------
(* Instances of LiveRelease for TLC.                                       *)
EXTENDS LiveClaims

CONSTANTS sbom, announce, mirror

NoAssets == <<>>
OneAsset == <<sbom>>
NoHooks == <<>>
OptionalHook == <<[id |-> announce, required |-> FALSE]>>
BothHooks == <<[id |-> announce, required |-> FALSE],
               [id |-> mirror, required |-> TRUE]>>
RequiredHook == <<[id |-> mirror, required |-> TRUE]>>
=============================================================================

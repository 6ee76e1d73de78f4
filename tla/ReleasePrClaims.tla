-------------------------- MODULE ReleasePrClaims --------------------------
(***************************************************************************)
(* What the documents and the program's own messages say of the rolling    *)
(* release PR and the code does not do: TLC finds it violated.              *)
(***************************************************************************)
EXTENDS ReleasePr

(* src/forge.rs:1006: "release-glz detected commits not created by the     *)
(* bot. This PR is being closed without overwriting them".  A job that was *)
(* killed between the reset of the branch and its commit leaves a branch   *)
(* that nobody committed to (upsert_release_pr).                           *)
BlamesOnlyPeople ==
  [][WriterAt("ref") /\ writer'.at = "discard" =>
       /\ refs[writer.branch] # NoCommit
       /\ Tree(refs[writer.branch]).extra # {}]_vars
=============================================================================

--------------------------- MODULE OrderedRelease ---------------------------
(***************************************************************************)
(* What publication promises to everyone who watches it from outside:      *)
(* the stages of a release are published one at a time, each one only      *)
(* after everything that it rests on, none is ever taken back, and a run   *)
(* that claims success claims it of a release that is complete.            *)
(*                                                                         *)
(* How often runs start, fail or are killed, and what they observe, is     *)
(* not visible here.  LiveRelease implements this module.                  *)
(***************************************************************************)
CONSTANTS
  Stages,     \* what a release publishes
  Essential,   \* the stages without which it is not complete
  Needs       \* for each stage, the stages it may not precede

VARIABLES
  published,  \* the stages that are published
  verdict     \* what the newest run claims: nothing yet, success or failure

vars == <<published, verdict>>

Verdicts == {"running", "success", "failure"}

Init == published = {} /\ verdict = "running"

Publish(s) ==
  /\ s \notin published
  /\ Needs[s] \subseteq published
  /\ published' = published \cup {s}
  /\ UNCHANGED verdict

Claim(v) ==
  /\ v = "success" => Essential \subseteq published
  /\ verdict' = v
  /\ UNCHANGED published

Next == \/ \E s \in Stages : Publish(s)
        \/ \E v \in Verdicts : Claim(v)

Spec == Init /\ [][Next]_vars

(* A success, once claimed, stays true: no later run, and no request that  *)
(* an earlier run left behind, makes the release incomplete again.         *)
SuccessLasts == verdict = "success" => Essential \subseteq published
=============================================================================

------------------------------- MODULE World -------------------------------
(***************************************************************************)
(* What a release is published to: the package registry, the GitHub        *)
(* repository with its tags and Releases, and the services that the notify *)
(* hooks reach.  None of it is in the repository; it is modelled from how  *)
(* registry.rs, forge.rs and hooks.rs use it.                              *)
(*                                                                         *)
(* A request whose answer is lost stays in flight: it may take effect at   *)
(* any later time, in the middle of a later run too, or never.             *)
(***************************************************************************)
EXTENDS Naturals, Sequences, FiniteSets

CONSTANTS
  Assets,        \* the names of the assets that the Candidate seals
  Hooks,         \* the ids of its notify hooks
  Rivals,        \* what others may do to the release, each at most once
  MaxReleases    \* bound: Releases with the Candidate's tag

ASSUME WorldAssumption ==
  /\ Rivals \subseteq {"tag", "package", "docs", "release", "asset", "extra",
                       "finalize"}
  /\ MaxReleases \in Nat \ {0}

VARIABLES
  tag, package, docs,   \* nothing, what the Candidate describes, or another
  releases,             \* the Releases with the tag, in order of creation
  visible,              \* what the registry already shows of what it holds
  delivered,            \* the notifications that were delivered
  sent,                 \* requests that may still take effect
  rivals                \* what others have done

worldVars == <<tag, package, docs, releases, visible, delivered, sent, rivals>>

Held == {"none", "mine", "other"}
AssetHeld == Held \cup {"unfinished"}
Release == [mine : BOOLEAN, draft : BOOLEAN, assets : [Assets -> AssetHeld],
            deleted : [Assets -> Nat], extra : {"none", "uploaded", "unfinished"}]

NewDraft(mine) == [mine |-> mine, draft |-> TRUE,
                   assets |-> [a \in Assets |-> "none"],
                   deleted |-> [a \in Assets |-> 0], extra |-> "none"]

(***************************************************************************)
(* Requests.  A finalization names a Release and an upload an asset name   *)
(* in it.  A delete names one asset by its id: the nth that took the name. *)
(* A notification names its hook.                                          *)
(***************************************************************************)
Request(op) == [op |-> op]
ReleaseRequest(op, id) == [op |-> op, release |-> id]
UploadRequest(id, a) == [op |-> "upload", release |-> id, asset |-> a]
DeleteRequest(id, a, n) == [op |-> "delete", release |-> id, asset |-> a, nth |-> n]
NotifyRequest(h) == [op |-> "notify", hook |-> h]

(* Whether the service that receives r takes it.  GitHub does not refuse a *)
(* second draft for a tag; the bound on Releases stands in for its limit.  *)
Accepts(r) ==
  CASE r.op = "tag"      -> tag = "none"
    [] r.op = "draft"    -> Len(releases) < MaxReleases
    [] r.op = "package"  -> package = "none"
    [] r.op = "docs"     -> package # "none" /\ docs = "none"
    [] r.op = "upload"   -> releases[r.release].assets[r.asset] = "none"
    [] r.op = "delete"   -> /\ releases[r.release].deleted[r.asset] = r.nth
                            /\ releases[r.release].assets[r.asset] # "none"
    [] OTHER             -> TRUE

SetAsset(id, a, held) == releases' = [releases EXCEPT ![id].assets[a] = held]

(* r takes effect, and the requests in flight become rest.                 *)
Commits(r, rest) ==
  /\ sent' = rest
  /\ tag' = IF r.op = "tag" THEN "mine" ELSE tag
  /\ package' = IF r.op = "package" THEN "mine" ELSE package
  /\ docs' = IF r.op = "docs" THEN "mine" ELSE docs
  /\ delivered' = IF r.op = "notify" THEN delivered \cup {r.hook} ELSE delivered
  /\ CASE r.op = "draft"    -> releases' = Append(releases, NewDraft(TRUE))
       [] r.op = "finalize" -> releases' = [releases EXCEPT ![r.release].draft = FALSE]
       [] r.op = "upload"   -> SetAsset(r.release, r.asset, "mine")
       [] r.op = "delete"   ->
            releases' = [releases EXCEPT ![r.release].assets[r.asset] = "none",
                                         ![r.release].deleted[r.asset] = @ + 1]
       [] OTHER             -> UNCHANGED releases
  /\ UNCHANGED <<visible, rivals>>

(* An upload breaks off: GitHub keeps the name of an unfinished asset.     *)
BreaksOff(r) ==
  /\ r.op = "upload"
  /\ Accepts(r)
  /\ SetAsset(r.release, r.asset, "unfinished")
  /\ UNCHANGED <<tag, package, docs, visible, delivered, sent, rivals>>

(* A request in flight takes effect, or is refused.                        *)
LateCommit(r) ==
  \/ Accepts(r) /\ Commits(r, sent \ {r})
  \/ /\ ~Accepts(r)
     /\ sent' = sent \ {r}
     /\ UNCHANGED <<tag, package, docs, releases, visible, delivered, rivals>>

(* The registry shows what it holds some time after it accepted it.        *)
Surfaces(what) ==
  /\ what \notin visible
  /\ (IF what = "package" THEN package ELSE docs) # "none"
  /\ what = "docs" => "package" \in visible
  /\ visible' = visible \cup {what}
  /\ UNCHANGED <<tag, package, docs, releases, delivered, sent, rivals>>

(* Another publisher, or a person at GitHub, acts on the same release.     *)
RivalActs(what) ==
  /\ what \in Rivals \ rivals
  /\ rivals' = rivals \cup {what}
  /\ \/ what = "tag" /\ tag = "none" /\ tag' = "other"
        /\ UNCHANGED <<package, docs, releases>>
     \/ what = "package" /\ package = "none" /\ package' = "other"
        /\ UNCHANGED <<tag, docs, releases>>
     \/ what = "docs" /\ package # "none" /\ docs = "none" /\ docs' = "other"
        /\ UNCHANGED <<tag, package, releases>>
     \/ what = "release" /\ Len(releases) < MaxReleases
        /\ releases' = Append(releases, NewDraft(FALSE))
        /\ UNCHANGED <<tag, package, docs>>
     \/ what = "asset"
        /\ \E id \in DOMAIN releases, a \in Assets :
             releases[id].assets[a] = "none" /\ SetAsset(id, a, "other")
        /\ UNCHANGED <<tag, package, docs>>
     \/ what = "extra"
        /\ \E id \in DOMAIN releases, held \in {"uploaded", "unfinished"} :
             releases' = [releases EXCEPT ![id].extra = held]
        /\ UNCHANGED <<tag, package, docs>>
     \/ what = "finalize"
        /\ \E id \in DOMAIN releases :
             releases[id].draft /\ releases' = [releases EXCEPT ![id].draft = FALSE]
        /\ UNCHANGED <<tag, package, docs>>
  /\ UNCHANGED <<visible, delivered, sent>>

WorldInit ==
  /\ tag = "none" /\ package = "none" /\ docs = "none"
  /\ releases = <<>>
  /\ visible = {} /\ delivered = {} /\ sent = {} /\ rivals = {}

WorldNext ==
  \/ \E r \in sent : LateCommit(r)
  \/ \E what \in {"package", "docs"} : Surfaces(what)
  \/ \E what \in Rivals : RivalActs(what)
=============================================================================

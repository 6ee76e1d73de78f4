----------------------------- MODULE ReleasePr -----------------------------
(***************************************************************************)
(* The rolling release PR: the release-pr job that writes it from the tip  *)
(* of the default branch (write_rolling_release_pr, upsert_release_pr and  *)
(* close_managed_release_pr), the bind job that records on it what the     *)
(* rehearsal of its head produced (bind_release_pr_intent), and what the   *)
(* merge of the PR then authorizes (merged_release_pr).                    *)
(*                                                                         *)
(* The two jobs run in concurrency groups of their own, so there is one of *)
(* each at a time and their requests interleave.  People push to the       *)
(* default branch and to the release branch, edit, close and merge the PR  *)
(* between any two requests, and a job may be killed anywhere.             *)
(*                                                                         *)
(* An operator right before another with the same parameters, named for    *)
(* what is wrong with it, is a mutant and part of no specification.        *)
(***************************************************************************)
EXTENDS Naturals, Sequences, FiniteSets

CONSTANTS
  PlanOf,     \* the release files that the plan after each push renders
  BuildOf,    \* the package that is built after each push
  VersionOf,  \* the version that release files are for
  NoFiles,    \* a plan that needs no release
  Merges,     \* whether people merge
  MaxPulls,   \* bound: pull requests
  MaxPeople,  \* bound: pushes to the release branch, edits and closes
  MaxKills    \* bound: killed jobs

(* All that the release files may be.                                      *)
Files == {PlanOf[i] : i \in DOMAIN PlanOf} \cup {NoFiles}

ASSUME ReleasePrAssumption ==
  /\ PlanOf \in Seq(Files) /\ PlanOf # <<>>
  /\ BuildOf \in [DOMAIN PlanOf -> Nat \ {0}]
  /\ DOMAIN VersionOf = Files
  /\ Merges \in BOOLEAN
  /\ {MaxPulls, MaxPeople, MaxKills} \subseteq Nat

VARIABLES
  commits,  \* every commit, by number
  main,     \* the tip of the default branch
  refs,     \* the release branches, in order of creation: a commit or NoCommit
  pulls,    \* the pull requests, in order of creation; each also records the
            \* intent in its marker when it merged, which no job reads
  writer,   \* the release-pr job
  binder,   \* the bind job
  heads,    \* the heads that the release-pr job handed to a rehearsal
  people,   \* how often people acted
  kills     \* how many jobs were killed

vars == <<commits, main, refs, pulls, writer, binder, heads, people, kills>>

NoCommit == 0
NoPull == 0

(* The content of a commit: how many pushes it holds, the release files it *)
(* holds, and what people added to the release branch, which may be part   *)
(* of the package that is built or not.                                    *)
Extras == {"built", "unbuilt"}

Tree(c) == commits[c].tree

Commit(parent, tree, generated) ==
  [parent |-> parent, tree |-> tree, generated |-> generated]

(* The intent digest that a rehearsal of commit c computes names the       *)
(* package that is built, and not the commit.                              *)
Intent(c) == [build |-> BuildOf[Tree(c).pushes], files |-> Tree(c).files,
              extra |-> Tree(c).extra \ {"unbuilt"}]

NoIntent == [build |-> 0, files |-> NoFiles, extra |-> {}]

Plan(c) == PlanOf[Tree(c).pushes]

(* A commit of the shape that the job generates, with the digest of files. *)
Generated(c, files) == commits[c].generated /\ Tree(c).files = files

Marker(head, files, intent) == [head |-> head, files |-> files, intent |-> intent]

(* While a PR is open its head is the branch, and then what that last was. *)
HeadOf(p) == IF pulls[p].state = "open" THEN refs[pulls[p].branch] ELSE pulls[p].head

Open == {p \in DOMAIN pulls : pulls[p].state = "open"}

(* The first open PR with a marker.                                        *)
ManagedAsWritten ==
  LET described == {p \in Open : pulls[p].marker.head = HeadOf(p)}
  IN IF described = {} THEN NoPull
     ELSE CHOOSE p \in described : \A q \in described : p <= q

Managed == IF Open = {} THEN NoPull
           ELSE CHOOSE p \in Open : \A q \in Open : p <= q

(* The marker of p describes its head, and that is what the job generates. *)
Described(p) ==
  /\ pulls[p].marker.head = HeadOf(p)
  /\ Generated(HeadOf(p), pulls[p].marker.files)

SetMarker(p, marker, note) ==
  pulls' = [pulls EXCEPT ![p].marker = marker, ![p].note = note]

ClosesMerged(p) ==
  pulls' = [pulls EXCEPT ![p].state = "closed", ![p].head = HeadOf(p)]

(* Closing a PR that is closed or merged changes nothing.                  *)
ClosePull(p) ==
  pulls' = [pulls EXCEPT ![p].state = IF @ = "open" THEN "closed" ELSE @,
                         ![p].head = HeadOf(p)]

(***************************************************************************)
(* The pull request that a merge came from.                                *)
(***************************************************************************)
IsNamedBy(p, m) == pulls[p].state = "merged" /\ pulls[p].merge = m

IsMergeOf(p, m) ==
  /\ pulls[p].state = "merged"
  /\ pulls[p].merge = m
  /\ pulls[p].marker.head = pulls[p].head
  /\ Generated(pulls[p].head, pulls[p].marker.files)

(* The merge m approves the Candidate that was prepared from it.           *)
Authorized(m) ==
  \E p \in DOMAIN pulls : IsMergeOf(p, m) /\ pulls[p].marker.intent = Intent(m)

(***************************************************************************)
(* The release-pr job.                                                     *)
(***************************************************************************)
IdleWriter == [at |-> "idle", base |-> NoCommit, pull |-> NoPull,
               marker |-> Marker(NoCommit, NoFiles, NoIntent),
               actual |-> NoCommit, branch |-> 0, head |-> NoCommit]

WriterAt(step) == writer.at = step
WriterGoes(step) == writer' = [writer EXCEPT !.at = step]
WriterEnds == writer' = IdleWriter

(* The job starts from the default branch's tip, which is its checkout; on *)
(* any other tip it ends without a write.                                  *)
WriterReadsTip ==
  /\ WriterAt("idle")
  /\ writer' = [IdleWriter EXCEPT !.at = "merged", !.base = main]
  /\ UNCHANGED <<commits, main, refs, pulls, binder, heads, people, kills>>

(* A merge answers for the version that its marker names, and no other.    *)
IsPending(files) ==
  \E p \in DOMAIN pulls :
    IsMergeOf(p, writer.base) /\ VersionOf[pulls[p].marker.files] = VersionOf[files]

WriterChecksMerge ==
  /\ WriterAt("merged")
  /\ IF Plan(writer.base) = NoFiles THEN WriterGoes("find")
     ELSE IF IsPending(Plan(writer.base))
             \/ Plan(writer.base) = Tree(writer.base).files
       THEN WriterEnds
       ELSE WriterGoes("list")
  /\ UNCHANGED <<commits, main, refs, pulls, binder, heads, people, kills>>

WriterLists ==
  /\ WriterAt("list")
  /\ writer' = IF Managed = NoPull THEN [writer EXCEPT !.at = "branch"]
               ELSE [writer EXCEPT !.at = "ref", !.pull = Managed,
                                   !.marker = pulls[Managed].marker,
                                   !.branch = pulls[Managed].branch]
  /\ UNCHANGED <<commits, main, refs, pulls, binder, heads, people, kills>>

(* The commit on the branch is the one that the job would generate.        *)
CurrentOnAnyTip(actual) == Generated(actual, Plan(writer.base))

Current(actual) ==
  /\ Generated(actual, Plan(writer.base))
  /\ commits[actual].parent = writer.base

WriterReadsBranch ==
  /\ WriterAt("ref")
  /\ LET actual == refs[writer.branch]
     IN \/ /\ actual # NoCommit
           /\ Current(actual)
           /\ IF writer.marker.head = actual /\ writer.marker.files = Plan(writer.base)
                THEN heads' = heads \cup {actual} /\ WriterEnds
                ELSE /\ writer' = [writer EXCEPT !.at = "repair", !.head = actual]
                     /\ UNCHANGED heads
        \/ /\ actual # NoCommit
           /\ commits[actual].generated
           /\ ~Current(actual)
           /\ writer' = [writer EXCEPT !.at = "reset", !.actual = actual]
           /\ UNCHANGED heads
        \/ /\ actual = NoCommit \/ ~commits[actual].generated
           /\ WriterGoes("discard")
           /\ UNCHANGED heads
  /\ UNCHANGED <<commits, main, refs, pulls, binder, people, kills>>

(* An intent belongs to the rehearsal of one head.                         *)
KeptAnyway(marker, head) == marker.intent

KeptIntent(marker, head) == IF marker.head = head THEN marker.intent ELSE NoIntent

(* The PR describes another commit than its branch holds: its body is      *)
(* rendered again.                                                         *)
WriterRepairs ==
  /\ WriterAt("repair")
  /\ SetMarker(writer.pull, Marker(writer.head, Plan(writer.base),
                                   KeptIntent(writer.marker, writer.head)), FALSE)
  /\ heads' = heads \cup {writer.head}
  /\ WriterEnds
  /\ UNCHANGED <<commits, main, refs, binder, people, kills>>

(* Branches move by compare and swap: the update fails when the branch no  *)
(* longer holds the commit that was checked.                               *)
MovesForced(branch, from) == refs[branch] # NoCommit

Moves(branch, from) == refs[branch] = from

(* GitHub may close a PR whose branch has no commit of its own.            *)
WriterResets ==
  /\ WriterAt("reset")
  /\ IF Moves(writer.branch, writer.actual)
       THEN /\ refs' = [refs EXCEPT ![writer.branch] = writer.base]
            /\ UNCHANGED pulls \/ ClosePull(writer.pull)
            /\ WriterGoes("commit")
       ELSE UNCHANGED <<refs, pulls>> /\ WriterEnds
  /\ UNCHANGED <<commits, main, binder, heads, people, kills>>

(* The branch holds work of people: the PR is closed, and the branch stays.*)
WriterDiscards ==
  /\ WriterAt("discard")
  /\ ClosePull(writer.pull)
  /\ writer' = [writer EXCEPT !.at = "branch", !.pull = NoPull]
  /\ UNCHANGED <<commits, main, refs, binder, heads, people, kills>>

WriterCreatesBranch ==
  /\ WriterAt("branch")
  /\ Len(pulls) < MaxPulls
  /\ Len(refs) < MaxPulls + MaxPeople + MaxKills
  /\ refs' = Append(refs, writer.base)
  /\ writer' = [writer EXCEPT !.at = "commit", !.branch = Len(refs) + 1]
  /\ UNCHANGED <<commits, main, pulls, binder, heads, people, kills>>

WriterCommits ==
  /\ WriterAt("commit")
  /\ IF Moves(writer.branch, writer.base)
       THEN /\ commits' = Append(commits,
                 Commit(writer.base,
                        [Tree(writer.base) EXCEPT !.files = Plan(writer.base)], TRUE))
            /\ refs' = [refs EXCEPT ![writer.branch] = Len(commits) + 1]
            /\ writer' = [writer EXCEPT !.at = "describe", !.head = Len(commits) + 1]
       ELSE UNCHANGED <<commits, refs>> /\ WriterEnds
  /\ UNCHANGED <<main, pulls, binder, heads, people, kills>>

WriterDescribes ==
  /\ WriterAt("describe")
  /\ LET marker == Marker(writer.head, Plan(writer.base), NoIntent)
     IN IF writer.pull # NoPull
          THEN SetMarker(writer.pull, marker, FALSE)
          ELSE pulls' = Append(pulls, [branch |-> writer.branch, state |-> "open",
                 marker |-> marker, note |-> FALSE, head |-> NoCommit,
                 merge |-> NoCommit, approved |-> NoIntent])
  /\ heads' = heads \cup {writer.head}
  /\ WriterEnds
  /\ UNCHANGED <<commits, main, refs, binder, people, kills>>

(* The plan needs no release: a release PR that its marker describes is    *)
(* closed.                                                                 *)
WriterFinds ==
  /\ WriterAt("find")
  /\ IF \E p \in Open : Described(p)
       THEN \E p \in Open :
              /\ Described(p)
              /\ writer' = [writer EXCEPT !.at = "delete", !.pull = p,
                              !.branch = pulls[p].branch, !.actual = HeadOf(p)]
       ELSE WriterEnds
  /\ UNCHANGED <<commits, main, refs, pulls, binder, heads, people, kills>>

(* GitHub closes a PR whose branch is gone.                                *)
WriterDeletes ==
  /\ WriterAt("delete")
  /\ IF Moves(writer.branch, writer.actual)
       THEN /\ refs' = [refs EXCEPT ![writer.branch] = NoCommit]
            /\ ClosePull(writer.pull)
       ELSE UNCHANGED <<refs, pulls>>
  /\ WriterEnds
  /\ UNCHANGED <<commits, main, binder, heads, people, kills>>

WriterSteps ==
  \/ WriterReadsTip \/ WriterChecksMerge \/ WriterLists \/ WriterReadsBranch
  \/ WriterRepairs \/ WriterResets \/ WriterDiscards \/ WriterCreatesBranch
  \/ WriterCommits \/ WriterDescribes \/ WriterFinds \/ WriterDeletes

(***************************************************************************)
(* The bind job, for a head that was rehearsed.                            *)
(***************************************************************************)
IdleBinder == [at |-> "idle", head |-> NoCommit, pull |-> NoPull,
               marker |-> Marker(NoCommit, NoFiles, NoIntent), note |-> FALSE]

BinderAt(step) == binder.at = step
BinderEnds == binder' = IdleBinder

(* An open PR with this head whose marker describes it and that is not     *)
(* bound yet.  One bound to the same intent needs nothing, and any other   *)
(* ends the job.                                                           *)
BinderLists ==
  /\ BinderAt("idle")
  /\ \E h \in heads, p \in Open :
       /\ HeadOf(p) = h
       /\ Described(p)
       /\ pulls[p].marker.intent = NoIntent
       /\ binder' = [at |-> "read", head |-> h, pull |-> p,
                     marker |-> pulls[p].marker, note |-> pulls[p].note]
  /\ UNCHANGED <<commits, main, refs, pulls, writer, heads, people, kills>>

(* The PR is read again, since the release-pr job may have rewritten it.   *)
SameText(p) == pulls[p].marker = binder.marker /\ pulls[p].note = binder.note
SameHead(p) == HeadOf(p) = binder.head

BinderReadsAgain ==
  /\ BinderAt("read")
  /\ IF SameHead(binder.pull) /\ SameText(binder.pull)
       THEN binder' = [binder EXCEPT !.at = "write"]
       ELSE BinderEnds
  /\ UNCHANGED <<commits, main, refs, pulls, writer, heads, people, kills>>

BinderWrites ==
  /\ BinderAt("write")
  /\ SetMarker(binder.pull, [binder.marker EXCEPT !.intent = Intent(binder.head)],
               binder.note)
  /\ BinderEnds
  /\ UNCHANGED <<commits, main, refs, writer, heads, people, kills>>

BinderSteps == BinderLists \/ BinderReadsAgain \/ BinderWrites

(***************************************************************************)
(* People, and killed jobs.                                                *)
(***************************************************************************)
Merged == \E p \in DOMAIN pulls : pulls[p].state = "merged"

(* Bound: nobody pushes to the default branch after the merge.             *)
PersonPushes ==
  /\ Tree(main).pushes < Len(PlanOf)
  /\ ~Merged
  /\ commits' = Append(commits, Commit(main, [Tree(main) EXCEPT !.pushes = @ + 1], FALSE))
  /\ main' = Len(commits) + 1
  /\ UNCHANGED <<refs, pulls, writer, binder, heads, people, kills>>

PersonActs == people < MaxPeople /\ people' = people + 1

PersonPushesToBranch ==
  /\ PersonActs
  /\ \E b \in DOMAIN refs, extra \in Extras :
       /\ refs[b] # NoCommit
       /\ commits' = Append(commits,
            Commit(refs[b], [Tree(refs[b]) EXCEPT !.extra = @ \cup {extra}], FALSE))
       /\ refs' = [refs EXCEPT ![b] = Len(commits) + 1]
  /\ UNCHANGED <<main, pulls, writer, binder, heads, kills>>

PersonEdits ==
  /\ PersonActs
  /\ \E p \in Open : ~pulls[p].note /\ SetMarker(p, pulls[p].marker, TRUE)
  /\ UNCHANGED <<commits, main, refs, writer, binder, heads, kills>>

PersonCloses ==
  /\ PersonActs
  /\ \E p \in Open : ClosePull(p)
  /\ UNCHANGED <<commits, main, refs, writer, binder, heads, kills>>

(* The merge holds what the default branch and the PR hold together.       *)
PersonMerges ==
  /\ Merges
  /\ ~Merged
  /\ \E p \in Open :
       LET h == HeadOf(p)
       IN /\ h # main
          /\ commits' = Append(commits, Commit(main,
               [pushes |-> Tree(main).pushes, files |-> Tree(h).files,
                extra |-> Tree(h).extra], FALSE))
          /\ pulls' = [pulls EXCEPT ![p].state = "merged", ![p].head = h,
                         ![p].merge = Len(commits) + 1,
                         ![p].approved = pulls[p].marker.intent]
  /\ main' = Len(commits) + 1
  /\ UNCHANGED <<refs, writer, binder, heads, people, kills>>

JobIsKilled ==
  /\ kills < MaxKills
  /\ kills' = kills + 1
  /\ \/ ~WriterAt("idle") /\ WriterEnds /\ UNCHANGED binder
     \/ ~BinderAt("idle") /\ BinderEnds /\ UNCHANGED writer
  /\ UNCHANGED <<commits, main, refs, pulls, heads, people>>

People ==
  \/ PersonPushes \/ PersonPushesToBranch \/ PersonEdits \/ PersonCloses
  \/ PersonMerges

Init ==
  /\ commits = <<Commit(NoCommit, [pushes |-> 1, files |-> NoFiles, extra |-> {}],
                        FALSE)>>
  /\ main = 1
  /\ refs = <<>>
  /\ pulls = <<>>
  /\ writer = IdleWriter
  /\ binder = IdleBinder
  /\ heads = {}
  /\ people = 0
  /\ kills = 0

Next == WriterSteps \/ BinderSteps \/ People \/ JobIsKilled

Spec == Init /\ [][Next]_vars

(* Both jobs go on while they can, and are run again when they ended.      *)
FairSpec == Spec /\ WF_vars(WriterSteps) /\ WF_vars(BinderSteps)

(***************************************************************************)
(* Properties.                                                             *)
(***************************************************************************)
TypeOK ==
  /\ main \in DOMAIN commits
  /\ \A b \in DOMAIN refs : refs[b] \in DOMAIN commits \cup {NoCommit}
  /\ \A p \in DOMAIN pulls :
       /\ pulls[p].branch \in DOMAIN refs
       /\ pulls[p].state \in {"open", "closed", "merged"}
       /\ pulls[p].marker.head \in DOMAIN commits
       /\ pulls[p].merge \in DOMAIN commits \cup {NoCommit}
       /\ pulls[p].merge # NoCommit <=> pulls[p].state = "merged"
  /\ writer.branch \in DOMAIN refs \cup {0}
  /\ heads \subseteq DOMAIN commits
  /\ people \in 0..MaxPeople /\ kills \in 0..MaxKills

(* A marker never carries an intent of another head than the one it names, *)
(* through repairs, replaced heads and stale writes of the bind job        *)
(* (upsert_release_pr, bind_release_pr_intent).                            *)
IntentOfItsHead ==
  \A p \in DOMAIN pulls :
    LET marker == pulls[p].marker
    IN marker.intent # NoIntent => marker.intent = Intent(marker.head)

(* A merge authorizes a publication only of a package that was rehearsed,  *)
(* and brings in no commit of a person, not even one that the package      *)
(* doesn't show (merged_release_pr, bind_release_pr_intent).               *)
AuthorizedWasRehearsed ==
  Authorized(main) =>
    \E p \in DOMAIN pulls :
      /\ pulls[p].merge = main
      /\ pulls[p].head \in heads
      /\ Intent(pulls[p].head) = Intent(main)
      /\ Tree(main).extra = {}

(* What a person pushed to a release branch is never overwritten or        *)
(* deleted by the job, however the push and the job's checks interleave    *)
(* (reset_branch, update_ref, create_commit).                              *)
WorkOfPeopleStays ==
  [][\A b \in DOMAIN refs :
       refs[b] # NoCommit /\ ~commits[refs[b]].generated =>
         /\ refs'[b] # NoCommit
         /\ Tree(refs[b]).extra \subseteq commits'[refs'[b]].tree.extra]_vars

(* There is at most one open release PR, through killed jobs and branches  *)
(* that were given up (upsert_release_pr).                                 *)
OneOpenPull == Cardinality(Open) <= 1

(* When people let it be, the jobs bring the PR to the plan of the tip and *)
(* bind its intent, or leave no PR that its marker describes when the plan *)
(* needs no release.                                                       *)
Settled ==
  IF Plan(main) = NoFiles
    THEN ~\E p \in Open : Described(p)
    ELSE \E p \in Open :
           /\ Described(p)
           /\ Generated(HeadOf(p), Plan(main))
           /\ commits[HeadOf(p)].parent = main
           /\ pulls[p].marker.intent = Intent(HeadOf(p))

EventuallySettled == <>[](Settled \/ Merged \/ Len(pulls) = MaxPulls)
=============================================================================

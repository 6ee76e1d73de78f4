-------------------------- MODULE ReleasePrProofs --------------------------
(***************************************************************************)
(* Safety of the rolling release PR, for every sequence of plans and every *)
(* number of pull requests, acts of people and killed jobs.                *)
(***************************************************************************)
EXTENDS ReleasePr, TLAPS, FiniteSetTheorems, SequenceTheorems

(***************************************************************************)
(* Types.                                                                  *)
(***************************************************************************)
Trees == [pushes : DOMAIN PlanOf, files : Files, extra : SUBSET Extras]
Commits == [parent : Nat, tree : Trees, generated : BOOLEAN]
Intents == [build : Nat, files : Files, extra : SUBSET Extras]
Markers == [head : Nat, files : Files, intent : Intents]
Pulls == [branch : Nat, state : {"open", "closed", "merged"}, marker : Markers,
          note : BOOLEAN, head : Nat, merge : Nat, approved : Intents]
WriterPlaces == {"idle", "merged", "list", "ref", "repair", "reset", "discard",
                 "branch", "commit", "describe", "find", "delete"}
Writers == [at : WriterPlaces, base : Nat, pull : Nat, marker : Markers,
            actual : Nat, branch : Nat, head : Nat]
Binders == [at : {"idle", "read", "write"}, head : Nat, pull : Nat,
            marker : Markers, note : BOOLEAN]

Typed ==
  /\ commits \in Seq(Commits)
  /\ main \in Nat
  /\ refs \in Seq(Nat)
  /\ pulls \in Seq(Pulls)
  /\ writer \in Writers
  /\ binder \in Binders
  /\ people \in 0..MaxPeople
  /\ kills \in 0..MaxKills

(* Whatever is referred to exists.                                         *)
PullSound(p) ==
  /\ pulls[p].branch \in DOMAIN refs
  /\ pulls[p].marker.head \in DOMAIN commits
  /\ pulls[p].head \in DOMAIN commits \cup {NoCommit}
  /\ pulls[p].merge \in DOMAIN commits \cup {NoCommit}
  /\ pulls[p].merge # NoCommit <=> pulls[p].state = "merged"
  /\ pulls[p].state = "open" => refs[pulls[p].branch] # NoCommit

WriterSound ==
  /\ writer.at # "idle" => writer.base \in DOMAIN commits
  /\ writer.branch \in DOMAIN refs \cup {0}
  /\ writer.pull \in DOMAIN pulls \cup {NoPull}
  /\ writer.at \in {"ref", "repair", "reset", "discard", "commit", "describe", "delete"} =>
       writer.branch \in DOMAIN refs
  /\ writer.at \in {"ref", "repair", "reset", "discard", "delete"} =>
       writer.pull \in DOMAIN pulls
  /\ writer.at \in {"commit", "describe"} => refs[writer.branch] # NoCommit
  /\ writer.at \in {"repair", "describe"} => writer.head \in DOMAIN commits
  /\ writer.at \in {"reset", "delete"} =>
       writer.actual \in DOMAIN commits /\ commits[writer.actual].generated

BinderSound ==
  binder.at # "idle" =>
    /\ binder.pull \in DOMAIN pulls
    /\ binder.head \in DOMAIN commits
    /\ binder.marker.head = binder.head

Sound ==
  /\ main \in DOMAIN commits
  /\ heads \subseteq DOMAIN commits
  /\ \A b \in DOMAIN refs : refs[b] \in DOMAIN commits \cup {NoCommit}
  /\ \A p \in DOMAIN pulls : PullSound(p)
  /\ WriterSound
  /\ BinderSound

(***************************************************************************)
(* Facts about the operators.                                              *)
(***************************************************************************)
LEMMA Constants ==
  /\ PlanOf \in Seq(Files) /\ 1 \in DOMAIN PlanOf /\ DOMAIN PlanOf \subseteq Nat
  /\ \A i \in DOMAIN PlanOf : PlanOf[i] \in Files /\ BuildOf[i] \in Nat \ {0}
  /\ NoFiles \in Files
  /\ NoIntent \in Intents
BY ReleasePrAssumption DEF ReleasePrAssumption, Files, NoIntent, Intents

(* A new commit leaves the others as they are.                             *)
LEMMA AppendSound ==
  ASSUME NEW S, NEW s \in Seq(S), NEW e \in S
  PROVE  /\ Append(s, e) \in Seq(S)
         /\ DOMAIN Append(s, e) = DOMAIN s \cup {Len(s) + 1}
         /\ Append(s, e)[Len(s) + 1] = e
         /\ \A i \in DOMAIN s : Append(s, e)[i] = s[i]
         /\ Len(s) + 1 \notin DOMAIN s
         /\ Len(s) + 1 \in Nat \ {0}
         /\ 0 \notin DOMAIN s
BY AppendProperties

LEMMA UpdateSound ==
  ASSUME NEW S, NEW s \in Seq(S), NEW i \in DOMAIN s, NEW e \in S
  PROVE  /\ [s EXCEPT ![i] = e] \in Seq(S)
         /\ DOMAIN [s EXCEPT ![i] = e] = DOMAIN s
         /\ [s EXCEPT ![i] = e][i] = e
         /\ \A j \in DOMAIN s : j # i => [s EXCEPT ![i] = e][j] = s[j]
BY ExceptSeq

LEMMA CommitAdded ==
  ASSUME commits \in Seq(Commits), NEW commit \in Commits,
         commits' = Append(commits, commit)
  PROVE  /\ commits' \in Seq(Commits)
         /\ DOMAIN commits' = DOMAIN commits \cup {Len(commits) + 1}
         /\ commits'[Len(commits) + 1] = commit
         /\ \A c \in DOMAIN commits : commits'[c] = commits[c]
         /\ Len(commits) + 1 \notin DOMAIN commits
         /\ Len(commits) + 1 \in Nat \ {0}
BY AppendSound

LEMMA PullAdded ==
  ASSUME pulls \in Seq(Pulls), NEW pull \in Pulls, pulls' = Append(pulls, pull)
  PROVE  /\ pulls' \in Seq(Pulls)
         /\ DOMAIN pulls' = DOMAIN pulls \cup {Len(pulls) + 1}
         /\ pulls'[Len(pulls) + 1] = pull
         /\ \A p \in DOMAIN pulls : pulls'[p] = pulls[p]
BY AppendSound

LEMMA RefMoved ==
  ASSUME refs \in Seq(Nat), NEW b \in DOMAIN refs, NEW c \in Nat,
         refs' = [refs EXCEPT ![b] = c]
  PROVE  /\ refs' \in Seq(Nat) /\ DOMAIN refs' = DOMAIN refs
         /\ refs'[b] = c
         /\ \A a \in DOMAIN refs : a # b => refs'[a] = refs[a]
BY UpdateSound

LEMMA PullTyped ==
  ASSUME pulls \in Seq(Pulls), NEW p \in DOMAIN pulls
  PROVE  /\ pulls[p] \in Pulls
         /\ pulls[p].marker \in Markers
         /\ pulls[p].marker.intent \in Intents
         /\ pulls[p].branch \in Nat
         /\ p \in Nat \ {0}
<1>1. pulls[p] \in Pulls /\ p \in Nat \ {0}
  OBVIOUS
<1>2. pulls[p].marker \in Markers /\ pulls[p].branch \in Nat
  BY <1>1 DEF Pulls
<1>. QED  BY <1>1, <1>2 DEF Markers

LEMMA PullUpdated ==
  ASSUME pulls \in Seq(Pulls), NEW p \in DOMAIN pulls, NEW pull \in Pulls,
         pulls' = [pulls EXCEPT ![p] = pull]
  PROVE  /\ pulls' \in Seq(Pulls) /\ DOMAIN pulls' = DOMAIN pulls
         /\ pulls'[p] = pull
         /\ \A q \in DOMAIN pulls : q # p => pulls'[q] = pulls[q]
BY UpdateSound

LEMMA SetMarkerSound ==
  ASSUME pulls \in Seq(Pulls), NEW p \in DOMAIN pulls,
         NEW marker \in Markers, NEW note \in BOOLEAN,
         SetMarker(p, marker, note)
  PROVE  /\ pulls' \in Seq(Pulls)
         /\ DOMAIN pulls' = DOMAIN pulls
         /\ pulls'[p].marker = marker
         /\ \A q \in DOMAIN pulls :
              /\ pulls'[q].branch = pulls[q].branch
              /\ pulls'[q].state = pulls[q].state
              /\ pulls'[q].head = pulls[q].head
              /\ pulls'[q].merge = pulls[q].merge
              /\ pulls'[q].approved = pulls[q].approved
              /\ q # p => pulls'[q] = pulls[q]
<1> DEFINE e == [pulls[p] EXCEPT !.marker = marker, !.note = note]
<1>1. pulls[p] \in Pulls
  OBVIOUS
<1>2. e \in Pulls
  BY <1>1 DEF Pulls
<1>3. pulls' = [pulls EXCEPT ![p] = e]
  BY DEF SetMarker
<1> HIDE DEF e
<1>4. pulls' \in Seq(Pulls) /\ DOMAIN pulls' = DOMAIN pulls /\ pulls'[p] = e
      /\ \A q \in DOMAIN pulls : q # p => pulls'[q] = pulls[q]
  BY <1>2, <1>3, PullUpdated
<1>5. /\ e.marker = marker /\ e.branch = pulls[p].branch /\ e.state = pulls[p].state
      /\ e.head = pulls[p].head /\ e.merge = pulls[p].merge
      /\ e.approved = pulls[p].approved
  BY <1>1 DEF e, Pulls
<1>. QED  BY <1>4, <1>5

LEMMA HeadSound ==
  ASSUME Typed, Sound, NEW p \in DOMAIN pulls
  PROVE  HeadOf(p) \in DOMAIN commits \cup {NoCommit}
BY DEF Typed, Sound, PullSound, HeadOf

LEMMA ClosePullSound ==
  ASSUME Typed, Sound, NEW p \in DOMAIN pulls, ClosePull(p)
  PROVE  /\ pulls' \in Seq(Pulls)
         /\ DOMAIN pulls' = DOMAIN pulls
         /\ pulls'[p] = [pulls[p] EXCEPT
              !.state = IF pulls[p].state = "open" THEN "closed" ELSE pulls[p].state,
              !.head = HeadOf(p)]
         /\ \A q \in DOMAIN pulls : q # p => pulls'[q] = pulls[q]
<1> DEFINE state == IF pulls[p].state = "open" THEN "closed" ELSE pulls[p].state
           e == [pulls[p] EXCEPT !.state = state, !.head = HeadOf(p)]
<1>1. pulls[p] \in Pulls
  BY DEF Typed
<1>2. HeadOf(p) \in Nat
  BY HeadSound DEF Typed, NoCommit
<1>3. e \in Pulls
  BY <1>1, <1>2 DEF Pulls
<1>4. pulls' = [pulls EXCEPT ![p] = e]
  BY DEF ClosePull
<1>5. e = [pulls[p] EXCEPT
              !.state = IF pulls[p].state = "open" THEN "closed" ELSE pulls[p].state,
              !.head = HeadOf(p)]
  OBVIOUS
<1> HIDE DEF e
<1>6. pulls' \in Seq(Pulls) /\ DOMAIN pulls' = DOMAIN pulls /\ pulls'[p] = e
      /\ \A q \in DOMAIN pulls : q # p => pulls'[q] = pulls[q]
  BY <1>3, <1>4, UpdateSound DEF Typed
<1>7. QED
  BY <1>5, <1>6

(* At most one PR is open, and the job that goes on to open another one    *)
(* has seen that none is.                                                  *)
Single ==
  /\ \A p, q \in Open : p = q
  /\ writer.at = "branch" => Open = {}
  /\ writer.at \in {"commit", "describe"} /\ writer.pull = NoPull => Open = {}
  /\ writer.at \in {"ref", "repair", "reset", "discard", "delete"} =>
       Open \subseteq {writer.pull}

LEMMA ManagedSound ==
  ASSUME Typed, Single
  PROVE  /\ Managed = NoPull => Open = {}
         /\ Managed # NoPull => Open = {Managed} /\ Managed \in DOMAIN pulls
<1>1. Open \subseteq Nat \ {0}
  BY DEF Open, Typed
<1>2. CASE Open = {}
  BY <1>2 DEF Managed
<1>3. CASE Open # {}
  <2>1. PICK p \in Open : Open = {p}
    BY <1>3 DEF Single
  <2>2. \A q \in Open : p <= q
    BY <1>1, <2>1
  <2>3. Managed \in Open
    BY <1>3, <2>2 DEF Managed
  <2>. QED  BY <1>1, <2>1, <2>3 DEF Open, NoPull
<1>. QED  BY <1>2, <1>3

(***************************************************************************)
(* Every step keeps the types, and only adds to what exists.               *)
(***************************************************************************)
Adds ==
  /\ DOMAIN commits \subseteq DOMAIN commits'
  /\ \A c \in DOMAIN commits : commits'[c] = commits[c]
  /\ DOMAIN refs \subseteq DOMAIN refs'
  /\ DOMAIN pulls \subseteq DOMAIN pulls'
  /\ heads \subseteq heads'

LEMMA IdleTyped ==
  /\ IdleWriter \in Writers /\ IdleWriter.at = "idle"
  /\ IdleWriter.branch = 0 /\ IdleWriter.pull = 0
  /\ IdleBinder \in Binders /\ IdleBinder.at = "idle"
BY Constants DEF IdleWriter, IdleBinder, Writers, Binders, WriterPlaces, Marker, Markers,
   NoCommit, NoPull

LEMMA PlanTyped ==
  ASSUME Typed, NEW c \in DOMAIN commits
  PROVE  /\ Plan(c) \in Files
         /\ Tree(c) \in Trees
         /\ commits[c] \in Commits
         /\ Tree(c).pushes \in DOMAIN PlanOf
<1>1. commits[c] \in Commits
  BY DEF Typed
<1>. QED
  BY <1>1, Constants DEF Plan, Tree, Commits, Trees

LEMMA WriterTyped ==
  ASSUME Typed, Sound, Single, WriterSteps
  PROVE  Typed' /\ Adds
<1>0. Typed /\ Sound
  OBVIOUS
<1>1. CASE WriterReadsTip
  BY <1>0, <1>1, IdleTyped DEF WriterReadsTip, Writers, WriterPlaces, Typed, Adds
<1>2. CASE WriterChecksMerge
  BY <1>0, <1>2, IdleTyped DEF WriterChecksMerge, WriterAt, WriterGoes, WriterEnds,
     Writers, WriterPlaces, Typed, Adds
<1>3. CASE WriterLists
  <2>1. Managed # NoPull => Managed \in DOMAIN pulls
    BY ManagedSound
  <2>2. Managed # NoPull => pulls[Managed] \in Pulls /\ Managed \in Nat
    BY <1>0, <2>1 DEF Typed
  <2>3. writer' \in Writers
    BY <1>0, <1>3, <2>2 DEF WriterLists, Writers, WriterPlaces, Typed, Pulls
  <2>. QED
    BY <1>0, <1>3, <2>3 DEF WriterLists, Typed, Adds
<1>4. CASE WriterReadsBranch
  <2>1. refs[writer.branch] \in Nat
    <3>1. writer.at = "ref" /\ WriterSound /\ refs \in Seq(Nat)
      BY <1>0, <1>4 DEF WriterReadsBranch, WriterAt, Typed, Sound
    <3>2. writer.branch \in DOMAIN refs
      BY <3>1 DEF WriterSound
    <3>. QED  BY <3>1, <3>2
  <2>2. writer' \in Writers
    BY <1>0, <1>4, <2>1, IdleTyped DEF WriterReadsBranch, WriterEnds, WriterGoes, Writers,
       WriterPlaces, Typed
  <2>. QED
    BY <1>0, <1>4, <2>2 DEF WriterReadsBranch, Typed, Adds
<1>5. CASE WriterRepairs
  <2> DEFINE marker == Marker(writer.head, Plan(writer.base),
                              KeptIntent(writer.marker, writer.head))
  <2>1. writer.pull \in DOMAIN pulls /\ writer.base \in DOMAIN commits
    BY <1>0, <1>5 DEF WriterRepairs, WriterAt, Sound, WriterSound
  <2>2. marker \in Markers
    BY <1>0, <2>1, PlanTyped, Constants DEF Marker, Markers, KeptIntent, Typed, Writers
  <2>3. SetMarker(writer.pull, marker, FALSE)
    BY <1>5 DEF WriterRepairs
  <2>4. pulls' \in Seq(Pulls) /\ DOMAIN pulls' = DOMAIN pulls
    BY <1>0, <2>1, <2>2, <2>3, SetMarkerSound DEF Typed
  <2>. QED
    BY <1>0, <1>5, <2>4, IdleTyped DEF WriterRepairs, WriterEnds, Typed, Adds
<1>6. CASE WriterResets
  <2>1. /\ writer.pull \in DOMAIN pulls /\ writer.base \in DOMAIN commits
        /\ writer.branch \in DOMAIN refs /\ writer.base \in Nat
    BY <1>0, <1>6 DEF WriterResets, WriterAt, Sound, WriterSound, Typed
  <2>2. pulls' \in Seq(Pulls) /\ DOMAIN pulls' = DOMAIN pulls
    BY <1>0, <1>6, <2>1, ClosePullSound DEF WriterResets, Typed
  <2>3. refs' \in Seq(Nat) /\ DOMAIN refs' = DOMAIN refs
    BY <1>0, <1>6, <2>1, RefMoved DEF WriterResets, Typed
  <2>4. writer' \in Writers
    BY <1>0, <1>6, IdleTyped DEF WriterResets, WriterGoes, WriterEnds, Typed, Writers, WriterPlaces
  <2>. QED
    BY <1>0, <1>6, <2>2, <2>3, <2>4 DEF WriterResets, Typed, Adds
<1>7. CASE WriterDiscards
  <2>1. writer.pull \in DOMAIN pulls
    BY <1>0, <1>7 DEF WriterDiscards, WriterAt, Sound, WriterSound
  <2>2. pulls' \in Seq(Pulls) /\ DOMAIN pulls' = DOMAIN pulls
    BY <1>0, <1>7, <2>1, ClosePullSound DEF WriterDiscards
  <2>3. writer' \in Writers
    BY <1>0, <1>7 DEF WriterDiscards, Typed, Writers, WriterPlaces, NoPull
  <2>. QED
    BY <1>0, <1>7, <2>2, <2>3 DEF WriterDiscards, Typed, Adds
<1>8. CASE WriterCreatesBranch
  <2>1. writer.base \in Nat
    BY <1>0 DEF Typed, Writers
  <2>2. refs' \in Seq(Nat) /\ DOMAIN refs \subseteq DOMAIN refs' /\ Len(refs) + 1 \in Nat
    BY <1>0, <1>8, <2>1, AppendSound DEF WriterCreatesBranch, Typed
  <2>3. writer' \in Writers
    BY <1>0, <1>8, <2>2 DEF WriterCreatesBranch, Typed, Writers, WriterPlaces
  <2>. QED
    BY <1>0, <1>8, <2>2, <2>3 DEF WriterCreatesBranch, Typed, Adds
<1>9. CASE WriterCommits
  <2> DEFINE commit == Commit(writer.base,
                         [Tree(writer.base) EXCEPT !.files = Plan(writer.base)], TRUE)
  <2>1. /\ writer.branch \in DOMAIN refs /\ writer.base \in DOMAIN commits
        /\ writer.base \in Nat
    BY <1>0, <1>9 DEF WriterCommits, WriterAt, Sound, WriterSound, Typed
  <2>2. commit \in Commits
    BY <1>0, <2>1, PlanTyped DEF Commit, Commits, Trees
  <2>3. CASE Moves(writer.branch, writer.base)
    <3>1. commits' = Append(commits, commit)
      BY <1>9, <2>3 DEF WriterCommits
    <3>2. /\ commits' \in Seq(Commits) /\ Len(commits) + 1 \in Nat
          /\ DOMAIN commits \subseteq DOMAIN commits'
          /\ \A c \in DOMAIN commits : commits'[c] = commits[c]
      BY <1>0, <2>2, <3>1, CommitAdded DEF Typed
    <3>3. refs' \in Seq(Nat) /\ DOMAIN refs' = DOMAIN refs
      BY <1>0, <1>9, <2>1, <2>3, <3>2, RefMoved DEF WriterCommits, Typed
    <3>4. writer' \in Writers
      BY <1>0, <1>9, <2>3, <3>2 DEF WriterCommits, Typed, Writers, WriterPlaces
    <3>. QED
      BY <1>0, <1>9, <3>2, <3>3, <3>4 DEF WriterCommits, Typed, Adds
  <2>4. CASE ~Moves(writer.branch, writer.base)
    BY <1>0, <1>9, <2>4, IdleTyped DEF WriterCommits, WriterEnds, Typed, Adds
  <2>. QED  BY <2>3, <2>4
<1>10. CASE WriterDescribes
  <2> DEFINE marker == Marker(writer.head, Plan(writer.base), NoIntent)
             pull == [branch |-> writer.branch, state |-> "open",
                 marker |-> marker, note |-> FALSE, head |-> NoCommit,
                 merge |-> NoCommit, approved |-> NoIntent]
  <2>1. /\ writer.base \in DOMAIN commits
        /\ writer.pull # NoPull => writer.pull \in DOMAIN pulls
    BY <1>0, <1>10 DEF WriterDescribes, WriterAt, Sound, WriterSound
  <2>2. marker \in Markers
    BY <1>0, <2>1, PlanTyped, Constants DEF Marker, Markers, Typed, Writers
  <2>3. pull \in Pulls
    BY <1>0, <2>2, Constants DEF Pulls, Typed, Writers, NoCommit
  <2>4. IF writer.pull # NoPull THEN SetMarker(writer.pull, marker, FALSE)
        ELSE pulls' = Append(pulls, pull)
    BY <1>10 DEF WriterDescribes
  <2>5. pulls' \in Seq(Pulls) /\ DOMAIN pulls \subseteq DOMAIN pulls'
    <3> HIDE DEF marker, pull
    <3>1. CASE writer.pull # NoPull
      BY <1>0, <2>1, <2>2, <2>4, <3>1, SetMarkerSound DEF Typed
    <3>2. CASE writer.pull = NoPull
      BY <1>0, <2>3, <2>4, <3>2, PullAdded DEF Typed
    <3>. QED  BY <3>1, <3>2
  <2>. QED
    BY <1>0, <1>10, <2>5, IdleTyped DEF WriterDescribes, WriterEnds, Typed, Adds
<1>11. CASE WriterFinds
  <2>1. \A p \in Open : p \in Nat /\ pulls[p] \in Pulls /\ HeadOf(p) \in Nat
    BY <1>0, HeadSound DEF Open, Typed, NoCommit
  <2>2. writer' \in Writers
    <3>1. CASE WriterEnds
      BY <3>1, IdleTyped DEF WriterEnds
    <3>2. CASE ~WriterEnds
      <4>1. PICK p \in Open : writer' = [writer EXCEPT !.at = "delete", !.pull = p,
                                 !.branch = pulls[p].branch, !.actual = HeadOf(p)]
        BY <1>11, <3>2 DEF WriterFinds
      <4>2. pulls[p].branch \in Nat
        BY <2>1 DEF Pulls
      <4>. QED
        BY <1>0, <2>1, <4>1, <4>2 DEF Typed, Writers, WriterPlaces
    <3>. QED  BY <3>1, <3>2
  <2>. QED
    BY <1>0, <1>11, <2>2 DEF WriterFinds, Typed, Adds
<1>12. CASE WriterDeletes
  <2>1. writer.pull \in DOMAIN pulls /\ writer.branch \in DOMAIN refs
    BY <1>0, <1>12 DEF WriterDeletes, WriterAt, Sound, WriterSound
  <2>2. pulls' \in Seq(Pulls) /\ DOMAIN pulls' = DOMAIN pulls
    BY <1>0, <1>12, <2>1, ClosePullSound DEF WriterDeletes, Typed
  <2>3. refs' \in Seq(Nat) /\ DOMAIN refs' = DOMAIN refs
    BY <1>0, <1>12, <2>1, RefMoved DEF WriterDeletes, Typed, NoCommit
  <2>. QED
    BY <1>0, <1>12, <2>2, <2>3, IdleTyped DEF WriterDeletes, WriterEnds, Typed, Adds
<1>. QED
  BY <1>1, <1>2, <1>3, <1>4, <1>5, <1>6, <1>7, <1>8, <1>9, <1>10, <1>11, <1>12
  DEF WriterSteps

LEMMA BinderTyped ==
  ASSUME Typed, Sound, Single, BinderSteps
  PROVE  Typed' /\ Adds
<1>0. Typed /\ Sound
  OBVIOUS
<1>1. CASE BinderLists
  <2>1. PICK h \in heads, p \in Open :
          binder' = [at |-> "read", head |-> h, pull |-> p,
                     marker |-> pulls[p].marker, note |-> pulls[p].note]
    BY <1>1 DEF BinderLists
  <2>2. p \in Nat /\ pulls[p] \in Pulls /\ h \in Nat
    BY <1>0 DEF Open, Typed, Sound
  <2>3. binder' \in Binders
    BY <2>1, <2>2 DEF Binders, Pulls
  <2>. QED  BY <1>0, <1>1, <2>3 DEF BinderLists, Typed, Adds
<1>2. CASE BinderReadsAgain
  <2>1. binder' \in Binders
    BY <1>0, <1>2, IdleTyped DEF BinderReadsAgain, BinderEnds, Binders, Typed
  <2>. QED  BY <1>0, <1>2, <2>1 DEF BinderReadsAgain, Typed, Adds
<1>3. CASE BinderWrites
  <2> DEFINE marker == [binder.marker EXCEPT !.intent = Intent(binder.head)]
  <2>1. binder.pull \in DOMAIN pulls /\ binder.head \in DOMAIN commits
    BY <1>0, <1>3 DEF BinderWrites, BinderAt, Sound, BinderSound
  <2>2. Tree(binder.head) \in Trees
    BY <1>0, <2>1, PlanTyped
  <2>3. Intent(binder.head) \in Intents
    BY <2>2, Constants DEF Intent, Intents, Trees
  <2>4. marker \in Markers /\ binder.note \in BOOLEAN
    BY <1>0, <2>3 DEF Markers, Typed, Binders
  <2>5. SetMarker(binder.pull, marker, binder.note)
    BY <1>3 DEF BinderWrites
  <2>6. pulls' \in Seq(Pulls) /\ DOMAIN pulls' = DOMAIN pulls
    BY <1>0, <2>1, <2>4, <2>5, SetMarkerSound DEF Typed
  <2>. QED
    BY <1>0, <1>3, <2>6, IdleTyped DEF BinderWrites, BinderEnds, Typed, Adds
<1>. QED  BY <1>1, <1>2, <1>3 DEF BinderSteps

(* The pull request that a merge leaves.                                   *)
MergedPull(p) ==
  [pulls[p] EXCEPT !.state = "merged", !.head = HeadOf(p), !.merge = Len(commits) + 1,
                   !.approved = pulls[p].marker.intent]

MergeOf(p) ==
  Commit(main, [pushes |-> Tree(main).pushes, files |-> Tree(HeadOf(p)).files,
                extra |-> Tree(HeadOf(p)).extra], FALSE)

LEMMA OpenHead ==
  ASSUME Typed, Sound, NEW p \in Open
  PROVE  HeadOf(p) \in DOMAIN commits /\ p \in DOMAIN pulls
BY DEF Open, Typed, Sound, PullSound, HeadOf

LEMMA MergeSound ==
  ASSUME Typed, Sound, PersonMerges
  PROVE  \E p \in Open :
           /\ DOMAIN pulls' = DOMAIN pulls /\ pulls' \in Seq(Pulls)
           /\ pulls'[p] = MergedPull(p)
           /\ \A q \in DOMAIN pulls : q # p => pulls'[q] = pulls[q]
           /\ MergeOf(p) \in Commits
           /\ commits' = Append(commits, MergeOf(p))
<1>1. PICK p \in Open :
        /\ commits' = Append(commits, MergeOf(p))
        /\ pulls' = [pulls EXCEPT ![p].state = "merged", ![p].head = HeadOf(p),
                         ![p].merge = Len(commits) + 1,
                         ![p].approved = pulls[p].marker.intent]
  BY DEF PersonMerges, MergeOf
<1>2. p \in DOMAIN pulls /\ HeadOf(p) \in DOMAIN commits
  BY OpenHead
<1>3. pulls[p] \in Pulls /\ pulls[p].marker.intent \in Intents
  BY <1>2, PullTyped DEF Typed
<1>4. Tree(HeadOf(p)) \in Trees /\ Tree(main) \in Trees /\ main \in Nat
  BY <1>2, PlanTyped DEF Typed, Sound
<1>5. MergeOf(p) \in Commits
  BY <1>4 DEF MergeOf, Commit, Commits, Trees
<1>6. HeadOf(p) \in Nat /\ Len(commits) + 1 \in Nat
  BY <1>2 DEF Typed
<1>7. MergedPull(p) \in Pulls
  BY <1>3, <1>6 DEF MergedPull, Pulls
<1>8. pulls' = [pulls EXCEPT ![p] = MergedPull(p)]
  BY <1>1 DEF MergedPull
<1>9. DOMAIN pulls' = DOMAIN pulls /\ pulls' \in Seq(Pulls)
      /\ pulls'[p] = MergedPull(p)
      /\ \A q \in DOMAIN pulls : q # p => pulls'[q] = pulls[q]
  BY <1>2, <1>7, <1>8, PullUpdated DEF Typed
<1>. QED
  BY <1>1, <1>5, <1>9

LEMMA PeopleTyped ==
  ASSUME Typed, Sound, Single, People \/ JobIsKilled
  PROVE  Typed' /\ Adds
<1>0. Typed /\ Sound /\ MaxPeople \in Nat /\ MaxKills \in Nat
  BY ReleasePrAssumption DEF ReleasePrAssumption
<1>1. CASE PersonPushes
  <2> DEFINE commit == Commit(main, [Tree(main) EXCEPT !.pushes = @ + 1], FALSE)
  <2>1. Tree(main) \in Trees /\ main \in Nat
    BY <1>0, PlanTyped DEF Typed, Sound
  <2>2. Tree(main).pushes + 1 \in DOMAIN PlanOf
    BY <1>1, <2>1, Constants DEF PersonPushes, Trees
  <2>3. commit \in Commits
    BY <2>1, <2>2 DEF Commit, Commits, Trees
  <2>4. commits' = Append(commits, commit)
    BY <1>1 DEF PersonPushes
  <2> HIDE DEF commit
  <2>5. /\ commits' \in Seq(Commits) /\ Len(commits) + 1 \in Nat
        /\ DOMAIN commits \subseteq DOMAIN commits'
        /\ \A c \in DOMAIN commits : commits'[c] = commits[c]
    BY <1>0, <2>3, <2>4, CommitAdded DEF Typed
  <2>. QED  BY <1>0, <1>1, <2>5 DEF PersonPushes, Typed, Adds
<1>2. CASE PersonPushesToBranch
  <2>1. PICK b \in DOMAIN refs, extra \in Extras :
          /\ refs[b] # NoCommit
          /\ commits' = Append(commits,
               Commit(refs[b], [Tree(refs[b]) EXCEPT !.extra = @ \cup {extra}], FALSE))
          /\ refs' = [refs EXCEPT ![b] = Len(commits) + 1]
    BY <1>2 DEF PersonPushesToBranch
  <2> DEFINE commit ==
        Commit(refs[b], [Tree(refs[b]) EXCEPT !.extra = @ \cup {extra}], FALSE)
  <2>2. Tree(refs[b]) \in Trees /\ refs[b] \in Nat
    BY <1>0, <2>1, PlanTyped DEF Typed, Sound
  <2>3. commit \in Commits
    BY <2>2 DEF Commit, Commits, Trees
  <2>4. commits' = Append(commits, commit)
    BY <2>1
  <2> HIDE DEF commit
  <2>5. /\ commits' \in Seq(Commits) /\ Len(commits) + 1 \in Nat
        /\ DOMAIN commits \subseteq DOMAIN commits'
        /\ \A c \in DOMAIN commits : commits'[c] = commits[c]
    BY <1>0, <2>3, <2>4, CommitAdded DEF Typed
  <2>6. refs' \in Seq(Nat) /\ DOMAIN refs' = DOMAIN refs
    BY <1>0, <2>1, <2>5, RefMoved DEF Typed
  <2>7. /\ people < MaxPeople /\ people' = people + 1
        /\ UNCHANGED <<main, pulls, writer, binder, heads, kills>>
    BY <1>2 DEF PersonPushesToBranch, PersonActs
  <2>. QED
    BY <1>0, <2>5, <2>6, <2>7 DEF Typed, Adds
<1>3. CASE PersonEdits
  <2>1. PICK p \in Open : SetMarker(p, pulls[p].marker, TRUE)
    BY <1>3 DEF PersonEdits
  <2>2. p \in DOMAIN pulls /\ pulls[p].marker \in Markers
    BY <1>0, OpenHead, PullTyped DEF Typed
  <2>3. pulls' \in Seq(Pulls) /\ DOMAIN pulls' = DOMAIN pulls
    BY <1>0, <2>1, <2>2, SetMarkerSound DEF Typed
  <2>. QED  BY <1>0, <1>3, <2>3 DEF PersonEdits, PersonActs, Typed, Adds
<1>4. CASE PersonCloses
  <2>1. PICK p \in Open : ClosePull(p)
    BY <1>4 DEF PersonCloses
  <2>2. pulls' \in Seq(Pulls) /\ DOMAIN pulls' = DOMAIN pulls
    BY <1>0, <2>1, OpenHead, ClosePullSound
  <2>. QED  BY <1>0, <1>4, <2>2 DEF PersonCloses, PersonActs, Typed, Adds
<1>5. CASE PersonMerges
  <2>1. PICK p \in Open : /\ DOMAIN pulls' = DOMAIN pulls /\ pulls' \in Seq(Pulls)
                          /\ MergeOf(p) \in Commits
                          /\ commits' = Append(commits, MergeOf(p))
    BY <1>0, <1>5, MergeSound
  <2>2. /\ commits' \in Seq(Commits) /\ Len(commits) + 1 \in Nat
        /\ DOMAIN commits \subseteq DOMAIN commits'
        /\ \A c \in DOMAIN commits : commits'[c] = commits[c]
    BY <1>0, <2>1, CommitAdded DEF Typed
  <2>. QED  BY <1>0, <1>5, <2>1, <2>2 DEF PersonMerges, Typed, Adds
<1>6. CASE JobIsKilled
  BY <1>0, <1>6, IdleTyped DEF JobIsKilled, WriterEnds, BinderEnds, Typed, Adds
<1>. QED  BY <1>1, <1>2, <1>3, <1>4, <1>5, <1>6 DEF People

(***************************************************************************)
(* Every step keeps what is referred to in existence.                      *)
(***************************************************************************)
LEMMA WriterKept ==
  ASSUME WriterSound, Adds, UNCHANGED writer,
         \A b \in DOMAIN refs : refs[b] # NoCommit => refs'[b] # NoCommit
  PROVE  WriterSound'
BY DEF WriterSound, Adds

LEMMA BinderKept ==
  ASSUME BinderSound, Adds, UNCHANGED binder
  PROVE  BinderSound'
BY DEF BinderSound, Adds

LEMMA PullKept ==
  ASSUME Adds, NEW p \in DOMAIN pulls, PullSound(p),
         pulls'[p].branch = pulls[p].branch,
         pulls'[p].marker.head \in DOMAIN commits',
         pulls'[p].head \in DOMAIN commits' \cup {NoCommit},
         pulls'[p].merge \in DOMAIN commits' \cup {NoCommit},
         pulls'[p].merge # NoCommit <=> pulls'[p].state = "merged",
         pulls'[p].state = "open" => refs'[pulls[p].branch] # NoCommit
  PROVE  PullSound(p)'
BY DEF PullSound, Adds

(* A step that leaves the pull requests and the branches alone.            *)
LEMMA ObjectsKept ==
  ASSUME Sound, Adds, UNCHANGED <<main, refs, pulls>>, heads' \subseteq DOMAIN commits'
  PROVE  /\ main' \in DOMAIN commits'
         /\ \A b \in DOMAIN refs' : refs'[b] \in DOMAIN commits' \cup {NoCommit}
         /\ \A p \in DOMAIN pulls' : PullSound(p)'
BY DEF Sound, Adds, PullSound

(* A step that edits the body of one pull request.                         *)
LEMMA EditKept ==
  ASSUME Typed, Sound, Adds, UNCHANGED <<main, refs, commits>>,
         NEW p \in DOMAIN pulls, NEW marker \in Markers, NEW note \in BOOLEAN,
         marker.head \in DOMAIN commits,
         SetMarker(p, marker, note), heads' \subseteq DOMAIN commits'
  PROVE  /\ main' \in DOMAIN commits'
         /\ \A b \in DOMAIN refs' : refs'[b] \in DOMAIN commits' \cup {NoCommit}
         /\ \A q \in DOMAIN pulls' : PullSound(q)'
<1>0. pulls \in Seq(Pulls)
  BY DEF Typed
<1>1. /\ DOMAIN pulls' = DOMAIN pulls
      /\ pulls'[p].marker = marker
      /\ \A q \in DOMAIN pulls :
           /\ pulls'[q].branch = pulls[q].branch
           /\ pulls'[q].state = pulls[q].state
           /\ pulls'[q].head = pulls[q].head
           /\ pulls'[q].merge = pulls[q].merge
           /\ q # p => pulls'[q] = pulls[q]
  BY <1>0, SetMarkerSound
<1>2. \A q \in DOMAIN pulls : pulls'[q].marker.head \in DOMAIN commits
  BY <1>1 DEF Sound, PullSound
<1>. QED
  BY <1>1, <1>2 DEF Sound, PullSound

(* A step that closes one pull request and may move its branch.            *)
LEMMA CloseKept ==
  ASSUME Typed, Sound, NEW p \in DOMAIN pulls, ClosePull(p)
  PROVE  /\ DOMAIN pulls' = DOMAIN pulls
         /\ \A q \in DOMAIN pulls :
              /\ pulls'[q].branch = pulls[q].branch
              /\ pulls'[q].marker = pulls[q].marker
              /\ pulls'[q].head \in DOMAIN commits \cup {NoCommit}
              /\ pulls'[q].merge = pulls[q].merge
              /\ pulls[q].state # "open" => pulls'[q].head = pulls[q].head
              /\ pulls'[q].state = "merged" <=> pulls[q].state = "merged"
              /\ pulls'[q].state = "open" => q # p /\ pulls[q].state = "open"
<1>1. /\ DOMAIN pulls' = DOMAIN pulls
      /\ pulls'[p] = [pulls[p] EXCEPT
           !.state = IF pulls[p].state = "open" THEN "closed" ELSE pulls[p].state,
           !.head = HeadOf(p)]
      /\ \A q \in DOMAIN pulls : q # p => pulls'[q] = pulls[q]
  BY ClosePullSound
<1>2. pulls[p] \in Pulls /\ HeadOf(p) \in DOMAIN commits \cup {NoCommit}
  BY PullTyped, HeadSound DEF Typed
<1>3. \A q \in DOMAIN pulls : pulls[q].head \in DOMAIN commits \cup {NoCommit}
  BY DEF Sound, PullSound
<1>4. /\ pulls'[p].branch = pulls[p].branch
      /\ pulls'[p].marker = pulls[p].marker
      /\ pulls'[p].head = HeadOf(p)
      /\ pulls'[p].merge = pulls[p].merge
      /\ pulls'[p].state = IF pulls[p].state = "open" THEN "closed" ELSE pulls[p].state
  BY <1>1, <1>2 DEF Pulls
<1>5. pulls[p].state # "open" => HeadOf(p) = pulls[p].head
  BY DEF HeadOf
<1>. QED
  BY <1>1, <1>2, <1>3, <1>4, <1>5

World == /\ main \in DOMAIN commits
         /\ heads \subseteq DOMAIN commits
         /\ \A b \in DOMAIN refs : refs[b] \in DOMAIN commits \cup {NoCommit}
         /\ \A p \in DOMAIN pulls : PullSound(p)

LEMMA WriterSoundStep ==
  ASSUME Typed, Sound, Single, WriterSteps
  PROVE  Sound'
<1>0. Typed /\ Sound /\ Typed' /\ Adds /\ Single
  BY WriterTyped
<1>. SUFFICES World' /\ WriterSound'
  <2>1. UNCHANGED binder
    BY DEF WriterSteps, WriterReadsTip, WriterChecksMerge, WriterLists, WriterReadsBranch,
       WriterRepairs, WriterResets, WriterDiscards, WriterCreatesBranch, WriterCommits,
       WriterDescribes, WriterFinds, WriterDeletes
  <2>2. BinderSound'
    BY <1>0, <2>1, BinderKept DEF Sound
  <2>. QED  BY <2>2 DEF Sound, World
<1>1. CASE WriterReadsTip
  <2>1. World'
    BY <1>0, <1>1, ObjectsKept DEF WriterReadsTip, World, Sound
  <2>2. WriterSound'
    BY <1>0, <1>1, IdleTyped DEF WriterReadsTip, WriterSound, Sound, Writers, NoPull
  <2>. QED  BY <2>1, <2>2
<1>2. CASE WriterChecksMerge
  <2>1. World'
    BY <1>0, <1>2, ObjectsKept DEF WriterChecksMerge, World, Sound
  <2>2. writer.at = "merged" /\ writer \in Writers /\ WriterSound /\ UNCHANGED <<commits, refs, pulls>>
    BY <1>0, <1>2 DEF WriterChecksMerge, WriterAt, Sound, Typed
  <2>3. CASE WriterEnds
    BY <2>1, <2>3, IdleTyped DEF WriterEnds, WriterSound, NoPull
  <2>4. CASE WriterGoes("find") \/ WriterGoes("list")
    <3>1. /\ writer'.at \in {"find", "list"} /\ writer'.base = writer.base
          /\ writer'.branch = writer.branch /\ writer'.pull = writer.pull
      BY <2>2, <2>4 DEF WriterGoes, Writers
    <3>2. WriterSound'
      BY <2>2, <3>1 DEF WriterSound
    <3>. QED  BY <2>1, <3>2
  <2>. QED
    BY <1>2, <2>3, <2>4 DEF WriterChecksMerge
<1>3. CASE WriterLists
  <2>1. World'
    BY <1>0, <1>3, ObjectsKept DEF WriterLists, World, Sound
  <2>2. Managed # NoPull => Managed \in DOMAIN pulls /\ pulls[Managed].branch \in DOMAIN refs
    BY <1>0, ManagedSound DEF Sound, PullSound
  <2>3. WriterSound'
    BY <1>0, <1>3, <2>2 DEF WriterLists, WriterAt, WriterSound, Sound, Typed, Writers
  <2>. QED  BY <2>1, <2>3
<1>4. CASE WriterReadsBranch
  <2>1. writer.branch \in DOMAIN refs /\ writer.pull \in DOMAIN pulls
        /\ writer.base \in DOMAIN commits
    BY <1>0, <1>4 DEF WriterReadsBranch, WriterAt, Sound, WriterSound
  <2>2. refs[writer.branch] \in DOMAIN commits \cup {NoCommit}
    BY <1>0, <2>1 DEF Sound
  <2>3. heads' \subseteq DOMAIN commits'
    BY <1>0, <1>4, <2>2 DEF WriterReadsBranch, Sound, NoCommit
  <2>4. World'
    BY <1>0, <1>4, <2>3, ObjectsKept DEF WriterReadsBranch, World, Sound
  <2>5. CASE WriterEnds
    BY <2>4, <2>5, IdleTyped DEF WriterEnds, WriterSound, NoPull
  <2>6. CASE ~WriterEnds
    <3>1. writer \in Writers /\ WriterSound /\ UNCHANGED <<commits, refs, pulls>>
      BY <1>0, <1>4 DEF WriterReadsBranch, Sound, Typed
    <3>2. \/ /\ writer' = [writer EXCEPT !.at = "repair", !.head = refs[writer.branch]]
             /\ refs[writer.branch] # NoCommit
          \/ /\ writer' = [writer EXCEPT !.at = "reset", !.actual = refs[writer.branch]]
             /\ refs[writer.branch] # NoCommit /\ commits[refs[writer.branch]].generated
          \/ writer' = [writer EXCEPT !.at = "discard"]
      BY <1>4, <2>6 DEF WriterReadsBranch, WriterGoes
    <3>3. /\ writer'.at \in {"repair", "reset", "discard"} /\ writer'.base = writer.base
          /\ writer'.branch = writer.branch /\ writer'.pull = writer.pull
          /\ writer'.at = "repair" => writer'.head \in DOMAIN commits
          /\ writer'.at = "reset" => /\ writer'.actual \in DOMAIN commits
                                    /\ commits[writer'.actual].generated
      <4>1. CASE /\ writer' = [writer EXCEPT !.at = "repair", !.head = refs[writer.branch]]
                 /\ refs[writer.branch] # NoCommit
        BY <2>2, <3>1, <4>1 DEF Writers
      <4>2. CASE /\ writer' = [writer EXCEPT !.at = "reset", !.actual = refs[writer.branch]]
                 /\ refs[writer.branch] # NoCommit /\ commits[refs[writer.branch]].generated
        BY <2>2, <3>1, <4>2 DEF Writers
      <4>3. CASE writer' = [writer EXCEPT !.at = "discard"]
        BY <3>1, <4>3 DEF Writers
      <4>. QED  BY <3>2, <4>1, <4>2, <4>3
    <3>4. WriterSound'
      BY <2>1, <3>1, <3>3 DEF WriterSound
    <3>. QED  BY <2>4, <3>4
  <2>. QED  BY <2>5, <2>6
<1>5. CASE WriterRepairs
  <2> DEFINE marker == Marker(writer.head, Plan(writer.base),
                              KeptIntent(writer.marker, writer.head))
  <2>1. /\ writer.pull \in DOMAIN pulls /\ writer.base \in DOMAIN commits
        /\ writer.head \in DOMAIN commits
    BY <1>0, <1>5 DEF WriterRepairs, WriterAt, Sound, WriterSound
  <2>2. marker \in Markers /\ marker.head \in DOMAIN commits
    BY <1>0, <2>1, PlanTyped, Constants DEF Marker, Markers, KeptIntent, Typed, Writers
  <2>3. SetMarker(writer.pull, marker, FALSE) /\ UNCHANGED <<main, refs, commits>>
        /\ heads' = heads \cup {writer.head} /\ writer' = IdleWriter
    BY <1>5 DEF WriterRepairs, WriterEnds
  <2>4. heads' \subseteq DOMAIN commits'
    BY <1>0, <2>1, <2>3 DEF Sound
  <2> HIDE DEF marker
  <2>5. World'
    BY <1>0, <2>1, <2>2, <2>3, <2>4, EditKept DEF World
  <2>6. WriterSound'
    BY <2>3, IdleTyped DEF WriterSound, NoPull
  <2>. QED  BY <2>5, <2>6
<1>6. CASE WriterResets
  <2>1. /\ writer.pull \in DOMAIN pulls /\ writer.base \in DOMAIN commits
        /\ writer.branch \in DOMAIN refs /\ writer.base \in Nat /\ writer.base # NoCommit
        /\ WriterSound
    <3>1. writer.at = "reset" /\ WriterSound /\ writer \in Writers /\ commits \in Seq(Commits)
      BY <1>0, <1>6 DEF WriterResets, WriterAt, Sound, Typed
    <3>2. /\ writer.pull \in DOMAIN pulls /\ writer.base \in DOMAIN commits
          /\ writer.branch \in DOMAIN refs
      BY <3>1 DEF WriterSound
    <3>3. writer.base \in Nat /\ writer.base # NoCommit
      BY <3>1, <3>2 DEF Writers, NoCommit
    <3>. QED  BY <3>1, <3>2, <3>3
  <2>2. UNCHANGED <<commits, main, heads>>
    BY <1>6 DEF WriterResets
  <2>3. CASE Moves(writer.branch, writer.actual)
    <3>1. refs' = [refs EXCEPT ![writer.branch] = writer.base]
          /\ writer' = [writer EXCEPT !.at = "commit"]
          /\ (UNCHANGED pulls \/ ClosePull(writer.pull))
      BY <1>6, <2>3 DEF WriterResets, WriterGoes
    <3>2. DOMAIN refs' = DOMAIN refs /\ refs'[writer.branch] = writer.base
          /\ \A b \in DOMAIN refs : b # writer.branch => refs'[b] = refs[b]
      BY <1>0, <2>1, <3>1, RefMoved DEF Typed
    <3>3. \A p \in DOMAIN pulls' : PullSound(p)'
      <4>1. CASE UNCHANGED pulls
        BY <1>0, <2>1, <2>2, <3>2, <4>1 DEF Sound, PullSound
      <4>2. CASE ClosePull(writer.pull)
        BY <1>0, <2>1, <2>2, <3>2, <4>2, CloseKept DEF Sound, PullSound
      <4>. QED  BY <3>1, <4>1, <4>2
    <3>4. World'
      BY <1>0, <2>1, <2>2, <3>2, <3>3 DEF World, Sound
    <3>5. DOMAIN pulls \subseteq DOMAIN pulls' /\ writer \in Writers
      BY <1>0 DEF Adds, Typed
    <3>6. WriterSound'
      BY <2>1, <2>2, <3>1, <3>2, <3>5 DEF WriterSound, Writers, NoPull
    <3>. QED  BY <3>4, <3>6
  <2>4. CASE ~Moves(writer.branch, writer.actual)
    <3>1. UNCHANGED <<refs, pulls>> /\ writer' = IdleWriter
      BY <1>6, <2>4 DEF WriterResets, WriterEnds
    <3>2. World'
      BY <1>0, <2>2, <3>1 DEF World, Sound, PullSound
    <3>3. WriterSound'
      BY <3>1, IdleTyped DEF WriterSound, NoPull
    <3>. QED  BY <3>2, <3>3
  <2>. QED  BY <2>3, <2>4
<1>7. CASE WriterDiscards
  <2>1. writer.pull \in DOMAIN pulls /\ ClosePull(writer.pull)
        /\ WriterSound /\ writer.at = "discard" /\ writer \in Writers
    BY <1>0, <1>7 DEF WriterDiscards, WriterAt, Sound, WriterSound, Typed
  <2>2. UNCHANGED <<commits, main, heads, refs>>
        /\ writer' = [writer EXCEPT !.at = "branch", !.pull = NoPull]
    BY <1>7 DEF WriterDiscards
  <2>3. World'
    BY <1>0, <2>1, <2>2, CloseKept DEF World, Sound, PullSound
  <2>4. WriterSound'
    BY <2>1, <2>2 DEF WriterSound, Writers, NoPull
  <2>. QED  BY <2>3, <2>4
<1>8. CASE WriterCreatesBranch
  <2>1. /\ writer.base \in Nat /\ writer.base \in DOMAIN commits /\ writer.base # NoCommit
        /\ WriterSound /\ writer.at = "branch" /\ writer \in Writers
    <3>1. writer.at = "branch" /\ WriterSound /\ writer \in Writers /\ commits \in Seq(Commits)
      BY <1>0, <1>8 DEF WriterCreatesBranch, WriterAt, Sound, Typed
    <3>2. writer.base \in DOMAIN commits
      BY <3>1 DEF WriterSound
    <3>3. writer.base \in Nat /\ writer.base # NoCommit
      BY <3>1, <3>2 DEF Writers, NoCommit
    <3>. QED  BY <3>1, <3>2, <3>3
  <2>2. UNCHANGED <<commits, main, heads, pulls>> /\ refs' = Append(refs, writer.base)
        /\ writer' = [writer EXCEPT !.at = "commit", !.branch = Len(refs) + 1]
    BY <1>8 DEF WriterCreatesBranch
  <2>3. /\ DOMAIN refs' = DOMAIN refs \cup {Len(refs) + 1}
        /\ refs'[Len(refs) + 1] = writer.base
        /\ \A b \in DOMAIN refs : refs'[b] = refs[b]
    <3>1. refs \in Seq(Nat) /\ writer.base \in Nat /\ refs' = Append(refs, writer.base)
      BY <1>0, <2>1, <2>2 DEF Typed
    <3> DEFINE base == writer.base
    <3>2. base \in Nat /\ refs' = Append(refs, base)
      BY <3>1
    <3> HIDE DEF base
    <3>3. /\ DOMAIN refs' = DOMAIN refs \cup {Len(refs) + 1}
          /\ refs'[Len(refs) + 1] = base
          /\ \A b \in DOMAIN refs : refs'[b] = refs[b]
      BY <3>1, <3>2, AppendSound
    <3>. QED  BY <3>3 DEF base
  <2>4. World'
    BY <1>0, <2>1, <2>2, <2>3 DEF World, Sound, PullSound
  <2>5. WriterSound'
    BY <2>1, <2>2, <2>3 DEF WriterSound, Writers
  <2>. QED  BY <2>4, <2>5
<1>9. CASE WriterCommits
  <2> DEFINE commit == Commit(writer.base,
                         [Tree(writer.base) EXCEPT !.files = Plan(writer.base)], TRUE)
  <2>1. /\ writer.branch \in DOMAIN refs /\ writer.base \in DOMAIN commits
        /\ writer.base \in Nat /\ writer.at = "commit" /\ writer \in Writers
        /\ WriterSound
    BY <1>0, <1>9 DEF WriterCommits, WriterAt, Sound, WriterSound, Typed
  <2>2. commit \in Commits
    BY <1>0, <2>1, PlanTyped DEF Commit, Commits, Trees
  <2>3. UNCHANGED <<main, heads, pulls>>
    BY <1>9 DEF WriterCommits
  <2>4. CASE Moves(writer.branch, writer.base)
    <3>1. /\ commits' = Append(commits, commit)
          /\ refs' = [refs EXCEPT ![writer.branch] = Len(commits) + 1]
          /\ writer' = [writer EXCEPT !.at = "describe", !.head = Len(commits) + 1]
      BY <1>9, <2>4 DEF WriterCommits
    <3>2. /\ DOMAIN commits' = DOMAIN commits \cup {Len(commits) + 1}
          /\ Len(commits) + 1 \in Nat \ {0}
      BY <1>0, <2>2, <3>1, CommitAdded DEF Typed
    <3>3. DOMAIN refs' = DOMAIN refs /\ refs'[writer.branch] = Len(commits) + 1
          /\ \A b \in DOMAIN refs : b # writer.branch => refs'[b] = refs[b]
      BY <1>0, <2>1, <3>1, <3>2, RefMoved DEF Typed
    <3>4. World'
      BY <1>0, <2>1, <2>3, <3>2, <3>3 DEF World, Sound, PullSound, NoCommit
    <3>5. WriterSound'
      BY <2>1, <2>3, <3>1, <3>2, <3>3 DEF WriterSound, Writers, NoCommit
    <3>. QED  BY <3>4, <3>5
  <2>5. CASE ~Moves(writer.branch, writer.base)
    <3>1. UNCHANGED <<commits, refs>> /\ writer' = IdleWriter
      BY <1>9, <2>5 DEF WriterCommits, WriterEnds
    <3>2. World'
      BY <1>0, <2>3, <3>1 DEF World, Sound, PullSound
    <3>3. WriterSound'
      BY <3>1, IdleTyped DEF WriterSound, NoPull
    <3>. QED  BY <3>2, <3>3
  <2>. QED  BY <2>4, <2>5
<1>10. CASE WriterDescribes
  <2> DEFINE marker == Marker(writer.head, Plan(writer.base), NoIntent)
             pull == [branch |-> writer.branch, state |-> "open",
                 marker |-> marker, note |-> FALSE, head |-> NoCommit,
                 merge |-> NoCommit, approved |-> NoIntent]
  <2>1. /\ writer.base \in DOMAIN commits /\ writer.head \in DOMAIN commits
        /\ writer.branch \in DOMAIN refs /\ refs[writer.branch] # NoCommit
        /\ writer.pull # NoPull => writer.pull \in DOMAIN pulls
    BY <1>0, <1>10 DEF WriterDescribes, WriterAt, Sound, WriterSound
  <2>2. marker \in Markers /\ marker.head \in DOMAIN commits
    BY <1>0, <2>1, PlanTyped, Constants DEF Marker, Markers, Typed, Writers
  <2>3. pull \in Pulls
    BY <1>0, <2>2, Constants DEF Pulls, Typed, Writers, NoCommit
  <2>4. /\ IF writer.pull # NoPull THEN SetMarker(writer.pull, marker, FALSE)
           ELSE pulls' = Append(pulls, pull)
        /\ UNCHANGED <<main, refs, commits>> /\ writer' = IdleWriter
        /\ heads' = heads \cup {writer.head}
    BY <1>10 DEF WriterDescribes, WriterEnds
  <2>5. heads' \subseteq DOMAIN commits'
    BY <1>0, <2>1, <2>4 DEF Sound
  <2>6. World'
    <3>1. CASE writer.pull # NoPull
      <4> HIDE DEF marker
      <4>. QED  BY <1>0, <2>1, <2>2, <2>4, <2>5, <3>1, EditKept DEF World
    <3>2. CASE writer.pull = NoPull
      <4>1. pull.branch = writer.branch /\ pull.marker.head = writer.head
            /\ pull.head = NoCommit /\ pull.merge = NoCommit /\ pull.state = "open"
        BY DEF Marker
      <4> HIDE DEF pull
      <4>2. /\ DOMAIN pulls' = DOMAIN pulls \cup {Len(pulls) + 1}
            /\ pulls'[Len(pulls) + 1] = pull
            /\ \A p \in DOMAIN pulls : pulls'[p] = pulls[p]
        BY <1>0, <2>3, <2>4, <3>2, PullAdded DEF Typed
      <4>. QED
        BY <1>0, <2>1, <2>4, <2>5, <4>1, <4>2 DEF World, Sound, PullSound
    <3>. QED  BY <3>1, <3>2
  <2>7. WriterSound'
    BY <2>4, IdleTyped DEF WriterSound, NoPull
  <2>. QED  BY <2>6, <2>7
<1>11. CASE WriterFinds
  <2>1. World'
    BY <1>0, <1>11, ObjectsKept DEF WriterFinds, World, Sound
  <2>2. CASE WriterEnds
    BY <2>1, <2>2, IdleTyped DEF WriterEnds, WriterSound, NoPull
  <2>3. CASE ~WriterEnds
    <3>1. PICK p \in Open : /\ Described(p)
            /\ writer' = [writer EXCEPT !.at = "delete", !.pull = p,
                               !.branch = pulls[p].branch, !.actual = HeadOf(p)]
      BY <1>11, <2>3 DEF WriterFinds
    <3>2. /\ p \in DOMAIN pulls /\ pulls[p].branch \in DOMAIN refs
          /\ HeadOf(p) \in DOMAIN commits /\ commits[HeadOf(p)].generated
      BY <1>0, <3>1, OpenHead DEF Sound, PullSound, Described, Generated
    <3>3. /\ WriterSound /\ writer \in Writers /\ writer.at = "find"
          /\ UNCHANGED <<commits, refs, pulls>>
      BY <1>0, <1>11 DEF WriterFinds, WriterAt, Sound, Typed
    <3>4. WriterSound'
      BY <3>1, <3>2, <3>3 DEF WriterSound, Writers
    <3>. QED  BY <2>1, <3>4
  <2>. QED  BY <2>2, <2>3
<1>12. CASE WriterDeletes
  <2>1. writer.pull \in DOMAIN pulls /\ writer.branch \in DOMAIN refs /\ writer.at = "delete"
    BY <1>0, <1>12 DEF WriterDeletes, WriterAt, Sound, WriterSound
  <2>2. UNCHANGED <<commits, main, heads>> /\ writer' = IdleWriter
    BY <1>12 DEF WriterDeletes, WriterEnds
  <2>3. WriterSound'
    BY <2>2, IdleTyped DEF WriterSound, NoPull
  <2>4. CASE Moves(writer.branch, writer.actual)
    <3>1. refs' = [refs EXCEPT ![writer.branch] = NoCommit] /\ ClosePull(writer.pull)
      BY <1>12, <2>4 DEF WriterDeletes
    <3>2. DOMAIN refs' = DOMAIN refs /\ refs'[writer.branch] = NoCommit
          /\ \A b \in DOMAIN refs : b # writer.branch => refs'[b] = refs[b]
      BY <1>0, <2>1, <3>1, RefMoved DEF Typed, NoCommit
    <3>3. Open \subseteq {writer.pull}
      BY <1>0, <2>1 DEF Single
    <3>4. \A p \in DOMAIN pulls : pulls'[p].state # "open"
      BY <1>0, <2>1, <3>1, <3>3, CloseKept DEF Open
    <3>5. World'
      BY <1>0, <2>1, <2>2, <3>1, <3>2, <3>4, CloseKept DEF World, Sound, PullSound
    <3>. QED  BY <2>3, <3>5
  <2>5. CASE ~Moves(writer.branch, writer.actual)
    <3>1. UNCHANGED <<refs, pulls>>
      BY <1>12, <2>5 DEF WriterDeletes
    <3>. QED  BY <1>0, <2>2, <2>3, <3>1 DEF World, Sound, PullSound
  <2>. QED  BY <2>4, <2>5
<1>. QED
  BY <1>1, <1>2, <1>3, <1>4, <1>5, <1>6, <1>7, <1>8, <1>9, <1>10, <1>11, <1>12
  DEF WriterSteps

LEMMA BinderSoundStep ==
  ASSUME Typed, Sound, Single, BinderSteps
  PROVE  Sound'
<1>0. Typed /\ Sound /\ Typed' /\ Adds
  BY BinderTyped
<1>. SUFFICES World' /\ BinderSound'
  <2>1. UNCHANGED <<writer, refs>>
    BY DEF BinderSteps, BinderLists, BinderReadsAgain, BinderWrites
  <2>2. WriterSound'
    BY <1>0, <2>1, WriterKept DEF Sound
  <2>. QED  BY <2>2 DEF Sound, World
<1>1. CASE BinderLists
  <2>1. World'
    BY <1>0, <1>1, ObjectsKept DEF BinderLists, World, Sound
  <2>2. PICK h \in heads, p \in Open :
          /\ Described(p) /\ HeadOf(p) = h
          /\ binder' = [at |-> "read", head |-> h, pull |-> p,
                     marker |-> pulls[p].marker, note |-> pulls[p].note]
    BY <1>1 DEF BinderLists
  <2>3. p \in DOMAIN pulls /\ h \in DOMAIN commits /\ UNCHANGED <<commits, pulls>>
    BY <1>0, <1>1, OpenHead DEF BinderLists, Sound
  <2>4. BinderSound'
    BY <2>2, <2>3 DEF BinderSound, Described
  <2>. QED  BY <2>1, <2>4
<1>2. CASE BinderReadsAgain
  <2>1. World'
    BY <1>0, <1>2, ObjectsKept DEF BinderReadsAgain, World, Sound
  <2>2. BinderSound'
    BY <1>0, <1>2, IdleTyped DEF BinderReadsAgain, BinderAt, BinderEnds, BinderSound, Sound,
       Typed, Binders
  <2>. QED  BY <2>1, <2>2
<1>3. CASE BinderWrites
  <2> DEFINE marker == [binder.marker EXCEPT !.intent = Intent(binder.head)]
  <2>1. binder.pull \in DOMAIN pulls /\ binder.head \in DOMAIN commits
        /\ binder.marker.head = binder.head
    BY <1>0, <1>3 DEF BinderWrites, BinderAt, Sound, BinderSound
  <2>2. Tree(binder.head) \in Trees
    BY <1>0, <2>1, PlanTyped
  <2>3. Intent(binder.head) \in Intents
    BY <2>2, Constants DEF Intent, Intents, Trees
  <2>4. marker \in Markers /\ binder.note \in BOOLEAN /\ marker.head \in DOMAIN commits
    BY <1>0, <2>1, <2>3 DEF Markers, Typed, Binders
  <2>5. SetMarker(binder.pull, marker, binder.note) /\ binder' = IdleBinder
        /\ UNCHANGED <<main, refs, commits, heads>>
    BY <1>3 DEF BinderWrites, BinderEnds
  <2> HIDE DEF marker
  <2>6. World'
    BY <1>0, <2>1, <2>4, <2>5, EditKept DEF World, Sound
  <2>7. BinderSound'
    BY <2>5, IdleTyped DEF BinderSound
  <2>. QED  BY <2>6, <2>7
<1>. QED  BY <1>1, <1>2, <1>3 DEF BinderSteps

LEMMA PeopleSoundStep ==
  ASSUME Typed, Sound, Single, People \/ JobIsKilled
  PROVE  Sound'
<1>0. Typed /\ Sound /\ Typed' /\ Adds
  BY PeopleTyped
<1>1. CASE PersonPushes
  <2> DEFINE commit == Commit(main, [Tree(main) EXCEPT !.pushes = @ + 1], FALSE)
  <2>1. commits' = Append(commits, commit) /\ main' = Len(commits) + 1
        /\ UNCHANGED <<refs, pulls, writer, binder, heads>>
    BY <1>1 DEF PersonPushes
  <2>2. DOMAIN commits' = DOMAIN commits \cup {Len(commits) + 1}
    BY <1>0, <2>1 DEF Typed
  <2>3. World'
    BY <1>0, <2>1, <2>2 DEF World, Sound, PullSound
  <2>4. WriterSound' /\ BinderSound'
    BY <1>0, <2>1, WriterKept, BinderKept DEF Sound
  <2>. QED  BY <2>3, <2>4 DEF World, Sound
<1>2. CASE PersonPushesToBranch
  <2>1. PICK b \in DOMAIN refs, extra \in Extras :
          /\ commits' = Append(commits,
               Commit(refs[b], [Tree(refs[b]) EXCEPT !.extra = @ \cup {extra}], FALSE))
          /\ refs' = [refs EXCEPT ![b] = Len(commits) + 1]
    BY <1>2 DEF PersonPushesToBranch
  <2>2. UNCHANGED <<main, pulls, writer, binder, heads>>
    BY <1>2 DEF PersonPushesToBranch
  <2>3. DOMAIN commits' = DOMAIN commits \cup {Len(commits) + 1}
        /\ Len(commits) + 1 \in Nat \ {0}
    <3> DEFINE pushed == Commit(refs[b], [Tree(refs[b]) EXCEPT !.extra = @ \cup {extra}], FALSE)
    <3>1. commits \in Seq(Commits) /\ commits' = Append(commits, pushed)
      BY <1>0, <2>1 DEF Typed
    <3> HIDE DEF pushed
    <3>2. Len(commits) \in Nat /\ DOMAIN commits = 1..Len(commits)
      BY <3>1
    <3>3. DOMAIN commits' = 1..(Len(commits) + 1)
      BY <3>1, <3>2
    <3>. QED  BY <3>2, <3>3
  <2>4. DOMAIN refs' = DOMAIN refs /\ refs'[b] = Len(commits) + 1
        /\ \A a \in DOMAIN refs : a # b => refs'[a] = refs[a]
    BY <1>0, <2>1, <2>3, RefMoved DEF Typed
  <2>5. World'
    BY <1>0, <2>2, <2>3, <2>4 DEF World, Sound, PullSound, NoCommit
  <2>6. WriterSound' /\ BinderSound'
    BY <1>0, <2>2, <2>3, <2>4, WriterKept, BinderKept DEF Sound, NoCommit
  <2>. QED  BY <2>5, <2>6 DEF World, Sound
<1>3. CASE PersonEdits
  <2>1. PICK p \in Open : SetMarker(p, pulls[p].marker, TRUE)
    BY <1>3 DEF PersonEdits
  <2>2. p \in DOMAIN pulls /\ pulls[p].marker \in Markers
    BY <1>0, OpenHead, PullTyped DEF Typed
  <2>3. pulls[p].marker.head \in DOMAIN commits
    BY <1>0, <2>2 DEF Sound, PullSound
  <2>4. UNCHANGED <<commits, main, refs, writer, binder, heads>>
    BY <1>3 DEF PersonEdits
  <2>5. World'
    BY <1>0, <2>1, <2>2, <2>3, <2>4, EditKept DEF World, Sound
  <2>6. WriterSound' /\ BinderSound'
    BY <1>0, <2>4, WriterKept, BinderKept DEF Sound
  <2>. QED  BY <2>5, <2>6 DEF World, Sound
<1>4. CASE PersonCloses
  <2>1. PICK p \in Open : ClosePull(p)
    BY <1>4 DEF PersonCloses
  <2>2. p \in DOMAIN pulls
    BY <1>0, OpenHead
  <2>3. UNCHANGED <<commits, main, refs, writer, binder, heads>>
    BY <1>4 DEF PersonCloses
  <2>4. World'
    BY <1>0, <2>1, <2>2, <2>3, CloseKept DEF World, Sound, PullSound
  <2>5. WriterSound' /\ BinderSound'
    BY <1>0, <2>3, WriterKept, BinderKept DEF Sound
  <2>. QED  BY <2>4, <2>5 DEF World, Sound
<1>5. CASE PersonMerges
  <2>1. PICK p \in Open : /\ DOMAIN pulls' = DOMAIN pulls
                          /\ pulls'[p] = MergedPull(p)
                          /\ \A q \in DOMAIN pulls : q # p => pulls'[q] = pulls[q]
                          /\ commits' = Append(commits, MergeOf(p))
    BY <1>0, <1>5, MergeSound
  <2>2. main' = Len(commits) + 1 /\ UNCHANGED <<refs, writer, binder, heads>>
    BY <1>5 DEF PersonMerges
  <2>3. DOMAIN commits' = DOMAIN commits \cup {Len(commits) + 1}
        /\ Len(commits) + 1 \in Nat \ {0}
    BY <1>0, <2>1 DEF Typed
  <2>4. p \in DOMAIN pulls /\ HeadOf(p) \in DOMAIN commits /\ pulls[p] \in Pulls
    BY <1>0, OpenHead, PullTyped DEF Typed
  <2>5. /\ pulls'[p].branch = pulls[p].branch /\ pulls'[p].marker = pulls[p].marker
        /\ pulls'[p].head = HeadOf(p) /\ pulls'[p].merge = Len(commits) + 1
        /\ pulls'[p].state = "merged"
    BY <2>1, <2>4 DEF MergedPull, Pulls
  <2>6. World'
    BY <1>0, <2>1, <2>2, <2>3, <2>4, <2>5 DEF World, Sound, PullSound, NoCommit
  <2>7. WriterSound' /\ BinderSound'
    BY <1>0, <2>2, WriterKept, BinderKept DEF Sound
  <2>. QED  BY <2>6, <2>7 DEF World, Sound
<1>6. CASE JobIsKilled
  <2>1. World'
    BY <1>0, <1>6, ObjectsKept DEF JobIsKilled, World, Sound
  <2>2. WriterSound' /\ BinderSound'
    BY <1>0, <1>6, IdleTyped, WriterKept, BinderKept
    DEF JobIsKilled, WriterEnds, BinderEnds, Sound, WriterSound, BinderSound, NoPull
  <2>. QED  BY <2>1, <2>2 DEF World, Sound
<1>. QED  BY <1>1, <1>2, <1>3, <1>4, <1>5, <1>6 DEF People

(***************************************************************************)
(* At most one PR is open.                                                 *)
(***************************************************************************)
LEMMA OpenAfterEdit ==
  ASSUME Typed, NEW p \in DOMAIN pulls, NEW marker \in Markers, NEW note \in BOOLEAN,
         SetMarker(p, marker, note)
  PROVE  Open' = Open
<1>1. pulls \in Seq(Pulls)
  BY DEF Typed
<1>2. DOMAIN pulls' = DOMAIN pulls
      /\ \A q \in DOMAIN pulls : pulls'[q].state = pulls[q].state
  BY <1>1, SetMarkerSound
<1>. QED  BY <1>2 DEF Open

LEMMA OpenAfterClose ==
  ASSUME Typed, Sound, NEW p \in DOMAIN pulls, ClosePull(p)
  PROVE  Open' \subseteq Open \ {p}
BY CloseKept DEF Open

LEMMA SingleKept ==
  ASSUME Single, Open' \subseteq Open, UNCHANGED writer
  PROVE  Single'
BY DEF Single

LEMMA SingleAtIdle ==
  ASSUME Single, Open' \subseteq Open, writer' = IdleWriter
  PROVE  Single'
BY IdleTyped DEF Single

LEMMA SingleStep ==
  ASSUME Typed, Sound, Single, Next
  PROVE  Single'
<1>0. Typed /\ Sound /\ Single
  OBVIOUS
<1>1. CASE WriterReadsTip
  BY <1>0, <1>1 DEF WriterReadsTip, IdleWriter, Single, Open
<1>2. CASE WriterChecksMerge
  <2>1. writer.at = "merged" /\ writer \in Writers /\ Open' = Open
    BY <1>0, <1>2 DEF WriterChecksMerge, WriterAt, Typed, Open
  <2>2. \/ writer' = IdleWriter
        \/ \E step \in {"find", "list"} : writer' = [writer EXCEPT !.at = step]
    BY <1>2 DEF WriterChecksMerge, WriterGoes, WriterEnds
  <2>3. CASE writer' = IdleWriter
    BY <1>0, <2>1, <2>3, SingleAtIdle
  <2>4. CASE \E step \in {"find", "list"} : writer' = [writer EXCEPT !.at = step]
    <3>1. writer'.pull = writer.pull /\ writer'.at \in {"find", "list"}
      BY <2>1, <2>4 DEF Writers
    <3>. QED  BY <1>0, <2>1, <3>1 DEF Single
  <2>. QED  BY <2>2, <2>3, <2>4
<1>3. CASE WriterLists
  BY <1>0, <1>3, ManagedSound DEF WriterLists, Typed, Writers, Single, Open
<1>4. CASE WriterReadsBranch
  <2>1. UNCHANGED pulls /\ writer.at = "ref" /\ writer \in Writers
    BY <1>0, <1>4 DEF WriterReadsBranch, WriterAt, Typed
  <2>2. /\ writer'.at \in {"idle", "repair", "reset", "discard"}
        /\ writer'.at # "idle" => writer'.pull = writer.pull
    BY <1>4, <2>1, IdleTyped DEF WriterReadsBranch, WriterGoes, WriterEnds, Writers
  <2>. QED  BY <1>0, <2>1, <2>2 DEF Single, Open
<1>5. CASE WriterRepairs
  <2> DEFINE marker == Marker(writer.head, Plan(writer.base),
                              KeptIntent(writer.marker, writer.head))
  <2>1. writer.pull \in DOMAIN pulls /\ writer.base \in DOMAIN commits
    BY <1>0, <1>5 DEF WriterRepairs, WriterAt, Sound, WriterSound
  <2>2. marker \in Markers
    BY <1>0, <2>1, PlanTyped, Constants DEF Marker, Markers, KeptIntent, Typed, Writers
  <2>3. SetMarker(writer.pull, marker, FALSE) /\ writer' = IdleWriter
    BY <1>5 DEF WriterRepairs, WriterEnds
  <2>. QED  BY <1>0, <2>1, <2>2, <2>3, OpenAfterEdit, SingleAtIdle
<1>6. CASE WriterResets
  <2>1. writer.pull \in DOMAIN pulls /\ writer.at = "reset" /\ writer \in Writers
    BY <1>0, <1>6 DEF WriterResets, WriterAt, Sound, WriterSound, Typed
  <2>2. Open' \subseteq Open
    BY <1>0, <1>6, <2>1, OpenAfterClose DEF WriterResets, Open
  <2>3. writer' = IdleWriter \/ writer' = [writer EXCEPT !.at = "commit"]
    BY <1>6 DEF WriterResets, WriterGoes, WriterEnds
  <2>4. writer.pull # NoPull
    BY <1>0, <2>1, PullTyped DEF Typed, NoPull
  <2>. QED  BY <1>0, <2>1, <2>2, <2>3, <2>4, SingleAtIdle DEF Single, Writers
<1>7. CASE WriterDiscards
  <2>1. writer.pull \in DOMAIN pulls /\ writer.at = "discard" /\ writer \in Writers
    BY <1>0, <1>7 DEF WriterDiscards, WriterAt, Sound, WriterSound, Typed
  <2>2. Open' = {}
    BY <1>0, <1>7, <2>1, OpenAfterClose DEF WriterDiscards, Single
  <2>. QED  BY <1>7, <2>2 DEF WriterDiscards, Single
<1>8. CASE WriterCreatesBranch
  BY <1>0, <1>8 DEF WriterCreatesBranch, WriterAt, Typed, Writers, Single, Open
<1>9. CASE WriterCommits
  <2>1. UNCHANGED pulls /\ writer.at = "commit" /\ writer \in Writers
    BY <1>0, <1>9 DEF WriterCommits, WriterAt, Typed
  <2>2. writer' = IdleWriter
        \/ writer' = [writer EXCEPT !.at = "describe", !.head = Len(commits) + 1]
    BY <1>9 DEF WriterCommits, WriterEnds
  <2>3. Open' = Open
    BY <2>1 DEF Open
  <2>. QED  BY <1>0, <2>1, <2>2, <2>3, SingleAtIdle DEF Single, Writers
<1>10. CASE WriterDescribes
  <2> DEFINE marker == Marker(writer.head, Plan(writer.base), NoIntent)
             pull == [branch |-> writer.branch, state |-> "open",
                 marker |-> marker, note |-> FALSE, head |-> NoCommit,
                 merge |-> NoCommit, approved |-> NoIntent]
  <2>1. /\ writer.base \in DOMAIN commits /\ writer.at = "describe"
        /\ writer.pull # NoPull => writer.pull \in DOMAIN pulls
    BY <1>0, <1>10 DEF WriterDescribes, WriterAt, Sound, WriterSound
  <2>2. marker \in Markers
    BY <1>0, <2>1, PlanTyped, Constants DEF Marker, Markers, Typed, Writers
  <2>3. pull \in Pulls
    BY <1>0, <2>2, Constants DEF Pulls, Typed, Writers, NoCommit
  <2>4. /\ IF writer.pull # NoPull THEN SetMarker(writer.pull, marker, FALSE)
           ELSE pulls' = Append(pulls, pull)
        /\ writer' = IdleWriter
    BY <1>10 DEF WriterDescribes, WriterEnds
  <2> HIDE DEF marker, pull
  <2>5. CASE writer.pull # NoPull
    BY <1>0, <2>1, <2>2, <2>4, <2>5, OpenAfterEdit, SingleAtIdle
  <2>6. CASE writer.pull = NoPull
    <3>1. /\ DOMAIN pulls' = DOMAIN pulls \cup {Len(pulls) + 1}
          /\ \A p \in DOMAIN pulls : pulls'[p] = pulls[p]
      BY <1>0, <2>3, <2>4, <2>6, PullAdded DEF Typed
    <3>2. Open = {}
      BY <1>0, <2>1, <2>6 DEF Single
    <3>3. Open' \subseteq {Len(pulls) + 1}
      BY <3>1, <3>2 DEF Open
    <3>. QED  BY <2>4, <3>3, IdleTyped DEF Single
  <2>. QED  BY <2>5, <2>6
<1>11. CASE WriterFinds
  <2>1. UNCHANGED pulls
    BY <1>11 DEF WriterFinds
  <2>2. CASE WriterEnds
    BY <1>0, <2>1, <2>2, SingleAtIdle DEF WriterEnds, Open
  <2>3. CASE ~WriterEnds
    <3>1. PICK p \in Open :
            writer' = [writer EXCEPT !.at = "delete", !.pull = p,
                               !.branch = pulls[p].branch, !.actual = HeadOf(p)]
      BY <1>11, <2>3 DEF WriterFinds
    <3>2. Open' = Open /\ Open \subseteq {p} /\ writer \in Writers
      BY <1>0, <2>1 DEF Single, Open, Typed
    <3>. QED  BY <3>1, <3>2 DEF Single, Writers
  <2>. QED  BY <2>2, <2>3
<1>12. CASE WriterDeletes
  <2>1. writer.pull \in DOMAIN pulls
    BY <1>0, <1>12 DEF WriterDeletes, WriterAt, Sound, WriterSound
  <2>2. Open' \subseteq Open
    BY <1>0, <1>12, <2>1, OpenAfterClose DEF WriterDeletes, Open
  <2>. QED  BY <1>0, <1>12, <2>2, SingleAtIdle DEF WriterDeletes, WriterEnds
<1>13. CASE BinderLists \/ BinderReadsAgain
  BY <1>0, <1>13 DEF BinderLists, BinderReadsAgain, Single, Open
<1>14. CASE BinderWrites
  <2> DEFINE marker == [binder.marker EXCEPT !.intent = Intent(binder.head)]
  <2>1. binder.pull \in DOMAIN pulls /\ binder.head \in DOMAIN commits
    BY <1>0, <1>14 DEF BinderWrites, BinderAt, Sound, BinderSound
  <2>2. Tree(binder.head) \in Trees
    BY <1>0, <2>1, PlanTyped
  <2>3. Intent(binder.head) \in Intents
    BY <2>2, Constants DEF Intent, Intents, Trees
  <2>4. marker \in Markers /\ binder.note \in BOOLEAN
    BY <1>0, <2>3 DEF Markers, Typed, Binders
  <2>5. SetMarker(binder.pull, marker, binder.note) /\ UNCHANGED writer
    BY <1>14 DEF BinderWrites
  <2>. QED  BY <1>0, <2>1, <2>4, <2>5, OpenAfterEdit, SingleKept
<1>15. CASE PersonPushes \/ PersonPushesToBranch
  BY <1>0, <1>15 DEF PersonPushes, PersonPushesToBranch, Single, Open
<1>16. CASE PersonEdits
  <2>1. PICK p \in Open : SetMarker(p, pulls[p].marker, TRUE)
    BY <1>16 DEF PersonEdits
  <2>2. p \in DOMAIN pulls /\ pulls[p].marker \in Markers /\ UNCHANGED writer
    BY <1>0, <1>16, OpenHead, PullTyped DEF Typed, PersonEdits
  <2>. QED  BY <1>0, <2>1, <2>2, OpenAfterEdit, SingleKept
<1>17. CASE PersonCloses
  <2>1. PICK p \in Open : ClosePull(p)
    BY <1>17 DEF PersonCloses
  <2>2. p \in DOMAIN pulls /\ UNCHANGED writer
    BY <1>0, <1>17, OpenHead DEF PersonCloses
  <2>. QED  BY <1>0, <2>1, <2>2, OpenAfterClose, SingleKept
<1>18. CASE PersonMerges
  <2>1. PICK p \in Open : /\ DOMAIN pulls' = DOMAIN pulls
                          /\ pulls'[p] = MergedPull(p)
                          /\ \A q \in DOMAIN pulls : q # p => pulls'[q] = pulls[q]
    BY <1>0, <1>18, MergeSound
  <2>2. Open' \subseteq Open
    BY <2>1 DEF Open
  <2>. QED  BY <1>0, <1>18, <2>2, SingleKept DEF PersonMerges
<1>19. CASE JobIsKilled
  BY <1>0, <1>19, IdleTyped, SingleKept, SingleAtIdle DEF JobIsKilled, WriterEnds, Open
<1>. QED
  BY <1>1, <1>2, <1>3, <1>4, <1>5, <1>6, <1>7, <1>8, <1>9, <1>10, <1>11, <1>12, <1>13,
     <1>14, <1>15, <1>16, <1>17, <1>18, <1>19 DEF Next, WriterSteps, BinderSteps, People

(***************************************************************************)
(* An intent in a marker is that of the rehearsal of the head in it.       *)
(***************************************************************************)
Binds(marker) ==
  marker.intent # NoIntent =>
    /\ marker.head \in DOMAIN commits
    /\ marker.head \in heads
    /\ marker.intent = Intent(marker.head)

Bound ==
  /\ \A p \in DOMAIN pulls : Binds(pulls[p].marker)
  /\ Binds(writer.marker)
  /\ binder.at # "idle" => binder.head \in heads

LEMMA StepSound ==
  ASSUME Typed, Sound, Single, Next
  PROVE  Typed' /\ Sound' /\ Single' /\ Adds
BY WriterTyped, WriterSoundStep, BinderTyped, BinderSoundStep, PeopleTyped, PeopleSoundStep,
   SingleStep DEF Next

(* The marker that the release-pr job holds was read from a PR.            *)
LEMMA WriterMarker ==
  ASSUME Typed, Sound, Single, Next
  PROVE  \/ writer'.marker = writer.marker
         \/ writer'.marker.intent = NoIntent
         \/ \E p \in DOMAIN pulls : writer'.marker = pulls[p].marker
<1>1. writer \in Writers /\ IdleWriter.marker.intent = NoIntent
  BY DEF Typed, IdleWriter, Marker
<1>2. CASE WriterReadsTip
  BY <1>1, <1>2, IdleTyped DEF WriterReadsTip, Writers
<1>3. CASE WriterLists
  BY <1>1, <1>3, ManagedSound DEF WriterLists, Writers
<1>4. CASE WriterFinds
  <2>1. writer' = IdleWriter \/ \E p \in Open :
            writer' = [writer EXCEPT !.at = "delete", !.pull = p,
                               !.branch = pulls[p].branch, !.actual = HeadOf(p)]
    BY <1>4 DEF WriterFinds, WriterEnds
  <2>. QED  BY <1>1, <2>1 DEF Writers
<1>5. CASE WriterSteps /\ ~WriterReadsTip /\ ~WriterLists /\ ~WriterFinds
  BY <1>1, <1>5 DEF WriterSteps, WriterChecksMerge, WriterReadsBranch, WriterRepairs,
     WriterResets, WriterDiscards, WriterCreatesBranch, WriterCommits, WriterDescribes,
     WriterDeletes, WriterGoes, WriterEnds, Writers
<1>6. CASE BinderSteps \/ People \/ JobIsKilled
  BY <1>1, <1>6 DEF BinderSteps, BinderLists, BinderReadsAgain, BinderWrites, People,
     PersonPushes, PersonPushesToBranch, PersonEdits, PersonCloses, PersonMerges,
     JobIsKilled, WriterEnds
<1>. QED  BY <1>2, <1>3, <1>4, <1>5, <1>6 DEF Next

(* Where the intent in a marker that is written comes from: it was in the  *)
(* PR before, or one of the two jobs has it.                               *)
Source(p, marker) ==
  \/ marker.intent = NoIntent
  \/ marker = pulls[p].marker
  \/ marker.intent = writer.marker.intent /\ marker.head = writer.marker.head
  \/ /\ binder.at # "idle"
     /\ marker.intent = Intent(binder.head) /\ marker.head = binder.head

(* All that a step may do to the pull requests.                            *)
LEMMA PullSteps ==
  ASSUME Typed, Sound, Single, Next
  PROVE  \/ UNCHANGED pulls
         \/ \E p \in DOMAIN pulls, marker \in Markers, note \in BOOLEAN :
              SetMarker(p, marker, note) /\ Source(p, marker)
         \/ \E p \in DOMAIN pulls : ClosePull(p)
         \/ \E pull \in Pulls :
              /\ pull.state = "open" /\ pull.marker.intent = NoIntent
              /\ pulls' = Append(pulls, pull)
         \/ PersonMerges
<1>0. Typed /\ Sound /\ pulls \in Seq(Pulls)
  BY DEF Typed
<1>1. CASE WriterRepairs
  <2> DEFINE marker == Marker(writer.head, Plan(writer.base),
                              KeptIntent(writer.marker, writer.head))
  <2>1. writer.pull \in DOMAIN pulls /\ writer.base \in DOMAIN commits
    BY <1>0, <1>1 DEF WriterRepairs, WriterAt, Sound, WriterSound
  <2>2. marker \in Markers
    BY <1>0, <2>1, PlanTyped, Constants DEF Marker, Markers, KeptIntent, Typed, Writers
  <2>3. SetMarker(writer.pull, marker, FALSE)
    BY <1>1 DEF WriterRepairs
  <2>4. Source(writer.pull, marker)
    BY DEF Source, Marker, KeptIntent
  <2> HIDE DEF marker
  <2>. QED  BY <2>1, <2>2, <2>3, <2>4
<1>2. CASE WriterResets \/ WriterDiscards \/ WriterDeletes
  <2>1. writer.pull \in DOMAIN pulls
    BY <1>0, <1>2 DEF WriterResets, WriterDiscards, WriterDeletes, WriterAt, Sound, WriterSound
  <2>2. UNCHANGED pulls \/ ClosePull(writer.pull)
    BY <1>2 DEF WriterResets, WriterDiscards, WriterDeletes
  <2>. QED  BY <2>1, <2>2
<1>3. CASE WriterDescribes
  <2> DEFINE marker == Marker(writer.head, Plan(writer.base), NoIntent)
             pull == [branch |-> writer.branch, state |-> "open",
                 marker |-> marker, note |-> FALSE, head |-> NoCommit,
                 merge |-> NoCommit, approved |-> NoIntent]
  <2>1. /\ writer.base \in DOMAIN commits
        /\ writer.pull # NoPull => writer.pull \in DOMAIN pulls
    BY <1>0, <1>3 DEF WriterDescribes, WriterAt, Sound, WriterSound
  <2>2. marker \in Markers /\ Source(writer.pull, marker)
    BY <1>0, <2>1, PlanTyped, Constants DEF Marker, Markers, Typed, Writers, Source
  <2>3. pull \in Pulls /\ pull.state = "open" /\ pull.marker.intent = NoIntent
    BY <1>0, <2>2, Constants DEF Pulls, Typed, Writers, NoCommit, Marker
  <2>4. IF writer.pull # NoPull THEN SetMarker(writer.pull, marker, FALSE)
           ELSE pulls' = Append(pulls, pull)
    BY <1>3 DEF WriterDescribes
  <2> HIDE DEF marker, pull
  <2>. QED  BY <2>1, <2>2, <2>3, <2>4
<1>4. CASE BinderWrites
  <2> DEFINE marker == [binder.marker EXCEPT !.intent = Intent(binder.head)]
  <2>1. binder.pull \in DOMAIN pulls /\ binder.head \in DOMAIN commits
        /\ binder.at # "idle" /\ binder.marker.head = binder.head
    BY <1>0, <1>4 DEF BinderWrites, BinderAt, Sound, BinderSound
  <2>2. Tree(binder.head) \in Trees
    BY <1>0, <2>1, PlanTyped
  <2>3. Intent(binder.head) \in Intents
    BY <2>2, Constants DEF Intent, Intents, Trees
  <2>4. marker \in Markers /\ binder.note \in BOOLEAN
    BY <1>0, <2>1, <2>3 DEF Markers, Typed, Binders
  <2>5. SetMarker(binder.pull, marker, binder.note)
    BY <1>4 DEF BinderWrites
  <2>6. marker.intent = Intent(binder.head) /\ marker.head = binder.head
    BY <1>0, <2>1 DEF Typed, Binders, Markers
  <2> HIDE DEF marker
  <2>. QED  BY <2>1, <2>4, <2>5, <2>6 DEF Source
<1>5. CASE PersonEdits
  <2>1. PICK p \in Open : SetMarker(p, pulls[p].marker, TRUE)
    BY <1>5 DEF PersonEdits
  <2>2. p \in DOMAIN pulls /\ pulls[p].marker \in Markers
    BY <1>0, OpenHead, PullTyped
  <2>. QED  BY <2>1, <2>2 DEF Source
<1>6. CASE PersonCloses
  BY <1>0, <1>6, OpenHead DEF PersonCloses
<1>7. \/ UNCHANGED pulls \/ WriterRepairs \/ WriterDescribes
      \/ (WriterResets \/ WriterDiscards \/ WriterDeletes)
      \/ BinderWrites \/ PersonEdits \/ PersonCloses \/ PersonMerges
  BY DEF Next, WriterSteps, WriterReadsTip, WriterChecksMerge, WriterLists, WriterReadsBranch,
     WriterCreatesBranch, WriterCommits, WriterFinds, BinderSteps, BinderLists,
     BinderReadsAgain, People, PersonPushes, PersonPushesToBranch, JobIsKilled
<1>. QED  BY <1>1, <1>2, <1>3, <1>4, <1>5, <1>6, <1>7

(* Every marker in a PR was there before, or has such a source.            *)
LEMMA PullMarkers ==
  ASSUME Typed, Sound, Single, Next, NEW p \in DOMAIN pulls'
  PROVE  LET new == pulls'[p].marker
         IN \/ new.intent = NoIntent
            \/ p \in DOMAIN pulls /\ new = pulls[p].marker
            \/ new.intent = writer.marker.intent /\ new.head = writer.marker.head
            \/ /\ binder.at # "idle"
               /\ new.intent = Intent(binder.head) /\ new.head = binder.head
<1>0. Typed /\ Sound /\ pulls \in Seq(Pulls)
  BY DEF Typed
<1>1. CASE UNCHANGED pulls
  BY <1>1
<1>2. CASE \E q \in DOMAIN pulls, marker \in Markers, note \in BOOLEAN :
             SetMarker(q, marker, note) /\ Source(q, marker)
  <2>1. PICK q \in DOMAIN pulls, marker \in Markers, note \in BOOLEAN :
          SetMarker(q, marker, note) /\ Source(q, marker)
    BY <1>2
  <2>2. DOMAIN pulls' = DOMAIN pulls /\ pulls'[q].marker = marker
        /\ \A a \in DOMAIN pulls : a # q => pulls'[a] = pulls[a]
    BY <1>0, <2>1, SetMarkerSound
  <2>. QED  BY <2>1, <2>2 DEF Source
<1>3. CASE \E q \in DOMAIN pulls : ClosePull(q)
  BY <1>0, <1>3, CloseKept
<1>4. CASE \E pull \in Pulls : /\ pull.state = "open" /\ pull.marker.intent = NoIntent
                              /\ pulls' = Append(pulls, pull)
  <2>1. PICK pull \in Pulls : pull.marker.intent = NoIntent /\ pulls' = Append(pulls, pull)
    BY <1>4
  <2>2. /\ DOMAIN pulls' = DOMAIN pulls \cup {Len(pulls) + 1}
        /\ pulls'[Len(pulls) + 1] = pull
        /\ \A q \in DOMAIN pulls : pulls'[q] = pulls[q]
    BY <1>0, <2>1, PullAdded
  <2>. QED  BY <2>1, <2>2
<1>5. CASE PersonMerges
  <2>1. PICK q \in Open : /\ DOMAIN pulls' = DOMAIN pulls
                          /\ pulls'[q] = MergedPull(q)
                          /\ \A a \in DOMAIN pulls : a # q => pulls'[a] = pulls[a]
    BY <1>0, <1>5, MergeSound
  <2>2. pulls[q] \in Pulls
    BY <1>0, OpenHead, PullTyped
  <2>3. pulls'[q].marker = pulls[q].marker
    BY <2>1, <2>2 DEF MergedPull, Pulls
  <2>. QED  BY <2>1, <2>3
<1>. QED  BY <1>1, <1>2, <1>3, <1>4, <1>5, PullSteps

LEMMA BoundStep ==
  ASSUME Typed, Sound, Single, Bound, Next
  PROVE  Bound'
<1>0. Adds /\ Sound
  BY StepSound
<1>1. ASSUME NEW p \in DOMAIN pulls'
      PROVE  Binds(pulls[p].marker)'
  <2>1. CASE binder.at # "idle" /\ pulls'[p].marker.intent = Intent(binder.head)
             /\ pulls'[p].marker.head = binder.head
    BY <1>0, <2>1 DEF Bound, Sound, BinderSound, Binds, Adds, Intent, Tree
  <2>2. CASE pulls'[p].marker.intent = writer.marker.intent
             /\ pulls'[p].marker.head = writer.marker.head
    BY <1>0, <2>2 DEF Bound, Binds, Adds, Intent, Tree
  <2>3. CASE p \in DOMAIN pulls /\ pulls'[p].marker = pulls[p].marker
    BY <1>0, <2>3 DEF Bound, Binds, Adds, Intent, Tree
  <2>4. CASE pulls'[p].marker.intent = NoIntent
    BY <2>4 DEF Binds
  <2>. QED  BY <1>1, <2>1, <2>2, <2>3, <2>4, PullMarkers
<1>2. Binds(writer.marker)'
  <2>1. CASE writer'.marker = writer.marker
    BY <1>0, <2>1 DEF Bound, Binds, Adds, Intent, Tree
  <2>2. CASE writer'.marker.intent = NoIntent
    BY <2>2 DEF Binds
  <2>3. ASSUME NEW p \in DOMAIN pulls, writer'.marker = pulls[p].marker
        PROVE  Binds(writer.marker)'
    BY <1>0, <2>3 DEF Bound, Binds, Adds, Intent, Tree
  <2>. QED  BY <2>1, <2>2, <2>3, WriterMarker
<1>3. binder'.at # "idle" => binder'.head \in heads'
  <2>1. binder \in Binders
    BY DEF Typed
  <2>2. CASE BinderLists
    BY <1>0, <2>2 DEF BinderLists, Adds
  <2>3. CASE BinderReadsAgain
    BY <1>0, <2>1, <2>3, IdleTyped DEF BinderReadsAgain, BinderAt, BinderEnds, Bound, Adds,
       Binders
  <2>4. CASE BinderWrites
    BY <2>4, IdleTyped DEF BinderWrites, BinderEnds
  <2>5. CASE JobIsKilled
    BY <1>0, <2>5, IdleTyped DEF JobIsKilled, BinderEnds, Bound, Adds
  <2>6. CASE WriterSteps \/ People
    <3>1. UNCHANGED binder
      BY <2>6 DEF WriterSteps, WriterReadsTip, WriterChecksMerge, WriterLists,
         WriterReadsBranch, WriterRepairs, WriterResets, WriterDiscards,
         WriterCreatesBranch, WriterCommits, WriterDescribes, WriterFinds, WriterDeletes,
         People, PersonPushes, PersonPushesToBranch, PersonEdits, PersonCloses,
         PersonMerges
    <3>. QED  BY <1>0, <3>1 DEF Bound, Adds
  <2>. QED  BY <2>2, <2>3, <2>4, <2>5, <2>6 DEF Next, BinderSteps
<1>. QED  BY <1>1, <1>2, <1>3 DEF Bound

(***************************************************************************)
(* What a merge brings in.                                                 *)
(***************************************************************************)
Clean ==
  /\ ~Merged =>
       /\ \A c \in DOMAIN commits : commits[c].generated => Tree(c).extra = {}
       /\ Tree(main).extra = {}
       /\ writer.at # "idle" => Tree(writer.base).extra = {}
  /\ \A p \in DOMAIN pulls :
       pulls[p].state = "merged" =>
         /\ pulls[p].head \in DOMAIN commits
         /\ commits[pulls[p].head].generated => Tree(pulls[p].merge).extra = {}

(* Only a merge merges, and what merged stays merged from the same head.   *)
LEMMA MergedKept ==
  ASSUME Typed, Sound, Single, Next, ~PersonMerges
  PROVE  \A p \in DOMAIN pulls' :
           pulls'[p].state = "merged" =>
             /\ p \in DOMAIN pulls /\ pulls[p].state = "merged"
             /\ pulls'[p].head = pulls[p].head
             /\ pulls'[p].merge = pulls[p].merge
<1>0. Typed /\ Sound /\ pulls \in Seq(Pulls)
  BY DEF Typed
<1>1. CASE UNCHANGED pulls
  BY <1>1
<1>2. CASE \E p \in DOMAIN pulls, marker \in Markers, note \in BOOLEAN :
             SetMarker(p, marker, note)
  BY <1>0, <1>2, SetMarkerSound
<1>3. CASE \E p \in DOMAIN pulls : ClosePull(p)
  <2>1. PICK p \in DOMAIN pulls : ClosePull(p)
    BY <1>3
  <2>2. /\ DOMAIN pulls' = DOMAIN pulls
        /\ \A q \in DOMAIN pulls :
              /\ pulls'[q].merge = pulls[q].merge
              /\ pulls[q].state # "open" => pulls'[q].head = pulls[q].head
              /\ pulls'[q].state = "merged" <=> pulls[q].state = "merged"
    BY <1>0, <2>1, CloseKept
  <2>. QED  BY <2>2
<1>4. CASE \E pull \in Pulls : pull.state = "open" /\ pulls' = Append(pulls, pull)
  <2>1. PICK pull \in Pulls : pull.state = "open" /\ pulls' = Append(pulls, pull)
    BY <1>4
  <2>2. /\ DOMAIN pulls' = DOMAIN pulls \cup {Len(pulls) + 1}
        /\ pulls'[Len(pulls) + 1] = pull
        /\ \A q \in DOMAIN pulls : pulls'[q] = pulls[q]
    BY <1>0, <2>1, PullAdded
  <2>. QED  BY <2>1, <2>2
<1>. QED  BY <1>1, <1>2, <1>3, <1>4, PullSteps

(* What merged stays merged.                                               *)
LEMMA MergedStays ==
  ASSUME Typed, Sound, Single, Next, Merged
  PROVE  Merged'
<1>0. Typed /\ Sound /\ pulls \in Seq(Pulls)
  BY DEF Typed
<1>1. PICK p \in DOMAIN pulls : pulls[p].state = "merged"
  BY DEF Merged
<1>2. p \in DOMAIN pulls' /\ pulls'[p].state = "merged"
  <2>1. CASE UNCHANGED pulls
    BY <1>1, <2>1
  <2>2. CASE \E q \in DOMAIN pulls, marker \in Markers, note \in BOOLEAN :
               SetMarker(q, marker, note)
    BY <1>0, <1>1, <2>2, SetMarkerSound
  <2>3. CASE \E q \in DOMAIN pulls : ClosePull(q)
    BY <1>0, <1>1, <2>3, CloseKept
  <2>4. CASE \E pull \in Pulls : pull.state = "open" /\ pulls' = Append(pulls, pull)
    BY <1>0, <1>1, <2>4, PullAdded
  <2>5. ~PersonMerges
    BY DEF PersonMerges
  <2>. QED  BY <2>1, <2>2, <2>3, <2>4, <2>5, PullSteps
<1>. QED  BY <1>2 DEF Merged

(* The commits that a step adds.                                           *)
LEMMA NewCommits ==
  ASSUME Typed, Sound, Single, Next, ~PersonMerges
  PROVE  /\ \A c \in DOMAIN commits' :
              commits'[c].generated =>
                \/ c \in DOMAIN commits
                \/ /\ writer.at # "idle" /\ writer.base \in DOMAIN commits
                   /\ commits'[c].tree.extra = Tree(writer.base).extra
         /\ main' = main \/ commits'[main'].tree.extra = Tree(main).extra
<1>0. Typed /\ Sound /\ commits \in Seq(Commits)
  BY DEF Typed
<1>1. CASE WriterCommits /\ Moves(writer.branch, writer.base)
  <2> DEFINE tree == [Tree(writer.base) EXCEPT !.files = Plan(writer.base)]
  <2>1. writer.base \in DOMAIN commits /\ writer.at # "idle"
    BY <1>0, <1>1 DEF WriterCommits, WriterAt, Sound, WriterSound
  <2>2. Tree(writer.base) \in Trees /\ Plan(writer.base) \in Files
    BY <1>0, <2>1, PlanTyped
  <2>3. tree \in Trees /\ tree.extra = Tree(writer.base).extra
    BY <2>2 DEF Trees
  <2>4. commits' = Append(commits, Commit(writer.base, tree, TRUE)) /\ main' = main
    BY <1>1 DEF WriterCommits
  <2> HIDE DEF tree
  <2>5. Commit(writer.base, tree, TRUE) \in Commits
        /\ Commit(writer.base, tree, TRUE).tree = tree
    BY <1>0, <2>1, <2>3 DEF Commit, Commits
  <2>6. /\ DOMAIN commits' = DOMAIN commits \cup {Len(commits) + 1}
        /\ commits'[Len(commits) + 1].tree.extra = Tree(writer.base).extra
    BY <1>0, <2>3, <2>4, <2>5, CommitAdded
  <2>. QED  BY <2>1, <2>4, <2>6
<1>2. CASE PersonPushes
  <2> DEFINE tree == [Tree(main) EXCEPT !.pushes = @ + 1]
  <2>1. commits' = Append(commits, Commit(main, tree, FALSE)) /\ main' = Len(commits) + 1
    BY <1>2 DEF PersonPushes
  <2>2. Tree(main) \in Trees /\ main \in Nat
    BY <1>0, PlanTyped DEF Typed, Sound
  <2>3. Tree(main).pushes + 1 \in DOMAIN PlanOf
    BY <1>2, <2>2, Constants DEF PersonPushes, Trees
  <2>4. tree \in Trees /\ tree.extra = Tree(main).extra
    BY <2>2, <2>3 DEF Trees
  <2> HIDE DEF tree
  <2>5. Commit(main, tree, FALSE) \in Commits /\ Commit(main, tree, FALSE).tree = tree
        /\ ~Commit(main, tree, FALSE).generated
    BY <2>2, <2>4 DEF Commit, Commits
  <2>6. DOMAIN commits' = DOMAIN commits \cup {Len(commits) + 1}
        /\ commits'[Len(commits) + 1] = Commit(main, tree, FALSE)
    BY <1>0, <2>1, <2>5, CommitAdded
  <2>. QED  BY <2>1, <2>4, <2>5, <2>6
<1>3. CASE PersonPushesToBranch
  <2>1. PICK b \in DOMAIN refs, extra \in Extras :
          commits' = Append(commits,
            Commit(refs[b], [Tree(refs[b]) EXCEPT !.extra = @ \cup {extra}], FALSE))
    BY <1>3 DEF PersonPushesToBranch
  <2>2. main' = main
    BY <1>3 DEF PersonPushesToBranch
  <2>3. /\ DOMAIN commits' = DOMAIN commits \cup {Len(commits) + 1}
        /\ ~commits'[Len(commits) + 1].generated
    BY <1>0, <2>1 DEF Commit
  <2>. QED  BY <2>2, <2>3
<1>4. \/ UNCHANGED <<commits, main>>
      \/ WriterCommits /\ Moves(writer.branch, writer.base)
      \/ PersonPushes \/ PersonPushesToBranch
  BY DEF Next, WriterSteps, WriterReadsTip, WriterChecksMerge, WriterLists, WriterReadsBranch,
     WriterRepairs, WriterResets, WriterDiscards, WriterCreatesBranch, WriterCommits,
     WriterDescribes, WriterFinds, WriterDeletes, BinderSteps, BinderLists, BinderReadsAgain,
     BinderWrites, People, PersonEdits, PersonCloses, JobIsKilled
<1>. QED  BY <1>1, <1>2, <1>3, <1>4

(* The job works on one tip until it ends.                                 *)
LEMMA WriterBase ==
  ASSUME Typed, Next, writer'.at # "idle"
  PROVE  \/ writer'.base = writer.base /\ writer.at # "idle"
         \/ writer'.base = main /\ UNCHANGED <<commits, main>>
<1>1. writer \in Writers
  BY DEF Typed
<1>2. CASE WriterReadsTip
  BY <1>2, IdleTyped DEF WriterReadsTip, Writers
<1>3. CASE UNCHANGED writer
  BY <1>3
<1>4. CASE WriterSteps /\ ~WriterReadsTip
  BY <1>1, <1>4, IdleTyped DEF WriterSteps, WriterChecksMerge, WriterLists, WriterReadsBranch,
     WriterRepairs, WriterResets, WriterDiscards, WriterCreatesBranch, WriterCommits,
     WriterDescribes, WriterFinds, WriterDeletes, WriterGoes, WriterEnds, WriterAt, Writers
<1>5. CASE JobIsKilled
  BY <1>5, IdleTyped DEF JobIsKilled, WriterEnds
<1>. QED
  BY <1>2, <1>3, <1>4, <1>5 DEF Next, BinderSteps, BinderLists, BinderReadsAgain,
     BinderWrites, People, PersonPushes, PersonPushesToBranch, PersonEdits, PersonCloses,
     PersonMerges

LEMMA CleanStep ==
  ASSUME Typed, Sound, Single, Clean, Next
  PROVE  Clean'
<1>0. Typed /\ Sound /\ Single /\ Adds /\ Sound'
  BY StepSound
<1>1. CASE ~PersonMerges
  <2>1. ASSUME NEW p \in DOMAIN pulls', pulls'[p].state = "merged"
        PROVE  /\ pulls'[p].head \in DOMAIN commits'
               /\ commits'[pulls'[p].head].generated =>
                    commits'[pulls'[p].merge].tree.extra = {}
    <3>1. /\ p \in DOMAIN pulls /\ pulls[p].state = "merged"
          /\ pulls'[p].head = pulls[p].head
          /\ pulls'[p].merge = pulls[p].merge
      BY <1>0, <1>1, <2>1, MergedKept
    <3>2. /\ pulls[p].head \in DOMAIN commits
          /\ commits[pulls[p].head].generated => Tree(pulls[p].merge).extra = {}
      BY <3>1 DEF Clean
    <3>3. pulls[p].merge \in DOMAIN commits
      BY <1>0, <3>1 DEF Sound, PullSound
    <3>. QED  BY <1>0, <3>1, <3>2, <3>3 DEF Adds, Tree
  <2>2. ASSUME ~Merged'
        PROVE  /\ \A c \in DOMAIN commits' :
                    commits'[c].generated => commits'[c].tree.extra = {}
               /\ commits'[main'].tree.extra = {}
               /\ writer'.at # "idle" => commits'[writer'.base].tree.extra = {}
    <3>1. ~Merged
      BY <1>0, <2>2, MergedStays
    <3>2. /\ \A c \in DOMAIN commits : commits[c].generated => commits[c].tree.extra = {}
          /\ commits[main].tree.extra = {}
          /\ writer.at # "idle" => commits[writer.base].tree.extra = {}
      BY <3>1 DEF Clean, Tree
    <3>3. main \in DOMAIN commits
          /\ (writer.at # "idle" => writer.base \in DOMAIN commits)
      BY <1>0 DEF Sound, WriterSound
    <3>4. \A c \in DOMAIN commits' :
            commits'[c].generated => commits'[c].tree.extra = {}
      BY <1>0, <1>1, <3>2, NewCommits DEF Adds, Tree
    <3>5. commits'[main'].tree.extra = {}
      BY <1>0, <1>1, <3>2, <3>3, NewCommits DEF Adds, Tree
    <3>6. writer'.at # "idle" => commits'[writer'.base].tree.extra = {}
      BY <1>0, <3>2, <3>3, WriterBase DEF Adds
    <3>. QED  BY <3>4, <3>5, <3>6
  <2>. QED  BY <2>1, <2>2 DEF Clean, Tree
<1>2. CASE PersonMerges
  <2>1. PICK p \in Open :
          /\ DOMAIN pulls' = DOMAIN pulls /\ pulls' \in Seq(Pulls)
          /\ pulls'[p] = MergedPull(p)
          /\ \A q \in DOMAIN pulls : q # p => pulls'[q] = pulls[q]
          /\ MergeOf(p) \in Commits
          /\ commits' = Append(commits, MergeOf(p))
    BY <1>0, <1>2, MergeSound
  <2>2. ~Merged
    BY <1>2 DEF PersonMerges
  <2>3. p \in DOMAIN pulls /\ HeadOf(p) \in DOMAIN commits /\ pulls[p] \in Pulls
    BY <1>0, OpenHead, PullTyped DEF Typed
  <2>4. /\ pulls'[p].head = HeadOf(p) /\ pulls'[p].merge = Len(commits) + 1
        /\ pulls'[p].state = "merged"
    BY <2>1, <2>3 DEF MergedPull, Pulls
  <2>5. commits'[Len(commits) + 1] = MergeOf(p) /\ commits'[HeadOf(p)] = commits[HeadOf(p)]
        /\ HeadOf(p) \in DOMAIN commits'
    BY <1>0, <2>1, <2>3, CommitAdded DEF Typed
  <2>6. commits[HeadOf(p)].generated => MergeOf(p).tree.extra = {}
    BY <2>2, <2>3 DEF Clean, MergeOf, Commit, Tree
  <2>7. \A q \in DOMAIN pulls' : pulls'[q].state = "merged" => q = p
    BY <2>1, <2>2 DEF Merged
  <2>8. Merged'
    BY <2>1, <2>3, <2>4 DEF Merged
  <2>. QED  BY <2>4, <2>5, <2>6, <2>7, <2>8 DEF Clean, Tree
<1>. QED  BY <1>1, <1>2

(***************************************************************************)
(* No step takes the work of people off a release branch.                  *)
(***************************************************************************)
StaysOn(b) ==
  refs[b] # NoCommit /\ ~commits[refs[b]].generated =>
    /\ refs'[b] # NoCommit
    /\ Tree(refs[b]).extra \subseteq commits'[refs'[b]].tree.extra

(* A branch that a step leaves alone.                                      *)
LEMMA LeftAlone ==
  ASSUME Sound, Adds, NEW b \in DOMAIN refs, refs'[b] = refs[b]
  PROVE  StaysOn(b)
BY DEF StaysOn, Sound, Adds, Tree

LEMMA WorkStep ==
  ASSUME Typed, Sound, Single, Next, NEW b \in DOMAIN refs
  PROVE  StaysOn(b)
<1>0. Typed /\ Sound /\ Adds /\ commits \in Seq(Commits) /\ refs \in Seq(Nat)
  BY StepSound DEF Typed
<1>1. CASE UNCHANGED refs
  BY <1>0, <1>1, LeftAlone
<1>2. CASE WriterResets /\ ~UNCHANGED refs
  <2>1. /\ writer.branch \in DOMAIN refs
        /\ writer.actual \in DOMAIN commits /\ commits[writer.actual].generated
        /\ writer.base \in DOMAIN commits
    BY <1>0, <1>2 DEF WriterResets, WriterAt, Sound, WriterSound
  <2>2. refs[writer.branch] = writer.actual
        /\ refs' = [refs EXCEPT ![writer.branch] = writer.base]
    BY <1>2 DEF WriterResets, Moves
  <2>3. CASE b = writer.branch
    BY <2>1, <2>2, <2>3 DEF StaysOn
  <2>4. CASE b # writer.branch
    BY <1>0, <2>2, <2>4, LeftAlone
  <2>. QED  BY <2>3, <2>4
<1>3. CASE WriterDeletes /\ ~UNCHANGED refs
  <2>1. /\ writer.branch \in DOMAIN refs
        /\ writer.actual \in DOMAIN commits /\ commits[writer.actual].generated
    BY <1>0, <1>3 DEF WriterDeletes, WriterAt, Sound, WriterSound
  <2>2. refs[writer.branch] = writer.actual
        /\ refs' = [refs EXCEPT ![writer.branch] = NoCommit]
    BY <1>3 DEF WriterDeletes, Moves
  <2>3. CASE b = writer.branch
    BY <2>1, <2>2, <2>3 DEF StaysOn
  <2>4. CASE b # writer.branch
    BY <1>0, <2>2, <2>4, LeftAlone
  <2>. QED  BY <2>3, <2>4
<1>4. CASE WriterCreatesBranch
  <2>1. writer.base \in Nat
    BY <1>0 DEF Typed, Writers
  <2>2. refs' = Append(refs, writer.base)
    BY <1>4 DEF WriterCreatesBranch
  <2>3. refs'[b] = refs[b]
    BY <1>0, <2>1, <2>2, AppendSound
  <2>. QED  BY <1>0, <2>3, LeftAlone
<1>5. CASE WriterCommits /\ ~UNCHANGED refs
  <2> DEFINE tree == [Tree(writer.base) EXCEPT !.files = Plan(writer.base)]
  <2>1. writer.branch \in DOMAIN refs /\ writer.base \in DOMAIN commits
    BY <1>0, <1>5 DEF WriterCommits, WriterAt, Sound, WriterSound
  <2>2. /\ refs[writer.branch] = writer.base
        /\ refs' = [refs EXCEPT ![writer.branch] = Len(commits) + 1]
        /\ commits' = Append(commits, Commit(writer.base, tree, TRUE))
    BY <1>5 DEF WriterCommits, Moves
  <2>3. Tree(writer.base) \in Trees /\ Plan(writer.base) \in Files
    BY <1>0, <2>1, PlanTyped
  <2>4. tree \in Trees /\ tree.extra = Tree(writer.base).extra
    BY <2>3 DEF Trees
  <2> HIDE DEF tree
  <2>5. Commit(writer.base, tree, TRUE) \in Commits
        /\ Commit(writer.base, tree, TRUE).tree = tree
    BY <1>0, <2>1, <2>4 DEF Commit, Commits
  <2>6. commits'[Len(commits) + 1].tree.extra = Tree(writer.base).extra
        /\ Len(commits) + 1 \in Nat \ {0}
    BY <1>0, <2>2, <2>4, <2>5, CommitAdded
  <2>7. CASE b = writer.branch
    BY <1>0, <2>1, <2>2, <2>6, <2>7 DEF StaysOn, NoCommit
  <2>8. CASE b # writer.branch
    BY <1>0, <2>2, <2>8, LeftAlone
  <2>. QED  BY <2>7, <2>8
<1>6. CASE PersonPushesToBranch
  <2>1. PICK a \in DOMAIN refs, extra \in Extras :
          /\ refs[a] # NoCommit
          /\ commits' = Append(commits,
               Commit(refs[a], [Tree(refs[a]) EXCEPT !.extra = @ \cup {extra}], FALSE))
          /\ refs' = [refs EXCEPT ![a] = Len(commits) + 1]
    BY <1>6 DEF PersonPushesToBranch
  <2> DEFINE tree == [Tree(refs[a]) EXCEPT !.extra = @ \cup {extra}]
  <2>2. refs[a] \in DOMAIN commits
    BY <1>0, <2>1 DEF Sound
  <2>3. Tree(refs[a]) \in Trees
    BY <1>0, <2>2, PlanTyped
  <2>4. tree \in Trees /\ Tree(refs[a]).extra \subseteq tree.extra
    BY <2>3 DEF Trees
  <2>5. commits' = Append(commits, Commit(refs[a], tree, FALSE))
    BY <2>1
  <2> HIDE DEF tree
  <2>6. Commit(refs[a], tree, FALSE) \in Commits /\ Commit(refs[a], tree, FALSE).tree = tree
    BY <1>0, <2>2, <2>4 DEF Commit, Commits
  <2>7. commits'[Len(commits) + 1].tree = tree /\ Len(commits) + 1 \in Nat \ {0}
    BY <1>0, <2>5, <2>6, CommitAdded
  <2>8. CASE b = a
    BY <1>0, <2>1, <2>4, <2>7, <2>8 DEF StaysOn, NoCommit
  <2>9. CASE b # a
    BY <1>0, <2>1, <2>9, LeftAlone
  <2>. QED  BY <2>8, <2>9
<1>7. \/ UNCHANGED refs \/ (WriterResets /\ ~UNCHANGED refs)
      \/ (WriterDeletes /\ ~UNCHANGED refs) \/ WriterCreatesBranch
      \/ (WriterCommits /\ ~UNCHANGED refs) \/ PersonPushesToBranch
  BY DEF Next, WriterSteps, WriterReadsTip, WriterChecksMerge, WriterLists, WriterReadsBranch,
     WriterRepairs, WriterDiscards, WriterDescribes, WriterFinds, BinderSteps, BinderLists,
     BinderReadsAgain, BinderWrites, People, PersonPushes, PersonEdits, PersonCloses,
     PersonMerges, JobIsKilled
<1>. QED  BY <1>1, <1>2, <1>3, <1>4, <1>5, <1>6, <1>7

(***************************************************************************)
(* The inductive invariant.                                                *)
(***************************************************************************)
IInv == Typed /\ Sound /\ Single /\ Bound /\ Clean

LEMMA InitHolds ==
  ASSUME Init
  PROVE  IInv
<1> DEFINE first == Commit(NoCommit, [pushes |-> 1, files |-> NoFiles, extra |-> {}], FALSE)
<1>1. first \in Commits /\ ~first.generated /\ first.tree.extra = {}
  BY Constants DEF Commit, Commits, Trees, NoCommit
<1>2. commits = <<first>>
  BY DEF Init
<1> HIDE DEF first
<1>3. commits \in Seq(Commits) /\ DOMAIN commits = {1} /\ commits[1] = first
  BY <1>1, <1>2
<1>4. refs = <<>> /\ refs \in Seq(Nat) /\ DOMAIN refs = {}
  BY DEF Init
<1>5. pulls = <<>> /\ pulls \in Seq(Pulls) /\ DOMAIN pulls = {}
  BY DEF Init
<1>6. main = 1 /\ heads = {} /\ writer = IdleWriter /\ binder = IdleBinder
      /\ people \in 0..MaxPeople /\ kills \in 0..MaxKills
  BY ReleasePrAssumption DEF Init, ReleasePrAssumption
<1>7. Typed
  BY <1>3, <1>4, <1>5, <1>6, IdleTyped DEF Typed
<1>8. Sound
  BY <1>3, <1>4, <1>5, <1>6, IdleTyped DEF Sound, WriterSound, BinderSound, NoPull
<1>9. Single
  BY <1>5, <1>6, IdleTyped DEF Single, Open
<1>10. Bound
  BY <1>5, <1>6, IdleTyped DEF Bound, Binds, IdleWriter, Marker
<1>11. Clean
  BY <1>1, <1>3, <1>5, <1>6, IdleTyped DEF Clean, Merged, Tree
<1>. QED  BY <1>7, <1>8, <1>9, <1>10, <1>11 DEF IInv

LEMMA StutterHolds ==
  ASSUME IInv, UNCHANGED vars
  PROVE  IInv'
<1>1. /\ commits' = commits /\ main' = main /\ refs' = refs /\ pulls' = pulls
      /\ writer' = writer /\ binder' = binder /\ heads' = heads
      /\ people' = people /\ kills' = kills
  BY DEF vars
<1>2. Typed'
  BY <1>1 DEF IInv, Typed
<1>3. Sound'
  BY <1>1 DEF IInv, Sound, PullSound, WriterSound, BinderSound
<1>4. Single'
  BY <1>1 DEF IInv, Single, Open
<1>5. Bound'
  BY <1>1 DEF IInv, Bound, Binds, Intent, Tree
<1>6. Clean'
  BY <1>1 DEF IInv, Clean, Merged, Tree
<1>. QED  BY <1>2, <1>3, <1>4, <1>5, <1>6 DEF IInv

(* Everything that exists stays as it is, nothing refers to what doesn't   *)
(* exist, and the two jobs know at each of their requests what they need   *)
(* to know of the others' objects.                                         *)
THEOREM Invariance == Spec => []IInv
<1>1. Init => IInv
  BY InitHolds
<1>2. IInv /\ [Next]_vars => IInv'
  <2>1. ASSUME IInv, Next
        PROVE  IInv'
    BY <2>1, StepSound, BoundStep, CleanStep DEF IInv
  <2>. QED  BY <2>1, StutterHolds
<1>. QED  BY <1>1, <1>2, PTL DEF Spec

(* Whatever a pull request, a job or a branch names exists (PullRequest,   *)
(* ReleasePrMarker in forge.rs).                                           *)
THEOREM TypeCorrect == Spec => []TypeOK
<1>1. ASSUME IInv
      PROVE  TypeOK
  <2>1. Typed /\ Sound
    BY <1>1 DEF IInv
  <2>2. \A p \in DOMAIN pulls : pulls[p].state \in {"open", "closed", "merged"}
    <3>1. \A p \in DOMAIN pulls : pulls[p] \in Pulls
      BY <2>1 DEF Typed
    <3>. QED  BY <3>1 DEF Pulls
  <2>3. \A p \in DOMAIN pulls :
          /\ pulls[p].branch \in DOMAIN refs
          /\ pulls[p].marker.head \in DOMAIN commits
          /\ pulls[p].merge \in DOMAIN commits \cup {NoCommit}
          /\ pulls[p].merge # NoCommit <=> pulls[p].state = "merged"
    BY <2>1 DEF Sound, PullSound
  <2>4. main \in DOMAIN commits /\ heads \subseteq DOMAIN commits
        /\ writer.branch \in DOMAIN refs \cup {0}
        /\ \A b \in DOMAIN refs : refs[b] \in DOMAIN commits \cup {NoCommit}
    BY <2>1 DEF Sound, WriterSound
  <2>5. people \in 0..MaxPeople /\ kills \in 0..MaxKills
    BY <2>1 DEF Typed
  <2>. QED  BY <2>2, <2>3, <2>4, <2>5 DEF TypeOK
<1>. QED  BY <1>1, Invariance, PTL

(* A marker never carries an intent of another head than the one it names  *)
(* (upsert_release_pr, bind_release_pr_intent).                            *)
THEOREM IntentsOfTheirHeads == Spec => []IntentOfItsHead
<1>1. IInv => IntentOfItsHead
  BY DEF IInv, Bound, Binds, IntentOfItsHead
<1>. QED  BY <1>1, Invariance, PTL

(* At most one release PR is open (upsert_release_pr).                     *)
THEOREM OnePull == Spec => []OneOpenPull
<1>1. ASSUME IInv
      PROVE  OneOpenPull
  <2>1. CASE Open = {}
    BY <2>1, FS_EmptySet DEF OneOpenPull
  <2>2. CASE Open # {}
    <3>1. PICK p : Open = {p}
      BY <1>1, <2>2 DEF IInv, Single
    <3>. QED  BY <3>1, FS_Singleton DEF OneOpenPull
  <2>. QED  BY <2>1, <2>2
<1>. QED  BY <1>1, Invariance, PTL

(* A merge authorizes a publication only of a package that was rehearsed,  *)
(* and brings in no commit of a person (merged_release_pr).                *)
THEOREM AuthorizedIsRehearsed == Spec => []AuthorizedWasRehearsed
<1>1. ASSUME IInv, Authorized(main)
      PROVE  \E p \in DOMAIN pulls :
               /\ pulls[p].merge = main
               /\ pulls[p].head \in heads
               /\ Intent(pulls[p].head) = Intent(main)
               /\ Tree(main).extra = {}
  <2>1. PICK p \in DOMAIN pulls :
          IsMergeOf(p, main) /\ pulls[p].marker.intent = Intent(main)
    BY <1>1 DEF Authorized
  <2>2. Tree(main).pushes \in DOMAIN PlanOf
    BY <1>1, PlanTyped DEF IInv, Sound
  <2>3. Intent(main) # NoIntent
    BY <2>2, Constants DEF Intent, NoIntent
  <2>4. pulls[p].head \in heads /\ Intent(pulls[p].head) = Intent(main)
    BY <1>1, <2>1, <2>3 DEF IInv, Bound, Binds, IsMergeOf
  <2>5. Tree(main).extra = {}
    BY <1>1, <2>1 DEF IInv, Clean, IsMergeOf, Generated
  <2>. QED  BY <2>1, <2>4, <2>5 DEF IsMergeOf
<1>2. IInv => AuthorizedWasRehearsed
  BY <1>1 DEF AuthorizedWasRehearsed
<1>. QED  BY <1>2, Invariance, PTL

(* What a person pushed to a release branch is never overwritten or        *)
(* deleted (reset_branch, update_ref, create_commit).                      *)
THEOREM WorkStays == Spec => WorkOfPeopleStays
<1>1. ASSUME IInv, [Next]_vars
      PROVE  [\A b \in DOMAIN refs :
                refs[b] # NoCommit /\ ~commits[refs[b]].generated =>
                  /\ refs'[b] # NoCommit
                  /\ Tree(refs[b]).extra \subseteq commits'[refs'[b]].tree.extra]_vars
  BY <1>1, WorkStep DEF IInv, StaysOn
<1>. QED  BY <1>1, Invariance, PTL DEF Spec, WorkOfPeopleStays
=============================================================================

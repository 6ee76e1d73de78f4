-------------------------- MODULE PromotionProofs --------------------------
(***************************************************************************)
(* What is published, proved for any number of workflow runs, restarts,    *)
(* uploads, commits, refs and policies, and for every late binding of an   *)
(* intent and every evidence that a person may type; and the window of an  *)
(* OIDC token, for every width of a time.                                  *)
(*                                                                         *)
(* PublishedAsApproved is not inductive: the publish job establishes it    *)
(* question by question before its first effect, and between two questions *)
(* everything but what it asked about may change.  Stage says what each    *)
(* place of the job already rests on, Path which jobs a run can be in, and *)
(* Keeps, for a step, what no step takes back, so that an answer stays     *)
(* true while the job goes on.                                             *)
(***************************************************************************)
EXTENDS Promotions, TLAPS, SequenceTheorems

(***************************************************************************)
(* Types.                                                                  *)
(***************************************************************************)
Kinds == {"push", "prepare", "promote"}
Places == Preparing \cup Publishing \cup Successes \cup Failures
Jobs == {"plan", "authorize", "validate", "gate", "prepared"}
Refs == {head[1] : head \in Heads}
Inputs == [source : Commits \cup {Nothing}, reason : BOOLEAN, run : Nat, digest : Nat,
           artifact : Nat, zip : Nat]
Runs == [event : Kinds, ref : Refs, commit : Commits, input : Inputs,
         skew : Skews \cup {0}, at : Places, job : Jobs, made : Nat, attempt : Nat]
Uploads == [run : Nat, commit : Commits, build : Builds, expired : BOOLEAN]
Worlds == [tag : Commits \cup {Nothing}, package : (Contents \X Builds) \cup {<<>>},
           release : Nat]

Shaped ==
  /\ runs \in Seq(Runs) /\ Len(runs) <= MaxRuns
  /\ uploads \in Seq(Uploads) /\ Len(uploads) <= MaxUploads
  /\ pr \in [Commits -> {Nothing, "unbound"} \cup Contents]
  /\ world \in Worlds /\ world.release \in Artifacts \cup {0}
  /\ passed \subseteq RunIds
  /\ \A r \in RunIds : runs[r].made \in Artifacts \cup {0} /\ runs[r].attempt \in 1 .. MaxAttempts
  /\ \A a \in Artifacts : uploads[a].run \in RunIds
  /\ \A effect \in effects : effect.run \in RunIds /\ effect.artifact \in Artifacts

(* The jobs of each event, the Candidate that a run past its plan has, and *)
(* the runs that completed with success.                                   *)
Path(r) ==
  /\ runs[r].at \in Preparing => runs[r].job = runs[r].at
  /\ runs[r].at \in Publishing => runs[r].job = "gate"
  /\ runs[r].job = "prepared" => runs[r].at = "prepared"
  /\ runs[r].event = "push" => runs[r].job \in {"plan", "authorize", "gate"}
  /\ runs[r].event = "push" /\ runs[r].job # "plan" => runs[r].made \in Artifacts
  /\ runs[r].event = "prepare" => runs[r].job \in {"plan", "prepared"}
  /\ runs[r].event = "promote" =>
       runs[r].job \in {"validate", "gate"} /\ runs[r].input.artifact \in Artifacts
  /\ runs[r].at \in Successes => r \in passed

(* What the review of an approval establishes.                             *)
Agreed(r) ==
  /\ Request(r).digest = Request(r).artifact
  /\ Environment[Candidate(r).commit] = "release"
  /\ runs[r].commit = Candidate(r).commit
  /\ runs[r].event = "push" => Reviewed(Candidate(r).commit)
  /\ runs[r].event # "push" =>
       /\ Request(r).source = Candidate(r).commit /\ Request(r).reason
       /\ runs[r].ref \in ManualRefs[Candidate(r).commit]

(* What the publish job has found out when it goes to a place.             *)
Answers(r, place) ==
  /\ place \in Publishing \ {"download"} => Candidate(r).run = Request(r).run
  /\ place \in {"artifact", "run", "review", "publish"} => Source(r) # "none"
  /\ place \in {"review", "publish"} /\ runs[r].event # "push" => Request(r).run \in passed
  /\ place = "publish" => Agreed(r)

Stage(r) == Answers(r, runs[r].at)

ApprovedEffect(effect) ==
  LET run == runs[effect.run]  sealed == uploads[effect.artifact]
  IN /\ sealed.commit = run.commit /\ Environment[sealed.commit] = "release"
     /\ run.event = "push" => sealed.run = effect.run /\ Reviewed(run.commit)
     /\ run.event # "push" =>
          /\ sealed.run # effect.run /\ sealed.run \in passed
          /\ run.input.source = sealed.commit /\ run.input.reason
          /\ run.input.digest = effect.artifact
          /\ run.ref \in ManualRefs[sealed.commit]

PromotionInv ==
  /\ Shaped
  /\ \A r \in RunIds : Path(r) /\ Stage(r)
  /\ PublishedAsApproved
  /\ OneCandidate

(* What no step takes back.                                                *)
Keeps ==
  /\ RunIds \subseteq RunIds'
  /\ \A r \in RunIds :
       /\ runs'[r].event = runs[r].event /\ runs'[r].ref = runs[r].ref
       /\ runs'[r].commit = runs[r].commit /\ runs'[r].input = runs[r].input
  /\ Artifacts \subseteq Artifacts'
  /\ \A a \in Artifacts :
       /\ uploads'[a].run = uploads[a].run /\ uploads'[a].commit = uploads[a].commit
       /\ uploads'[a].build = uploads[a].build
  /\ passed \subseteq passed'
  /\ \A c \in Commits : Reviewed(c) => Reviewed(c)'

(***************************************************************************)
(* Facts about the operators.                                              *)
(***************************************************************************)
LEMMA RequestOf ==
  ASSUME NEW r
  PROVE  /\ runs[r].event = "promote" => Request(r) = runs[r].input
         /\ runs[r].event # "promote" =>
              /\ Request(r).run = r
              /\ Request(r).digest = runs[r].made /\ Request(r).artifact = runs[r].made
BY DEF Request, NoInput

(* A run in its publish job has a Candidate, which its request names.      *)
LEMMA HasCandidate ==
  ASSUME Shaped, NEW r \in RunIds, Path(r), runs[r].at \in Publishing
  PROVE  /\ runs[r] \in Runs /\ runs[r].event \in {"push", "promote"}
         /\ Request(r).artifact \in Artifacts /\ Request(r).artifact \in Nat \ {0}
         /\ Candidate(r) = uploads[Request(r).artifact]
         /\ Candidate(r) \in Uploads /\ Candidate(r).run \in RunIds
         /\ Candidate(r).commit \in Commits
<1>1. runs[r] \in Runs
  BY DEF Shaped, RunIds
<1>2. runs[r].event \in {"push", "promote"}
  BY <1>1 DEF Path, Runs, Kinds
<1>3. Request(r).artifact \in Artifacts
  BY <1>2, RequestOf DEF Path
<1>4. uploads[Request(r).artifact] \in Uploads /\ Request(r).artifact \in Nat \ {0}
  BY <1>3 DEF Shaped, Artifacts
<1>5. uploads[Request(r).artifact].run \in RunIds
  BY <1>3 DEF Shaped
<1>. QED  BY <1>1, <1>2, <1>3, <1>4, <1>5 DEF Candidate, Uploads

(* What the publish job found stays true while other runs take steps.      *)
LEMMA SameCandidate ==
  ASSUME Shaped, Keeps, NEW r \in RunIds, Path(r), runs[r].at \in Publishing,
         runs'[r].made = runs[r].made
  PROVE  /\ Request(r)' = Request(r)
         /\ Candidate(r)'.run = Candidate(r).run /\ Candidate(r)'.commit = Candidate(r).commit
         /\ Source(r)' = Source(r)
         /\ Agreed(r) => Agreed(r)'
<1>1. /\ Request(r).artifact \in Artifacts /\ Candidate(r).commit \in Commits
      /\ Candidate(r) = uploads[Request(r).artifact]
  BY HasCandidate
<1>2. /\ runs'[r].event = runs[r].event /\ runs'[r].ref = runs[r].ref
      /\ runs'[r].commit = runs[r].commit /\ runs'[r].input = runs[r].input
  BY DEF Keeps
<1>3. Request(r)' = Request(r)
  BY <1>2 DEF Request
<1>4. Candidate(r)' = uploads'[Request(r).artifact]
  BY <1>3 DEF Candidate
<1>5. Candidate(r)'.run = Candidate(r).run /\ Candidate(r)'.commit = Candidate(r).commit
  BY <1>1, <1>4 DEF Keeps
<1>6. EventName(r)' = EventName(r)
  BY <1>2 DEF EventName
<1>7. Source(r)' = Source(r)
  BY <1>3, <1>6 DEF Source
<1>8. Reviewed(Candidate(r).commit) => Reviewed(Candidate(r).commit)'
  BY <1>1, <1>5 DEF Keeps, Reviewed
<1>9. Agreed(r) => Agreed(r)'
  BY <1>2, <1>3, <1>5, <1>8 DEF Agreed
<1>. QED  BY <1>3, <1>5, <1>7, <1>9

LEMMA RunKept ==
  ASSUME Shaped, Keeps, NEW r \in RunIds, Path(r), Stage(r), runs'[r] = runs[r]
  PROVE  Path(r)' /\ Stage(r)'
<1>1. Path(r)'
  BY DEF Path, Keeps
<1>2. CASE runs[r].at \notin Publishing
  BY <1>1, <1>2 DEF Stage, Answers, Publishing
<1>3. CASE runs[r].at \in Publishing
  <2>1. /\ Request(r)' = Request(r) /\ Candidate(r)'.run = Candidate(r).run
        /\ Source(r)' = Source(r) /\ (Agreed(r) => Agreed(r)')
    BY <1>3, SameCandidate
  <2>2. Stage(r)'
    BY <2>1 DEF Stage, Answers, Keeps
  <2>. QED  BY <1>1, <2>2
<1>. QED  BY <1>2, <1>3

LEMMA HistoryKept ==
  ASSUME Shaped, Keeps, NEW effect \in effects, ApprovedEffect(effect)
  PROVE  ApprovedEffect(effect)'
<1>1. effect.run \in RunIds /\ effect.artifact \in Artifacts
  BY DEF Shaped
<1>2. runs[effect.run].commit \in Commits
  <2>1. runs[effect.run] \in Runs
    BY <1>1 DEF Shaped, RunIds
  <2>. QED  BY <2>1 DEF Runs
<1>3. /\ runs'[effect.run].event = runs[effect.run].event
      /\ runs'[effect.run].ref = runs[effect.run].ref
      /\ runs'[effect.run].commit = runs[effect.run].commit
      /\ runs'[effect.run].input = runs[effect.run].input
      /\ uploads'[effect.artifact].run = uploads[effect.artifact].run
      /\ uploads'[effect.artifact].commit = uploads[effect.artifact].commit
  BY <1>1 DEF Keeps
<1>4. Reviewed(runs[effect.run].commit) => Reviewed(runs[effect.run].commit)'
  <2>1. pr'[runs'[effect.run].commit] = pr'[runs[effect.run].commit]
    BY <1>3
  <2>2. \A c \in Commits : pr[c] = Content[c] => pr'[c] = Content[c]
    BY DEF Keeps, Reviewed
  <2>. QED  BY <1>2, <1>3, <2>1, <2>2 DEF Reviewed
<1>5. passed \subseteq passed'
  BY DEF Keeps
<1>. QED  BY <1>3, <1>4, <1>5 DEF ApprovedEffect

LEMMA WorldKept ==
  ASSUME Shaped, OneCandidate, Keeps, world' = world
  PROVE  OneCandidate'
<1>1. CASE world.release = 0
  BY <1>1 DEF OneCandidate
<1>2. CASE world.release # 0
  <2>1. world.release \in Artifacts
    BY <1>2 DEF Shaped
  <2>2. /\ uploads'[world.release].commit = uploads[world.release].commit
        /\ uploads'[world.release].build = uploads[world.release].build
    BY <2>1 DEF Keeps
  <2>3. Wanted(world.release)'.package = Wanted(world.release).package
    BY <2>2 DEF Wanted
  <2>. QED  BY <1>2, <2>2, <2>3 DEF OneCandidate, Wanted
<1>. QED  BY <1>1, <1>2

(* A step that publishes nothing keeps the invariant when it keeps the     *)
(* places of the runs.                                                     *)
LEMMA Unpublishing ==
  ASSUME PromotionInv, Keeps, Shaped', \A r \in RunIds' : Path(r)' /\ Stage(r)',
         UNCHANGED <<world, effects>>
  PROVE  PromotionInv'
<1>1. PublishedAsApproved'
  <2>1. \A effect \in effects : ApprovedEffect(effect)
    BY DEF PromotionInv, PublishedAsApproved, ApprovedEffect
  <2>2. \A effect \in effects : ApprovedEffect(effect)'
    BY <2>1, HistoryKept DEF PromotionInv
  <2>. QED  BY <2>2 DEF PublishedAsApproved, ApprovedEffect
<1>2. OneCandidate'
  BY WorldKept DEF PromotionInv
<1>. QED  BY <1>1, <1>2 DEF PromotionInv

(* The steps of one run.                                                   *)
LEMMA OneRun ==
  ASSUME PromotionInv, NEW r \in RunIds, NEW run \in Runs,
         runs' = [runs EXCEPT ![r] = run],
         run.event = runs[r].event, run.ref = runs[r].ref, run.commit = runs[r].commit,
         run.input = runs[r].input, run.made \in Artifacts' \cup {0},
         run.attempt \in 1 .. MaxAttempts,
         Artifacts \subseteq Artifacts', UNCHANGED <<pr, world, effects>>,
         \A a \in Artifacts : uploads'[a] = uploads[a],
         uploads' \in Seq(Uploads), Len(uploads') <= MaxUploads,
         \A a \in Artifacts' : uploads'[a].run \in RunIds,
         passed \subseteq passed', passed' \subseteq RunIds,
         Path(r)', Keeps => Stage(r)'
  PROVE  PromotionInv'
<1>1. runs \in Seq(Runs) /\ Len(runs) <= MaxRuns
  BY DEF PromotionInv, Shaped
<1>2. /\ runs' \in Seq(Runs) /\ RunIds' = RunIds /\ Len(runs') = Len(runs)
      /\ runs'[r] = run /\ \A q \in RunIds : q # r => runs'[q] = runs[q]
  BY <1>1, ExceptSeq DEF RunIds
<1>3. Keeps
  BY <1>2 DEF Keeps, Reviewed
<1>4. Shaped'
  BY <1>1, <1>2 DEF PromotionInv, Shaped
<1>5. \A q \in RunIds' : Path(q)' /\ Stage(q)'
  BY <1>2, <1>3, RunKept DEF PromotionInv
<1>. QED  BY <1>3, <1>4, <1>5, Unpublishing
(***************************************************************************)
(* The steps that start a run or change what is around the runs.           *)
(***************************************************************************)
LEMMA EventInv ==
  ASSUME PromotionInv, NEW event \in Kinds, NEW head \in Heads, NEW input \in Inputs,
         event = "promote" => input.artifact \in Artifacts,
         Event(event, head, input)
  PROVE  PromotionInv'
<1> DEFINE run == [event |-> event, ref |-> head[1], commit |-> head[2], input |-> input,
                   skew |-> 0, at |-> FirstJob(event), job |-> FirstJob(event), made |-> 0,
                   attempt |-> 1]
<1>1. Shaped /\ runs \in Seq(Runs) /\ Len(runs) < MaxRuns /\ runs' = Append(runs, run)
      /\ UNCHANGED <<uploads, pr, world, effects, passed>>
  BY DEF PromotionInv, Shaped, Event
<1>2. FirstJob(event) \in {"plan", "validate"}
      /\ (event = "promote" <=> FirstJob(event) = "validate")
  BY DEF FirstJob, Kinds
<1>3. run \in Runs
  BY <1>2, PromotionsAssumption DEF Runs, Refs, Jobs, Places, Preparing
<1>4. run.event = event /\ run.at = FirstJob(event) /\ run.job = FirstJob(event)
      /\ run.input = input /\ run.made = 0 /\ run.attempt = 1
  OBVIOUS
<1> HIDE DEF run
<1>5. PICK new \in Nat : new = Len(runs) + 1
  BY <1>1
<1>6. /\ runs' \in Seq(Runs) /\ Len(runs') = new /\ new <= MaxRuns
      /\ RunIds' = RunIds \cup {new} /\ runs'[new] = run
      /\ \A r \in RunIds : runs'[r] = runs[r]
  <2>1. /\ runs' \in Seq(Runs) /\ Len(runs') = new
        /\ RunIds' = RunIds \cup {new} /\ runs'[new] = run
        /\ \A r \in RunIds : runs'[r] = runs[r]
    BY <1>1, <1>3, <1>5, AppendProperties DEF RunIds
  <2>2. new <= MaxRuns
    BY <1>1, <1>5, PromotionsAssumption
  <2>. QED  BY <2>1, <2>2
<1>7. Keeps
  BY <1>1, <1>6 DEF Keeps, Artifacts, Reviewed
<1>8. Artifacts' = Artifacts
  BY <1>1 DEF Artifacts
<1>9. Shaped'
  <2>1. runs'[new].made \in Artifacts \cup {0} /\ runs'[new].attempt \in 1 .. MaxAttempts
    BY <1>4, <1>6, PromotionsAssumption
  <2>2. \A r \in RunIds : runs'[r].made \in Artifacts \cup {0}
                          /\ runs'[r].attempt \in 1 .. MaxAttempts
    BY <1>1, <1>6 DEF Shaped
  <2>. QED  BY <1>1, <1>6, <1>8, <2>1, <2>2 DEF Shaped
<1>10. Path(new)'
  <2>1. /\ runs'[new].event = event /\ runs'[new].at \in {"plan", "validate"}
        /\ runs'[new].job = runs'[new].at /\ runs'[new].input = input
        /\ (event = "promote" <=> runs'[new].job = "validate")
    BY <1>2, <1>4, <1>6
  <2>. QED  BY <1>8, <2>1 DEF Path, Kinds, Publishing, Successes
<1>11. Stage(new)'
  <2>1. runs'[new].at \in {"plan", "validate"}
    BY <1>2, <1>4, <1>6
  <2>. QED  BY <2>1 DEF Stage, Answers, Publishing
<1>12. \A r \in RunIds' : Path(r)' /\ Stage(r)'
  BY <1>1, <1>6, <1>7, <1>10, <1>11, RunKept DEF PromotionInv
<1>. QED  BY <1>1, <1>7, <1>9, <1>12, Unpublishing

LEMMA InputsTyped ==
  ASSUME Shaped, NEW a \in Artifacts, NEW b \in Artifacts, NEW input \in Typed(a, b)
  PROVE  input \in Inputs /\ input.artifact \in Artifacts
<1>1. \A c \in Artifacts : /\ c \in Nat /\ uploads[c].commit \in Commits
                           /\ uploads[c].run \in Nat
  <2>. SUFFICES ASSUME NEW c \in Artifacts
                PROVE  c \in Nat /\ uploads[c].commit \in Commits /\ uploads[c].run \in Nat
    OBVIOUS
  <2>1. uploads[c] \in Uploads /\ c \in Nat
    BY DEF Shaped, Artifacts
  <2>. QED  BY <2>1 DEF Uploads
<1>2. /\ Evidence(a) \in Inputs /\ Evidence(b) \in Inputs
      /\ Evidence(a).artifact = a /\ Evidence(b).artifact = b
  BY <1>1 DEF Evidence, Inputs
<1>3. CASE input = Evidence(a) \/ input = [Evidence(a) EXCEPT !.reason = FALSE]
  BY <1>2, <1>3 DEF Inputs
<1>4. CASE \E field \in {"source", "run", "digest", "artifact", "zip"} :
             input = [Evidence(a) EXCEPT ![field] = Evidence(b)[field]]
  BY <1>2, <1>4 DEF Inputs
<1>. QED  BY <1>3, <1>4 DEF Typed

LEMMA ExpiresInv ==
  ASSUME PromotionInv, NEW a \in Artifacts, Expires(a)
  PROVE  PromotionInv'
<1>1. Shaped /\ uploads \in Seq(Uploads) /\ uploads' = [uploads EXCEPT ![a].expired = TRUE]
      /\ UNCHANGED <<runs, pr, world, effects, passed>>
  BY DEF PromotionInv, Shaped, Expires
<1> DEFINE upload == [uploads[a] EXCEPT !.expired = TRUE]
<1>2. uploads[a] \in Uploads
  BY <1>1 DEF Artifacts
<1>3. /\ upload \in Uploads /\ upload.run = uploads[a].run
      /\ upload.commit = uploads[a].commit /\ upload.build = uploads[a].build
  BY <1>2 DEF Uploads
<1>4. uploads' = [uploads EXCEPT ![a] = upload]
  BY <1>1
<1> HIDE DEF upload
<1>5. /\ uploads' \in Seq(Uploads) /\ Len(uploads') = Len(uploads) /\ Artifacts' = Artifacts
      /\ uploads'[a] = upload /\ \A b \in Artifacts : b # a => uploads'[b] = uploads[b]
  <2>1. a \in DOMAIN uploads /\ uploads \in Seq(Uploads) /\ upload \in Uploads
    BY <1>1, <1>3 DEF Artifacts
  <2>. QED  BY <1>4, <2>1, ExceptSeq DEF Artifacts
<1>6. Keeps
  BY <1>1, <1>3, <1>5 DEF Keeps, RunIds, Reviewed
<1>7. Shaped'
  BY <1>1, <1>3, <1>5 DEF Shaped, RunIds
<1>8. \A r \in RunIds' : Path(r)' /\ Stage(r)'
  BY <1>1, <1>6, RunKept DEF PromotionInv, RunIds
<1>. QED  BY <1>1, <1>6, <1>7, <1>8, Unpublishing

LEMMA BindsInv ==
  ASSUME PromotionInv, NEW c \in Commits, Binds(c)
  PROVE  PromotionInv'
<1>1. PICK content \in Contents :
        /\ pr[c] = "unbound" /\ pr' = [pr EXCEPT ![c] = content]
        /\ UNCHANGED <<runs, uploads, world, effects, passed>>
  BY DEF Binds
<1>2. Shaped /\ Content[c] # "unbound"
  BY PromotionsAssumption DEF PromotionInv, Contents
<1>3. Keeps
  <2>1. \A d \in Commits : pr[d] = Content[d] => pr'[d] = Content[d]
    BY <1>1, <1>2 DEF Shaped
  <2>. QED  BY <1>1, <2>1 DEF Keeps, Reviewed, RunIds, Artifacts
<1>4. Shaped'
  BY <1>1, <1>2 DEF Shaped, RunIds, Artifacts
<1>5. \A r \in RunIds' : Path(r)' /\ Stage(r)'
  BY <1>1, <1>2, <1>3, RunKept DEF PromotionInv, RunIds
<1>. QED  BY <1>1, <1>3, <1>4, <1>5, Unpublishing
(***************************************************************************)
(* The steps of a run.                                                     *)
(***************************************************************************)

(* A run goes to a place of the publish job only from one, and with the    *)
(* answers that the place rests on; before that job, only to the gate.     *)
LEMMA GoesInv ==
  ASSUME PromotionInv, NEW r \in RunIds, NEW place \in Places, Goes(r, place),
         UNCHANGED <<uploads, pr, world, effects>>,
         runs[r].at # "prepared", place # "prepared",
         place \in Preparing => /\ place = "gate" /\ runs[r].event \in {"push", "promote"}
                                /\ runs[r].event = "push" => runs[r].made \in Artifacts,
         place \in Publishing => runs[r].at \in Publishing /\ Answers(r, place)
  PROVE  PromotionInv'
<1> DEFINE run == [runs[r] EXCEPT !.at = place,
                                  !.job = IF place \in Preparing THEN place ELSE @,
                                  !.skew = IF place \in Publishing THEN @ ELSE 0]
<1>1. Shaped /\ Path(r) /\ runs[r] \in Runs
  BY DEF PromotionInv, Shaped, RunIds
<1>2. /\ runs' = [runs EXCEPT ![r] = run]
      /\ passed' = IF place \in Successes THEN passed \cup {r} ELSE passed
  <2>1. runs' = [runs EXCEPT ![r] = run]
    BY DEF Goes
  <2>2. passed' = IF place \in Successes THEN passed \cup {r} ELSE passed
    BY DEF Goes
  <2>. QED  BY <2>1, <2>2
<1>3. /\ run.event = runs[r].event /\ run.ref = runs[r].ref /\ run.commit = runs[r].commit
      /\ run.input = runs[r].input /\ run.made = runs[r].made
      /\ run.attempt = runs[r].attempt /\ run.at = place
      /\ run.job = IF place \in Preparing THEN place ELSE runs[r].job
  BY <1>1 DEF Runs
<1>4. run \in Runs
  <2>1. (IF place \in Preparing THEN place ELSE runs[r].job) \in Jobs
    BY <1>1 DEF Runs, Jobs, Preparing
  <2>2. (IF place \in Publishing THEN runs[r].skew ELSE 0) \in Skews \cup {0}
    BY <1>1 DEF Runs
  <2>. QED  BY <1>1, <2>1, <2>2 DEF Runs
<1> HIDE DEF run
<1>5. runs'[r] = run /\ RunIds' = RunIds /\ Artifacts' = Artifacts
  BY <1>2, <1>4, <1>1, ExceptSeq DEF Shaped, RunIds, Artifacts
<1>6. Path(r)'
  <2>1. place \in Publishing => place \notin Preparing /\ runs[r].job = "gate"
    BY <1>1 DEF Path, Publishing, Preparing
  <2>2. runs[r].job # "prepared" /\ run.job # "prepared"
    BY <1>1, <1>3 DEF Path, Preparing
  <2>3. place \in Successes => r \in passed'
    BY <1>2
  <2>4. runs[r].event \in Kinds
    BY <1>1 DEF Runs
  <2>5. /\ place \in Preparing => run.job = run.at
        /\ place \in Publishing => run.job = "gate"
    BY <1>3, <2>1
  <2>6. /\ run.event = "push" => /\ run.job \in {"plan", "authorize", "gate"}
                                 /\ run.job # "plan" => run.made \in Artifacts
        /\ run.event = "prepare" => run.job \in {"plan", "prepared"}
        /\ run.event = "promote" => /\ run.job \in {"validate", "gate"}
                                    /\ run.input.artifact \in Artifacts
    BY <1>1, <1>3 DEF Path
  <2>. QED  BY <1>3, <1>5, <2>2, <2>3, <2>5, <2>6 DEF Path
<1>7. ASSUME Keeps
      PROVE  Stage(r)'
  <2>1. CASE place \notin Publishing
    BY <1>3, <1>5, <2>1 DEF Stage, Answers, Publishing
  <2>2. CASE place \in Publishing
    <3>1. /\ Request(r)' = Request(r) /\ Candidate(r)'.run = Candidate(r).run
          /\ Source(r)' = Source(r) /\ (Agreed(r) => Agreed(r)')
      BY <1>1, <1>3, <1>5, <1>7, <2>2, SameCandidate
    <3>. QED  BY <1>3, <1>5, <1>7, <2>2, <3>1 DEF Stage, Answers, Keeps
  <2>. QED  BY <2>1, <2>2
<1>8. passed \subseteq passed' /\ passed' \subseteq RunIds
  BY <1>1, <1>2 DEF Shaped
<1>9. run.made \in Artifacts' \cup {0} /\ run.attempt \in 1 .. MaxAttempts
  BY <1>1, <1>3, <1>5 DEF Shaped
<1>10. /\ Artifacts \subseteq Artifacts' /\ \A a \in Artifacts : uploads'[a] = uploads[a]
       /\ uploads' \in Seq(Uploads) /\ Len(uploads') <= MaxUploads
       /\ \A a \in Artifacts' : uploads'[a].run \in RunIds
  BY <1>1, <1>5 DEF Shaped
<1>. QED  BY <1>2, <1>3, <1>4, <1>6, <1>7, <1>8, <1>9, <1>10, OneRun

(* A step of a job that is not the publish job, or that ends it.           *)
LEMMA EndsInv ==
  ASSUME PromotionInv, NEW r \in RunIds, runs[r].at # "prepared",
         NEW place \in {"skipped", "published", "stopped", "refused", "conflict"},
         Goes(r, place), UNCHANGED <<uploads, pr, world, effects>>
  PROVE  PromotionInv'
BY GoesInv DEF Places, Preparing, Publishing, Successes, Failures

LEMMA EarlyJobsInv ==
  ASSUME PromotionInv, NEW r \in RunIds,
         Skips(r) \/ Authorizes(r) \/ Validates(r) \/ Stops(r)
  PROVE  PromotionInv'
<1>1. CASE Skips(r)
  BY <1>1, EndsInv DEF Skips, Leaves
<1>2. CASE Stops(r)
  BY <1>2, EndsInv DEF Stops, Completed, Successes
<1>3. CASE Authorizes(r)
  <2>1. CASE Goes(r, "gate")
    <3>1. runs[r].at = "authorize" /\ UNCHANGED <<uploads, pr, world, effects>>
      BY <1>3 DEF Authorizes, Leaves
    <3>2. runs[r].job = "authorize" /\ runs[r].event \in Kinds /\ Path(r)
      <4>1. Path(r) /\ runs[r] \in Runs
        BY DEF PromotionInv, Shaped, RunIds
      <4>. QED  BY <3>1, <4>1 DEF Path, Preparing, Runs
    <3>3. runs[r].event = "push" /\ runs[r].made \in Artifacts
      BY <3>2 DEF Path, Kinds
    <3>. QED  BY <2>1, <3>1, <3>3, GoesInv DEF Places, Preparing, Publishing
  <2>2. CASE Goes(r, "skipped")
    BY <1>3, <2>2, EndsInv DEF Authorizes, Leaves
  <2>. QED  BY <1>3, <2>1, <2>2 DEF Authorizes, Leaves
<1>4. CASE Validates(r)
  <2>1. CASE Goes(r, "gate")
    <3>1. runs[r].at = "validate" /\ UNCHANGED <<uploads, pr, world, effects>>
      BY <1>4 DEF Validates, Leaves
    <3>2. runs[r].job = "validate" /\ runs[r].event \in Kinds /\ Path(r)
      <4>1. Path(r) /\ runs[r] \in Runs
        BY DEF PromotionInv, Shaped, RunIds
      <4>. QED  BY <3>1, <4>1 DEF Path, Preparing, Runs
    <3>3. runs[r].event = "promote"
      BY <3>2 DEF Path, Kinds
    <3>. QED  BY <2>1, <3>1, <3>3, GoesInv DEF Places, Preparing, Publishing
  <2>2. CASE Goes(r, "refused")
    BY <1>4, <2>2, EndsInv DEF Validates, Leaves
  <2>. QED  BY <1>4, <2>1, <2>2 DEF Validates, Leaves
<1>. QED  BY <1>1, <1>2, <1>3, <1>4
LEMMA RunTyped ==
  ASSUME PromotionInv, NEW r \in RunIds
  PROVE  /\ Shaped /\ Path(r) /\ Stage(r)
         /\ runs[r] \in Runs /\ runs[r].event \in Kinds /\ r \in Nat
         /\ uploads \in Seq(Uploads)
<1>1. Shaped /\ Path(r) /\ Stage(r)
  BY DEF PromotionInv
<1>2. runs[r] \in Runs /\ r \in Nat /\ uploads \in Seq(Uploads)
  BY <1>1 DEF Shaped, RunIds
<1>. QED  BY <1>1, <1>2 DEF Runs

(* What OneRun asks of a step that leaves everything but the run alone.    *)
LEMMA OtherwiseSame ==
  ASSUME Shaped, UNCHANGED <<uploads, pr, world, effects, passed>>
  PROVE  /\ Artifacts' = Artifacts /\ \A a \in Artifacts : uploads'[a] = uploads[a]
         /\ uploads' \in Seq(Uploads) /\ Len(uploads') <= MaxUploads
         /\ \A a \in Artifacts' : uploads'[a].run \in RunIds
         /\ passed \subseteq passed' /\ passed' \subseteq RunIds
BY DEF Shaped, Artifacts

(* The environment lets the publish job start: it has found nothing yet.   *)
LEMMA EntersInv ==
  ASSUME PromotionInv, NEW r \in RunIds, Enters(r)
  PROVE  PromotionInv'
<1>1. Shaped /\ Path(r) /\ runs[r] \in Runs /\ runs[r].at = "gate"
      /\ UNCHANGED <<uploads, pr, world, effects>>
  BY RunTyped DEF Enters
<1>2. CASE Goes(r, "refused")
  BY <1>1, <1>2, EndsInv
<1>3. CASE ~Goes(r, "refused")
  <2>1. PICK skew \in Skews : /\ runs' = [runs EXCEPT ![r].at = "download", ![r].skew = skew]
                              /\ UNCHANGED passed
    BY <1>3 DEF Enters
  <2> DEFINE run == [runs[r] EXCEPT !.at = "download", !.skew = skew]
  <2>2. runs' = [runs EXCEPT ![r] = run]
    BY <2>1
  <2>3. /\ run \in Runs /\ run.at = "download" /\ run.job = runs[r].job
        /\ run.event = runs[r].event /\ run.ref = runs[r].ref /\ run.commit = runs[r].commit
        /\ run.input = runs[r].input /\ run.made = runs[r].made
        /\ run.attempt = runs[r].attempt
    BY <1>1 DEF Runs, Places, Publishing
  <2> HIDE DEF run
  <2>4. runs'[r] = run
    BY <1>1, <2>2, <2>3, ExceptSeq DEF Shaped, RunIds
  <2>5. Artifacts' = Artifacts
    BY <1>1 DEF Artifacts
  <2>6. Path(r)'
    <3>1. runs[r].job = "gate"
      BY <1>1 DEF Path, Preparing
    <3>. QED  BY <1>1, <2>3, <2>4, <2>5, <3>1 DEF Path, Preparing, Publishing, Successes
  <2>7. Stage(r)'
    BY <2>3, <2>4 DEF Stage, Answers
  <2>8. run.made \in Artifacts' \cup {0} /\ run.attempt \in 1 .. MaxAttempts
    BY <1>1, <2>3, <2>5 DEF Shaped
  <2>. QED  BY <1>1, <2>1, <2>2, <2>3, <2>5, <2>6, <2>7, <2>8, OtherwiseSame, OneRun
<1>. QED  BY <1>2, <1>3

(* A completed run starts again, with the Candidate that it had.           *)
LEMMA StartsAgainInv ==
  ASSUME PromotionInv, NEW r \in RunIds, StartsAgain(r)
  PROVE  PromotionInv'
<1>1. PICK job \in {FirstJob(runs[r].event)} \cup
                     (IF runs[r].at \in Failures THEN {runs[r].job} ELSE {}) :
        /\ runs' = [runs EXCEPT ![r].attempt = @ + 1, ![r].at = job, ![r].job = job]
        /\ runs[r].attempt < MaxAttempts
        /\ UNCHANGED <<uploads, pr, world, effects, passed>>
  BY DEF StartsAgain
<1>2. Shaped /\ Path(r) /\ runs[r] \in Runs /\ runs[r].event \in Kinds
  BY RunTyped
<1>3. job \in {"plan", "authorize", "validate", "gate"}
      /\ (runs[r].event = "push" => /\ job \in {"plan", "authorize", "gate"}
                                    /\ job # "plan" => runs[r].made \in Artifacts)
      /\ (runs[r].event = "prepare" => job = "plan")
      /\ (runs[r].event = "promote" => job \in {"validate", "gate"})
  <2>1. CASE job = FirstJob(runs[r].event)
    BY <1>2, <2>1 DEF FirstJob, Kinds
  <2>2. CASE runs[r].at \in Failures /\ job = runs[r].job
    <3>1. runs[r].job # "prepared"
      BY <1>2, <2>2 DEF Path, Failures
    <3>. QED  BY <1>2, <2>2, <3>1 DEF Path, Kinds
  <2>. QED  BY <2>1, <2>2
<1> DEFINE run == [runs[r] EXCEPT !.attempt = runs[r].attempt + 1, !.at = job, !.job = job]
<1>4. runs' = [runs EXCEPT ![r] = run]
  BY <1>1
<1>5. /\ run \in Runs /\ run.at = job /\ run.job = job
      /\ run.event = runs[r].event /\ run.ref = runs[r].ref /\ run.commit = runs[r].commit
      /\ run.input = runs[r].input /\ run.made = runs[r].made
      /\ run.attempt = runs[r].attempt + 1
  <2>1. job \in Places /\ job \in Jobs
    BY <1>3 DEF Places, Preparing, Jobs
  <2>2. runs[r].attempt + 1 \in Nat
    BY <1>2 DEF Runs
  <2>. QED  BY <1>2, <2>1, <2>2 DEF Runs
<1> HIDE DEF run
<1>6. runs'[r] = run /\ Artifacts' = Artifacts
  BY <1>1, <1>2, <1>4, <1>5, ExceptSeq DEF Shaped, RunIds, Artifacts
<1>7. Path(r)'
  <2>1. runs[r].event = "promote" => runs[r].input.artifact \in Artifacts
    BY <1>2 DEF Path
  <2>. QED  BY <1>3, <1>5, <1>6, <2>1 DEF Path, Publishing, Successes
<1>8. Stage(r)'
  BY <1>3, <1>5, <1>6 DEF Stage, Answers, Publishing
<1>9. run.made \in Artifacts' \cup {0} /\ run.attempt \in 1 .. MaxAttempts
  <2>1. runs[r].attempt \in 1 .. MaxAttempts /\ runs[r].made \in Artifacts \cup {0}
    BY <1>2 DEF Shaped
  <2>. QED  BY <1>1, <1>5, <1>6, <2>1, PromotionsAssumption
<1>. QED  BY <1>1, <1>2, <1>4, <1>5, <1>6, <1>7, <1>8, <1>9, OtherwiseSame, OneRun

(* The plan job seals a Candidate of its own run and commit.               *)
LEMMA PreparesInv ==
  ASSUME PromotionInv, NEW r \in RunIds, Prepares(r)
  PROVE  PromotionInv'
<1>1. PICK build \in Builds, place \in {"authorize", "prepared"} :
        /\ runs[r].at = "plan" /\ Len(uploads) < MaxUploads
        /\ place = IF runs[r].event = "push" THEN "authorize" ELSE "prepared"
        /\ uploads' = Append(uploads, [run |-> r, commit |-> runs[r].commit, build |-> build,
                                       expired |-> FALSE])
        /\ runs' = [runs EXCEPT ![r].made = Len(uploads) + 1, ![r].at = place,
                                ![r].job = place]
        /\ passed' = IF place = "prepared" THEN passed \cup {r} ELSE passed
        /\ UNCHANGED <<pr, world, effects>>
  BY DEF Prepares
<1>2. Shaped /\ Path(r) /\ runs[r] \in Runs /\ runs[r].event \in Kinds
      /\ uploads \in Seq(Uploads) /\ r \in Nat
  BY RunTyped
<1>3. PICK new \in Nat \ {0} : new = Len(uploads) + 1
  BY <1>2
<1>4. /\ uploads' \in Seq(Uploads) /\ Len(uploads') = new
      /\ Artifacts' = Artifacts \cup {new} /\ uploads'[new].run = r
      /\ \A a \in Artifacts : uploads'[a] = uploads[a]
  <2> DEFINE upload == [run |-> r, commit |-> runs[r].commit, build |-> build,
                        expired |-> FALSE]
  <2>1. upload \in Uploads /\ upload.run = r /\ uploads' = Append(uploads, upload)
    BY <1>1, <1>2 DEF Uploads, Runs
  <2> HIDE DEF upload
  <2>. QED  BY <1>2, <1>3, <2>1, AppendProperties DEF Artifacts
<1>5. new <= MaxUploads
  BY <1>1, <1>2, <1>3, PromotionsAssumption
<1>6. runs[r].job = "plan" /\ runs[r].event \in {"push", "prepare"}
  BY <1>1, <1>2 DEF Path, Preparing, Kinds
<1> DEFINE run == [runs[r] EXCEPT !.made = new, !.at = place, !.job = place]
<1>7. runs' = [runs EXCEPT ![r] = run]
  BY <1>1, <1>3
<1>8. /\ run \in Runs /\ run.at = place /\ run.job = place /\ run.made = new
      /\ run.event = runs[r].event /\ run.ref = runs[r].ref /\ run.commit = runs[r].commit
      /\ run.input = runs[r].input /\ run.attempt = runs[r].attempt
  BY <1>2 DEF Runs, Places, Preparing, Successes, Jobs
<1> HIDE DEF run
<1>9. runs'[r] = run
  BY <1>2, <1>7, <1>8, ExceptSeq DEF Shaped, RunIds
<1>10. Path(r)'
  <2>1. /\ runs'[r].at = place /\ runs'[r].job = place /\ runs'[r].made \in Artifacts'
        /\ runs'[r].event = runs[r].event /\ (place = "prepared" => r \in passed')
    BY <1>1, <1>4, <1>8, <1>9
  <2>. QED  BY <1>1, <1>6, <2>1 DEF Path, Preparing, Publishing, Successes
<1>11. Stage(r)'
  BY <1>8, <1>9 DEF Stage, Answers, Publishing
<1>12. \A a \in Artifacts' : uploads'[a].run \in RunIds
  BY <1>2, <1>4 DEF Shaped
<1>13. passed \subseteq passed' /\ passed' \subseteq RunIds
  BY <1>1, <1>2 DEF Shaped
<1>14. run.made \in Artifacts' \cup {0} /\ run.attempt \in 1 .. MaxAttempts
  BY <1>2, <1>4, <1>8 DEF Shaped
<1>. QED  BY <1>1, <1>4, <1>5, <1>7, <1>8, <1>10, <1>11, <1>12, <1>13, <1>14, OneRun
(***************************************************************************)
(* The publish job.                                                        *)
(***************************************************************************)
LEMMA AsksInv ==
  ASSUME PromotionInv, NEW r \in RunIds, runs[r].at \in Publishing,
         NEW place \in Publishing, UNCHANGED <<uploads, pr, world, effects>>,
         Goes(r, "refused") \/ (Goes(r, place) /\ Answers(r, place))
  PROVE  PromotionInv'
<1>1. runs[r].at # "prepared" /\ place # "prepared" /\ place \in Places
      /\ place \notin Preparing
  BY DEF Publishing, Preparing, Places
<1>. QED  BY <1>1, EndsInv, GoesInv

(* The source run that verify_artifact was named completed with success.   *)
LEMMA SourcePassed ==
  ASSUME PromotionInv, NEW r \in RunIds, runs[r].at = "run", runs[r].event # "push",
         Admits(Source(r), Request(r).run)
  PROVE  Request(r).run \in passed
<1>1. Shaped /\ Path(r) /\ Candidate(r).run = Request(r).run /\ Source(r) # "none"
  BY RunTyped DEF Stage, Answers, Publishing
<1>2. Request(r).run \in RunIds
  BY <1>1, HasCandidate DEF Publishing
<1>3. Source(r) = "completed"
  BY <1>1 DEF Source, CandidateRun, EventName
<1>4. runs[Request(r).run].at \in Successes
  BY <1>3 DEF Admits
<1>5. Path(Request(r).run)
  BY <1>2 DEF PromotionInv
<1>. QED  BY <1>4, <1>5 DEF Path

LEMMA ApprovedAgrees ==
  ASSUME NEW r \in RunIds, runs[r].event \in Kinds, Approved(r)
  PROVE  Agreed(r)
<1> DEFINE approval == Approval(r)
<1>1. Approves(approval)
  BY DEF Approved
<1>2. /\ approval.candidate = (Request(r).digest = Request(r).artifact)
      /\ approval.intent = (EventName(r) = "workflow_dispatch"
                            \/ Reviewed(Candidate(r).commit))
      /\ approval.identity.environment = (Environment[Candidate(r).commit] = "release")
      /\ approval.identity.source = (runs[r].commit = Candidate(r).commit)
      /\ approval.identity.trigger = EventName(r)
      /\ approval.identity.manualRef = (runs[r].ref \in ManualRefs[Candidate(r).commit])
      /\ approval.manualSource = (Request(r).source = Candidate(r).commit)
      /\ approval.manualReason = Request(r).reason
  BY DEF Approval
<1> HIDE DEF approval
<1>3. /\ EventName(r) = "push" <=> runs[r].event = "push"
      /\ EventName(r) = "workflow_dispatch" <=> runs[r].event # "push"
  BY DEF EventName
<1>. QED  BY <1>1, <1>2, <1>3 DEF Approves, Agreed

LEMMA QuestionsInv ==
  ASSUME PromotionInv, NEW r \in RunIds,
         \/ Downloads(r) \/ VerifiesToken(r) \/ VerifiesArtifact(r) \/ VerifiesRun(r)
         \/ VerifiesReview(r) \/ Ends(r)
  PROVE  PromotionInv'
<1>1. Shaped /\ Path(r) /\ Stage(r) /\ runs[r].event \in Kinds
  BY RunTyped
<1>2. CASE Downloads(r)
  <2>1. /\ runs[r].at = "download" /\ UNCHANGED <<uploads, pr, world, effects>>
        /\ Goes(r, "refused") \/ (Goes(r, "token") /\ Candidate(r).run = Request(r).run)
    BY <1>2 DEF Downloads, Checks, Leaves
  <2>2. Candidate(r).run = Request(r).run => Answers(r, "token")
    BY DEF Answers
  <2>. QED  BY <2>1, <2>2, AsksInv DEF Publishing
<1>3. CASE VerifiesToken(r)
  <2>1. /\ runs[r].at = "token" /\ UNCHANGED <<uploads, pr, world, effects>>
        /\ Goes(r, "refused") \/ (Goes(r, "artifact") /\ Source(r) # "none")
    BY <1>3 DEF VerifiesToken, Checks, Leaves
  <2>2. Source(r) # "none" => Answers(r, "artifact")
    BY <1>1, <2>1 DEF Stage, Answers, Publishing
  <2>. QED  BY <2>1, <2>2, AsksInv DEF Publishing
<1>4. CASE VerifiesArtifact(r)
  <2>1. /\ runs[r].at = "artifact" /\ UNCHANGED <<uploads, pr, world, effects>>
        /\ Goes(r, "refused") \/ Goes(r, "run")
    BY <1>4 DEF VerifiesArtifact, Checks, Leaves
  <2>2. Answers(r, "run")
    BY <1>1, <2>1 DEF Stage, Answers, Publishing
  <2>. QED  BY <2>1, <2>2, AsksInv DEF Publishing
<1>5. CASE VerifiesRun(r)
  <2>1. /\ runs[r].at = "run" /\ UNCHANGED <<uploads, pr, world, effects>>
        /\ \/ Goes(r, "refused")
           \/ Goes(r, "review") /\ Admits(Source(r), Request(r).run)
    BY <1>5 DEF VerifiesRun, Checks, Leaves
  <2>2. Admits(Source(r), Request(r).run) => Answers(r, "review")
    BY <1>1, <2>1, SourcePassed DEF Stage, Answers, Publishing
  <2>. QED  BY <2>1, <2>2, AsksInv DEF Publishing
<1>6. CASE VerifiesReview(r)
  <2>1. /\ runs[r].at = "review" /\ UNCHANGED <<uploads, pr, world, effects>>
        /\ Goes(r, "refused") \/ (Goes(r, "publish") /\ Approved(r))
    BY <1>6 DEF VerifiesReview, Checks, Leaves
  <2>2. Approved(r) => Answers(r, "publish")
    BY <1>1, <2>1, ApprovedAgrees DEF Stage, Answers, Publishing
  <2>. QED  BY <2>1, <2>2, AsksInv DEF Publishing
<1>7. CASE Ends(r)
  <2>1. /\ runs[r].at = "publish" /\ UNCHANGED <<uploads, pr, world, effects>>
        /\ Goes(r, "conflict") \/ Goes(r, "published")
    BY <1>7 DEF Ends, Leaves
  <2>. QED  BY <2>1, EndsInv
<1>. QED  BY <1>2, <1>3, <1>4, <1>5, <1>6, <1>7

(* What a call publishes, and what was there before it.                    *)
LEMMA Created ==
  ASSUME NEW a, NEW i \in 1 .. 3, world \in Worlds, Creates(a, i), ~Conflicts(a)
  PROVE  \/ /\ world' = [world EXCEPT !.tag = uploads[a].commit]
            /\ world.tag = Nothing
         \/ /\ world' = [world EXCEPT !.package = Wanted(a).package]
            /\ world.tag # Nothing /\ world.package = <<>>
         \/ /\ world' = [world EXCEPT !.release = a]
            /\ world.tag = uploads[a].commit /\ world.package = Wanted(a).package
<1>1. Objects[1] = "tag" /\ Objects[2] = "package" /\ Objects[3] = "release"
  BY DEF Objects
<1>2. /\ Missing(Objects[i]) /\ \A j \in 1 .. i - 1 : ~Missing(Objects[j])
      /\ world' = [world EXCEPT ![Objects[i]] = Wanted(a)[Objects[i]]]
  BY DEF Creates
<1>3. ~Differs(a, "tag") /\ ~Differs(a, "package")
  BY <1>1 DEF Conflicts
<1>4. CASE i = 1
  <2>1. Missing("tag") /\ world' = [world EXCEPT !["tag"] = Wanted(a)["tag"]]
    BY <1>1, <1>2, <1>4
  <2>. QED  BY <2>1 DEF Missing, Unpublished, Wanted
<1>5. CASE i = 2
  <2>1. /\ Missing("package") /\ ~Missing("tag")
        /\ world' = [world EXCEPT !["package"] = Wanted(a)["package"]]
    <3>1. 1 \in 1 .. i - 1
      BY <1>5
    <3>. QED  BY <1>1, <1>2, <1>5, <3>1
  <2>. QED  BY <2>1 DEF Missing, Unpublished
<1>6. CASE i = 3
  <2>1. /\ ~Missing("tag") /\ ~Missing("package")
        /\ world' = [world EXCEPT !["release"] = Wanted(a)["release"]]
    <3>1. 1 \in 1 .. i - 1 /\ 2 \in 1 .. i - 1
      BY <1>6
    <3>. QED  BY <1>1, <1>2, <1>6, <3>1
  <2>2. world["tag"] = Wanted(a)["tag"] /\ world["package"] = Wanted(a)["package"]
    BY <1>3, <2>1 DEF Differs
  <2>. QED  BY <2>1, <2>2 DEF Wanted
<1>. QED  BY <1>4, <1>5, <1>6

(* What a publish job rests on when it makes a call.                       *)
LEMMA PublishRests ==
  ASSUME PromotionInv, NEW r \in RunIds, runs[r].at = "publish",
         NEW effect, effect.run = r, effect.artifact = Request(r).artifact
  PROVE  ApprovedEffect(effect)
<1>1. /\ Shaped /\ Path(r) /\ Agreed(r) /\ Candidate(r).run = Request(r).run
      /\ Source(r) # "none" /\ (runs[r].event # "push" => Request(r).run \in passed)
  BY RunTyped DEF Stage, Answers, Publishing
<1>2. /\ Candidate(r) = uploads[Request(r).artifact]
      /\ runs[r].event \in {"push", "promote"}
  BY <1>1, HasCandidate DEF Publishing
<1>3. CASE runs[r].event = "push"
  <2>1. Request(r).run = r
    BY <1>3, RequestOf
  <2>. QED  BY <1>1, <1>2, <1>3, <2>1 DEF Agreed, ApprovedEffect
<1>4. CASE runs[r].event = "promote"
  <2>1. Request(r) = runs[r].input
    BY <1>4, RequestOf
  <2>2. Request(r).run # r
    BY <1>1, <1>4 DEF Source, CandidateRun, EventName
  <2>. QED  BY <1>1, <1>2, <1>4, <2>1, <2>2 DEF Agreed, ApprovedEffect
<1>. QED  BY <1>2, <1>3, <1>4

LEMMA PublishesInv ==
  ASSUME PromotionInv, NEW r \in RunIds, Publishes(r)
  PROVE  PromotionInv'
<1> DEFINE a == Request(r).artifact
<1>1. PICK i \in 1 .. 3 :
        /\ runs[r].at = "publish" /\ ~Conflicts(a) /\ Creates(a, i)
        /\ effects' = effects \cup {[run |-> r, artifact |-> a, object |-> Objects[i]]}
        /\ UNCHANGED <<runs, uploads, pr, passed>>
  BY DEF Publishes
<1>2. Shaped /\ Path(r) /\ Stage(r) /\ runs[r] \in Runs
  BY RunTyped
<1>3. /\ a \in Artifacts /\ a \in Nat \ {0} /\ uploads[a] \in Uploads
  BY <1>1, <1>2, HasCandidate DEF Publishing
<1> DEFINE effect == [run |-> r, artifact |-> a, object |-> Objects[i]]
<1>4. ApprovedEffect(effect)
  BY <1>1, PublishRests
<1>5. Keeps
  BY <1>1 DEF Keeps, RunIds, Artifacts, Reviewed
<1>6. \A q \in RunIds' : Path(q)' /\ Stage(q)'
  BY <1>1, <1>2, <1>5, RunKept DEF PromotionInv, RunIds
<1>7. PublishedAsApproved'
  <2>1. \A e \in effects : ApprovedEffect(e)
    BY DEF PromotionInv, PublishedAsApproved, ApprovedEffect
  <2>2. \A e \in effects' : ApprovedEffect(e)
    BY <1>1, <1>4, <2>1
  <2>3. \A e \in effects' : ApprovedEffect(e)'
    BY <1>1, <2>2 DEF ApprovedEffect, Reviewed
  <2>. QED  BY <2>3 DEF PublishedAsApproved, ApprovedEffect
<1> DEFINE commit == uploads[a].commit
<1>8. commit \in Commits /\ commit # Nothing /\ Wanted(a).package \in Contents \X Builds
      /\ Wanted(a).package # <<>>
  <2>1. commit \in Commits /\ uploads[a].build \in Builds
    BY <1>3 DEF Uploads
  <2>2. Content[commit] \in Contents /\ commit # Nothing
    BY <2>1, PromotionsAssumption DEF Contents
  <2>3. Wanted(a).package = <<Content[commit], uploads[a].build>>
    BY DEF Wanted
  <2>. QED  BY <2>1, <2>2, <2>3
<1>9. \/ world' = [world EXCEPT !.tag = commit] /\ world.tag = Nothing
      \/ /\ world' = [world EXCEPT !.package = Wanted(a).package]
         /\ world.package = <<>>
      \/ /\ world' = [world EXCEPT !.release = a]
         /\ world.tag = commit /\ world.package = Wanted(a).package
  BY <1>1, <1>2, Created DEF Shaped
<1>10. world \in Worlds /\ world.release \in Artifacts \cup {0}
  BY <1>2 DEF Shaped
<1>11. world' \in Worlds /\ world'.release \in Artifacts \cup {0}
  <2> HIDE DEF a, commit
  <2>. QED  BY <1>3, <1>8, <1>9, <1>10 DEF Worlds
<1>12. Shaped'
  <2>1. \A e \in effects' : e.run \in RunIds /\ e.artifact \in Artifacts
    BY <1>1, <1>2, <1>3 DEF Shaped
  <2>. QED  BY <1>1, <1>2, <1>11, <2>1 DEF Shaped, RunIds, Artifacts
<1>13. OneCandidate'
  <2>1. \A b : Wanted(b)'.package = Wanted(b).package
    BY <1>1 DEF Wanted
  <2>2. ASSUME world.release # 0
        PROVE  /\ world.tag = uploads[world.release].commit /\ world.tag # Nothing
               /\ world.package = Wanted(world.release).package /\ world.package # <<>>
    <3>1. /\ world.tag = uploads[world.release].commit
          /\ world.package = Wanted(world.release).package
      BY <2>2 DEF PromotionInv, OneCandidate
    <3>2. uploads[world.release] \in Uploads
      BY <1>2, <1>10, <2>2 DEF Shaped, Artifacts
    <3>3. world.tag # Nothing
      BY <3>1, <3>2, PromotionsAssumption DEF Uploads
    <3>4. world.package # <<>>
      BY <3>1 DEF Wanted
    <3>. QED  BY <3>1, <3>3, <3>4
  <2>3. world'.release # 0 => world' = [world EXCEPT !.release = a]
                              /\ world.tag = commit /\ world.package = Wanted(a).package
    BY <1>9, <1>10, <2>2 DEF Worlds
  <2>4. world'.release # 0 => /\ world'.tag = uploads[world'.release].commit
                              /\ world'.package = Wanted(world'.release).package
    BY <1>10, <2>3 DEF Worlds
  <2>. QED  BY <1>1, <2>1, <2>4 DEF OneCandidate
<1>. QED  BY <1>6, <1>7, <1>12, <1>13 DEF PromotionInv

(***************************************************************************)
(* The specification.                                                      *)
(***************************************************************************)
LEMMA InitPromotion == Init => PromotionInv
<1> SUFFICES ASSUME Init
             PROVE  PromotionInv
  OBVIOUS
<1>1. runs = << >> /\ uploads = << >> /\ effects = {} /\ passed = {}
      /\ world = Unpublished
      /\ pr = [commit \in Commits |-> IF commit \in Merges THEN "unbound" ELSE Nothing]
  BY DEF Init
<1>2. RunIds = {} /\ Artifacts = {}
  BY <1>1 DEF RunIds, Artifacts
<1>3. runs \in Seq(Runs) /\ Len(runs) <= MaxRuns
      /\ uploads \in Seq(Uploads) /\ Len(uploads) <= MaxUploads
  BY <1>1, PromotionsAssumption
<1>4. pr \in [Commits -> {Nothing, "unbound"} \cup Contents]
  BY <1>1
<1>5. world \in Worlds /\ world.release = 0
  BY <1>1 DEF Worlds, Unpublished
<1>6. Shaped
  BY <1>1, <1>2, <1>3, <1>4, <1>5 DEF Shaped
<1>. QED  BY <1>1, <1>2, <1>5, <1>6 DEF PromotionInv, PublishedAsApproved, OneCandidate

(* The events: a push or a dispatch that prepares types nothing in.        *)
LEMMA EventsInv ==
  ASSUME PromotionInv, Pushed \/ PrepareDispatched \/ PromoteDispatched
  PROVE  PromotionInv'
<1>1. NoInput \in Inputs
  BY DEF NoInput, Inputs
<1>2. CASE Pushed
  <2>1. PICK head \in Heads : Event("push", head, NoInput)
    BY <1>2 DEF Pushed
  <2>. QED  BY <1>1, <2>1, EventInv DEF Kinds
<1>3. CASE PrepareDispatched
  <2>1. PICK head \in Heads : Event("prepare", head, NoInput)
    BY <1>3 DEF PrepareDispatched
  <2>. QED  BY <1>1, <2>1, EventInv DEF Kinds
<1>4. CASE PromoteDispatched
  <2>1. PICK head \in Heads, a \in Artifacts, b \in Artifacts :
          \E input \in Typed(a, b) : Event("promote", head, input)
    BY <1>4 DEF PromoteDispatched
  <2>2. PICK input \in Typed(a, b) : Event("promote", head, input)
    BY <2>1
  <2>3. input \in Inputs /\ input.artifact \in Artifacts
    BY InputsTyped DEF PromotionInv
  <2>. QED  BY <2>2, <2>3, EventInv DEF Kinds
<1>. QED  BY <1>2, <1>3, <1>4

LEMMA StutterInv ==
  ASSUME PromotionInv, UNCHANGED vars
  PROVE  PromotionInv'
<1>1. Keeps /\ Shaped' /\ RunIds' = RunIds /\ runs' = runs
  BY DEF vars, Keeps, PromotionInv, Shaped, RunIds, Artifacts, Reviewed
<1>2. \A r \in RunIds' : Path(r)' /\ Stage(r)'
  BY <1>1, RunKept DEF PromotionInv
<1>. QED  BY <1>1, <1>2, Unpublishing DEF vars

LEMMA StepInv == PromotionInv /\ [Next]_vars => PromotionInv'
<1> SUFFICES ASSUME PromotionInv, [Next]_vars
             PROVE  PromotionInv'
  OBVIOUS
<1>1. CASE UNCHANGED vars
  BY <1>1, StutterInv
<1>2. CASE Pushed \/ PrepareDispatched \/ PromoteDispatched
  BY <1>2, EventsInv
<1>3. CASE \E c \in Commits : Binds(c)
  BY <1>3, BindsInv
<1>4. CASE \E a \in Artifacts : Expires(a)
  BY <1>4, ExpiresInv
<1>5. ASSUME NEW r \in RunIds, Skips(r) \/ Authorizes(r) \/ Validates(r) \/ Stops(r)
      PROVE  PromotionInv'
  BY <1>5, EarlyJobsInv
<1>6. ASSUME NEW r \in RunIds, Prepares(r) \/ Enters(r) \/ StartsAgain(r) \/ Publishes(r)
      PROVE  PromotionInv'
  BY <1>6, PreparesInv, EntersInv, StartsAgainInv, PublishesInv
<1>7. ASSUME NEW r \in RunIds,
             \/ Downloads(r) \/ VerifiesToken(r) \/ VerifiesArtifact(r) \/ VerifiesRun(r)
             \/ VerifiesReview(r) \/ Ends(r)
      PROVE  PromotionInv'
  BY <1>7, QuestionsInv
<1>. QED  BY <1>1, <1>2, <1>3, <1>4, <1>5, <1>6, <1>7 DEF Next, PublishJob

(* The inductive invariant of the runs holds in every reachable state.     *)
THEOREM PromotionInvariance == Spec => []PromotionInv
<1>1. Init => PromotionInv
  BY InitPromotion
<1>2. PromotionInv /\ [Next]_vars => PromotionInv'
  BY StepInv
<1>. QED  BY <1>1, <1>2, PTL DEF Spec

(* Whatever any run publishes was approved as that Candidate, however runs *)
(* are restarted and killed and whatever is typed, bound late or expires.  *)
THEOREM ApprovedBeforePublished == Spec => []PublishedAsApproved
<1>1. PromotionInv => PublishedAsApproved
  BY DEF PromotionInv
<1>. QED  BY <1>1, PromotionInvariance, PTL

(* The tag, the package and the finished release are of one Candidate,     *)
(* whichever runs published a part of it.                                  *)
THEOREM ReleaseIsOneCandidate == Spec => []OneCandidate
<1>1. PromotionInv => OneCandidate
  BY DEF PromotionInv
<1>. QED  BY <1>1, PromotionInvariance, PTL

(* Every reachable state of the runs is well typed.                        *)
THEOREM PromotionsTyped == Spec => []TypeOK
<1>1. PromotionInv => TypeOK
  <2> SUFFICES ASSUME PromotionInv
               PROVE  TypeOK
    OBVIOUS
  <2>1. Shaped
    BY DEF PromotionInv
  <2>2. \A r \in RunIds : runs[r] \in Runs
    BY <2>1 DEF Shaped, RunIds
  <2>3. \A a \in Artifacts : uploads[a] \in Uploads /\ uploads[a].run \in RunIds
    BY <2>1 DEF Shaped, Artifacts
  <2>4. world \in [tag : Commits \cup {Nothing}, package : (Contents \X Builds) \cup {<<>>},
                   release : Artifacts \cup {0}]
    BY <2>1 DEF Shaped, Worlds
  <2>. QED  BY <2>1, <2>2, <2>3, <2>4 DEF TypeOK, Shaped, Runs, Uploads, Kinds, Places
<1>. QED  BY <1>1, PromotionInvariance, PTL

(***************************************************************************)
(* The window of a token.                                                  *)
(***************************************************************************)
LEMMA TimesAreIntegers ==
  /\ Skew \in Int /\ MaxTime \in Int /\ 0 <= Skew
  /\ Times \subseteq Int
  /\ \A time \in Times : time <= MaxTime
BY TimesAreBounded DEF Times, Least

(* The saturating addition of token_window decides as one without bounds    *)
(* would: a clock near the largest time neither wraps around, which would   *)
(* refuse every token, nor lets one through that starts too late.           *)
THEOREM SaturationIsExact ==
  ASSUME NEW window \in Window, NEW now \in Times
  PROVE  TokenWindow(window, now) <=>
           /\ now < window.expires
           /\ window.issued <= now + Skew
           /\ \A start \in window.notBefore : start <= now + Skew
<1>1. /\ window.expires \in Times
      /\ window.issued \in Times
      /\ \A start \in window.notBefore : start \in Times
  BY DEF Window
<1>2. Expired(window.expires, now) <=> ~(now < window.expires)
  <2>1. window.expires \in Int /\ now \in Int
    BY <1>1, TimesAreIntegers
  <2>2. QED
    BY <2>1 DEF Expired
<1>3. ASSUME NEW time \in Times
      PROVE  time <= LatestStart(now) <=> time <= now + Skew
  BY TimesAreIntegers DEF LatestStart
<1>4. QED
  BY <1>1, <1>2, <1>3 DEF TokenWindow
=============================================================================

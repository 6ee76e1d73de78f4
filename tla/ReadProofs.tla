----------------------------- MODULE ReadProofs -----------------------------
(***************************************************************************)
(* What the reads of the two clients promise, the reading of archives, and *)
(* what is printed of an error, proved for every header, word size, page   *)
(* size, list and archive, every number of polls, redirects and changes of *)
(* a list meanwhile, every way to store names, every limit, and every      *)
(* alphabet, text and list of secrets.                                     *)
(*                                                                         *)
(* A result is told once, at the end, from what several requests brought.  *)
(* So the invariant says what those so far established: CallInv how far a  *)
(* request has come and what it may still cost, PollsInv which poll a wait *)
(* is at, ListsInv that the pages so far hold what the list has up to      *)
(* there, and AuditInv which permission was granted.                       *)
(*                                                                         *)
(* The archive's invariant follows the files from the archive to the disk. *)
(* While a level is read, the output is what its entries so far declare,   *)
(* what is claimed is what the output needs, and no two files of the       *)
(* output are in each other's way.  From there on the output stays, and    *)
(* the disk holds those of its files that are no longer left to write.     *)
(*                                                                         *)
(* RedactsExactly speaks of what is decided; it is inductive together with *)
(* what reach stands for: it is the first byte after some occurrence that  *)
(* was tried, and no occurrence that was tried goes past it.               *)
(***************************************************************************)
EXTENDS Reads, Archives, Redaction, TLAPS, FiniteSetTheorems, SequenceTheorems

Calls == [pc : {"send", "sleep", "interval", "done"}, attempt : 0..2,
          hops : 0..MaxRedirects, at : Origins, wait : Nat,
          slept : Int, round : Nat]

CallInv ==
  /\ task \in Task /\ call \in Calls
  /\ call.at = "configured" /\ bearers \subseteq {"configured"}
  /\ call.attempt < Policy.attempts
  /\ 0 <= call.slept /\ call.slept <= call.attempt * Policy.cap
  /\ call.pc = "sleep" => call.wait <= Policy.cap /\ call.attempt + 1 < Policy.attempts
  /\ call.pc # "done" => result = "none"

PollsInv ==
  /\ listed \in Shown
  /\ task.op \in Waits4 => call.round < Polls
  /\ call.pc = "interval" => task.op \in Waits4 /\ call.round + 1 < Polls
  /\ RegistryResultsAreTrue

(* What the list has among its first n entries.                            *)
Sought(n) == {i \in 1..Len(entries) : i <= n /\ entries[i]}

ListsInv ==
  /\ found \in Nat /\ entries \in Seq(BOOLEAN) /\ edits \in 0..MaxEdits
  /\ task.op \in Lists /\ edits = 0 /\ call.pc # "done" =>
       found = Cardinality(Sought(call.round * PageSize))
  /\ UnchangedListIsExact

AuditInv ==
  /\ task.op = "audit" /\ ~task.organization => task.read = "allowed"
  /\ task.op = "audit" /\ call.round # 0 => task.write = "allowed"
  /\ task.op = "audit" /\ ~task.credential => call.pc \in {"send", "done"}
  /\ AuditIsTrue

ReadInv == CallInv /\ PollsInv /\ ListsInv /\ AuditInv

(***************************************************************************)
(* Waits: whatever a response asks for, no wait is longer than the cap.    *)
(***************************************************************************)
LEMMA PolicyOf ==
  /\ Policy \in RetryPolicy
  /\ Policy.attempts = 3 /\ Policy.step = 100 /\ Policy.cap \in {30000, 60000}
  /\ Policy.fixed \in 0..250 /\ Policy.doubles \in BOOLEAN
BY DEF Policy, RetryPolicy, REGISTRY_RETRIES, GITHUB_READS

LEMMA SaturatedIsNatural ==
  ASSUME NEW n \in Nat
  PROVE  Saturated(n) \in Nat /\ Saturated(n) <= n
BY WordAssumption DEF Saturated

LEMMA DoubledIsNatural ==
  ASSUME NEW attempt \in 0..2
  PROVE  Doubled(attempt) \in Nat
<1>1. 2^0 = 1 /\ 2^1 = 2 /\ 2^2 = 4
  OBVIOUS
<1>2. 2^attempt \in Nat
  <2>1. CASE attempt = 0
    BY <1>1, <2>1
  <2>2. CASE attempt = 1
    BY <1>1, <2>2
  <2>3. CASE attempt = 2
    BY <1>1, <2>3
  <2>. QED  BY <2>1, <2>2, <2>3
<1>. QED  BY <1>2, SaturatedIsNatural DEF Doubled

LEMMA WaitsAreCapped ==
  ASSUME NEW attempt \in 0..2
  PROVE  /\ \A header \in Headers :
              BusyWait(Policy, attempt, DelaySeconds(header)) \in 0..Policy.cap
         /\ TransportWait(Policy, attempt) \in 0..Policy.cap
<1>1. ASSUME NEW header \in Headers
      PROVE  BusyWait(Policy, attempt, DelaySeconds(header)) \in 0..Policy.cap
  <2> DEFINE asked == DelaySeconds(header)
             wait == IF asked # NoDelay THEN Saturated(1000 * asked)
                     ELSE IF Policy.doubles THEN Saturated(1000 * Doubled(attempt))
                     ELSE Policy.fixed
  <2>1. asked # NoDelay => asked \in Nat
    BY ReadsAssumption DEF DelaySeconds
  <2>2. asked # NoDelay => Saturated(1000 * asked) \in Nat
    BY <2>1, SaturatedIsNatural
  <2>3. Saturated(1000 * Doubled(attempt)) \in Nat
    <3>1. 1000 * Doubled(attempt) \in Nat
      BY DoubledIsNatural
    <3>. QED  BY <3>1, SaturatedIsNatural
  <2>4. wait \in Nat
    BY <2>2, <2>3, PolicyOf
  <2>5. BusyWait(Policy, attempt, asked) = IF wait > Policy.cap THEN Policy.cap ELSE wait
    BY DEF BusyWait
  <2>. QED  BY <2>4, <2>5, PolicyOf
<1>2. TransportWait(Policy, attempt) \in 0..Policy.cap
  <2>1. (attempt + 1) * Policy.step \in Nat /\ (attempt + 1) * Policy.step <= 300
    BY PolicyOf
  <2>2. /\ Saturated((attempt + 1) * Policy.step) \in Nat
        /\ Saturated((attempt + 1) * Policy.step) <= (attempt + 1) * Policy.step
    BY <2>1, SaturatedIsNatural
  <2>. QED  BY <2>1, <2>2, PolicyOf DEF TransportWait
<1>. QED  BY <1>1, <1>2

(***************************************************************************)
(* How a call goes on.                                                     *)
(***************************************************************************)
LEMMA CallOf ==
  ASSUME CallInv
  PROVE  /\ call \in Calls /\ task \in Task
         /\ call.attempt \in 0..2 /\ call.hops \in 0..MaxRedirects
         /\ call.round \in Nat /\ call.slept \in Int /\ call.wait \in Nat
         /\ call.pc \in {"send", "sleep", "interval", "done"}
         /\ call.at = "configured"
<1>1. call \in Calls /\ task \in Task /\ call.at = "configured"
  BY DEF CallInv
<1>. QED  BY <1>1 DEF Calls

LEMMA SendsHome ==
  ASSUME CallInv, Sends
  PROVE  /\ bearers' \subseteq {"configured"} /\ call.pc = "send"
         /\ UNCHANGED <<task, listed, entries, edits>>
BY DEF CallInv, Sends, worldVars

LEMMA EndsCall ==
  ASSUME CallInv, NEW r, Ends(r), bearers' \subseteq {"configured"}, task' = task
  PROVE  /\ CallInv' /\ call' \in Calls /\ call'.pc = "done" /\ result' = r
         /\ call'.round = call.round
<1>1. /\ call' \in Calls /\ call'.pc = "done" /\ result' = r
      /\ call'.at = call.at /\ call'.attempt = call.attempt /\ call'.slept = call.slept
      /\ call'.round = call.round
  BY CallOf DEF Ends, Calls
<1>2. Policy' = Policy
  BY DEF Policy
<1>. QED  BY <1>1, <1>2 DEF CallInv

LEMMA GoesCall ==
  ASSUME CallInv, call.pc # "done", NEW after \in Calls, Goes(after),
         bearers' \subseteq {"configured"}, task' = task,
         after.at = "configured", after.pc # "done",
         after.attempt < Policy.attempts, 0 <= after.slept,
         after.slept <= after.attempt * Policy.cap,
         after.pc = "sleep" => after.wait <= Policy.cap /\ after.attempt + 1 < Policy.attempts
  PROVE  CallInv' /\ call' = after /\ result' = "none"
<1>1. call' = after /\ result' = result
  BY DEF Goes
<1>2. Policy' = Policy
  BY DEF Policy
<1>. QED  BY <1>1, <1>2 DEF CallInv

LEMMA RepeatsCall ==
  ASSUME CallInv, call.pc = "send", NEW wait \in 0..Policy.cap, Repeats(wait),
         bearers' \subseteq {"configured"}, task' = task
  PROVE  /\ CallInv' /\ call'.round = call.round /\ call'.pc \in {"sleep", "done"}
         /\ result' \in {"none", "failed"}
<1>1. CASE AnotherAttemptFollows(call.attempt, Policy.attempts)
  <2> DEFINE after == [call EXCEPT !.pc = "sleep", !.wait = wait]
  <2>1. Goes(after)
    BY <1>1 DEF Repeats
  <2>2. /\ after \in Calls /\ after.pc = "sleep" /\ after.wait = wait /\ after.at = call.at
        /\ after.attempt = call.attempt /\ after.slept = call.slept /\ after.round = call.round
    <3>1. wait \in Nat
      BY PolicyOf
    <3>. QED  BY <3>1, CallOf DEF Calls
  <2>3. call.attempt + 1 < Policy.attempts
    BY <1>1 DEF AnotherAttemptFollows
  <2> HIDE DEF after
  <2>4. CallInv' /\ call' = after /\ result' = "none"
    BY <2>1, <2>2, <2>3, CallOf, PolicyOf, GoesCall DEF CallInv
  <2>. QED  BY <2>2, <2>4
<1>2. CASE ~AnotherAttemptFollows(call.attempt, Policy.attempts)
  <2>1. Ends("failed")
    BY <1>2 DEF Repeats
  <2>. QED  BY <2>1, EndsCall
<1>. QED  BY <1>1, <1>2

LEMMA FreshOf ==
  ASSUME NEW round \in Nat
  PROVE  /\ Fresh(round) \in Calls /\ Fresh(round).at = "configured"
         /\ Fresh(round).attempt = 0 /\ Fresh(round).pc = "send" /\ Fresh(round).slept = 0
         /\ Fresh(round).round = round
BY ReadsAssumption DEF Fresh, Calls, Origins

LEMMA FreshCall ==
  ASSUME CallInv, call.pc # "done", NEW round \in Nat, Goes(Fresh(round)),
         bearers' \subseteq {"configured"}, task' = task
  PROVE  CallInv' /\ call'.round = round /\ call'.pc = "send" /\ result' = "none"
<1>1. CallInv' /\ call' = Fresh(round) /\ result' = "none"
  BY FreshOf, PolicyOf, GoesCall
<1>. QED  BY <1>1, FreshOf

(* A request that was repeated is not counted twice against the waits.     *)
LEMMA WakesCall ==
  ASSUME CallInv, Wakes
  PROVE  /\ CallInv' /\ call'.round = call.round /\ call.pc = "sleep"
         /\ call'.pc \in {"send", "done"} /\ result' \in {"none", "failed"}
         /\ UNCHANGED <<task, bearers, found, listed, entries, edits>>
<1>1. /\ call.pc = "sleep" /\ UNCHANGED <<task, bearers, found, listed, entries, edits>>
      /\ bearers' \subseteq {"configured"}
  BY DEF Wakes, CallInv, worldVars
<1>2. CASE Ends("failed")
  BY <1>1, <1>2, EndsCall
<1>3. CASE ~Ends("failed")
  <2> DEFINE after == [Fresh(call.round) EXCEPT !.attempt = call.attempt + 1,
                                               !.slept = call.slept + call.wait]
  <2>1. Goes(after)
    BY <1>3 DEF Wakes
  <2>2. /\ call.wait <= Policy.cap /\ call.attempt + 1 < Policy.attempts
        /\ 0 <= call.slept /\ call.slept <= call.attempt * Policy.cap
    BY <1>1 DEF CallInv
  <2>3. /\ after \in Calls /\ after.pc = "send" /\ after.at = "configured"
        /\ after.attempt = call.attempt + 1 /\ after.slept = call.slept + call.wait
        /\ after.round = call.round
    <3>1. call.attempt + 1 \in 0..2 /\ call.slept + call.wait \in Int
      BY <2>2, CallOf, PolicyOf
    <3>2. Fresh(call.round) \in Calls
      BY CallOf, FreshOf
    <3>. QED  BY <3>1, <3>2, CallOf, FreshOf DEF Calls
  <2> HIDE DEF after
  <2>4. after.slept <= after.attempt * Policy.cap
    <3>1. (call.attempt + 1) * Policy.cap = call.attempt * Policy.cap + Policy.cap
      BY CallOf, PolicyOf
    <3>2. Policy.cap \in Nat /\ call.attempt * Policy.cap \in Nat
      BY CallOf, PolicyOf
    <3>. QED  BY <2>2, <2>3, <3>1, <3>2, CallOf
  <2>5. 0 <= after.slept
    BY <2>2, <2>3, CallOf
  <2>6. CallInv' /\ call' = after /\ result' = "none"
    BY <1>1, <2>1, <2>2, <2>3, <2>4, <2>5, GoesCall
  <2>. QED  BY <1>1, <2>3, <2>6
<1>. QED  BY <1>2, <1>3, <1>1

(***************************************************************************)
(* The pages of a list.                                                    *)
(***************************************************************************)
LEMMA SoughtIsFinite ==
  ASSUME entries \in Seq(BOOLEAN), NEW S, S \subseteq 1..Len(entries)
  PROVE  IsFiniteSet(S) /\ Cardinality(S) \in Nat
<1>1. Len(entries) \in Int
  OBVIOUS
<1>2. IsFiniteSet(1..Len(entries))
  BY <1>1, FS_Interval
<1>3. IsFiniteSet(S)
  BY <1>2, FS_Subset
<1>. QED  BY <1>3, FS_CardinalityType

(* One more page brings what the list has among one more page of entries.  *)
LEMMA PageAdds ==
  ASSUME entries \in Seq(BOOLEAN), NEW n \in Nat
  PROVE  /\ Cardinality(Sought((n + 1) * PageSize)) =
              Cardinality(Sought(n * PageSize)) + Cardinality({i \in Page(n) : entries[i]})
         /\ Cardinality({i \in Page(n) : entries[i]}) \in Nat
<1> DEFINE before == Sought(n * PageSize)
           here == {i \in Page(n) : entries[i]}
           after == Sought((n + 1) * PageSize)
<1>1. PageSize \in Nat \ {0}
  BY ReadsAssumption
<1>2. PICK start \in Int : start = n * PageSize
  BY <1>1
<1>3. (n + 1) * PageSize = start + PageSize
  BY <1>1, <1>2
<1>4. after = before \cup here
  BY <1>1, <1>2, <1>3 DEF Sought, Page
<1>5. before \cap here = {}
  BY <1>1, <1>2 DEF Sought, Page
<1>6. before \subseteq 1..Len(entries) /\ here \subseteq 1..Len(entries)
  BY DEF Sought, Page
<1> HIDE DEF before, here, after
<1>7. IsFiniteSet(before) /\ IsFiniteSet(here)
      /\ Cardinality(before) \in Nat /\ Cardinality(here) \in Nat
  BY <1>6, SoughtIsFinite
<1>8. Cardinality(before \cup here)
        = Cardinality(before) + Cardinality(here) - Cardinality(before \cap here)
  BY <1>7, FS_Union
<1>9. Cardinality(before \cap here) = 0
  BY <1>5, FS_EmptySet
<1>10. Cardinality(after) = Cardinality(before) + Cardinality(here)
  BY <1>4, <1>7, <1>8, <1>9
<1>. QED  BY <1>7, <1>10 DEF before, here, after

(* A page that is not full is the last one.                                *)
LEMMA LastPage ==
  ASSUME entries \in Seq(BOOLEAN), NEW n \in Nat, Cardinality(Page(n)) < PageSize
  PROVE  Cardinality(Sought((n + 1) * PageSize)) = Count(entries)
<1>1. PageSize \in Nat \ {0}
  BY ReadsAssumption
<1>2. PICK start \in Nat : start = n * PageSize
  BY <1>1
<1>3. (n + 1) * PageSize = start + PageSize
  BY <1>1, <1>2
<1>4. Len(entries) <= start + PageSize
  <2>. SUFFICES ASSUME Len(entries) > start + PageSize
                PROVE  FALSE
    BY <1>1, <1>2
  <2>1. Page(n) = (start + 1)..(start + PageSize)
    BY <1>1, <1>2, <1>3 DEF Page
  <2>2. Cardinality((start + 1)..(start + PageSize)) = PageSize
    BY <1>1, <1>2, FS_Interval
  <2>. QED  BY <1>1, <2>1, <2>2
<1>5. Sought((n + 1) * PageSize) = {i \in 1..Len(entries) : entries[i]}
  <2>1. \A i \in 1..Len(entries) : i <= start + PageSize
    BY <1>1, <1>2, <1>4
  <2>. QED  BY <1>3, <2>1 DEF Sought
<1>. QED  BY <1>5 DEF Count

(***************************************************************************)
(* Steps that bring no result: a request that is repeated, redirected or   *)
(* refused.                                                                *)
(***************************************************************************)
LEMMA QuietStep ==
  ASSUME ReadInv, call.pc # "done", CallInv', ~AuditWithoutCredential,
         UNCHANGED <<task, found, listed, entries, edits>>,
         call'.round = call.round, call'.pc \in {"send", "sleep", "done"},
         result' \in {"none", "failed", "refused"}
  PROVE  ReadInv'
<1>1. PollsInv'
  BY DEF ReadInv, PollsInv, RegistryResultsAreTrue
<1>2. ListsInv'
  <2>1. \A n : Sought(n)' = Sought(n)
    BY DEF Sought
  <2>2. call'.round * PageSize = call.round * PageSize
    OBVIOUS
  <2>. QED  BY <2>1, <2>2 DEF ReadInv, ListsInv, UnchangedListIsExact
<1>3. AuditInv'
  BY DEF ReadInv, AuditInv, AuditIsTrue, AuditWithoutCredential, CallInv, Task
<1>. QED  BY <1>1, <1>2, <1>3 DEF ReadInv

LEMMA RedirectedInv ==
  ASSUME ReadInv, Redirected
  PROVE  ReadInv'
<1>1. /\ CallInv /\ SendsToRegistry /\ call.pc = "send"
      /\ UNCHANGED <<task, found, listed, entries, edits>>
      /\ bearers' \subseteq {"configured"} /\ ~AuditWithoutCredential
  BY SendsHome DEF ReadInv, Redirected, SendsToRegistry
<1>2. CASE Ends("refused")
  BY <1>1, <1>2, EndsCall, QuietStep
<1>3. CASE ~Ends("refused")
  <2>1. PICK to \in Origins : IF ~SameOrigin(call.at, to) \/ call.hops >= MaxRedirects
                                THEN Ends("refused")
                                ELSE Goes([call EXCEPT !.hops = @ + 1, !.at = to])
    BY DEF Redirected
  <2> DEFINE after == [call EXCEPT !.hops = @ + 1, !.at = to]
  <2>2. call.at = to /\ ~(call.hops >= MaxRedirects) /\ Goes(after)
    BY <1>3, <2>1 DEF SameOrigin
  <2>3. /\ after \in Calls /\ after.at = "configured" /\ after.pc = "send"
        /\ after.attempt = call.attempt /\ after.slept = call.slept /\ after.round = call.round
    <3>1. call.hops + 1 \in 0..MaxRedirects /\ to = "configured"
      BY <1>1, <2>2, CallOf, ReadsAssumption
    <3>. QED  BY <1>1, <3>1, CallOf DEF Calls, Origins
  <2>4. Goes(after)
    BY <2>2
  <2> HIDE DEF after
  <2>5. CallInv' /\ call' = after /\ result' = "none"
    BY <1>1, <2>3, <2>4, GoesCall DEF CallInv
  <2>. QED  BY <1>1, <2>3, <2>5, QuietStep
<1>. QED  BY <1>2, <1>3

LEMMA RepeatsInv ==
  ASSUME ReadInv, Busy \/ Unreachable \/ BreaksOff \/ Refused
  PROVE  ReadInv'
<1>1. /\ CallInv /\ call.pc = "send" /\ bearers' \subseteq {"configured"}
      /\ UNCHANGED <<task, found, listed, entries, edits>> /\ ~AuditWithoutCredential
  BY SendsHome DEF ReadInv, Busy, Unreachable, BreaksOff, Refused
<1>2. ASSUME NEW wait \in 0..Policy.cap, Repeats(wait)
      PROVE  ReadInv'
  BY <1>1, <1>2, RepeatsCall, QuietStep
<1>3. ASSUME Ends("refused")
      PROVE  ReadInv'
  <2>1. /\ CallInv' /\ call'.pc = "done" /\ result' = "refused" /\ call'.round = call.round
    BY <1>1, <1>3, EndsCall
  <2>. QED  BY <1>1, <2>1, QuietStep
<1>4. CASE Busy
  <2>1. PICK header \in Headers :
          Repeats(BusyWait(Policy, call.attempt, DelaySeconds(header)))
    BY <1>4 DEF Busy
  <2>. QED  BY <1>1, <1>2, <2>1, CallOf, WaitsAreCapped
<1>5. CASE Unreachable
  BY <1>1, <1>2, <1>5, CallOf, WaitsAreCapped DEF Unreachable
<1>6. CASE BreaksOff
  BY <1>1, <1>2, <1>3, <1>6, CallOf, WaitsAreCapped DEF BreaksOff
<1>7. CASE Refused
  BY <1>3, <1>7 DEF Refused
<1>. QED  BY <1>4, <1>5, <1>6, <1>7

LEMMA WakesInv ==
  ASSUME ReadInv, Wakes
  PROVE  ReadInv'
<1>1. /\ CallInv' /\ call'.round = call.round /\ call.pc = "sleep"
      /\ call'.pc \in {"send", "done"} /\ result' \in {"none", "failed"}
      /\ UNCHANGED <<task, bearers, found, listed, entries, edits>>
  BY WakesCall DEF ReadInv
<1>2. ~AuditWithoutCredential
  BY <1>1 DEF ReadInv, AuditInv, AuditWithoutCredential
<1>. QED  BY <1>1, <1>2, QuietStep

(***************************************************************************)
(* Steps that bring a result, or the next request.                         *)
(***************************************************************************)
LEMMA IsMissingInv ==
  ASSUME ReadInv, IsMissing
  PROVE  ReadInv'
<1>1. /\ call.pc = "send" /\ AuditWithoutCredential /\ Ends("missing")
      /\ UNCHANGED <<task, bearers, found, listed, entries, edits>>
      /\ CallInv /\ bearers' \subseteq {"configured"}
  BY DEF IsMissing, worldVars, ReadInv, CallInv
<1>2. CallInv' /\ call'.pc = "done" /\ result' = "missing" /\ call'.round = call.round
  BY <1>1, EndsCall
<1>3. task.op = "audit" /\ ~task.credential
  BY <1>1 DEF AuditWithoutCredential
<1>4. PollsInv'
  BY <1>1, <1>2, <1>3 DEF ReadInv, PollsInv, RegistryResultsAreTrue, RegistryGets, Waits4
<1>5. ListsInv'
  BY <1>1, <1>2, <1>3 DEF ReadInv, ListsInv, UnchangedListIsExact, Lists
<1>6. AuditInv'
  BY <1>1, <1>2, <1>3 DEF ReadInv, AuditInv, AuditIsTrue
<1>. QED  BY <1>2, <1>4, <1>5, <1>6 DEF ReadInv

(* The operations of the two clients are different ones.                   *)
LEMMA Operations ==
  /\ task.op \in RegistryGets => task.op \notin Lists /\ task.op # "audit"
  /\ task.op \in GithubGets => task.op \notin RegistryGets /\ task.op # "audit"
  /\ Waits4 \subseteq RegistryGets /\ Lists \subseteq GithubGets
BY DEF RegistryGets, Waits4, Lists, GithubGets

LEMMA RegistryAnswersInv ==
  ASSUME ReadInv, RegistryAnswers
  PROVE  ReadInv'
<1> DEFINE r == IF Exists THEN listed ELSE IF task.op = "source" THEN "refused" ELSE "absent"
<1>1. /\ task.op \in RegistryGets \ Waits4 /\ Ends(r) /\ call.pc = "send"
      /\ UNCHANGED <<task, found, listed, entries, edits>>
      /\ CallInv /\ bearers' \subseteq {"configured"}
  BY SendsHome DEF RegistryAnswers, SendsToRegistry, ReadInv
<1>2. CallInv' /\ call'.pc = "done" /\ result' = r /\ call'.round = call.round
  BY <1>1, EndsCall
<1>3. PollsInv'
  <2>1. listed \in Shown /\ Exists' = Exists
    BY <1>1 DEF ReadInv, PollsInv, Exists
  <2>2. /\ r = "absent" => ~Exists
        /\ r # "visible" /\ r # "timed out"
    BY <2>1 DEF Shown
  <2>. QED  BY <1>1, <1>2, <2>1, <2>2 DEF PollsInv, RegistryResultsAreTrue
<1>4. ListsInv'
  BY <1>1, <1>2, Operations DEF ReadInv, ListsInv, UnchangedListIsExact
<1>5. AuditInv'
  BY <1>1, <1>2, Operations DEF ReadInv, AuditInv, AuditIsTrue
<1>. QED  BY <1>2, <1>3, <1>4, <1>5 DEF ReadInv

(* The last poll gives up only what it did not find.                       *)
LEMMA PolledInv ==
  ASSUME ReadInv, Polled
  PROVE  ReadInv'
<1> DEFINE ready == ReleaseReady(listed, task.op = "wait_docs")
<1>1. /\ task.op \in Waits4 /\ call.pc = "send" /\ CallInv
      /\ UNCHANGED <<task, found, listed, entries, edits>>
      /\ bearers' \subseteq {"configured"}
  BY SendsHome DEF Polled, SendsToRegistry, ReadInv
<1>2. \/ ready /\ Ends("visible")
      \/ ~ready /\ call.round + 1 < Polls /\ Goes([call EXCEPT !.pc = "interval"])
      \/ ~ready /\ ~(call.round + 1 < Polls) /\ Ends("timed out")
  BY DEF Polled, AfterPoll, AnotherAttemptFollows
<1>3. /\ CallInv' /\ call'.round = call.round
      /\ \/ ready /\ call'.pc = "done" /\ result' = "visible"
         \/ ~ready /\ call.round + 1 < Polls /\ call'.pc = "interval" /\ result' = "none"
         \/ ~ready /\ ~(call.round + 1 < Polls) /\ call'.pc = "done" /\ result' = "timed out"
  <2>1. CASE ready /\ Ends("visible")
    BY <1>1, <2>1, EndsCall
  <2>2. CASE ~ready /\ ~(call.round + 1 < Polls) /\ Ends("timed out")
    BY <1>1, <2>2, EndsCall
  <2>3. CASE ~ready /\ call.round + 1 < Polls /\ Goes([call EXCEPT !.pc = "interval"])
    <3> DEFINE after == [call EXCEPT !.pc = "interval"]
    <3>1. /\ after \in Calls /\ after.pc = "interval" /\ after.at = call.at
          /\ after.attempt = call.attempt /\ after.slept = call.slept
          /\ after.round = call.round
      BY <1>1, CallOf DEF Calls
    <3>2. Goes(after)
      BY <2>3
    <3> HIDE DEF after
    <3>3. CallInv' /\ call' = after /\ result' = "none"
      BY <1>1, <3>1, <3>2, GoesCall DEF CallInv
    <3>. QED  BY <2>3, <3>1, <3>3
  <2>. QED  BY <1>2, <2>1, <2>2, <2>3
<1>4. PollsInv'
  <2>1. listed \in Shown /\ call.round \in Nat /\ call.round < Polls /\ Polls \in Nat \ {0}
    BY <1>1, CallOf, ReadsAssumption DEF ReadInv, PollsInv
  <2>2. /\ ready => listed \in {"documented"} \cup (IF task.op = "wait" THEN {"listed"} ELSE {})
        /\ ~ready => listed # "documented"
    BY <1>1 DEF ReleaseReady, Waits4
  <2> HIDE DEF ready
  <2>3. RegistryResultsAreTrue'
    <3>1. ~(call.round + 1 < Polls) => call.round = Polls - 1
      BY <2>1
    <3>. QED  BY <1>1, <1>3, <2>2, <3>1 DEF RegistryResultsAreTrue
  <2>. QED  BY <1>1, <1>3, <2>1, <2>3 DEF PollsInv
<1>5. ListsInv'
  BY <1>1, <1>3, Operations DEF ReadInv, ListsInv, UnchangedListIsExact
<1>6. AuditInv'
  BY <1>1, <1>3, Operations DEF ReadInv, AuditInv, AuditIsTrue
<1>. QED  BY <1>3, <1>4, <1>5, <1>6 DEF ReadInv

LEMMA AuditedInv ==
  ASSUME ReadInv, Audited
  PROVE  ReadInv'
<1> DEFINE grant == IF call.round = 0 THEN task.write ELSE task.read
<1>1. /\ task.op = "audit" /\ task.credential /\ call.pc = "send" /\ CallInv
      /\ UNCHANGED <<task, found, listed, entries, edits>>
      /\ bearers' \subseteq {"configured"}
  BY SendsHome DEF Audited, SendsToRegistry, ReadInv, AuditWithoutCredential
<1>2. \/ Ends("invalid")
      \/ call.round = 0 /\ task.write = "denied" /\ Ends("cannot publish")
      \/ call.round # 0 /\ task.read = "denied" /\ Ends("cannot read")
      \/ call.round = 0 /\ task.write = "allowed" /\ task.organization /\ Goes(Fresh(1))
      \/ /\ ~(call.round = 0 /\ task.organization) /\ Ends("can publish and read")
         /\ call.round = 0 => task.write = "allowed"
         /\ call.round # 0 => task.read = "allowed"
  <2>1. task \in Task
    BY <1>1, CallOf
  <2>2. task.write \in Grants /\ task.read \in Grants
    BY <2>1 DEF Task
  <2>3. grant \in Grants
    BY <2>2
  <2>. QED  BY <2>3 DEF Audited, Grants
<1>3. /\ task.organization \/ task.read = "allowed"
      /\ call.round # 0 => task.write = "allowed"
  BY <1>1 DEF ReadInv, AuditInv
<1>4. /\ CallInv'
      /\ \/ call'.pc = "done" /\ result' = "invalid" /\ call'.round = call.round
         \/ /\ call'.pc = "done" /\ result' = "cannot publish" /\ call'.round = call.round
            /\ task.write = "denied"
         \/ /\ call'.pc = "done" /\ result' = "cannot read" /\ call'.round = call.round
            /\ task.read = "denied"
         \/ call'.pc = "send" /\ result' = "none" /\ task.write = "allowed"
         \/ /\ call'.pc = "done" /\ result' = "can publish and read"
            /\ call'.round = call.round
            /\ task.write = "allowed" /\ task.read = "allowed"
  BY <1>1, <1>2, <1>3, EndsCall, FreshCall
<1>5. PollsInv'
  BY <1>1, <1>4, Operations DEF ReadInv, PollsInv, RegistryResultsAreTrue
<1>6. ListsInv'
  BY <1>1, <1>4 DEF ReadInv, ListsInv, UnchangedListIsExact, Lists
<1>7. AuditInv'
  BY <1>1, <1>3, <1>4 DEF ReadInv, AuditInv, AuditIsTrue
<1>. QED  BY <1>4, <1>5, <1>6, <1>7 DEF ReadInv

LEMMA GithubAnswersInv ==
  ASSUME ReadInv, GithubAnswers
  PROVE  ReadInv'
<1>1. /\ task.op \in {"get", "get_optional"} /\ call.pc = "send" /\ CallInv
      /\ UNCHANGED <<task, found, listed, entries, edits>>
      /\ bearers' \subseteq {"configured"}
  BY SendsHome DEF GithubAnswers, ReadInv
<1>2. CallInv' /\ call'.pc = "done" /\ call'.round = call.round
  BY <1>1, EndsCall DEF GithubAnswers
<1>3. task.op \notin RegistryGets /\ task.op \notin Lists /\ task.op # "audit"
  BY <1>1 DEF RegistryGets, Waits4, Lists
<1>4. PollsInv'
  BY <1>1, <1>2, <1>3, Operations DEF ReadInv, PollsInv, RegistryResultsAreTrue
<1>5. ListsInv'
  BY <1>1, <1>2, <1>3 DEF ReadInv, ListsInv, UnchangedListIsExact
<1>6. AuditInv'
  BY <1>1, <1>2, <1>3 DEF ReadInv, AuditInv, AuditIsTrue
<1>. QED  BY <1>2, <1>4, <1>5, <1>6 DEF ReadInv

LEMMA ListedInv ==
  ASSUME ReadInv, Listed
  PROVE  ReadInv'
<1> DEFINE here == Cardinality({i \in Page(call.round) : entries[i]})
           round == call.round
<1>1. /\ task.op \in Lists /\ call.pc = "send" /\ CallInv /\ found' = found + here
      /\ UNCHANGED <<task, listed, entries, edits>>
      /\ bearers' \subseteq {"configured"}
  BY SendsHome DEF Listed, ReadInv
<1>2. /\ found \in Nat /\ entries \in Seq(BOOLEAN) /\ edits \in 0..MaxEdits /\ round \in Nat
      /\ edits = 0 => found = Cardinality(Sought(round * PageSize))
  BY <1>1, CallOf DEF ReadInv, ListsInv
<1>3. here \in Nat /\ found' \in Nat
      /\ (edits = 0 => found' = Cardinality(Sought((round + 1) * PageSize)))
  <2>1. Cardinality(Sought((round + 1) * PageSize)) =
          Cardinality(Sought(round * PageSize)) + here /\ here \in Nat
    BY <1>2, PageAdds
  <2> HIDE DEF here, round
  <2>. QED  BY <1>1, <1>2, <2>1
<1>4. \/ /\ Cardinality(Page(round)) < PageSize
         /\ \E r \in {"absent", "ambiguous", "found"} : Ends(r)
      \/ Goes(Fresh(round + 1))
      \/ Ends("refused")
  BY DEF Listed
<1>5. /\ CallInv'
      /\ \/ call'.pc = "done" /\ Cardinality(Page(round)) < PageSize
         \/ call'.pc = "send" /\ call'.round = round + 1 /\ result' = "none"
         \/ call'.pc = "done" /\ result' = "refused"
  BY <1>1, <1>2, <1>4, EndsCall, FreshCall
<1>6. PollsInv'
  BY <1>1, <1>5, Operations DEF ReadInv, PollsInv, RegistryResultsAreTrue
<1>7. ListsInv'
  <2>1. Cardinality(Page(round)) < PageSize /\ edits = 0 => found' = Count(entries)
    BY <1>2, <1>3, LastPage
  <2>2. UnchangedListIsExact'
    BY <1>1, <1>5, <2>1 DEF UnchangedListIsExact, Count
  <2>3. call'.pc # "done" /\ edits = 0 => found' = Cardinality(Sought(call'.round * PageSize))
    BY <1>3, <1>5
  <2>4. \A n : Sought(n)' = Sought(n)
    BY <1>1 DEF Sought
  <2>. QED  BY <1>1, <1>2, <1>3, <2>2, <2>3, <2>4 DEF ListsInv
<1>8. AuditInv'
  BY <1>1, <1>5 DEF ReadInv, AuditInv, AuditIsTrue, Lists
<1>. QED  BY <1>5, <1>6, <1>7, <1>8 DEF ReadInv

LEMMA PollsAgainInv ==
  ASSUME ReadInv, PollsAgain
  PROVE  ReadInv'
<1>1. /\ call.pc = "interval" /\ Goes(Fresh(call.round + 1)) /\ CallInv
      /\ UNCHANGED <<task, found, listed, entries, edits>>
      /\ bearers' \subseteq {"configured"}
  BY DEF PollsAgain, ReadInv, CallInv, worldVars
<1>2. task.op \in Waits4 /\ call.round + 1 < Polls /\ call.round + 1 \in Nat
  BY <1>1, CallOf DEF ReadInv, PollsInv
<1>3. CallInv' /\ call'.round = call.round + 1 /\ call'.pc = "send" /\ result' = "none"
  BY <1>1, <1>2, FreshCall
<1>4. PollsInv'
  BY <1>1, <1>2, <1>3 DEF ReadInv, PollsInv, RegistryResultsAreTrue
<1>5. ListsInv'
  BY <1>1, <1>2, <1>3, Operations DEF ReadInv, ListsInv, UnchangedListIsExact
<1>6. AuditInv'
  BY <1>1, <1>2, <1>3, Operations DEF ReadInv, AuditInv, AuditIsTrue
<1>. QED  BY <1>3, <1>4, <1>5, <1>6 DEF ReadInv

(***************************************************************************)
(* Steps of the services.  The registry shows more of a version, never     *)
(* less, and a list that changes is not the unchanged one any more.        *)
(***************************************************************************)
LEMMA SurfacesInv ==
  ASSUME ReadInv, Surfaces
  PROVE  ReadInv'
<1>1. /\ call.pc # "done" /\ listed' \in {"listed", "documented"}
      /\ UNCHANGED <<task, call, bearers, found, result, entries, edits>>
  BY DEF Surfaces, clientVars
<1>2. CallInv' /\ result = "none"
  <2>1. CallInv /\ result = "none"
    BY <1>1 DEF ReadInv, CallInv
  <2>2. Policy' = Policy
    BY <1>1 DEF Policy
  <2>. QED  BY <1>1, <2>1, <2>2 DEF CallInv
<1>3. PollsInv'
  BY <1>1, <1>2 DEF ReadInv, PollsInv, RegistryResultsAreTrue, Shown
<1>4. ListsInv'
  <2>1. \A n : Sought(n)' = Sought(n)
    BY <1>1 DEF Sought
  <2>. QED  BY <1>1, <2>1 DEF ReadInv, ListsInv, UnchangedListIsExact
<1>5. AuditInv'
  BY <1>1 DEF ReadInv, AuditInv, AuditIsTrue
<1>. QED  BY <1>2, <1>3, <1>4, <1>5 DEF ReadInv

LEMMA EditedInv ==
  ASSUME ReadInv, Edited
  PROVE  ReadInv'
<1>1. /\ call.pc # "done" /\ edits < MaxEdits /\ edits' = edits + 1
      /\ \/ \E sought \in BOOLEAN : entries' = <<sought>> \o entries
         \/ \E i \in 1..Len(entries) :
              entries' = SubSeq(entries, 1, i - 1) \o SubSeq(entries, i + 1, Len(entries))
      /\ UNCHANGED <<task, call, bearers, found, result, listed>>
  BY DEF Edited, clientVars
<1>2. found \in Nat /\ entries \in Seq(BOOLEAN) /\ edits \in 0..MaxEdits
  BY DEF ReadInv, ListsInv
<1>3. entries' \in Seq(BOOLEAN) /\ edits' \in 0..MaxEdits /\ edits' # 0
  <2>1. edits' \in 0..MaxEdits /\ edits' # 0
    BY <1>1, <1>2, ReadsAssumption
  <2>2. ASSUME NEW sought \in BOOLEAN
        PROVE  <<sought>> \o entries \in Seq(BOOLEAN)
    BY <1>2
  <2>3. ASSUME NEW i \in 1..Len(entries)
        PROVE  SubSeq(entries, 1, i - 1) \o SubSeq(entries, i + 1, Len(entries)) \in Seq(BOOLEAN)
    <3>1. SubSeq(entries, 1, i - 1) \in Seq(BOOLEAN)
      BY <1>2
    <3>2. SubSeq(entries, i + 1, Len(entries)) \in Seq(BOOLEAN)
      BY <1>2
    <3>. QED  BY <3>1, <3>2
  <2>. QED  BY <1>1, <2>1, <2>2, <2>3
<1>4. CallInv'
  <2>1. Policy' = Policy
    BY <1>1 DEF Policy
  <2>. QED  BY <1>1, <2>1 DEF ReadInv, CallInv
<1>5. PollsInv'
  BY <1>1 DEF ReadInv, PollsInv, RegistryResultsAreTrue, Exists
<1>6. ListsInv'
  BY <1>1, <1>2, <1>3 DEF ListsInv, UnchangedListIsExact
<1>7. AuditInv'
  BY <1>1 DEF ReadInv, AuditInv, AuditIsTrue
<1>. QED  BY <1>4, <1>5, <1>6, <1>7 DEF ReadInv

LEMMA SameRead ==
  ASSUME ReadInv, UNCHANGED vars
  PROVE  ReadInv'
<1>1. UNCHANGED <<task, call, bearers, found, result, listed, entries, edits>>
  BY DEF vars, clientVars, worldVars
<1>2. CallInv'
  BY <1>1 DEF ReadInv, CallInv, Policy
<1>3. PollsInv'
  BY <1>1 DEF ReadInv, PollsInv, RegistryResultsAreTrue, Exists
<1>4. ListsInv'
  BY <1>1 DEF ReadInv, ListsInv, Sought, UnchangedListIsExact, Count
<1>5. AuditInv'
  BY <1>1 DEF ReadInv, AuditInv, AuditIsTrue
<1>. QED  BY <1>2, <1>3, <1>4, <1>5 DEF ReadInv

(***************************************************************************)
(* The specification.                                                      *)
(***************************************************************************)
LEMMA InitReads == Init => ReadInv
<1> SUFFICES ASSUME Init
             PROVE  ReadInv
  OBVIOUS
<1>1. /\ task \in Task /\ call = Fresh(0) /\ bearers = {} /\ found = 0 /\ result = "none"
      /\ listed \in Shown /\ edits = 0
      /\ entries \in UNION {[1..n -> BOOLEAN] : n \in 0..MaxEntries - MaxEdits}
      /\ (~task.organization => task.read = "allowed")
  BY DEF Init
<1>2. /\ call \in Calls /\ call.at = "configured" /\ call.attempt = 0 /\ call.pc = "send"
      /\ call.slept = 0 /\ call.round = 0
  BY <1>1, FreshOf
<1>3. CallInv
  BY <1>1, <1>2, PolicyOf DEF CallInv
<1>4. PollsInv
  BY <1>1, <1>2, ReadsAssumption DEF PollsInv, RegistryResultsAreTrue
<1>5. entries \in Seq(BOOLEAN)
  <2>1. PICK n \in 0..MaxEntries - MaxEdits : entries \in [1..n -> BOOLEAN]
    BY <1>1
  <2>2. n \in Nat
    BY ReadsAssumption
  <2>. QED  BY <2>1, <2>2
<1>6. ListsInv
  <2>1. Sought(0) = {}
    BY DEF Sought
  <2>2. Cardinality(Sought(0)) = 0
    BY <2>1, FS_EmptySet
  <2>3. call.round * PageSize = 0
    BY <1>2, ReadsAssumption
  <2>4. found = Cardinality(Sought(call.round * PageSize))
    BY <1>1, <2>2, <2>3
  <2>. QED  BY <1>1, <1>2, <1>5, <2>4, ReadsAssumption DEF ListsInv, UnchangedListIsExact
<1>7. AuditInv
  BY <1>1, <1>2 DEF AuditInv, AuditIsTrue
<1>. QED  BY <1>3, <1>4, <1>6, <1>7 DEF ReadInv

LEMMA ReadStep == ReadInv /\ [Next]_vars => ReadInv'
<1> SUFFICES ASSUME ReadInv, [Next]_vars
             PROVE  ReadInv'
  OBVIOUS
<1>1. CASE UNCHANGED vars
  BY <1>1, SameRead
<1>2. CASE IsMissing \/ Redirected \/ Wakes \/ PollsAgain
  BY <1>2, IsMissingInv, RedirectedInv, WakesInv, PollsAgainInv
<1>3. CASE Busy \/ Unreachable \/ BreaksOff \/ Refused
  BY <1>3, RepeatsInv
<1>4. CASE RegistryAnswers \/ Polled \/ Audited \/ GithubAnswers \/ Listed
  BY <1>4, RegistryAnswersInv, PolledInv, AuditedInv, GithubAnswersInv, ListedInv
<1>5. CASE Surfaces \/ Edited
  BY <1>5, SurfacesInv, EditedInv
<1>. QED  BY <1>1, <1>2, <1>3, <1>4, <1>5 DEF Next, ClientNext, Finished

(* The inductive invariant of a read holds in every reachable state.       *)
THEOREM ReadInvariance == Spec => []ReadInv
<1>1. Init => ReadInv
  BY InitReads
<1>2. ReadInv /\ [Next]_vars => ReadInv'
  BY ReadStep
<1>. QED  BY <1>1, <1>2, PTL DEF Spec

(* Whatever redirects a registry answers, over all attempts, polls and     *)
(* pages, no request carries the credential to another origin.             *)
THEOREM CredentialsStayHome == Spec => []CredentialStaysHome
<1>1. ReadInv => CredentialStaysHome
  BY DEF ReadInv, CallInv, CredentialStaysHome
<1>. QED  BY <1>1, ReadInvariance, PTL

(* Whatever Retry-After header a response has, a read makes no more than   *)
(* its attempts and sleeps no longer than its caps add up to.              *)
THEOREM BoundedEffort == Spec => []EffortIsBounded
<1>1. ReadInv => EffortIsBounded
  <2> SUFFICES ASSUME CallInv
               PROVE  EffortIsBounded
    BY DEF ReadInv
  <2>1. /\ call.attempt \in 0..2 /\ call.attempt < Policy.attempts /\ call.slept \in Int
        /\ call.slept <= call.attempt * Policy.cap
    BY CallOf DEF CallInv
  <2>2. call.attempt * Policy.cap <= 2 * Policy.cap
    BY <2>1, PolicyOf
  <2>. QED  BY <2>1, <2>2, PolicyOf DEF EffortIsBounded
<1>. QED  BY <1>1, ReadInvariance, PTL

(* What a read reports, the registry showed, the unchanged list holds, and *)
(* the audit was granted, for every number of pages and polls.             *)
THEOREM TrueResults == Spec => []ResultsAreTrue
<1>1. ReadInv => ResultsAreTrue
  BY DEF ReadInv, PollsInv, ListsInv, AuditInv, ResultsAreTrue
<1>. QED  BY <1>1, ReadInvariance, PTL

-----------------------------------------------------------------------------
(* Two files that can be beside each other in a directory that ignores     *)
(* case: they aren't stored as one, and neither lies inside the other.     *)
Apart(one, other) ==
  /\ Folded(one.path) # Folded(other.path)
  /\ Folded(one.path) \notin DirectoriesAbove(Folded(other.path))
  /\ Folded(other.path) \notin DirectoriesAbove(Folded(one.path))

AllApart == \A one, other \in output : one # other => Apart(one, other)

(* What the last header states is the path of the next entry.              *)
PendingIsStated ==
  IF next > 1 /\ EntriesRead[next - 1].kind = "path"
    THEN pending # NoPath /\ pending = ArchivePath(EntriesRead[next - 1].path)
    ELSE pending = NoPath

Claimed ==
  /\ files = {Folded(file.path) : file \in output}
  /\ directories = UNION {DirectoriesAbove(Folded(file.path)) : file \in output}

ReadingInv ==
  Reading =>
    /\ next \in 1..Len(EntriesRead) + 1
    /\ output = Declared(EntriesRead, next - 1)
    /\ PendingIsStated
    /\ Claimed
    /\ AllApart

WritingInv ==
  reading = "read" =>
    /\ output = Declared(tarball.inner, Len(tarball.inner))
    /\ AllApart
    /\ left \subseteq SourceOf(output)
    /\ disk = {File(Folded(file.path), file.content) : file \in SourceOf(output) \ left}

ArchiveInv ==
  /\ tarball \in Tarballs
  /\ reading \in {"new", "outer", "inner", "read", "refused"}
  /\ reading \in {"new", "outer", "inner"} => left = {} /\ disk = {}
  /\ ReadingInv
  /\ WritingInv

-----------------------------------------------------------------------------
(* The definitions that the proofs rest on. *)

(* A file has the path and the content that it is made of. *)
LEMMA FileFields ==
  ASSUME NEW path, NEW content
  PROVE  File(path, content).path = path /\ File(path, content).content = content
BY DEF File

LEMMA EntriesAreSequences ==
  ASSUME tarball \in Tarballs
  PROVE  /\ tarball.outer \in Seq(Entries)
         /\ tarball.inner \in Seq(Entries)
         /\ EntriesRead \in Seq(Entries)
BY ArchivesAssumption DEF EntriesRead

(* No entry declares no file, an entry that is no file declares none, and  *)
(* a file declares one more. *)
LEMMA DeclaresNothing == ASSUME NEW items PROVE Declared(items, 0) = {}
<1>1. 1..0 = {}
  OBVIOUS
<1>2. QED BY <1>1 DEF Declared

LEMMA DeclaresNoMore ==
  ASSUME NEW items, NEW i \in Nat \ {0}, items[i].kind # "file"
  PROVE  Declared(items, i) = Declared(items, i - 1)
<1>1. 1..i = 1..(i - 1) \cup {i}
  OBVIOUS
<1>2. {k \in 1..i : items[k].kind = "file"} = {k \in 1..(i - 1) : items[k].kind = "file"}
  BY <1>1
<1>3. QED BY <1>2 DEF Declared

LEMMA DeclaresOneMore ==
  ASSUME NEW items, NEW i \in Nat \ {0}, items[i].kind = "file"
  PROVE  Declared(items, i)
           = Declared(items, i - 1) \cup {File(DeclaredPath(items, i), items[i].content)}
<1>1. 1..i = 1..(i - 1) \cup {i}
  OBVIOUS
<1>2. {k \in 1..i : items[k].kind = "file"}
        = {k \in 1..(i - 1) : items[k].kind = "file"} \cup {i}
  BY <1>1
<1>3. QED BY <1>2 DEF Declared

(* What is left to write is part of what was read. *)
LEMMA SourceIsRead == ASSUME NEW read PROVE SourceOf(read) \subseteq read
BY DEF SourceOf


-----------------------------------------------------------------------------
(* One step of each kind preserves the invariant. *)

(* Where a level begins, nothing is declared, claimed or pending. *)
LEMMA BeginsWell ==
  ASSUME ArchiveInv, NEW level \in {"outer", "inner"}, Begins(level),
         reading \in {"new", "outer", "inner"}
  PROVE  ArchiveInv'
<1>1. /\ reading' = level /\ tarball' = tarball /\ next' = 1 /\ pending' = NoPath
      /\ output' = {} /\ files' = {} /\ directories' = {} /\ left' = left /\ disk' = disk
  BY DEF Begins
<1>2. tarball' \in Tarballs /\ reading' \in {"new", "outer", "inner", "read", "refused"}
  BY <1>1 DEF ArchiveInv
<1>3. left' = {} /\ disk' = {}
  BY <1>1 DEF ArchiveInv
<1>4. ReadingInv'
  <2>1. EntriesRead' \in Seq(Entries)
    BY <1>2, ArchivesAssumption DEF EntriesRead
  <2>2. next' \in 1..Len(EntriesRead') + 1
    BY <1>1, <2>1
  <2>3. output' = Declared(EntriesRead', next' - 1)
    BY <1>1, DeclaresNothing
  <2>4. PendingIsStated'
    BY <1>1 DEF PendingIsStated
  <2>5. Claimed'
    BY <1>1 DEF Claimed
  <2>6. AllApart'
    BY <1>1 DEF AllApart
  <2>7. QED BY <2>2, <2>3, <2>4, <2>5, <2>6 DEF ReadingInv
<1>5. WritingInv'
  BY <1>1 DEF WritingInv
<1>6. QED BY <1>2, <1>3, <1>4, <1>5 DEF ArchiveInv

(* What every entry that is taken leaves as it is. *)
LEMMA AdvancesWell ==
  ASSUME ArchiveInv, NEW kinds, Takes(kinds), Advances
  PROVE  /\ tarball' \in Tarballs /\ reading' = reading /\ EntriesRead' = EntriesRead
         /\ reading \in {"outer", "inner"} /\ left' = {} /\ disk' = {}
         /\ WritingInv'
         /\ next \in Nat \ {0} /\ next \in 1..Len(EntriesRead)
         /\ next' - 1 = next /\ next' > 1 /\ next' \in 1..Len(EntriesRead) + 1
         /\ Current = EntriesRead[next] /\ Current.kind \in kinds
         /\ output = Declared(EntriesRead, next - 1)
         /\ PendingIsStated /\ Claimed /\ AllApart
<1>1. /\ next' = next + 1 /\ tarball' = tarball /\ reading' = reading
      /\ left' = left /\ disk' = disk
  BY DEF Advances
<1>2. /\ Reading /\ reading \in {"outer", "inner"}
      /\ next \in DOMAIN EntriesRead /\ Current.kind \in kinds
  BY DEF Takes, Reading
<1>3. tarball \in Tarballs /\ left = {} /\ disk = {}
  BY <1>2 DEF ArchiveInv
<1>4. EntriesRead \in Seq(Entries)
  BY <1>3, EntriesAreSequences
<1>5. next \in 1..Len(EntriesRead) /\ Len(EntriesRead) \in Nat
  BY <1>2, <1>4
<1>6. ReadingInv
  BY DEF ArchiveInv
<1>7. /\ output = Declared(EntriesRead, next - 1)
      /\ PendingIsStated /\ Claimed /\ AllApart
  BY <1>2, <1>6 DEF ReadingInv
<1>8. WritingInv'
  BY <1>1, <1>2 DEF WritingInv
<1>9. EntriesRead' = EntriesRead
  BY <1>1 DEF EntriesRead
<1>10. /\ next \in Nat \ {0} /\ next' - 1 = next /\ next' > 1
       /\ next' \in 1..Len(EntriesRead) + 1
  BY <1>1, <1>5
<1>11. Current = EntriesRead[next]
  BY DEF Current
<1>12. QED BY <1>1, <1>2, <1>3, <1>5, <1>7, <1>8, <1>9, <1>10, <1>11

(* A header or a directory adds no file, so only what is pending changes. *)
LEMMA AddsNothing ==
  ASSUME ArchiveInv, NEW kinds, Takes(kinds), Advances, "file" \notin kinds,
         UNCHANGED <<output, files, directories>>,
         PendingIsStated'
  PROVE  ArchiveInv'
<1>1. /\ tarball' \in Tarballs /\ reading' = reading /\ EntriesRead' = EntriesRead
      /\ reading \in {"outer", "inner"} /\ left' = {} /\ disk' = {}
      /\ WritingInv'
      /\ next \in Nat \ {0}
      /\ next' - 1 = next /\ next' \in 1..Len(EntriesRead) + 1
      /\ Current = EntriesRead[next] /\ Current.kind \in kinds
      /\ output = Declared(EntriesRead, next - 1)
      /\ Claimed /\ AllApart
  BY AdvancesWell
<1>2. EntriesRead[next].kind # "file"
  BY <1>1
<1>3. output' = Declared(EntriesRead', next' - 1)
  BY <1>1, <1>2, DeclaresNoMore
<1>4. Claimed' /\ AllApart'
  BY <1>1 DEF Claimed, AllApart
<1>5. ReadingInv'
  BY <1>1, <1>3, <1>4 DEF ReadingInv
<1>6. QED BY <1>1, <1>5 DEF ArchiveInv

LEMMA HeadersAreKept == ASSUME ArchiveInv, ReadsExtension PROVE ArchiveInv'
<1>1. /\ Takes({"path"}) /\ Advances /\ UNCHANGED <<output, files, directories>>
      /\ AcceptsExtension /\ pending' = ArchivePath(Current.path)
  BY DEF ReadsExtension
<1>2. /\ EntriesRead' = EntriesRead /\ next' - 1 = next /\ next' > 1
      /\ Current = EntriesRead[next] /\ Current.kind = "path"
  BY <1>1, AdvancesWell
<1>3. pending' # NoPath
  BY <1>1 DEF AcceptsExtension, IsPortable
<1>4. PendingIsStated'
  BY <1>1, <1>2, <1>3 DEF PendingIsStated
<1>5. QED BY <1>1, <1>4, AddsNothing

LEMMA DirectoriesAreSkipped == ASSUME ArchiveInv, SkipsDirectory PROVE ArchiveInv'
<1>1. /\ Takes({"dir"}) /\ Advances /\ UNCHANGED <<output, files, directories>>
      /\ pending' = NoPath
  BY DEF SkipsDirectory
<1>2. /\ EntriesRead' = EntriesRead /\ next' - 1 = next
      /\ Current = EntriesRead[next] /\ Current.kind = "dir"
  BY <1>1, AdvancesWell
<1>3. PendingIsStated'
  BY <1>1, <1>2 DEF PendingIsStated
<1>4. QED BY <1>1, <1>3, AddsNothing

(* The path of an entry is the one that the archive declares for it. *)
LEMMA PathIsDeclared ==
  ASSUME PendingIsStated, next \in Nat \ {0}
  PROVE  EntryPath = DeclaredPath(EntriesRead, next)
<1>1. CASE next > 1 /\ EntriesRead[next - 1].kind = "path"
  <2>1. pending # NoPath /\ pending = ArchivePath(EntriesRead[next - 1].path)
    BY <1>1 DEF PendingIsStated
  <2>2. QED BY <1>1, <2>1 DEF EntryPath, DeclaredPath
<1>2. CASE ~(next > 1 /\ EntriesRead[next - 1].kind = "path")
  <2>1. pending = NoPath
    BY <1>2 DEF PendingIsStated
  <2>2. QED BY <1>2, <2>1 DEF EntryPath, DeclaredPath, Current
<1>3. QED BY <1>1, <1>2

(* A file that collides with no claim is apart from every earlier one. *)
LEMMA NewFileIsApart ==
  ASSUME Claimed, AllApart, NEW file, ~Collides(Folded(file.path)),
         output' = output \cup {file}
  PROVE  AllApart'
<1>1. ASSUME NEW other \in output
      PROVE  Apart(file, other) /\ Apart(other, file)
  <2>1. /\ Folded(other.path) \in files
        /\ DirectoriesAbove(Folded(other.path)) \subseteq directories
    BY DEF Claimed
  <2>2. /\ Folded(file.path) \notin files /\ Folded(file.path) \notin directories
        /\ DirectoriesAbove(Folded(file.path)) \cap files = {}
    BY DEF Collides
  <2>3. QED BY <2>1, <2>2 DEF Apart
<1>2. SUFFICES ASSUME NEW one \in output \cup {file}, NEW other \in output \cup {file},
                      one # other
               PROVE  Apart(one, other)
  BY DEF AllApart, Apart
<1>3. QED BY <1>1, <1>2 DEF AllApart

LEMMA FilesAreClaimed == ASSUME ArchiveInv, ClaimsFile PROVE ArchiveInv'
<1> DEFINE file == File(EntryPath, Current.content)
<1>1. /\ Takes({"file"}) /\ Advances /\ AcceptsFile /\ pending' = NoPath
      /\ output' = output \cup {file}
      /\ files' = files \cup {Folded(EntryPath)}
      /\ directories' = directories \cup DirectoriesAbove(Folded(EntryPath))
  BY DEF ClaimsFile
<1>2. /\ tarball' \in Tarballs /\ reading' = reading /\ EntriesRead' = EntriesRead
      /\ reading \in {"outer", "inner"} /\ left' = {} /\ disk' = {}
      /\ WritingInv'
      /\ next \in Nat \ {0}
      /\ next' - 1 = next /\ next' \in 1..Len(EntriesRead) + 1
      /\ Current = EntriesRead[next] /\ Current.kind = "file"
      /\ output = Declared(EntriesRead, next - 1)
      /\ PendingIsStated /\ Claimed /\ AllApart
  BY <1>1, AdvancesWell
<1>3. file.path = EntryPath
  BY FileFields
<1>4. output' = Declared(EntriesRead', next' - 1)
  <2>1. file = File(DeclaredPath(EntriesRead, next), EntriesRead[next].content)
    BY <1>2, PathIsDeclared
  <2>2. Declared(EntriesRead, next) = Declared(EntriesRead, next - 1) \cup {file}
    BY <1>2, <2>1, DeclaresOneMore
  <2>3. QED BY <1>1, <1>2, <2>2
<1>5. PendingIsStated'
  BY <1>1, <1>2 DEF PendingIsStated
<1>6. Claimed'
  <2>1. files = {Folded(f.path) : f \in output}
    BY <1>2 DEF Claimed
  <2>2. files' = {Folded(f.path) : f \in output'}
    BY <1>1, <1>3, <2>1
  <2>3. directories = UNION {DirectoriesAbove(Folded(f.path)) : f \in output}
    BY <1>2 DEF Claimed
  <2>4. directories' = UNION {DirectoriesAbove(Folded(f.path)) : f \in output'}
    BY <1>1, <1>3, <2>3
  <2>5. QED BY <2>2, <2>4 DEF Claimed
<1>7. AllApart'
  <2>1. ~Collides(Folded(file.path))
    BY <1>1, <1>3 DEF AcceptsFile
  <2>2. QED BY <1>1, <1>2, <2>1, NewFileIsApart
<1>8. ReadingInv'
  BY <1>2, <1>4, <1>5, <1>6, <1>7 DEF ReadingInv
<1>9. QED BY <1>2, <1>8 DEF ArchiveInv

LEMMA RefusalsAreKept == ASSUME ArchiveInv, Refuses PROVE ArchiveInv'
BY DEF ArchiveInv, Refuses, ReadingInv, WritingInv, Reading

(* All of an archive is read: its files are those that it declares, and    *)
(* none of them is written yet. *)
LEMMA AllIsRead == ASSUME ArchiveInv, ReadsAll PROVE ArchiveInv'
<1>1. /\ AtEnd /\ reading = "inner" /\ reading' = "read" /\ left' = SourceOf(output)
      /\ tarball' = tarball /\ output' = output /\ disk' = disk
  BY DEF ReadsAll
<1>2. Reading /\ EntriesRead = tarball.inner /\ next = Len(tarball.inner) + 1
  BY <1>1 DEF AtEnd, EntriesRead
<1>3. tarball \in Tarballs /\ disk = {}
  BY <1>1 DEF ArchiveInv
<1>4. tarball.inner \in Seq(Entries)
  BY <1>3, EntriesAreSequences
<1>5. Len(tarball.inner) \in Nat
  BY <1>4
<1>6. next - 1 = Len(tarball.inner)
  BY <1>2, <1>5
<1>7. output = Declared(tarball.inner, Len(tarball.inner)) /\ AllApart
  BY <1>2, <1>6 DEF ArchiveInv, ReadingInv
<1>8. left' = SourceOf(output)'
  BY <1>1 DEF SourceOf
<1>9. AllApart'
  BY <1>1, <1>7 DEF AllApart
<1>10. disk' = {File(Folded(file.path), file.content) : file \in SourceOf(output)' \ left'}
  BY <1>1, <1>3, <1>8
<1>11. WritingInv'
  BY <1>1, <1>7, <1>8, <1>9, <1>10 DEF WritingInv
<1>12. ReadingInv'
  BY <1>1 DEF ReadingInv, Reading
<1>13. QED BY <1>1, <1>3, <1>11, <1>12 DEF ArchiveInv


(* No file on the disk is in the way of one that is left to write, and     *)
(* none is stored as it is. *)
LEMMA NothingBlocks ==
  ASSUME WritingInv, reading = "read", NEW file \in left
  PROVE  /\ ~Blocked(Folded(file.path))
         /\ \A other \in disk : other.path # Folded(file.path)
<1>1. SUFFICES ASSUME NEW stored \in disk
               PROVE  /\ stored.path \notin DirectoriesAbove(Folded(file.path))
                      /\ Folded(file.path) \notin DirectoriesAbove(stored.path)
                      /\ stored.path # Folded(file.path)
  BY DEF Blocked
<1>2. /\ AllApart /\ left \subseteq SourceOf(output)
      /\ disk = {File(Folded(other.path), other.content) : other \in SourceOf(output) \ left}
  BY DEF WritingInv
<1>3. PICK other \in SourceOf(output) \ left :
        stored = File(Folded(other.path), other.content)
  BY <1>2
<1>4. stored.path = Folded(other.path)
  BY <1>3, FileFields
<1>5. other \in output /\ file \in output /\ other # file
  BY <1>2, <1>3, SourceIsRead
<1>6. Apart(other, file)
  BY <1>2, <1>5 DEF AllApart
<1>7. QED BY <1>4, <1>6 DEF Apart

LEMMA FilesAreWritten ==
  ASSUME ArchiveInv, reading = "read", NEW file \in left, WritesFile(file)
  PROVE  ArchiveInv'
<1>1. WritingInv
  BY DEF ArchiveInv
<1>2. ~Blocked(Folded(file.path)) /\ \A other \in disk : other.path # Folded(file.path)
  BY <1>1, NothingBlocks
<1>3. /\ left' = left \ {file} /\ reading' = "read" /\ disk' = Overwrites(file)
      /\ tarball' = tarball /\ output' = output
  BY <1>2 DEF WritesFile
<1>4. disk' = disk \cup {File(Folded(file.path), file.content)}
  BY <1>2, <1>3 DEF Overwrites
<1>5. /\ left \subseteq SourceOf(output)
      /\ disk = {File(Folded(other.path), other.content) : other \in SourceOf(output) \ left}
      /\ output = Declared(tarball.inner, Len(tarball.inner)) /\ AllApart
  BY <1>1 DEF WritingInv
<1>6. SourceOf(output)' = SourceOf(output)
  BY <1>3 DEF SourceOf
<1>7. SourceOf(output)' \ left' = (SourceOf(output) \ left) \cup {file}
  BY <1>3, <1>5, <1>6
<1>8. disk' = {File(Folded(other.path), other.content) : other \in SourceOf(output)' \ left'}
  BY <1>4, <1>5, <1>7
<1>9. AllApart'
  BY <1>3, <1>5 DEF AllApart
<1>10. left' \subseteq SourceOf(output)'
  BY <1>3, <1>5, <1>6
<1>11. WritingInv'
  BY <1>3, <1>5, <1>8, <1>9, <1>10 DEF WritingInv
<1>12. ReadingInv'
  BY <1>3 DEF ReadingInv, Reading
<1>13. QED BY <1>3, <1>11, <1>12 DEF ArchiveInv

-----------------------------------------------------------------------------
(* The invariant holds of every run: an archive is read, or refused, and   *)
(* then written, as artifact.rs does. *)
THEOREM ArchiveInvariance == ArchivesSpec => []ArchiveInv
<1>1. ASSUME ArchivesInit PROVE ArchiveInv
  BY <1>1 DEF ArchivesInit, ArchiveInv, ReadingInv, WritingInv, Reading
<1>2. ASSUME ArchiveInv, [ArchivesNext]_archiveVars PROVE ArchiveInv'
  <2>1. CASE Opens
    <3>1. reading = "new" /\ Begins(IF tarball.hex THEN "outer" ELSE "inner")
      BY <2>1 DEF Opens
    <3>2. CASE tarball.hex
      BY <1>2, <3>1, <3>2, BeginsWell
    <3>3. CASE ~tarball.hex
      BY <1>2, <3>1, <3>3, BeginsWell
    <3>4. QED BY <3>2, <3>3
  <2>2. CASE OpensContents
    BY <1>2, <2>2, BeginsWell DEF OpensContents
  <2>3. CASE ReadsAll
    BY <1>2, <2>3, AllIsRead
  <2>4. CASE ReadsExtension
    BY <1>2, <2>4, HeadersAreKept
  <2>5. CASE SkipsDirectory
    BY <1>2, <2>5, DirectoriesAreSkipped
  <2>6. CASE ClaimsFile
    BY <1>2, <2>6, FilesAreClaimed
  <2>7. CASE RefusesEntry
    BY <1>2, <2>7, RefusalsAreKept DEF RefusesEntry
  <2>8. CASE RefusesArchive
    BY <1>2, <2>8, RefusalsAreKept DEF RefusesArchive
  <2>9. CASE Unpacks
    <3>1. reading = "read" /\ \E file \in left : WritesFile(file)
      BY <2>9 DEF Unpacks
    <3>2. PICK file \in left : WritesFile(file)
      BY <3>1
    <3>3. QED BY <1>2, <3>1, <3>2, FilesAreWritten
  <2>10. CASE UNCHANGED archiveVars
    BY <1>2, <2>10 DEF archiveVars, ArchiveInv, ReadingInv, WritingInv, Reading, EntriesRead,
                       PendingIsStated, Claimed, AllApart, Apart, SourceOf
  <2>11. QED BY <1>2, <2>1, <2>2, <2>3, <2>4, <2>5, <2>6, <2>7, <2>8, <2>9, <2>10
             DEF ArchivesNext
<1>3. QED BY <1>1, <1>2, PTL DEF ArchivesSpec

(* An archive that read_tar_files accepts is unpacked, by                  *)
(* unpack_tar_bytes or unpack_hex_source, to what it declares: no file     *)
(* replaces another or is in the way of another, on any file system. *)
THEOREM AcceptedUnpacks == ArchivesSpec => []UnpacksAsDeclared
<1>1. ASSUME ArchiveInv PROVE UnpacksAsDeclared
  <2>1. reading # "broken"
    BY <1>1 DEF ArchiveInv
  <2> DEFINE own == SourceOf(Declared(tarball.inner, Len(tarball.inner)))
  <2>2. ASSUME reading = "read"
        PROVE  /\ left \subseteq own
               /\ disk = {File(Folded(file.path), file.content) : file \in own \ left}
               /\ \A one, other \in own : Folded(one.path) = Folded(other.path) => one = other
    <3>1. /\ own = SourceOf(output) /\ AllApart
          /\ left \subseteq SourceOf(output)
          /\ disk = {File(Folded(file.path), file.content) : file \in SourceOf(output) \ left}
      BY <1>1, <2>2 DEF ArchiveInv, WritingInv
    <3>2. \A one, other \in own : Folded(one.path) = Folded(other.path) => one = other
      BY <3>1, SourceIsRead DEF AllApart, Apart
    <3>3. QED BY <3>1, <3>2
  <2>3. QED BY <2>1, <2>2 DEF UnpacksAsDeclared
<1>2. QED BY <1>1, ArchiveInvariance, PTL

-----------------------------------------------------------------------------
(* What has been tried, and what reach stands for.                          *)
Tried(k, start) == start < at \/ (start = at /\ k <= tried)
Occurs(k, start) == secrets[k] # <<>> /\ OccursAt(secrets[k], start)
SegmentType == [redacted : BOOLEAN, from : Nat, to : Nat]

RedactionTypeOK ==
  /\ text \in Texts /\ secrets \in SecretLists
  /\ at \in 1 .. Len(text) + 1
  /\ tried \in 0 .. Len(secrets)
  /\ reach \in Nat \ {0}
  /\ segments \in Seq(SegmentType)
ReachIsUpper ==
  \A k \in DOMAIN secrets, start \in Nat \ {0} :
    Occurs(k, start) /\ Tried(k, start) => start + Len(secrets[k]) <= reach
ReachIsReached ==
  reach = 1 \/ \E k \in DOMAIN secrets, start \in Nat \ {0} :
                 Occurs(k, start) /\ Tried(k, start) /\ start + Len(secrets[k]) = reach
RedactionInv == RedactionTypeOK /\ ReachIsUpper /\ ReachIsReached /\ RedactsExactly

(* What the two ways to group a decision do to a sequence. *)
LEMMA OneAppended ==
  ASSUME NEW S, NEW seq \in Seq(S), NEW e \in S, NEW longer, longer = Append(seq, e)
  PROVE  /\ longer \in Seq(S) /\ longer # <<>>
         /\ Len(longer) = Len(seq) + 1 /\ DOMAIN longer = 1 .. Len(seq) + 1
         /\ longer[Len(seq) + 1] = e
         /\ \A i \in 1 .. Len(seq) : longer[i] = seq[i]
  OBVIOUS

(* An occurrence ends where its last character does. *)
LEMMA CharacterEnds ==
  ASSUME NEW start \in Nat, NEW i \in Nat, NEW width \in Nat, NEW length \in Nat,
         i + width = length + 1
  PROVE  start + length = (start + i - 1) + width
  OBVIOUS

(* Once every secret was tried at a byte, reach decides it. *)
LEMMA ReachDecides ==
  ASSUME RedactionInv, tried = Len(secrets)
  PROVE  reach > at <=> Spanned(at)
<1> secrets \in Seq(Seq(Bytes)) /\ \A k \in DOMAIN secrets : Len(secrets[k]) \in Nat
  BY SecretListsAssumption DEF RedactionInv, RedactionTypeOK
<1> at \in Nat \ {0} /\ reach \in Nat
  BY TextsAssumption DEF RedactionInv, RedactionTypeOK
<1>1. ASSUME reach > at PROVE Spanned(at)
  <2>1. PICK k \in DOMAIN secrets, start \in Nat \ {0} :
          Occurs(k, start) /\ Tried(k, start) /\ start + Len(secrets[k]) = reach
    BY <1>1 DEF RedactionInv, ReachIsReached
  <2>2. start \in 1 .. at /\ at < start + Len(secrets[k])
    BY <1>1, <2>1 DEF Tried
  <2> QED BY <2>1, <2>2 DEF Spanned, Occurs
<1>2. ASSUME Spanned(at) PROVE reach > at
  <2>1. PICK k \in DOMAIN secrets, start \in 1 .. at :
          OccursAt(secrets[k], start) /\ at < start + Len(secrets[k])
    BY <1>2 DEF Spanned
  <2>2. secrets[k] # <<>>
    BY <2>1
  <2>3. Occurs(k, start) /\ Tried(k, start)
    BY <2>1, <2>2 DEF Occurs, Tried
  <2>4. start + Len(secrets[k]) <= reach
    BY <2>1, <2>3 DEF RedactionInv, ReachIsUpper
  <2> QED BY <2>1, <2>4
<1> QED BY <1>1, <1>2

(* A character starts where the decision changes: a secret starts or ends    *)
(* there, and secrets are whole characters.                                  *)
LEMMA ChangesAtCharacter ==
  ASSUME RedactionInv, at \in DOMAIN text, at > 1, Spanned(at) # Spanned(at - 1)
  PROVE  text[at] \in Starts
<1> text \in Seq(Bytes) /\ IsUtf8(text) /\ text # <<>>
  BY TextsAssumption DEF RedactionInv, RedactionTypeOK
<1> secrets \in Seq(Seq(Bytes)) /\ \A k \in DOMAIN secrets : secrets[k] \in Seq(Bytes) /\ IsUtf8(secrets[k])
  BY SecretListsAssumption DEF RedactionInv, RedactionTypeOK
<1> at \in Nat /\ at - 1 \in Nat \ {0}
  OBVIOUS
<1>1. CASE Spanned(at) /\ ~Spanned(at - 1)
  <2>1. PICK k \in DOMAIN secrets, start \in 1 .. at :
          OccursAt(secrets[k], start) /\ at < start + Len(secrets[k])
    BY <1>1 DEF Spanned
  <2>2. ASSUME start # at PROVE FALSE
    <3>1. start \in 1 .. at - 1 /\ at - 1 < start + Len(secrets[k])
      BY <2>1, <2>2
    <3> QED BY <1>1, <2>1, <3>1 DEF Spanned
  <2>3. start = at /\ 1 \in DOMAIN secrets[k]
    BY <2>1, <2>2
  <2>4. text[at] = secrets[k][1] /\ secrets[k][1] \in Starts
    BY <2>1, <2>3 DEF OccursAt, IsUtf8
  <2> QED BY <2>4
<1>2. CASE Spanned(at - 1) /\ ~Spanned(at)
  <2>1. PICK k \in DOMAIN secrets, start \in 1 .. at - 1 :
          OccursAt(secrets[k], start) /\ at - 1 < start + Len(secrets[k])
    BY <1>2 DEF Spanned
  <2>2. start + Len(secrets[k]) = at
    <3>1. start \in 1 .. at
      BY <2>1
    <3>2. ~(at < start + Len(secrets[k]))
      BY <1>2, <2>1, <3>1 DEF Spanned
    <3> QED BY <2>1, <3>2
  <2>3. PICK i \in DOMAIN secrets[k] :
          secrets[k][i] \in Starts /\ i + Width[secrets[k][i]] = Len(secrets[k]) + 1
    <3>1. secrets[k] # <<>>
      BY <2>1, <2>2
    <3> QED BY <3>1 DEF IsUtf8, EndsWhole
  <2>4. start + i - 1 \in DOMAIN text /\ text[start + i - 1] = secrets[k][i]
    BY <2>1, <2>3 DEF OccursAt
  <2>5. Width[secrets[k][i]] \in Nat /\ Len(secrets[k]) \in Nat /\ i \in Nat /\ start \in Nat
    BY <2>3, WidthAssumption
  <2>6. at = (start + i - 1) + Width[text[start + i - 1]]
    <3> DEFINE width == Width[secrets[k][i]]
               length == Len(secrets[k])
    <3>1. width \in Nat /\ length \in Nat /\ i + width = length + 1 /\ start + length = at
      BY <2>2, <2>3, <2>5
    <3> HIDE DEF width, length
    <3>2. start + length = (start + i - 1) + width
      BY <3>1, <2>5, CharacterEnds
    <3>3. at = (start + i - 1) + width
      BY <3>1, <3>2
    <3> QED BY <3>3, <2>4 DEF width
  <2> QED BY <2>3, <2>4, <2>6 DEF IsUtf8
<1> QED BY <1>1, <1>2 DEF Spanned

LEMMA RedactionInitInv == RedactionInit => RedactionInv
<1> SUFFICES ASSUME RedactionInit PROVE RedactionInv
  OBVIOUS
<1> text \in Seq(Bytes) /\ secrets \in Seq(Seq(Bytes))
  BY TextsAssumption, SecretListsAssumption DEF RedactionInit
<1>1. RedactionTypeOK
  BY DEF RedactionInit, RedactionTypeOK
<1>2. ReachIsUpper /\ ReachIsReached
  BY DEF RedactionInit, ReachIsUpper, ReachIsReached, Tried
<1>3. RedactsExactly
  BY DEF RedactionInit, RedactsExactly, SegmentsAreMaximal, SecretsAreCovered, CharactersAreWhole
<1> QED BY <1>1, <1>2, <1>3 DEF RedactionInv

LEMMA TriesSecretInv == RedactionInv /\ TriesSecret => RedactionInv'
<1> SUFFICES ASSUME RedactionInv, TriesSecret PROVE RedactionInv'
  OBVIOUS
<1> DEFINE secret == secrets[tried + 1]
<1> secrets \in Seq(Seq(Bytes)) /\ text \in Seq(Bytes)
  BY TextsAssumption, SecretListsAssumption DEF RedactionInv, RedactionTypeOK
<1> at \in Nat \ {0} /\ reach \in Nat \ {0} /\ tried \in Nat /\ tried + 1 \in DOMAIN secrets
  BY DEF RedactionInv, RedactionTypeOK, TriesSecret
<1> Len(secret) \in Nat /\ (secret # <<>> => Len(secret) # 0)
  OBVIOUS
<1> UNCHANGED <<text, secrets, at, segments>> /\ tried' = tried + 1
  BY DEF TriesSecret
<1>1. reach' = IF Occurs(tried + 1, at) THEN Further(at + Len(secret)) ELSE reach
  BY DEF TriesSecret, Occurs, OccurrenceEnd
<1>2. reach' \in Nat \ {0} /\ reach' >= reach
  BY <1>1 DEF Further
<1>3. \A k, start : (Occurs(k, start))' <=> Occurs(k, start)
  BY DEF Occurs, OccursAt
<1>4. \A k \in DOMAIN secrets, start \in Nat \ {0} :
        (Tried(k, start))' <=> Tried(k, start) \/ (start = at /\ k = tried + 1)
  <2> SUFFICES ASSUME NEW k \in DOMAIN secrets, NEW start \in Nat \ {0}
               PROVE  (Tried(k, start))' <=> Tried(k, start) \/ (start = at /\ k = tried + 1)
    OBVIOUS
  <2>1. k \in Nat
    OBVIOUS
  <2>2. k <= tried + 1 <=> k <= tried \/ k = tried + 1
    BY <2>1
  <2> QED BY <2>2 DEF Tried
<1>5. RedactionTypeOK'
  BY <1>2 DEF RedactionInv, RedactionTypeOK, TriesSecret
<1>6. ReachIsUpper'
  <2> SUFFICES ASSUME NEW k \in DOMAIN secrets, NEW start \in Nat \ {0},
                      Occurs(k, start), (Tried(k, start))'
               PROVE  start + Len(secrets[k]) <= reach'
    BY <1>3 DEF ReachIsUpper
  <2> Len(secrets[k]) \in Nat
    OBVIOUS
  <2>1. CASE Tried(k, start)
    BY <2>1, <1>2 DEF RedactionInv, ReachIsUpper
  <2>2. CASE start = at /\ k = tried + 1
    BY <2>2, <1>1 DEF Further
  <2> QED BY <2>1, <2>2, <1>4
<1>7. ReachIsReached'
  <2>1. CASE reach' = reach
    BY <2>1, <1>3, <1>4 DEF RedactionInv, ReachIsReached
  <2>2. CASE reach' # reach
    <3>1. Occurs(tried + 1, at) /\ reach' = at + Len(secret)
      BY <2>2, <1>1 DEF Further
    <3> QED BY <3>1, <1>3, <1>4 DEF ReachIsReached
  <2> QED BY <2>1, <2>2
<1>8. RedactsExactly'
  BY DEF RedactionInv, RedactsExactly, SegmentsAreMaximal, SecretsAreCovered,
         CharactersAreWhole, Spanned, OccursAt
<1> QED BY <1>5, <1>6, <1>7, <1>8 DEF RedactionInv

LEMMA DecidesByteInv == RedactionInv /\ DecidesByte => RedactionInv'
<1> SUFFICES ASSUME RedactionInv, DecidesByte PROVE RedactionInv'
  OBVIOUS
<1> DEFINE redacted == reach > at
           last == Len(segments)
<1> secrets \in Seq(Seq(Bytes)) /\ text \in Seq(Bytes) /\ segments \in Seq(SegmentType)
  BY TextsAssumption, SecretListsAssumption DEF RedactionInv, RedactionTypeOK
<1> last = Len(segments) /\ last \in Nat
  OBVIOUS
<1>0. /\ DOMAIN segments = 1 .. last /\ (segments = <<>> <=> last = 0)
      /\ \A i \in 1 .. last : segments[i] \in SegmentType
  OBVIOUS
<1> HIDE DEF last
<1>m. /\ segments = <<>> => at = 1
      /\ segments # <<>> => segments[1].from = 1 /\ segments[last].to = at - 1
      /\ \A i \in 1 .. last : segments[i].from <= segments[i].to
      /\ \A i \in 1 .. last - 1 : /\ segments[i + 1].from = segments[i].to + 1
                                  /\ segments[i + 1].redacted # segments[i].redacted
      /\ \A i \in 1 .. last : text[segments[i].from] \in Starts
  BY <1>0 DEF RedactionInv, RedactsExactly, SegmentsAreMaximal, CharactersAreWhole
<1> at \in Nat \ {0} /\ at \in DOMAIN text /\ reach \in Nat \ {0} /\ tried = Len(secrets)
  BY DEF RedactionInv, RedactionTypeOK, DecidesByte
<1> UNCHANGED <<text, secrets, reach>> /\ at' = at + 1 /\ tried' = 0
    /\ segments' = Grouped(redacted)
  BY DEF DecidesByte
<1>1. redacted <=> Spanned(at)
  BY ReachDecides
<1>2. \A byte : (Spanned(byte))' <=> Spanned(byte)
  BY DEF Spanned, OccursAt
<1>3. \A k, start : (Occurs(k, start))' <=> Occurs(k, start)
  BY DEF Occurs, OccursAt
<1>4. \A k \in DOMAIN secrets, start \in Nat \ {0} : (Tried(k, start))' <=> Tried(k, start)
  BY DEF Tried
<1>5. ReachIsUpper' /\ ReachIsReached'
  BY <1>3, <1>4 DEF RedactionInv, ReachIsUpper, ReachIsReached
<1>6. CASE Extends(redacted)
  <2>1. last \in 1 .. last /\ segments[last].redacted = redacted
    BY <1>0, <1>6 DEF Extends
  <2> DEFINE longer == [segments[last] EXCEPT !.to = at]
  <2>2. /\ longer \in SegmentType /\ longer.to = at /\ longer.from = segments[last].from
        /\ longer.redacted = redacted
    BY <1>0, <2>1 DEF SegmentType
  <2>3. segments' = [segments EXCEPT ![last] = longer]
    BY <1>6, <2>1 DEF Grouped
  <2> HIDE DEF longer
  <2>4. /\ DOMAIN segments' = 1 .. last /\ segments'[last] = longer
        /\ \A i \in 1 .. last : i # last => segments'[i] = segments[i]
    BY <1>0, <2>1, <2>3
  <2>5. segments' \in Seq(SegmentType) /\ Len(segments') = last /\ segments' # <<>>
    <3>1. last \in 1 .. Len(segments)
      BY <2>1
    <3>0. segments \in Seq(SegmentType) /\ longer \in SegmentType
      BY <2>2 DEF RedactionInv, RedactionTypeOK
    <3>2. segments' \in Seq(SegmentType) /\ Len(segments') = Len(segments)
      <4>1. segments' = [i \in 1 .. last |-> segments'[i]]
        BY <1>0, <2>3
      <4>2. \A i \in 1 .. last : segments'[i] \in SegmentType
        BY <1>0, <2>2, <2>4
      <4>3. segments' \in [1 .. last -> SegmentType]
        BY <4>1, <4>2
      <4>4. segments' \in Seq(SegmentType)
        BY SMTT(20), <4>3, SeqDef
      <4>5. DOMAIN segments' = 1 .. Len(segments')
        BY <4>4, LenProperties
      <4> QED BY <4>3, <4>4, <4>5, LenProperties
    <3> QED BY <3>1, <3>2
  <2>6. /\ segments[last].from \in Nat /\ segments[last].to = at - 1
        /\ segments[last].from <= segments[last].to /\ segments # <<>>
    <3>1. segments[last].from \in Nat
      BY <1>0, <2>1 DEF SegmentType
    <3> QED BY <1>0, <2>1, <3>1, <1>m
  <2>7. SegmentsAreMaximal'
    <3>1. segments'[1].from = 1 /\ segments'[Len(segments')].to = at' - 1
      <4>1. segments'[1].from = segments[1].from
        <5>1. CASE last = 1
          BY <2>2, <2>4, <5>1
        <5>2. CASE last # 1
          <6>1. 1 \in 1 .. last
            BY <2>1
          <6>2. segments'[1] = segments[1]
            BY <2>4, <5>2, <6>1
          <6>3. QED BY <6>2
        <5>3. QED BY <5>1, <5>2
      <4> QED BY <4>1, <2>2, <2>4, <2>5, <2>6, <1>m
    <3>2. \A i \in DOMAIN segments' : segments'[i].from <= segments'[i].to
      <4> SUFFICES ASSUME NEW i \in 1 .. last PROVE segments'[i].from <= segments'[i].to
        BY <2>4
      <4>1. CASE i = last
        BY <4>1, <2>2, <2>4, <2>6
      <4>2. CASE i # last
        BY <4>2, <2>4, <1>m
      <4> QED BY <4>1, <4>2
    <3>3. ASSUME NEW i \in 1 .. Len(segments') - 1
          PROVE  /\ segments'[i + 1].from = segments'[i].to + 1
                 /\ segments'[i + 1].redacted # segments'[i].redacted
      <4>1. i \in 1 .. last - 1 /\ i \in 1 .. last /\ i + 1 \in 1 .. last /\ i # last
        BY <1>0, <2>1, <2>5
      <4>2. segments'[i] = segments[i]
            /\ segments'[i + 1].from = segments[i + 1].from
            /\ segments'[i + 1].redacted = segments[i + 1].redacted
        BY <4>1, <2>1, <2>2, <2>4
      <4> QED BY <4>1, <4>2, <1>m
    <3> QED BY <2>5, <3>1, <3>2, <3>3 DEF SegmentsAreMaximal
  <2>8. SecretsAreCovered'
    <3> SUFFICES ASSUME NEW i \in DOMAIN segments', NEW byte \in segments'[i].from .. segments'[i].to
                 PROVE  segments'[i].redacted <=> Spanned(byte)
      BY <1>2 DEF SecretsAreCovered
    <3>1. CASE i # last
      BY <3>1, <1>0, <2>4 DEF RedactionInv, RedactsExactly, SecretsAreCovered
    <3>2. CASE i = last /\ byte = at
      BY <3>2, <2>2, <2>4, <1>1
    <3>3. CASE i = last /\ byte # at
      <4>1. byte \in segments[last].from .. segments[last].to
        BY <3>3, <2>2, <2>4, <2>6
      <4> QED BY <4>1, <3>3, <1>0, <2>1, <2>2, <2>4 DEF RedactionInv, RedactsExactly, SecretsAreCovered
    <3> QED BY <3>1, <3>2, <3>3
  <2>9. CharactersAreWhole'
    <3> SUFFICES ASSUME NEW i \in 1 .. last PROVE text[segments'[i].from] \in Starts
      BY <2>4 DEF CharactersAreWhole
    <3>1. segments'[i].from = segments[i].from
      BY <2>2, <2>4
    <3> QED BY <3>1, <1>m
  <2>10. RedactionTypeOK'
    BY <2>5 DEF RedactionInv, RedactionTypeOK
  <2> QED BY <1>5, <2>7, <2>8, <2>9, <2>10 DEF RedactionInv, RedactsExactly
<1>7. CASE ~Extends(redacted)
  <2> DEFINE new == Segment(redacted, at, at)
  <2>1. segments' = Append(segments, new) /\ new \in SegmentType
        /\ new.redacted = redacted /\ new.from = at /\ new.to = at
    BY <1>7 DEF Grouped, Segment, SegmentType
  <2> HIDE DEF new
  <2>2. /\ segments' \in Seq(SegmentType) /\ Len(segments') = last + 1 /\ last \in Nat
        /\ segments' # <<>>
        /\ DOMAIN segments = 1 .. last /\ DOMAIN segments' = 1 .. last + 1
        /\ segments'[last + 1] = new
        /\ \A i \in DOMAIN segments : segments'[i] = segments[i]
    <3>1. segments \in Seq(SegmentType) /\ new \in SegmentType /\ last = Len(segments)
      BY <2>1 DEF RedactionInv, RedactionTypeOK
    <3>2. /\ segments' \in Seq(SegmentType) /\ segments' # <<>>
          /\ Len(segments') = Len(segments) + 1 /\ DOMAIN segments' = 1 .. Len(segments) + 1
          /\ segments'[Len(segments) + 1] = new
          /\ \A i \in 1 .. Len(segments) : segments'[i] = segments[i]
      BY <3>1, <2>1, OneAppended
    <3> QED BY <3>1, <3>2, <1>0
  <2>3. CASE segments = <<>>
    <3>1. last = 0 /\ at = 1
      BY <2>3, <1>m
    <3>2. text[at] \in Starts
      BY <3>1, TextsAssumption DEF RedactionInv, RedactionTypeOK, IsUtf8
    <3>3. SegmentsAreMaximal'
      BY <2>1, <2>2, <3>1 DEF SegmentsAreMaximal
    <3>4. SecretsAreCovered'
      <4> SUFFICES ASSUME NEW i \in DOMAIN segments',
                          NEW byte \in segments'[i].from .. segments'[i].to
                   PROVE  segments'[i].redacted <=> Spanned(byte)
        BY <1>2 DEF SecretsAreCovered
      <4>1. i = last + 1 /\ segments'[i] = new
        BY <2>2, <3>1
      <4>2. byte = at
        BY <4>1, <2>1
      <4> QED BY <4>1, <4>2, <2>1, <1>1
    <3>5. CharactersAreWhole'
      BY <2>1, <2>2, <3>1, <3>2 DEF CharactersAreWhole
    <3>6. RedactionTypeOK'
      BY <2>2 DEF RedactionInv, RedactionTypeOK
    <3> QED BY <1>5, <3>3, <3>4, <3>5, <3>6 DEF RedactionInv, RedactsExactly
  <2>4. CASE segments # <<>>
    <3>1. last \in Nat \ {0} /\ last \in DOMAIN segments /\ segments[last].to = at - 1
          /\ segments[last].from \in Nat /\ segments[last].from <= segments[last].to
          /\ segments[last].redacted \in BOOLEAN /\ segments[1].from = 1
      <4>1. last \in Nat \ {0} /\ last \in 1 .. last /\ segments[last] \in SegmentType
        BY <1>0, <2>4
      <4> QED BY <4>1, <2>2, <2>4, <1>m DEF SegmentType
    <3>2. segments[last].redacted # redacted
      BY <1>7, <2>4 DEF Extends
    <3>3. at - 1 \in segments[last].from .. segments[last].to
      BY <3>1
    <3>4. segments[last].redacted <=> Spanned(at - 1)
      BY <3>1, <3>3 DEF RedactionInv, RedactsExactly, SecretsAreCovered
    <3>5. at > 1
      <4>1. segments[last].from >= 1
        <5>1. CASE last = 1
          BY <5>1, <3>1
        <5>2. CASE last # 1
          <6>1. last - 1 \in 1 .. last - 1 /\ last - 1 \in DOMAIN segments
            BY <5>2, <1>0, <3>1
          <6>2. segments[(last - 1) + 1].from = segments[last - 1].to + 1
            BY <6>1, <1>m
          <6>3. segments[last - 1].to \in Nat
            BY <6>1, <1>0 DEF SegmentType
          <6> QED BY <6>2, <6>3, <3>1
        <5> QED BY <5>1, <5>2
      <4> QED BY <4>1, <3>1
    <3>6. text[at] \in Starts
      BY <1>1, <3>1, <3>2, <3>4, <3>5, ChangesAtCharacter DEF Spanned
    <3>7. SegmentsAreMaximal'
      <4>1. segments'[1].from = 1 /\ segments'[Len(segments')].to = at' - 1
        <5>1. 1 \in DOMAIN segments /\ segments'[1] = segments[1]
          <6>1. 1 \in 1 .. last
            BY <3>1
          <6> QED BY <6>1, <2>2
        <5>2. segments'[Len(segments')] = new
          BY <2>2
        <5> QED BY <5>1, <5>2, <2>1, <3>1
      <4>2. \A i \in DOMAIN segments' : segments'[i].from <= segments'[i].to
        <5> SUFFICES ASSUME NEW i \in 1 .. last + 1 PROVE segments'[i].from <= segments'[i].to
          BY <2>2
        <5>1. CASE i = last + 1
          BY <5>1, <2>1, <2>2
        <5>2. CASE i # last + 1
          <6>1. i \in 1 .. last
            BY <5>2, <3>1
          <6>2. segments'[i] = segments[i]
            BY <6>1, <2>2
          <6> QED BY <6>1, <6>2, <2>2, <1>m
        <5> QED BY <5>1, <5>2
      <4>3. ASSUME NEW i \in 1 .. Len(segments') - 1
            PROVE  /\ segments'[i + 1].from = segments'[i].to + 1
                   /\ segments'[i + 1].redacted # segments'[i].redacted
        <5>1. CASE i = last
          <6>1. segments'[i] = segments[last] /\ segments'[i + 1] = new
            BY <5>1, <2>2, <3>1
          <6>2. new.from = (at - 1) + 1 /\ new.redacted = redacted
            BY <2>1
          <6> QED BY <6>1, <6>2, <3>1, <3>2
        <5>2. CASE i # last
          <6>1. i \in 1 .. last - 1 /\ i \in 1 .. last /\ i + 1 \in 1 .. last
            BY <5>2, <2>2, <3>1
          <6>2. segments'[i] = segments[i] /\ segments'[i + 1] = segments[i + 1]
            BY <6>1, <2>2
          <6> QED BY <6>1, <6>2, <1>m
        <5> QED BY <5>1, <5>2
      <4> QED BY <2>2, <4>1, <4>2, <4>3 DEF SegmentsAreMaximal
    <3>8. SecretsAreCovered'
      <4> SUFFICES ASSUME NEW i \in DOMAIN segments',
                          NEW byte \in segments'[i].from .. segments'[i].to
                   PROVE  segments'[i].redacted <=> Spanned(byte)
        BY <1>2 DEF SecretsAreCovered
      <4>1. CASE i = last + 1
        <5>1. byte = at
          BY <4>1, <2>1, <2>2
        <5> QED BY <5>1, <4>1, <2>1, <2>2, <1>1
      <4>2. CASE i # last + 1
        <5>1. i \in DOMAIN segments /\ segments'[i] = segments[i]
          BY <4>2, <2>2
        <5> QED BY <5>1 DEF RedactionInv, RedactsExactly, SecretsAreCovered
      <4> QED BY <4>1, <4>2
    <3>9. CharactersAreWhole'
      <4> SUFFICES ASSUME NEW i \in DOMAIN segments' PROVE text[segments'[i].from] \in Starts
        BY DEF CharactersAreWhole
      <4>1. CASE i = last + 1
        BY <4>1, <2>1, <2>2, <3>6
      <4>2. CASE i # last + 1
        <5>1. i \in DOMAIN segments /\ segments'[i] = segments[i]
          BY <4>2, <2>2
        <5> QED BY <5>1, <1>m DEF CharactersAreWhole
      <4> QED BY <4>1, <4>2
    <3>10. RedactionTypeOK'
      BY <2>2 DEF RedactionInv, RedactionTypeOK
    <3> QED BY <1>5, <3>7, <3>8, <3>9, <3>10 DEF RedactionInv, RedactsExactly
  <2> QED BY <2>3, <2>4
<1> QED BY <1>6, <1>7

(* The pass of redaction.rs removes exactly the bytes of secrets, whatever  *)
(* the text, the secrets, their order and their overlaps, and never splits  *)
(* a character.                                                             *)
THEOREM RedactionIsExact == RedactionSpec => []RedactsExactly
<1>1. RedactionInv /\ [RedactionNext]_redactionVars => RedactionInv'
  <2> SUFFICES ASSUME RedactionInv, [RedactionNext]_redactionVars PROVE RedactionInv'
    OBVIOUS
  <2>1. CASE TriesSecret
    BY <2>1, TriesSecretInv
  <2>2. CASE DecidesByte
    BY <2>2, DecidesByteInv
  <2>3. CASE UNCHANGED redactionVars
    BY <2>3 DEF redactionVars, RedactionInv, RedactionTypeOK, ReachIsUpper, ReachIsReached,
                RedactsExactly, SegmentsAreMaximal, SecretsAreCovered, CharactersAreWhole,
                Spanned, Occurs, OccursAt, Tried
  <2> QED BY <2>1, <2>2, <2>3 DEF RedactionNext
<1>2. RedactionInv => RedactsExactly
  BY DEF RedactionInv
<1> QED BY <1>1, <1>2, RedactionInitInv, PTL DEF RedactionSpec
=============================================================================

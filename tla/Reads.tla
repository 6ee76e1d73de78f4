------------------------------- MODULE Reads -------------------------------
(***************************************************************************)
(* The reads of the two clients: the registry's (registry.rs) and GitHub's *)
(* (forge.rs).  A read makes several requests: a redirect on the same      *)
(* origin is followed, a busy or a lost answer repeats the request after a *)
(* wait, a wait for visibility polls, an audit asks for two permissions,   *)
(* and a list comes in pages.  In between, the registry and GitHub move.   *)
(*                                                                         *)
(* LiveRelease takes each of its reads as one step that shows the world as *)
(* it is or fails; what is checked here is when that is right.             *)
(***************************************************************************)
EXTENDS Waits, Sequences, FiniteSets

CONSTANTS
  Headers,        \* the Retry-After headers of busy responses
  MaxRedirects,   \* redirects one attempt follows
  Polls,          \* polls of one wait for visibility
  PageSize,       \* entries on a full page of a list
  MaxPages,       \* pages that one list reads
  MaxEdits,       \* bound: changes of a list while it is read
  MaxEntries      \* bound: entries of a list

ASSUME ReadsAssumption ==
  /\ \A h \in Headers : h.digits \in BOOLEAN /\ h.number \in Nat
  /\ MaxRedirects \in Nat
  /\ {Polls, PageSize, MaxPages} \subseteq Nat \ {0}
  /\ {MaxEdits, MaxEntries} \subseteq Nat

VARIABLES
  task,      \* the operation that the program calls, and what with
  call,      \* how far its current request has come
  bearers,   \* the origins that a request with the credential went to
  found,     \* entries that the pages so far hold of what is looked for
  result,    \* how the operation ended
  listed,    \* what the registry shows of the version
  entries,   \* GitHub's list, newest first: whether each is looked for
  edits      \* how often others have changed the list meanwhile

clientVars == <<task, call, bearers, found, result>>
worldVars == <<listed, entries, edits>>
vars == <<clientVars, worldVars>>

Waits4 == {"wait", "wait_docs"}                \* wait_for
RegistryGets == Waits4 \cup {"release", "source", "docs"}
Lists == {"releases", "pulls"}
GithubGets == Lists \cup {"get", "get_optional"}
Grants == {"allowed", "invalid", "denied"}

Origins == {"configured", "elsewhere"}
Shown == {"unknown", "unlisted", "listed", "documented"}

Task == [op : RegistryGets \cup GithubGets \cup {"audit"}, credential : BOOLEAN,
         organization : BOOLEAN, write : Grants, read : Grants]

Policy == IF task.op \in GithubGets THEN GITHUB_READS ELSE REGISTRY_RETRIES

Fresh(round) == [pc |-> "send", attempt |-> 0, hops |-> 0, at |-> "configured",
                 wait |-> 0, slept |-> 0, round |-> round]

Count(s) == Cardinality({i \in 1..Len(s) : s[i]})

Init ==
  /\ task \in Task
  /\ task.op # "audit" => task.write = "allowed" /\ task.read = "allowed"
  /\ task.op = "audit" /\ ~task.credential => task.write = "allowed"
  /\ ~task.organization => task.read = "allowed"
  /\ task.op # "audit" => ~task.organization
  /\ call = Fresh(0)
  /\ bearers = {}
  /\ found = 0
  /\ result = "none"
  /\ listed \in Shown
  /\ task.op \notin RegistryGets => listed = "unknown"
  /\ entries \in UNION {[1..n -> BOOLEAN] : n \in 0..MaxEntries - MaxEdits}
  /\ task.op \notin Lists => entries = <<>>
  /\ edits = 0

Ends(r) == call' = [call EXCEPT !.pc = "done"] /\ result' = r
Goes(c) == call' = c /\ UNCHANGED result

(* An attempt that failed for now: another one follows, or its failure is  *)
(* the read's.                                                             *)
Repeats(wait) ==
  IF AnotherAttemptFollows(call.attempt, Policy.attempts)
    THEN Goes([call EXCEPT !.pc = "sleep", !.wait = wait])
    ELSE Ends("failed")

Sends ==
  /\ call.pc = "send"
  /\ bearers' = IF task.credential THEN bearers \cup {call.at} ELSE bearers
  /\ UNCHANGED <<task, worldVars>>

AuditWithoutCredential == task.op = "audit" /\ ~task.credential
SendsToRegistry ==
  Sends /\ task.op \notin GithubGets /\ ~AuditWithoutCredential /\ UNCHANGED found

IsMissing ==
  /\ call.pc = "send" /\ AuditWithoutCredential
  /\ Ends("missing")
  /\ UNCHANGED <<task, bearers, found, worldVars>>

AnyOrigin(a, b) == TRUE

SameOrigin(a, b) == a = b

Redirected ==
  /\ SendsToRegistry
  /\ \E to \in Origins :
       IF ~SameOrigin(call.at, to) \/ call.hops >= MaxRedirects
         THEN Ends("refused")
         ELSE Goes([call EXCEPT !.hops = @ + 1, !.at = to])

Busy ==
  /\ Sends /\ ~AuditWithoutCredential /\ UNCHANGED found
  /\ \E h \in Headers :
       Repeats(BusyWait(Policy, call.attempt, DelaySeconds(h)))

Unreachable ==
  /\ Sends /\ ~AuditWithoutCredential /\ UNCHANGED found
  /\ Repeats(TransportWait(Policy, call.attempt))

(* A response that breaks off is a failed transfer to the registry client; *)
(* the GitHub client repeats only what got no response.                    *)
BreaksOff ==
  /\ Sends /\ ~AuditWithoutCredential /\ UNCHANGED found
  /\ IF task.op \in GithubGets THEN Ends("refused")
       ELSE task.op # "audit" /\ Repeats(TransportWait(Policy, call.attempt))

(* Another status, a response over its limit or one that does not parse.   *)
Refused ==
  /\ Sends /\ ~AuditWithoutCredential /\ UNCHANGED found
  /\ Ends("refused")

(* The registry has the package, the tarball or the docs of the request.   *)
Exists ==
  CASE task.op \in Waits4 -> listed # "unknown"
    [] task.op = "docs" -> listed = "documented"
    [] OTHER -> listed \in {"listed", "documented"}

RegistryAnswers ==
  /\ SendsToRegistry
  /\ task.op \in RegistryGets \ Waits4
  /\ Ends(IF Exists THEN listed ELSE IF task.op = "source" THEN "refused" ELSE "absent")

Polled ==
  /\ SendsToRegistry
  /\ task.op \in Waits4
  /\ LET next == AfterPoll(call.round, Polls, ReleaseReady(listed, task.op = "wait_docs"))
     IN  CASE next = "Visible"   -> Ends("visible")
           [] next = "PollAgain" -> Goes([call EXCEPT !.pc = "interval"])
           [] next = "TimedOut"  -> Ends("timed out")

(* The audit asks for the permission to publish, then, for an organization,*)
(* for the permission to read its repository.                              *)
Audited ==
  /\ SendsToRegistry
  /\ task.op = "audit"
  /\ LET grant == IF call.round = 0 THEN task.write ELSE task.read
     IN  CASE grant = "invalid" -> Ends("invalid")
           [] grant = "denied" -> Ends(IF call.round = 0 THEN "cannot publish" ELSE "cannot read")
           [] grant = "allowed" -> IF call.round = 0 /\ task.organization
                                     THEN Goes(Fresh(1)) ELSE Ends("can publish and read")

GithubAnswers ==
  /\ Sends /\ UNCHANGED found
  /\ \/ task.op \in {"get", "get_optional"} /\ Ends("value")
     \/ task.op = "get_optional" /\ Ends("absent")

PageFromZero(n) == {i \in 1..Len(entries) : i >= n * PageSize /\ i < (n + 1) * PageSize}

Page(n) == {i \in 1..Len(entries) : i > n * PageSize /\ i <= (n + 1) * PageSize}

(* The list ends with a page that is not full.                             *)
Listed ==
  /\ Sends
  /\ task.op \in Lists
  /\ LET page == Page(call.round)
     IN  /\ found' = found + Cardinality({i \in page : entries[i]})
         /\ CASE Cardinality(page) < PageSize ->
                   Ends(IF found' = 0 THEN "absent"
                        ELSE IF found' > 1 /\ task.op = "releases" THEN "ambiguous" ELSE "found")
              [] Cardinality(page) = PageSize /\ call.round + 1 < MaxPages ->
                   Goes(Fresh(call.round + 1))
              [] OTHER -> Ends("refused")

WakesWithoutCounting ==
  /\ call.pc = "sleep"
  /\ Goes([call EXCEPT !.pc = "send"])
  /\ UNCHANGED <<task, bearers, found, worldVars>>

(* The registry's loop counts its attempts itself; GitHub's repeats as     *)
(* long as the policy waits.                                               *)
Wakes ==
  /\ call.pc = "sleep"
  /\ IF call.attempt + 1 < Policy.attempts \/ task.op \in GithubGets
       THEN Goes([Fresh(call.round) EXCEPT !.attempt = call.attempt + 1,
                                           !.slept = call.slept + call.wait])
       ELSE Ends("failed")
  /\ UNCHANGED <<task, bearers, found, worldVars>>

PollsAgain ==
  /\ call.pc = "interval"
  /\ Goes(Fresh(call.round + 1))
  /\ UNCHANGED <<task, bearers, found, worldVars>>

ClientNext ==
  \/ IsMissing \/ Redirected \/ Busy \/ Unreachable \/ BreaksOff \/ Refused
  \/ RegistryAnswers \/ Polled \/ Audited \/ GithubAnswers \/ Listed
  \/ Wakes \/ PollsAgain

(* A published version becomes visible, and later its docs.                *)
Surfaces ==
  /\ task.op \in RegistryGets /\ call.pc # "done"
  /\ \/ listed \in {"unknown", "unlisted"} /\ listed' = "listed"
     \/ listed = "listed" /\ listed' = "documented"
  /\ UNCHANGED <<clientVars, entries, edits>>

(* Somebody creates a Release or a pull request, or removes or closes one. *)
Edited ==
  /\ task.op \in Lists /\ call.pc # "done" /\ edits < MaxEdits
  /\ \/ \E sought \in BOOLEAN : entries' = <<sought>> \o entries
     \/ \E i \in 1..Len(entries) :
          entries' = SubSeq(entries, 1, i - 1) \o SubSeq(entries, i + 1, Len(entries))
  /\ edits' = edits + 1
  /\ UNCHANGED <<clientVars, listed>>

Finished == call.pc = "done" /\ UNCHANGED vars

Next == ClientNext \/ Surfaces \/ Edited \/ Finished

(* A client that runs goes on: its requests time out and its sleeps end.   *)
Spec == Init /\ [][Next]_vars /\ WF_vars(ClientNext)

TypeOK ==
  /\ task \in Task
  /\ call \in [pc : {"send", "sleep", "interval", "done"}, attempt : 0..2,
               hops : 0..MaxRedirects, at : Origins, wait : 0..60000,
               slept : 0..120000, round : Nat]
  /\ bearers \subseteq Origins
  /\ found \in Nat
  /\ result \in STRING
  /\ listed \in Shown
  /\ entries \in Seq(BOOLEAN)
  /\ edits \in 0..MaxEdits

(***************************************************************************)
(* What a caller may rely on.                                              *)
(***************************************************************************)

(* However a registry redirects, over all attempts, no request carries the *)
(* credential to another origin than the configured one (registry.rs:193). *)
CredentialStaysHome == bearers \subseteq {"configured"}

(* A read makes at most its policy's attempts, and what it sleeps between  *)
(* them is bounded whatever the responses ask for (wait.rs:32).            *)
EffortIsBounded ==
  /\ call.attempt < Policy.attempts
  /\ call.slept <= (Policy.attempts - 1) * Policy.cap

(* A version counts as absent only when the registry answered that it is;  *)
(* a wait ends with the release visible only when it is, with the docs it  *)
(* asked for, and gives it up only after its last poll (registry.rs:511).  *)
RegistryResultsAreTrue ==
  task.op \in RegistryGets =>
    /\ result = "absent" => ~Exists
    /\ result = "visible" =>
         listed \in {"documented"} \cup (IF task.op = "wait" THEN {"listed"} ELSE {})
    /\ result = "timed out" => call.round = Polls - 1 /\ listed # "documented"

(* A list that nobody changes while it is read, over however many pages    *)
(* and repeated requests, is read exactly (forge.rs:1331).                 *)
UnchangedListIsExact ==
  task.op \in Lists /\ edits = 0 /\ result \in {"absent", "found", "ambiguous"} =>
    found = Count(entries)

(* The audit reports both permissions only when both were granted, and     *)
(* names the one that was not (registry.rs:281).                           *)
AuditIsTrue ==
  task.op = "audit" /\ call.pc = "done" =>
    /\ result = "can publish and read" => task.write = "allowed" /\ task.read = "allowed"
    /\ result = "cannot publish" => task.write = "denied"
    /\ result = "cannot read" => task.read = "denied"
    /\ result = "missing" <=> ~task.credential

(* What an operation reports is what the services showed it.  A list that  *)
(* changes between two of its pages may still count an entry twice or miss *)
(* one, which is why UnchangedListIsExact asks for one that does not.      *)
ResultsAreTrue == RegistryResultsAreTrue /\ UnchangedListIsExact /\ AuditIsTrue

(* Every call ends, whatever the services answer.                          *)
CallsEnd == <>(call.pc = "done")
=============================================================================

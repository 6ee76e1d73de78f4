------------------------------- MODULE Waits -------------------------------
(***************************************************************************)
(* How often a request repeats and how long it waits first, and when a     *)
(* wait for a release polls again: wait.rs of the core, whose decisions    *)
(* both clients ask for.  Times are in milliseconds.                       *)
(***************************************************************************)
EXTENDS Integers

CONSTANT MaxWord   \* the greatest number of a machine word, u64::MAX

ASSUME WordAssumption == MaxWord \in Nat /\ MaxWord >= 60000

Saturated(n) == IF n > MaxWord THEN MaxWord ELSE n

(* A busy response that names no wait makes a registry request wait a      *)
(* fixed time, and a GitHub read one that doubles from a second.           *)
REGISTRY_RETRIES == [attempts |-> 3, step |-> 100, cap |-> 60000,
                     doubles |-> FALSE, fixed |-> 250]
GITHUB_READS == [attempts |-> 3, step |-> 100, cap |-> 30000,
                 doubles |-> TRUE, fixed |-> 0]
RetryPolicy == {REGISTRY_RETRIES, GITHUB_READS}

FollowsTheLast(attempt, attempts) == attempt < attempts

AnotherAttemptFollows(attempt, attempts) == attempt + 1 < attempts

(* A Retry-After header in digits names its number when a word holds it;   *)
(* any other header, a date or a sign among them, names none.              *)
NoDelay == -1
DelaySeconds(header) ==
  IF header.digits /\ header.number <= MaxWord THEN header.number ELSE NoDelay

Doubled(attempt) == Saturated(2 ^ attempt)

BusyWaitUncapped(policy, attempt, asked) ==
  IF asked # NoDelay THEN Saturated(1000 * asked) ELSE policy.fixed

BusyWait(policy, attempt, asked) ==
  LET wait == IF asked # NoDelay THEN Saturated(1000 * asked)
              ELSE IF policy.doubles THEN Saturated(1000 * Doubled(attempt))
              ELSE policy.fixed
  IN  IF wait > policy.cap THEN policy.cap ELSE wait

TransportWait(policy, attempt) == Saturated((attempt + 1) * policy.step)

AfterPoll(poll, attempts, visible) ==
  IF visible THEN "Visible"
  ELSE IF AnotherAttemptFollows(poll, attempts) THEN "PollAgain" ELSE "TimedOut"

(* A package state lists its version with docs, without, or not at all.    *)
ReleaseReady(listed, requireDocs) ==
  \/ listed = "documented"
  \/ listed = "listed" /\ ~requireDocs
=============================================================================

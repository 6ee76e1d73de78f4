------------------------------ MODULE Redaction ------------------------------
(***************************************************************************)
(* What redaction removes from a text before it leaves the process         *)
(* (redaction.rs): one pass over the bytes carries how far the occurrences *)
(* of secrets reach, decides each byte, and groups the decisions into      *)
(* segments.  secrets.rs replaces each redacted segment as a whole.        *)
(*                                                                         *)
(* A text is a sequence of bytes.  A byte that starts a character has the  *)
(* width of that character; the others continue one.                       *)
(***************************************************************************)
EXTENDS Integers, Sequences

CONSTANTS
  Bytes,          \* the bytes
  Starts,         \* those that start a character
  Width,          \* how many bytes such a character has
  Texts,          \* the texts that are redacted
  SecretLists     \* and the secrets that they are redacted of, in order

(* A UTF-8 text is a sequence of whole characters.                         *)
EndsWhole(s) == \E i \in DOMAIN s : s[i] \in Starts /\ i + Width[s[i]] = Len(s) + 1
IsUtf8(s) ==
  s # <<>> =>
    /\ s[1] \in Starts
    /\ EndsWhole(s)
    /\ \A i, j \in DOMAIN s :
         s[i] \in Starts =>
           /\ i < j /\ j < i + Width[s[i]] => s[j] \notin Starts
           /\ j = i + Width[s[i]] => s[j] \in Starts

ASSUME WidthAssumption == Starts \subseteq Bytes /\ Width \in [Starts -> Nat \ {0}]
ASSUME TextsAssumption == Texts \subseteq Seq(Bytes) /\ \A text \in Texts : IsUtf8(text)
ASSUME SecretListsAssumption ==
  /\ SecretLists \subseteq Seq(Seq(Bytes))
  /\ \A list \in SecretLists : \A k \in DOMAIN list : IsUtf8(list[k])

VARIABLES
  text, secrets,  \* what is redacted of what
  at,             \* the byte that is decided,
  tried,          \* how many secrets were tried at it,
  reach,          \* and the first byte after every occurrence found so far
  segments        \* the segments up to it, in order

redactionVars == <<text, secrets, at, tried, reach, segments>>

OccursAt(secret, start) ==
  \A offset \in DOMAIN secret :
    /\ start + offset - 1 \in DOMAIN text
    /\ text[start + offset - 1] = secret[offset]
OccurrencePartly(secret, start) == start + Len(secret) - 1
OccurrenceEnd(secret, start) == start + Len(secret)
Further(end) == IF end > reach THEN end ELSE reach

RedactionInit ==
  /\ text \in Texts /\ secrets \in SecretLists
  /\ at = 1 /\ tried = 0 /\ reach = 1
  /\ segments = <<>>

(* extend_reach tries one secret after the other; an empty one covers nothing. *)
TriesSecret ==
  /\ at \in DOMAIN text /\ tried < Len(secrets)
  /\ LET secret == secrets[tried + 1]
     IN reach' = IF secret # <<>> /\ OccursAt(secret, at) THEN Further(OccurrenceEnd(secret, at))
                 ELSE reach
  /\ tried' = tried + 1
  /\ UNCHANGED <<text, secrets, at, segments>>

(* A decision equal to the last one extends its segment. *)
Segment(redacted, from, to) == [redacted |-> redacted, from |-> from, to |-> to]
Extends(redacted) == segments # <<>> /\ segments[Len(segments)].redacted = redacted
Grouped(redacted) ==
  IF Extends(redacted) THEN [segments EXCEPT ![Len(segments)].to = at]
  ELSE Append(segments, Segment(redacted, at, at))
DecidesByte ==
  /\ at \in DOMAIN text /\ tried = Len(secrets)
  /\ segments' = Grouped(reach > at)
  /\ at' = at + 1 /\ tried' = 0
  /\ UNCHANGED <<text, secrets, reach>>

RedactionNext == TriesSecret \/ DecidesByte
RedactionSpec == RedactionInit /\ [][RedactionNext]_redactionVars

-----------------------------------------------------------------------------
(* An occurrence of a secret spans a byte. *)
Spanned(byte) ==
  \E k \in DOMAIN secrets, start \in 1 .. byte :
    OccursAt(secrets[k], start) /\ byte < start + Len(secrets[k])

(* The segments cover every byte that was decided once, in order, no two    *)
(* neighbours alike, so that each redacted run is replaced once.            *)
SegmentsAreMaximal ==
  /\ segments = <<>> => at = 1
  /\ segments # <<>> => segments[1].from = 1 /\ segments[Len(segments)].to = at - 1
  /\ \A i \in DOMAIN segments : segments[i].from <= segments[i].to
  /\ \A i \in 1 .. Len(segments) - 1 :
       /\ segments[i + 1].from = segments[i].to + 1
       /\ segments[i + 1].redacted # segments[i].redacted
(* A byte is redacted exactly when some occurrence of a secret spans it.    *)
SecretsAreCovered ==
  \A i \in DOMAIN segments : \A byte \in segments[i].from .. segments[i].to :
    segments[i].redacted <=> Spanned(byte)
(* No segment starts inside a character. *)
CharactersAreWhole == \A i \in DOMAIN segments : text[segments[i].from] \in Starts

(* No secret hides part of another, whatever their order and however they   *)
(* overlap: what remains of a text has no byte of any occurrence and every  *)
(* other byte, in whole characters (redaction_segments).                    *)
RedactsExactly == SegmentsAreMaximal /\ SecretsAreCovered /\ CharactersAreWhole
=============================================================================

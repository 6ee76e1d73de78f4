------------------------------- MODULE Tokens -------------------------------
(***************************************************************************)
(* The identity of a publishing job: the OIDC token that it mints, and what *)
(* authorization.rs and the core's oidc.rs accept of it.                    *)
(*                                                                         *)
(* Texts are model values: a repository, a ref or a run is equal to another *)
(* or it is not.  A token is a record of its claims, the key that signed it *)
(* and its times; forging a signature is outside the model.                 *)
(***************************************************************************)
EXTENDS Integers, FiniteSets

CONSTANTS
  Skew,     \* CLOCK_SKEW_SECONDS, in the unit of the model's times
  MaxTime   \* the largest time, i64::MAX

ASSUME TimesAreBounded == /\ Skew \in Nat
                          /\ MaxTime \in Nat
                          /\ Skew <= MaxTime

Least == -MaxTime - 1

Times == Least .. MaxTime

(* The times a token states: TokenTimes.  "notBefore" is a claim it may      *)
(* lack, so it is a set of at most one time.                                *)
Window == [issued : Times, notBefore : SUBSET Times, expires : Times]

NotSet == "unset"

Expired(expires, now) == expires <= now

LatestStartUnskewed(now) == now
LatestStart(now) == IF now + Skew > MaxTime THEN MaxTime ELSE now + Skew

TokenWindow(window, now) ==
  /\ ~Expired(window.expires, now)
  /\ window.issued <= LatestStart(now)
  /\ \A start \in window.notBefore : start <= LatestStart(now)

(***************************************************************************)
(* The hosts that tokens, the discovery document and the key set may come   *)
(* from.  "issuer" is the one host of the issuer, "zone" the runners' zone  *)
(* and the hosts in it, "loopback" a loopback address.                      *)
(***************************************************************************)
TrustedHosts(kind) == IF kind = "runner" THEN {"zone", "issuer"} ELSE {"issuer"}

TrustedOrigin(kind, scheme, host, testing) ==
  \/ testing /\ host = "loopback" /\ scheme = "http"
  \/ scheme = "https" /\ host \in TrustedHosts(kind)

(* The one key of the set that the token's header can mean, in a set.      *)
Matching(keys, header) ==
  {key \in keys : /\ key.type = "RSA"
                  /\ key.algorithm \in {NotSet, "RS256"}
                  /\ key.use \in {NotSet, "sig"}
                  /\ header.kid = NotSet \/ header.kid = key.kid}

Signed(token, keys) ==
  /\ token.header.alg = "RS256"
  /\ ~token.header.critical
  /\ Cardinality(Matching(keys, token.header)) = 1
  /\ \A key \in Matching(keys, token.header) : token.signer = key.kid

(***************************************************************************)
(* What the sealed Candidate and the publishing run expect of the claims:   *)
(* OidcExpectation.  The issuer and the audience are constants of the code. *)
(***************************************************************************)
Expectation(repository, environment, sha, run) ==
  [repository |-> repository, environment |-> environment, sha |-> sha, run |-> run]

IsFullRef(ref) == ref.kind \in {"branch", "tag"} /\ ref.wellFormed

ClaimsMatch(claims, expected) ==
  /\ claims.issuer = "github" /\ "release-glz" \in claims.audience
  /\ claims.repository = expected.repository
  /\ claims.environment = expected.environment
  /\ claims.subject = <<expected.repository, expected.environment>>
  /\ IsFullRef(claims.ref)
  /\ claims.workflow = <<expected.repository, "release-glz.yml", claims.ref>>
  /\ claims.sha = expected.sha
  /\ claims.run = expected.run
  /\ claims.attempt > 0
  /\ claims.event \in {"push", "workflow_dispatch"}

(* The hosts of the three requests of verify_actions_token.                 *)
Trusted(hosts) ==
  \A kind \in {"runner", "discovery", "keys"} : TrustedOrigin(kind, "https", hosts[kind], FALSE)

(* A token is accepted when its sources, signature, claims and times are.   *)
Accepted(token, hosts, keys, expected, now) ==
  /\ Trusted(hosts)
  /\ Signed(token, keys)
  /\ ClaimsMatch(token.claims, expected)
  /\ TokenWindow(token.window, now)
=============================================================================

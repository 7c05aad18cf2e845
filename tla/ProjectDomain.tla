---------------------------- MODULE ProjectDomain ----------------------------
(***************************************************************************)
(* A Connected Project's domain as the skeleton of project-domain-sdk.ts   *)
(* serves it, and the conformance suite of conformance.ts that reads it.   *)
(*                                                                         *)
(* An implementation is a record of what the project plugs into the        *)
(* skeleton; a response is its status, its error code and what a check     *)
(* looks at of its body.                                                   *)
(***************************************************************************)
EXTENDS Naturals, Sequences

CONSTANT RequiredResources

-----------------------------------------------------------------------------
\* up: the domain answers in time; verifies: the tokens it lets in;
\* metrics: what reading the funnel does, "absent" without a handler.
Impl ==
  [up : BOOLEAN, contract : BOOLEAN, verifies : {"its own", "all", "none"},
   states : [RequiredResources -> {"ok", "empty", "unavailable"}],
   declaresMetrics : BOOLEAN,
   metrics : {"absent", "bundle", "torn", "refusal", "fault"},
   cursors : Seq(Nat)]

NoToken == "no token"
OwnToken == "its own"
TamperedToken == "tampered"

\* verifyToken: a skeleton with no token to look at never asks it.
LetsIn(impl, token) ==
  /\ token # NoToken
  /\ impl.verifies = "all" \/ (impl.verifies = "its own" /\ token = OwnToken)

sendError(status, code) == [status |-> status, error |-> code, body |-> "error"]

Answer(body) == [status |-> 200, error |-> "none", body |-> body]

\* The routes a project serves to a token it lets in.
Manifest(impl) == Answer(IF impl.contract THEN "contract" ELSE "other contract")

Resource(impl, name) ==
  IF name \in RequiredResources THEN Answer(impl.states[name])
    ELSE sendError(404, "unsupported_capability")

Metrics(impl) ==
  CASE impl.metrics = "absent"  -> sendError(404, "unsupported_capability")
    [] impl.metrics = "bundle"  -> Answer("bundle")
    [] impl.metrics = "torn"    -> Answer("torn")
    [] impl.metrics = "refusal" -> sendError(400, "refused")
    [] impl.metrics = "fault"   -> sendError(503, "temporarily_unavailable")

Monotonic(cursors) == \A n \in 2 .. Len(cursors) : cursors[n - 1] < cursors[n]

Changes(impl) == Answer(IF Monotonic(impl.cursors) THEN "monotonic" ELSE "disordered")

\* The router of createProjectDomainRouter.
Serve(impl, token, answer) ==
  IF LetsIn(impl, token) THEN answer ELSE sendError(401, "invalid_token")

-----------------------------------------------------------------------------
(* The suite *)

Resources == {[check |-> "resource", name |-> r] : r \in RequiredResources}

Check(name) == [check |-> name, name |-> "none"]

Suite ==
  {Check(k) : k \in {"manifest", "no token", "tampered", "unknown", "metrics", "changes"}}
    \cup Resources

unknownName == "not-a-real-resource"

Unsupported(answer) == answer.status = 404 /\ answer.error = "unsupported_capability"

ResourceCheck(impl, name) ==
  LET answer == Serve(impl, OwnToken, Resource(impl, name))
  IN answer.status = 200 /\ answer.body \in {"ok", "empty"}

\* A manifest that was refused declares nothing.
MetricsCheck(impl) ==
  LET answer == Serve(impl, OwnToken, Metrics(impl))
      declares == impl.declaresMetrics /\ LetsIn(impl, OwnToken)
  IN IF declares THEN answer.status = 200 /\ answer.body = "bundle" ELSE Unsupported(answer)

RefusalCheck(impl, token) == Serve(impl, token, Manifest(impl)).status = 401

CheckPasses(impl, check) ==
  CASE check.check = "manifest"  -> Serve(impl, OwnToken, Manifest(impl)) = Answer("contract")
    [] check.check = "no token"  -> RefusalCheck(impl, NoToken)
    [] check.check = "tampered"  -> RefusalCheck(impl, TamperedToken)
    [] check.check = "resource"  -> ResourceCheck(impl, check.name)
    [] check.check = "unknown"   ->
         Unsupported(Serve(impl, OwnToken, Resource(impl, unknownName)))
    [] check.check = "metrics"   -> MetricsCheck(impl)
    [] check.check = "changes"   -> Serve(impl, OwnToken, Changes(impl)) = Answer("monotonic")
=============================================================================

----------------------------- MODULE ChangeRules -----------------------------
(***************************************************************************)
(* What a Project Change Set may write and what the Operator is shown of   *)
(* it (server/project-changes.ts): the operations, the write policy of a   *)
(* Connected Project and the diff against what a snapshot captured.        *)
(*                                                                         *)
(* The data of a project maps each resource to an object.  A path is the  *)
(* sequence of its names, what split(".") makes of the string, and so is a *)
(* key: one with dots in it is a key of several names.  A value maps its   *)
(* keys to values; a scalar has the empty key only.                        *)
(***************************************************************************)
EXTENDS Naturals, Sequences, SequencesExt, TLC

CONSTANTS
  Fields,         \* paths a set_field names
  ClaimIds,       \* ids a revise_claim names, each as the path claims[id]
  Values          \* values of fields and texts of claims with their evidence

ASSUME ChangeRulesAssumption == Fields \cup ClaimIds \subseteq Seq(STRING) \ {<<>>}

-----------------------------------------------------------------------------
\* undefined; and an object without fields, which is not told apart from it.
Unknown == <<>>

CHANGE_OPERATIONS == {"set_field", "add_claim", "revise_claim"}

ChangeOp(resources) ==
  [op : {"set_field"}, resource : resources, path : Fields, value : Values]
  \cup [op : {"add_claim"}, claim : Values]
  \cup [op : {"revise_claim"}, id : ClaimIds, claim : Values]

\* A policy that protects "*" protects every resource.
WritePolicy(resources) ==
  [operations : SUBSET CHANGE_OPERATIONS, editableTargets : SUBSET resources,
   protectedResources : SUBSET (resources \cup {"*"})]

\* A project that says nothing has said no.
DEFAULT_POLICY == [operations |-> {}, editableTargets |-> {}, protectedResources |-> {"*"}]

\* What a project answers may lack any part; a 404 lacks them all.
readWritePolicy(answer) == answer @@ DEFAULT_POLICY

targetResource(op) == IF op.op = "set_field" THEN op.resource ELSE "claims"

targetPath(op) ==
  CASE op.op = "set_field"    -> op.path
    [] op.op = "add_claim"    -> <<"claims[]">>
    [] op.op = "revise_claim" -> op.id

proposedValue(op) == IF op.op = "set_field" THEN op.value ELSE op.claim

\* The property a value has under a key.
field(value, key) == IF key \in DOMAIN value THEN value[key] ELSE Unknown

\* Where the names of a path after the first one lead from there.
walked(first, path) ==
  LET cursor[n \in 1 .. Len(path)] ==
        IF n = 1 THEN first ELSE field(cursor[n - 1], <<path[n]>>)
  IN cursor[Len(path)]

\* What the diff shows as the value at a path: each name is a key of its own.
valueAt(data, path) == walked(field(data, <<path[1]>>), path)

isProtected(policy, resource) == {"*", resource} \cap policy.protectedResources # {}

PermittedOp(op, policy) ==
  /\ op.op \in policy.operations
  /\ ~ isProtected(policy, targetResource(op))
  /\ targetResource(op) \in policy.editableTargets

\* validateChangeSet finds no problem: one operation refused refuses them all.
Permitted(change, policy) == \A n \in DOMAIN change : PermittedOp(change[n], policy)

\* A resource the snapshot did not capture has no before-value.
line(op, captured) ==
  [resource |-> targetResource(op), path |-> targetPath(op), after |-> proposedValue(op),
   before |-> IF targetResource(op) \in DOMAIN captured
                THEN valueAt(captured[targetResource(op)], targetPath(op)) ELSE Unknown]

\* Faulty variant of diff: an operation that would not change anything is left
\* out.
diffOfChanges(change, captured) ==
  SelectSeq([n \in DOMAIN change |-> line(change[n], captured)],
            LAMBDA shown : shown.before # shown.after)

\* What the Operator sees, each operation against the snapshot.
diff(change, captured) == [n \in DOMAIN change |-> line(change[n], captured)]

\* All that the project of this repository takes.
accepts(op) == op.op = "set_field" /\ op.resource = "brand"

\* One operation carried out: the path, dots and all, is one key of the brand.
written(op, held) ==
  [held EXCEPT !["brand"] =
     [key \in DOMAIN @ \cup {op.path} |-> IF key = op.path THEN op.value ELSE @[key]]]

\* The project carries the operations out one after the other.
applied(change, data) ==
  LET held[n \in 0 .. Len(change)] ==
        IF n = 0 THEN data ELSE written(change[n], held[n - 1])
  IN held[Len(change)]
=============================================================================

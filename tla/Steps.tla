------------------------------- MODULE Steps -------------------------------
(***************************************************************************)
(* The vocabulary in which the catalog describes a resource: what its      *)
(* schema says of an attribute (a kind), how a payload sends the attribute *)
(* and how a response is taken into the model (rules), and the steps of    *)
(* which a handler consists.  Lifecycle gives each word its meaning.       *)
(***************************************************************************)
EXTENDS Sequences, TLC

(* The same entry for every attribute of a set; entries are joined by @@.  *)
Attrs(S, x) == [a \in S |-> x]

Nothing == <<>>

(***************************************************************************)
(* Kinds.                                                                  *)
(*   config     whether a configuration must, may or cannot set it         *)
(*   computed   the provider may choose the value the configuration omits  *)
(*   default    a static default of the schema: none, zero or nonzero      *)
(*   modifiers  the plan modifiers, in the order they run                  *)
(*   spelt      one value has several spellings                            *)
(*   custom     a custom type: the framework keeps an equal spelling       *)
(*   zero       whether the validators admit the zero value                *)
(*   initial    what the server gives it by itself: anything, or zero      *)
(*   local      not a setting of the object: a knob of the provider, or a  *)
(*              directive that only accompanies a call                     *)
(*   secret     write-only, and sent when its version attribute moves: the *)
(*              version in plan and state is represented by the value      *)
(*   unseen     write-only, without a version: plan and state hold null    *)
(*   sentinel   its other spelling is a request to Create ("latest"), not  *)
(*              a value the server ever holds                              *)
(*   excused    the properties the code does not keep for it: the          *)
(*              deviations the README explains one by one                  *)
(***************************************************************************)
Kind(config, computed, modifiers) ==
  [config |-> config, computed |-> computed, default |-> "none", modifiers |-> modifiers,
   spelt |-> FALSE, custom |-> FALSE, zero |-> TRUE, initial |-> "any", local |-> FALSE,
   secret |-> FALSE, unseen |-> FALSE, sentinel |-> FALSE, excused |-> {}]

Required == Kind("required", FALSE, <<>>)
Optional == Kind("optional", FALSE, <<>>)
Kept     == Kind("optional", TRUE, <<"keep">>)
Unkept   == Kind("optional", TRUE, <<>>)
Computed == Kind("none", TRUE, <<"keep">>)
Volatile == Kind("none", TRUE, <<>>)

(* An empty secret is no secret.                                           *)
Secret         == [Optional EXCEPT !.secret = TRUE, !.zero = FALSE]
RequiredSecret == [Required EXCEPT !.secret = TRUE, !.zero = FALSE]
Unseen         == [Optional EXCEPT !.unseen = TRUE]

Mod(kind, modifiers) == [kind EXCEPT !.modifiers = @ \o modifiers]
Replacing(kind)    == Mod(kind, <<"replace">>)
Spelt(kind)        == [kind EXCEPT !.spelt = TRUE]
Custom(kind)       == [kind EXCEPT !.spelt = TRUE, !.custom = TRUE]
Sentinel(kind)     == [kind EXCEPT !.spelt = TRUE, !.sentinel = TRUE]
Nonzero(kind)      == [kind EXCEPT !.zero = FALSE]
(* The schema admits the zero value, but the provider sends nothing for    *)
(* it, or reads it back as null: a deviation the README names.             *)
LosesZero(kind)    == Nonzero(kind)
Initially(i, kind) == [kind EXCEPT !.initial = i]
Local(kind)        == [kind EXCEPT !.local = TRUE]
Once(kind)         == Local(kind)
Excused(P, kind)   == [kind EXCEPT !.excused = P]
Default(kind, d)   == [kind EXCEPT !.default = d]

(* What a ModifyPlan adds to the modifiers of the schema: it runs last.    *)
Amend(schema, modifyPlan) ==
  [a \in DOMAIN schema |->
     IF a \in DOMAIN modifyPlan THEN Mod(schema[a], modifyPlan[a]) ELSE schema[a]]

(* A payload that carries an attribute only when it moved.                 *)
WhenChanged == [always |-> "changed", known |-> "changed", nonzero |-> "nonzeroChanged",
                nilZero |-> "nilZeroChanged", knownNilZero |-> "knownNilZeroChanged"]

IfChanged(rules) == [a \in DOMAIN rules |-> WhenChanged[rules[a]]]

Without(rules, S) == [a \in DOMAIN rules \ S |-> rules[a]]

(***************************************************************************)
(* Steps.  "rule" says, attribute by attribute, what the step sends or     *)
(* takes; an attribute it does not name is not sent, or left as it is.     *)
(***************************************************************************)
Step(do, rule) == [do |-> do, rule |-> rule, restores |-> FALSE]

Create(payload)   == Step("create", payload)
Update(payload)   == Step("update", payload)
Restoring(step)   == [step EXCEPT !.restores = TRUE]
Fetch             == Step("fetch", Nothing)
FetchOrForget     == Step("fetchOrForget", Nothing)
FetchOrRecord     == Step("fetchOrRecord", Nothing)
FetchOrAsk        == Step("fetchOrAsk", Nothing)
ForgetIfRunning   == Step("forgetIfRunning", Nothing)
Take(response)    == Step("take", response)
Save              == Step("save", Nothing)
SaveId            == Step("saveId", Nothing)
SaveName          == Step("saveId", Attrs({"name"}, "value"))
RecordManaged     == Step("recordManaged", Nothing)
SetImported(b)    == Step(IF b THEN "setImported" ELSE "clearImported", Nothing)
KeepImported      == Step("keepImported", Nothing)
Check             == Step("check", Nothing)
Delete            == Step("delete", Nothing)
DeleteOrAsk       == Step("deleteOrAsk", Nothing)
GoneIfRunning     == Step("goneIfRunning", Nothing)
Undo(payload)     == Step("undo", payload)
LeaveInPlace      == Step("leaveInPlace", Nothing)

Resource(schema, create, read, update, delete, import) ==
  [schema |-> schema, create |-> create, read |-> read, update |-> update,
   delete |-> delete, import |-> import, hosted |-> FALSE, recorded |-> FALSE]

(* A resource that is served by a daemon of the appliance, and one whose   *)
(* Create records the object as soon as it exists.                         *)
Hosted(resource)   == [resource EXCEPT !.hosted = TRUE]
Recorded(resource) == [resource EXCEPT !.recorded = TRUE]
=============================================================================

-------------------------- MODULE LifecycleClasses --------------------------
(***************************************************************************)
(* Classes of attributes, told by looking at a profile: at the schema and  *)
(* at the steps of the handlers, without running them.  The properties of  *)
(* Lifecycle about the values that travel between configuration, plan,     *)
(* appliance and state are theorems for the attributes of a class, in      *)
(* whatever catalog (module LifecycleValues).                              *)
(***************************************************************************)
EXTENDS Lifecycle

(* Between a step of G and step i there is none of B.                      *)
Since(i, G, B) == \E j \in G : j < i /\ \A k \in B : ~ (j < k /\ k < i)

CallsOf(h) == {i \in DOMAIN h : h[i].do \in {"create", "update"}}
SavesOf(h) == {i \in DOMAIN h : h[i].do = "save"}

-----------------------------------------------------------------------------
(* Responses.                                                              *)

(* Response rules that show what the appliance holds, and what they make   *)
(* of it, whatever the model held.                                         *)
Showing == {"value", "pointer", "nullIfZero", "keepEquivalent", "keepEquivalentOrNull"}

View(t, s) ==
  CASE t = "value"                             -> {IF s = Null THEN Zero ELSE s}
    [] t \in {"pointer", "keepEquivalentOrNull"} -> {s}
    [] t = "nullIfZero"                        -> {IF s = Zero THEN Null ELSE s}
    [] t = "keepEquivalent"                    -> {s} \cup (IF s = Null THEN {Zero} ELSE {})

ShowsOf(h) == {i \in DOMAIN h : h[i].do = "take" /\ h[i].rule \in Showing}
HidesOf(h) == {i \in DOMAIN h : h[i].do = "take" /\ h[i].rule \notin Showing \cup {"none"}}

(* A handler that saves only what a response has shown it after the last   *)
(* call, and makes no call after its last save.                            *)
Reflects(h) ==
  /\ \A i \in SavesOf(h) : Since(i, ShowsOf(h), HidesOf(h) \cup CallsOf(h))
  /\ Since(Len(h) + 1, SavesOf(h), CallsOf(h))

(* An attribute whose state is always read off the appliance.              *)
Mirrored(p) ==
  /\ ~ p.hosted
  /\ \A o \in {"create", "read", "update"} : Reflects(p[o])
  /\ \A i \in SavesOf(p.update), j \in CallsOf(p.update) : j < i
  /\ \A i \in DOMAIN p.read : p.read[i].do # "forgetIfRunning"

Viewed(p) ==
  UNION { { p[o][i].rule : i \in ShowsOf(p[o]) } : o \in {"create", "read", "update"} }

-----------------------------------------------------------------------------
(* Plan modifiers.                                                         *)

(* The modifiers that keep an update from changing the attribute: from any *)
(* value, and from a value that is known.                                  *)
FixesKnown == {"replaceFromKnown", "replaceFromKnownFold", "replaceUnlessEquivalent",
               "idmapReplace", "refuse"}
Resets == {"resetWhenUnset", "resetIfManaged"}
Followers == {"unknownIfFollowed", "zeroIfFollowed"}

With(p, S) == Range(p.kind.modifiers) \cap S # {}
Following(p) == With(p, {"keepUnlessFollowed", "keepSettled", "unknownIfFollowed"})

(* A Create records that Terraform owns the value, and a Read keeps that.  *)
Marking(p) ==
  /\ ~ With(p, {"keepImported"})
  /\ \E i \in DOMAIN p.create : p.create[i].do = "recordManaged"
  /\ \A i \in DOMAIN p.read : p.read[i].do # "recordManaged"

-----------------------------------------------------------------------------
(* Payloads.                                                               *)

(* The rules that send every known value, those that send every configured *)
(* one, those that send one that differs from the state, and those that    *)
(* send nothing of a value that is not known.                              *)
Forwarding == {"always", "known", "nullable", "nil", "nilZero", "knownNilZero", "emptyIsNil",
               "unlessUnknown", "knownOrImplied"}
Delivering(k) == Forwarding \cup {"configured", "cannotClear"}
                            \cup (IF k.zero THEN {} ELSE {"nonzero"})
Comparing(k) == {"changed", "nilZeroChanged", "knownNilZeroChanged", "unlessAllSame",
                 "changedOrFollowed"} \cup (IF k.zero THEN {} ELSE {"nonzeroChanged", "setOnly"})
Silent == {"none", "known", "nullable", "nonzero", "knownNilZero", "emptyIsNil", "unlessUnknown",
           "configured", "cannotClear", "setOnly", "unlessAllSame", "changed", "nonzeroChanged",
           "knownNilZeroChanged", "upgrade"}
Sparing == Silent \cup {"always", "nil", "nilZero", "nilZeroChanged"}
Zeroing == {"always", "nil", "nilZero", "zero", "maybeZero", "maybeNull"}

(* The calls by the rules of S, and whether the last call is one of them,  *)
(* apart from updates by the rules of T.                                   *)
CallsBy(h, S) == {i \in CallsOf(h) : h[i].rule \in S}
LastCall(h, S, T) ==
  Since(Len(h) + 1, CallsBy(h, S),
        {i \in CallsOf(h) : h[i].rule \notin S /\ ~ (h[i].do = "update" /\ h[i].rule \in T)})

(* An update that does not mention the attribute leaves it as it is, but   *)
(* for one that follows another attribute.                                 *)
Passed(p) == IF Following(p) THEN {} ELSE {"none"}

(* A Create sends every configured value: the last call that mentions the  *)
(* attribute does; or it leaves zero out where zero is what the server     *)
(* starts from.                                                            *)
DeliveredByCreate(p) ==
  \/ LastCall(p.create, Delivering(p.kind) \cup Comparing(p.kind), {"none"})
  \/ /\ p.kind.initial = "zero" /\ CallsOf(p.create) # {}
     /\ \A i \in CallsOf(p.create) : p.create[i].do = "create" /\ p.create[i].rule = "nonzero"

(* An Update does.                                                         *)
DeliveredByUpdate(p) == LastCall(p.update, Delivering(p.kind), Passed(p))

(* Or it sends what differs from a state that mirrors the appliance; or    *)
(* nothing can differ in an update.                                        *)
Fixed(p) == With(p, {"replace"}) \/ (With(p, FixesKnown) /\ Viewed(p) = {"value"})
DeliveredIfChanged(p) ==
  /\ Mirrored(p) /\ ~ Following(p) /\ ~ p.kind.unseen
  /\ \A i \in CallsOf(p.update) :
       p.update[i].rule \in Delivering(p.kind) \cup Comparing(p.kind) \cup {"none"}
  /\ Fixed(p) \/ CallsBy(p.update, Delivering(p.kind) \cup Comparing(p.kind)) # {}

Delivered(p) == DeliveredByCreate(p) /\ (DeliveredByUpdate(p) \/ DeliveredIfChanged(p))

(* An Update leaves alone what is not configured: it sends what the state  *)
(* has, or nothing.                                                        *)
Spared(p) ==
  /\ Mirrored(p) /\ ~ p.kind.unseen
  /\ \A i \in CallsOf(p.update) : LET rule == p.update[i].rule IN
       /\ rule \in Sparing \/ (rule = "changedOrFollowed" /\ Following(p))
       /\ MayBeUnknown(p.kind, "update") => rule \in Silent
Untouched(p) == \A i \in CallsOf(p.update) : p.update[i].rule = "none"

(* A Create sends nothing of what is not known, or zero where the server   *)
(* starts from zero.                                                       *)
LeftOut(p) ==
  /\ ~ p.kind.unseen
  /\ \A i \in CallsOf(p.create) :
       p.create[i].rule \in Silent \cup {"knownOrImplied"}
                            \cup (IF p.kind.initial = "zero" THEN Zeroing ELSE {})

(* A change of spelling alone asks for no replacement.                     *)
Respellable(p) ==
  /\ With(p, {"replace"}) /\ p.kind.zero => "nullIfZero" \notin Viewed(p)
  /\ With(p, {"replace", "replaceFromKnown"}) /\ p.kind.spelt => With(p, {"keepEquivalent"})

(* An Update sends the default that is planned for a value no longer       *)
(* configured.                                                             *)
Reset(p) ==
  /\ Marking(p) /\ ~ With(p, Followers) /\ ~ p.kind.unseen
  /\ LastCall(p.update, Forwarding, Passed(p))

(* An attribute that every response shows as it is, and whose plan the     *)
(* handlers carry out: something always provides a value; the configured   *)
(* one is delivered, and so is one that the schema or a modifier implies;  *)
(* a framework type keeps equivalent spellings apart.                      *)
Echoed(p) ==
  /\ Mirrored(p) /\ Viewed(p) = {"value"} /\ ~ Following(p) /\ ~ p.kind.unseen
  /\ p.kind.spelt => p.kind.custom
  /\ p.kind.config = "required" \/ p.kind.computed \/ p.kind.default # "none"
  /\ p.kind.config # "none" => Delivered(p)
  /\ p.kind.config # "required" =>
       /\ \A i \in CallsOf(p.update) : p.update[i].rule \in Sparing \cup Forwarding
       /\ p.kind.default # "none" \/ With(p, {"inferredOnCreate"})
            => LastCall(p.create, Forwarding, {"none"})
       /\ p.kind.default # "none" \/ With(p, Resets \cup {"zeroIfFollowed"})
            => LastCall(p.update, Forwarding, {"none"})

(* Responses that tell a configured value from null: by value, or where    *)
(* zero cannot be configured.                                              *)
Telling(p) == Viewed(p) = {"value"} \/ ~ p.kind.zero

(* One whose state, once it is as configured, plans nothing more.          *)
Steady(p) ==
  /\ Mirrored(p) /\ ~ p.kind.unseen
  /\ p.kind.spelt => With(p, {"keepEquivalent"})
  /\ p.kind.config # "none" => Telling(p) /\ Delivered(p)
  /\ p.kind.config # "required" => p.kind.computed /\ p.kind.default = "none"
  /\ With(p, Resets) => Marking(p)
=============================================================================

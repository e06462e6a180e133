--------------------------- MODULE LifecyclePlans ---------------------------
(***************************************************************************)
(* What the words of the catalog do to a value, for every value: what a    *)
(* payload rule sends, what a response rule shows, what the modifiers plan *)
(* and when they ask for a replacement.                                    *)
(***************************************************************************)
EXTENDS LifecycleProofs, LifecycleClasses

(* The setting a value stands for: another spelling is the same setting,   *)
(* and so are null and zero.                                               *)
Setting(v) == IF v = Null THEN Zero ELSE Canon(v)

-----------------------------------------------------------------------------
(* Positions.                                                              *)

(* What lies behind the next position: the step here, or what lay behind   *)
(* this one, if the step here does not undo it.                            *)
LEMMA SinceNext ==
  ASSUME NEW i \in Nat, NEW G \in SUBSET Nat, NEW B \in SUBSET Nat
  PROVE  Since(i + 1, G, B) <=> i \in G \/ (Since(i, G, B) /\ i \notin B)
  <1>1. ASSUME Since(i + 1, G, B), i \notin G
        PROVE  Since(i, G, B) /\ i \notin B
    <2>1. PICK j \in G : j < i + 1 /\ \A k \in B : ~ (j < k /\ k < i + 1)
      BY <1>1 DEF Since
    <2>2. j < i /\ j \in Nat
      BY <1>1, <2>1
    <2>3. i \notin B
      BY <2>1, <2>2
    <2>4. \A k \in B : ~ (j < k /\ k < i)
      BY <2>1
    <2> QED
      BY <2>2, <2>3, <2>4 DEF Since
  <1>2. ASSUME i \in G PROVE Since(i + 1, G, B)
    <2>1. i < i + 1 /\ \A k \in B : ~ (i < k /\ k < i + 1)
      OBVIOUS
    <2> QED
      BY <1>2, <2>1 DEF Since
  <1>3. ASSUME Since(i, G, B), i \notin B PROVE Since(i + 1, G, B)
    <2>1. PICK j \in G : j < i /\ \A k \in B : ~ (j < k /\ k < i)
      BY <1>3 DEF Since
    <2>2. j < i + 1 /\ \A k \in B : ~ (j < k /\ k < i + 1)
      <3>1. \A k \in B : k < i + 1 => k < i
        BY <1>3
      <3> QED
        BY <2>1, <3>1
    <2> QED
      BY <2>2 DEF Since
  <1> QED
    BY <1>1, <1>2, <1>3

(* Steps are numbered from 1, so nothing lies behind the first.            *)
LEMMA SinceFirst ==
  ASSUME NEW G, \A j \in G : j \in Nat /\ j >= 1, NEW B
  PROVE  ~ Since(1, G, B)
  BY DEF Since

(* The more steps do it and the fewer undo it, the sooner it is done.      *)
LEMMA SinceMore ==
  ASSUME NEW i, NEW G, NEW B, NEW G2, NEW B2, G \subseteq G2, B2 \subseteq B, Since(i, G, B)
  PROVE  Since(i, G2, B2)
  BY DEF Since

-----------------------------------------------------------------------------
(* Settings.                                                               *)

(* Two values are the same to the appliance when they are the same         *)
(* setting.                                                                *)
LEMMA SameSetting == \A v, w : Same(v, w) <=> Setting(v) = Setting(w)
  <1> SUFFICES ASSUME NEW v, NEW w PROVE Same(v, w) <=> Setting(v) = Setting(w)
    OBVIOUS
  <1>1. /\ Respelt(Some) \notin {Null, Zero} /\ Some \notin {Null, Zero} /\ Null # Zero
    BY SpecialValues, SomeIsValue
  <1> HIDE DEF Respelt
  <1>2. {v, w} = {Null, Zero} <=> (v = Null /\ w = Zero) \/ (v = Zero /\ w = Null)
    BY <1>1
  <1> QED
    BY <1>1, <1>2 DEF Same, Setting, Canon

(* The server's spelling of a setting is the setting.                      *)
LEMMA CanonSetting ==
  \A v : /\ Setting(Canon(v)) = Setting(v)
         /\ \A w : Canon(v) = Canon(w) => Setting(v) = Setting(w)
         /\ Canon(Canon(v)) = Canon(v)
  <1>1. /\ Respelt(Some) \notin {Null, Zero} \cup Value /\ Some \notin {Null, Zero} /\ Some \in Value
    BY SpecialValues, SomeIsValue
  <1> HIDE DEF Respelt
  <1> QED
    BY <1>1 DEF Setting, Canon

(* The appliance has one spelling of what it holds.                        *)
LEMMA HeldCanon ==
  /\ \A s \in Held \cup {None, Zero} : Canon(s) = s
  /\ ~ kind.spelt => \A v \in Plannable \cup {None} : Canon(v) = v
  BY SpecialValues, SomeIsValue DEF Held, Plain, Canon, Settable, Plannable, Written

-----------------------------------------------------------------------------
(* Responses.                                                              *)

(* A rule that shows makes of a response what View says.                   *)
LEMMA TakenIsView ==
  ASSUME NEW rule \in Showing, NEW s \in Held \cup {Zero}, NEW m, NEW w \in Taken(rule, s, m)
  PROVE  Canon(w) \in View(rule, s)
  <1>1. Canon(s) = s /\ Canon(Zero) = Zero /\ Canon(Null) = Null
    BY HeldCanon, CanonValues
  <1>2. CASE rule = "value"
    BY <1>1, <1>2 DEF Taken, View
  <1>3. CASE rule = "pointer"
    BY <1>1, <1>3 DEF Taken, View
  <1>4. CASE rule = "nullIfZero"
    BY <1>1, <1>4 DEF Taken, View
  <1>5. CASE rule = "keepEquivalent"
    BY <1>1, <1>5 DEF Taken, View
  <1>6. CASE rule = "keepEquivalentOrNull"
    BY <1>1, <1>6 DEF Taken, View
  <1> QED
    BY <1>2, <1>3, <1>4, <1>5, <1>6 DEF Showing

(* What a response shows is the setting.                                   *)
LEMMA ViewSetting ==
  ASSUME NEW rule \in Showing, NEW s \in Held \cup {Zero}, NEW v, Canon(v) \in View(rule, s)
  PROVE  /\ Setting(v) = Setting(s)
         /\ v \notin {None, Unknown}
         /\ s # Null /\ (rule = "nullIfZero" => s # Zero) => Canon(v) = s
         /\ rule = "value" => v # Null
         /\ rule = "keepEquivalent" /\ s # Null => v # Null
  <1>1. Canon(s) = s /\ Canon(Zero) = Zero /\ Canon(Null) = Null /\ Null # Zero
        /\ Canon(None) = None /\ Canon(Unknown) = Unknown
        /\ s \notin {None, Unknown} /\ Null \notin {None, Unknown} /\ Zero \notin {None, Unknown}
    BY HeldCanon, CanonValues, SpecialValues, ValuesApart
  <1>2. Canon(v) \in {s, Zero, Null}
    BY DEF Showing, View
  <1>3. v \notin {None, Unknown}
    BY <1>1, <1>2
  <1>4. /\ rule \in {"value", "pointer", "keepEquivalent", "keepEquivalentOrNull"} /\ s # Null
             => Canon(v) = s
        /\ rule = "nullIfZero" /\ s # Zero => Canon(v) = s
        /\ rule = "nullIfZero" /\ s = Zero => Canon(v) = Null
        /\ s = Null => Canon(v) \in {Null, Zero}
    BY DEF Showing, View
  <1>5. Canon(v) = Null <=> v = Null
    BY CanonValues
  <1>6. rule = "value" => Canon(v) # Null
    BY <1>1 DEF View
  <1>7. Canon(v) = s \/ (Canon(v) \in {Null, Zero} /\ s \in {Null, Zero})
    BY <1>4 DEF Showing
  <1>8. Setting(v) = Setting(s)
    <2>1. Canon(v) = s => Setting(v) = Setting(s)
      BY <1>1, CanonSetting
    <2>2. ASSUME Canon(v) \in {Null, Zero}, s \in {Null, Zero} PROVE Setting(v) = Setting(s)
      BY <1>1, <1>5, <2>2 DEF Setting
    <2> QED
      BY <1>7, <2>1, <2>2
  <1> QED
    BY <1>3, <1>4, <1>5, <1>6, <1>8 DEF Showing

-----------------------------------------------------------------------------
(* Planning.  The modifiers run one after the other: what each of them     *)
(* keeps, all of them keep; and what one of them brings about, and the     *)
(* others keep, holds of the plan.                                         *)

(* What every modifier of the attribute keeps, and what m brings about     *)
(* and every modifier keeps.                                               *)
KeepsAll(Q, prior, owns, moved) ==
  \A p \in Q, x \in Range(kind.modifiers) : Modify(p, x, prior, owns, moved) \in Q

(* The plan of the attribute is in every set that the proposal is in and   *)
(* that the modifiers do not leave; and in a part of it that one modifier  *)
(* leads into.                                                             *)
LEMMA ModifiersKeep ==
  ASSUME KindTyped(kind), NEW prior, NEW owns, NEW moved, NEW Q, NEW R, NEW m,
         Proposed(prior, owns, moved) \in Q,
         KeepsAll(Q, prior, owns, moved),
         m \in Range(kind.modifiers) =>
           /\ R \subseteq Q /\ KeepsAll(R, prior, owns, moved)
           /\ \A p \in Q : Modify(p, m, prior, owns, moved) \in R
  PROVE  \E q \in Q : /\ m \in Range(kind.modifiers) => q \in R
                      /\ Planned(prior, owns, moved) = [q EXCEPT !.replace = @ /\ q.val # prior]
  <1> DEFINE n == Len(kind.modifiers)
             x == kind.modifiers
  <1>1. n \in Nat /\ x \in [1..n -> Modifiers]
    BY DEF KindTyped
  <1>2. PICK after :
          /\ after[0] = Proposed(prior, owns, moved)
          /\ \A i \in 1..n : after[i] = Modify(after[i - 1], x[i], prior, owns, moved)
          /\ Planned(prior, owns, moved)
               = [after[n] EXCEPT !.replace = @ /\ after[n].val # prior]
    BY <1>1, ModifiersRun
  <1>3. /\ \A i \in 1..n : x[i] \in Range(kind.modifiers)
        /\ \A y \in Range(kind.modifiers) : \E i \in 1..n : x[i] = y
    BY <1>1 DEF Range
  <1> HIDE DEF n, x
  <1> DEFINE Good(i) == /\ after[i] \in Q
                        /\ (\E j \in 1..i : x[j] = m) => after[i] \in R
             Bad == {i \in 0..n : ~ Good(i)}
  <1>4. Good(0)
    BY <1>2
  <1>5. ASSUME NEW i \in 1..n, Good(i - 1) PROVE Good(i)
    <2>1. /\ after[i] = Modify(after[i - 1], x[i], prior, owns, moved)
          /\ x[i] \in Range(kind.modifiers)
      BY <1>2, <1>3
    <2>2. after[i] \in Q
      BY <1>5, <2>1 DEF KeepsAll
    <2>3. ASSUME NEW j \in 1..i, x[j] = m PROVE after[i] \in R
      <3>0. m \in Range(kind.modifiers)
        <4>1. j \in 1..n
          BY <1>1
        <4> QED
          BY <1>3, <2>3, <4>1
      <3>1. CASE j = i
        BY <1>5, <2>1, <2>3, <3>0, <3>1
      <3>2. CASE j # i
        <4>1. j \in 1..(i - 1)
          BY <1>1, <3>2
        <4>2. after[i - 1] \in R
          BY <1>5, <2>3, <4>1
        <4> QED
          BY <2>1, <3>0, <4>2 DEF KeepsAll
      <3> QED
        BY <3>1, <3>2
    <2> QED
      BY <2>2, <2>3
  <1>6. Bad = {}
    <2> SUFFICES ASSUME Bad # {} PROVE FALSE
      OBVIOUS
    <2>1. Bad \in SUBSET Nat /\ Bad \subseteq 0..n
      BY <1>1
    <2>2. PICK i \in Bad : \A j \in Bad : i <= j
      <3> HIDE DEF Bad
      <3> QED
        BY <2>1, LeastElement
    <2>3. i \in 0..n /\ ~ Good(i)
      BY <2>2
    <2> HIDE DEF Good
    <2>4. i # 0
      BY <2>3, <1>4
    <2>5. i \in 1..n /\ i - 1 \in 0..n
      BY <2>3, <2>4, <1>1
    <2>6. i - 1 \notin Bad
      <3>1. ~ (i <= i - 1)
        BY <2>5
      <3> HIDE DEF Bad
      <3> QED
        BY <2>2, <3>1
    <2>7. Good(i - 1)
      BY <2>5, <2>6
    <2> QED
      BY <2>3, <2>5, <2>7, <1>5
  <1>7. Good(n)
    <2> HIDE DEF Good
    <2> QED
      BY <1>1, <1>6
  <1>8. m \in Range(kind.modifiers) => \E j \in 1..n : x[j] = m
    BY <1>3
  <1> QED
    BY <1>2, <1>7, <1>8

(* The sequence of modifiers is made of modifiers.                         *)
LEMMA ModifiersTyped == KindTyped(kind) => Range(kind.modifiers) \subseteq Modifiers
  <1> SUFFICES ASSUME KindTyped(kind) PROVE Range(kind.modifiers) \subseteq Modifiers
    OBVIOUS
  <1>1. kind.modifiers \in [1..Len(kind.modifiers) -> Modifiers]
    BY DEF KindTyped
  <1> QED
    BY <1>1 DEF Range

(* A configured value is planned as it is written, or in the spelling the  *)
(* state already has.                                                      *)
AsConfigured == {p \in PlanSoFar : Canon(p.val) = Canon(cfg)}

(* No modifier plans another value than the configured one, and none takes *)
(* a demand to replace or to refuse back.                                  *)
LEMMA ConfiguredStep ==
  ASSUME NEW p \in AsConfigured, NEW m \in Modifiers, NEW prior \in Settable \cup {None},
         NEW owns \in BOOLEAN, NEW moved, cfg \in Configs, cfg # Null, base \in Held
  PROVE  LET q == Modify(p, m, prior, owns, moved) IN
           /\ q \in AsConfigured
           /\ q.val \in {p.val, prior}
           /\ p.replace => q.replace
           /\ p.refuse => q.refuse
           /\ q.replace => \/ p.replace
                           \/ m = "replace" /\ prior # None /\ p.val # prior
                           \/ m = "replaceFromKnown" /\ Known(prior) /\ p.val # prior
                           \/ Known(prior) /\ Canon(cfg) # Canon(prior)
           /\ m = "replace" /\ prior # None => q.replace \/ Canon(prior) = Canon(cfg)
           /\ m \in {"replaceFromKnown", "replaceFromKnownFold", "replaceUnlessEquivalent",
                     "idmapReplace"} /\ Known(prior) => q.replace \/ Canon(prior) = Canon(cfg)
           /\ m = "refuse" /\ Known(prior) => q.refuse \/ Canon(prior) = Canon(cfg)
           /\ m = "keepEquivalent" /\ Known(prior) /\ Canon(prior) = Canon(cfg) => q.val = prior
           /\ p.val = prior => q.val = prior
  <1> DEFINE q == Modify(p, m, prior, owns, moved)
  <1>0. /\ p \in PlanSoFar /\ Canon(p.val) = Canon(cfg) /\ p.val # Unknown /\ p.val # Null
        /\ q \in PlanSoFar
    <2>1. cfg # Unknown /\ Canon(Unknown) = Unknown /\ Canon(Null) = Null
      BY CanonValues, ValuesApart
    <2>2. Canon(cfg) \notin {Unknown, Null}
      BY <2>1, CanonValues
    <2> QED
      BY <2>1, <2>2, ModifyStep DEF AsConfigured
  <1> SUFFICES /\ Canon(q.val) = Canon(cfg)
               /\ q.val \in {p.val, prior}
               /\ p.replace => q.replace
               /\ p.refuse => q.refuse
               /\ q.replace => \/ p.replace
                               \/ m = "replace" /\ prior # None /\ p.val # prior
                               \/ m = "replaceFromKnown" /\ Known(prior) /\ p.val # prior
                               \/ Known(prior) /\ Canon(cfg) # Canon(prior)
               /\ m = "replace" /\ prior # None => q.replace \/ Canon(prior) = Canon(cfg)
               /\ m \in {"replaceFromKnown", "replaceFromKnownFold", "replaceUnlessEquivalent",
                         "idmapReplace"} /\ Known(prior) => q.replace \/ Canon(prior) = Canon(cfg)
               /\ m = "refuse" /\ Known(prior) => q.refuse \/ Canon(prior) = Canon(cfg)
               /\ m = "keepEquivalent" /\ Known(prior) /\ Canon(prior) = Canon(cfg) => q.val = prior
               /\ p.val = prior => q.val = prior
    BY <1>0 DEF AsConfigured
  <1>1. CASE m = "keep"
    BY <1>0, <1>1 DEF Modify, PlanSoFar, UseStateForUnknown
  <1>2. CASE m = "keepUnlessFollowed"
    BY <1>0, <1>2 DEF Modify, PlanSoFar, KeepUnlessFollowed, UseStateForUnknown
  <1>4. CASE m = "keepSettled"
    BY <1>0, <1>4 DEF Modify, PlanSoFar, KeepSettled, KeepUnlessFollowed, UseStateForUnknown
  <1>3. CASE m \in {"unknownIfFollowed", "zeroIfFollowed"}
    BY <1>0, <1>3 DEF Modify, PlanSoFar, IfFollowed
  <1>5. CASE m = "inferredOnCreate"
    BY <1>0, <1>5 DEF Modify, PlanSoFar, InferredOnCreate
  <1>6. CASE m = "keepEquivalent"
    BY <1>0, <1>6 DEF Modify, PlanSoFar, KeepStateIfEquivalent
  <1>7. CASE m = "keepImported"
    BY <1>0, <1>7 DEF Modify, PlanSoFar, KeepImportedIfEquivalent, KeepStateIfEquivalent
  <1>8. CASE m = "refuse"
    BY <1>0, <1>8 DEF Modify, PlanSoFar, RefuseChange
  <1>9. CASE m = "replace"
    BY <1>0, <1>9 DEF Modify, PlanSoFar, RequiresReplace
  <1>10. CASE m = "replaceFromKnown"
    BY <1>0, <1>10 DEF Modify, PlanSoFar, ReplaceFromKnown
  <1>11. CASE m \in {"replaceFromKnownFold", "replaceUnlessEquivalent"}
    BY <1>0, <1>11 DEF Modify, PlanSoFar, ReplaceFromKnownFold
  <1>13. CASE m = "idmapReplace"
    BY <1>0, <1>13 DEF Modify, PlanSoFar, IdmapReplace, ReplaceFromKnownFold
  <1>14. CASE m = "resetWhenUnset"
    BY <1>0, <1>14 DEF Modify, PlanSoFar, ResetWhenUnset
  <1>15. CASE m = "resetIfManaged"
    BY <1>0, <1>15 DEF Modify, PlanSoFar, ResetIfManaged
  <1> QED
    BY <1>1, <1>2, <1>3, <1>4, <1>5, <1>6, <1>7, <1>8, <1>9, <1>10, <1>11, <1>13, <1>14, <1>15
       DEF Modifiers

(* What is proposed for a configured attribute is what is configured.      *)
LEMMA ProposedConfigured ==
  ASSUME KindTyped(kind), NEW prior \in Settable \cup {None}, NEW owns \in BOOLEAN, NEW moved,
         cfg \in Configs, cfg # Null, ~ kind.unseen
  PROVE  /\ Proposed(prior, owns, moved) \in AsConfigured
         /\ Proposed(prior, owns, moved).val = cfg
         /\ Proposed(prior, owns, moved).replace = FALSE
  <1>1. Proposed(prior, owns, moved) \in PlanSoFar
    BY ProposedTyped
  <1> QED
    BY <1>1 DEF Proposed, AsConfigured

(* The modifiers do not plan another value than the configured one.        *)
LEMMA PlannedConfigured ==
  ASSUME KindTyped(kind), NEW prior \in Settable \cup {None}, NEW owns \in BOOLEAN, NEW moved,
         cfg \in Configs, cfg # Null, base \in Held, ~ kind.unseen
  PROVE  Canon(Planned(prior, owns, moved).val) = Canon(cfg)
  <1> DEFINE Q == AsConfigured
  <1>1. KeepsAll(Q, prior, owns, moved)
    BY ModifiersTyped, ConfiguredStep DEF KeepsAll
  <1>2. Proposed(prior, owns, moved) \in Q
    BY ProposedConfigured
  <1>3. \A q \in Q : q \in PlanSoFar /\ Canon(q.val) = Canon(cfg)
    BY DEF AsConfigured
  <1> HIDE DEF Q
  <1>4. PICK q \in Q : Planned(prior, owns, moved) = [q EXCEPT !.replace = @ /\ q.val # prior]
    <2>1. \A p \in Q, m \in Range(kind.modifiers) : Modify(p, m, prior, owns, moved) \in Q
      BY <1>1 DEF KeepsAll
    <2>2. CASE "keep" \in Range(kind.modifiers)
      BY <1>1, <1>2, <2>1, <2>2, ModifiersKeep
    <2>3. CASE "keep" \notin Range(kind.modifiers)
      BY <1>1, <1>2, <2>3, ModifiersKeep
    <2> QED
      BY <2>2, <2>3
  <1> QED
    BY <1>3, <1>4 DEF PlanSoFar

(* Where a change asks for a replacement, or is refused, an update is      *)
(* planned only for an object that has the configured value.               *)
LEMMA PlannedFixed ==
  ASSUME KindTyped(kind), NEW prior \in Settable, NEW owns \in BOOLEAN, NEW moved,
         cfg \in Configs, cfg # Null, base \in Held, ~ kind.unseen,
         NEW m \in Range(kind.modifiers),
         m = "replace" \/ (m \in FixesKnown /\ prior # Null),
         ~ Planned(prior, owns, moved).replace, ~ Planned(prior, owns, moved).refuse
  PROVE  Canon(prior) = Canon(cfg)
  <1> DEFINE Q == AsConfigured
             R == {p \in AsConfigured : p.replace \/ p.refuse \/ Canon(prior) = Canon(cfg)}
  <1>0. prior \in Settable \cup {None} /\ prior # None /\ Range(kind.modifiers) \subseteq Modifiers
    BY ModifiersTyped, ValuesApart DEF Plannable
  <1>1. KeepsAll(Q, prior, owns, moved)
    BY <1>0, ConfiguredStep DEF KeepsAll
  <1>2. Proposed(prior, owns, moved) \in Q
    BY <1>0, ProposedConfigured
  <1>3. KeepsAll(R, prior, owns, moved)
    BY <1>0, ConfiguredStep DEF KeepsAll
  <1>4. \A p \in Q : Modify(p, m, prior, owns, moved) \in R
    BY <1>0, ConfiguredStep DEF FixesKnown, Known
  <1>5. /\ R \subseteq Q /\ \A q \in Q : q \in PlanSoFar /\ Canon(q.val) = Canon(cfg)
        /\ \A q \in R : q.replace \/ q.refuse \/ Canon(prior) = Canon(cfg)
    BY DEF AsConfigured
  <1> HIDE DEF Q, R
  <1>6. PICK q \in Q : /\ q \in R
                       /\ Planned(prior, owns, moved) = [q EXCEPT !.replace = @ /\ q.val # prior]
    BY <1>1, <1>2, <1>3, <1>4, <1>5, ModifiersKeep
  <1>7. q \in PlanSoFar /\ Canon(q.val) = Canon(cfg) /\ (q.replace \/ q.refuse \/ Canon(prior) = Canon(cfg))
    BY <1>5, <1>6
  <1>8. ~ q.refuse /\ ~ (q.replace /\ q.val # prior)
    BY <1>6, <1>7 DEF PlanSoFar
  <1> QED
    BY <1>7, <1>8

(* A state that has the configured value in another spelling keeps it.     *)
LEMMA PlannedEquivalent ==
  ASSUME KindTyped(kind), NEW prior \in Settable, NEW owns \in BOOLEAN, NEW moved,
         cfg \in Configs, cfg # Null, base \in Held, ~ kind.unseen,
         "keepEquivalent" \in Range(kind.modifiers), prior # Null, Canon(prior) = Canon(cfg)
  PROVE  /\ Planned(prior, owns, moved).val = prior
         /\ ~ Planned(prior, owns, moved).replace
  <1> DEFINE Q == AsConfigured
             R == {p \in AsConfigured : p.val = prior}
             m == "keepEquivalent"
  <1>0. prior \in Settable \cup {None} /\ prior # None /\ Range(kind.modifiers) \subseteq Modifiers
    BY ModifiersTyped, ValuesApart DEF Plannable
  <1>1. KeepsAll(Q, prior, owns, moved)
    BY <1>0, ConfiguredStep DEF KeepsAll
  <1>2. Proposed(prior, owns, moved) \in Q
    BY <1>0, ProposedConfigured
  <1>3. KeepsAll(R, prior, owns, moved)
    BY <1>0, ConfiguredStep DEF KeepsAll
  <1>4. \A p \in Q : Modify(p, m, prior, owns, moved) \in R
    BY <1>0, ConfiguredStep DEF Known
  <1>5. R \subseteq Q /\ \A q \in R : q \in PlanSoFar /\ q.val = prior
    BY DEF AsConfigured
  <1> HIDE DEF Q, R
  <1>6. PICK q \in Q : /\ q \in R
                       /\ Planned(prior, owns, moved) = [q EXCEPT !.replace = @ /\ q.val # prior]
    BY <1>1, <1>2, <1>3, <1>4, <1>5, ModifiersKeep
  <1>7. q \in PlanSoFar /\ q.val = prior
    BY <1>5, <1>6
  <1> QED
    BY <1>6, <1>7 DEF PlanSoFar

(* An object that has the configured value is not to be replaced, unless   *)
(* a modifier compares what is written rather than what it means.          *)
LEMMA PlannedInPlace ==
  ASSUME KindTyped(kind), NEW prior \in Settable, NEW owns \in BOOLEAN, NEW moved,
         cfg \in Configs, cfg # Null, base \in Held, ~ kind.unseen,
         prior # Null => Canon(prior) = Canon(cfg),
         "replace" \in Range(kind.modifiers) => prior = cfg,
         "replaceFromKnown" \in Range(kind.modifiers) /\ prior # Null => prior = cfg
  PROVE  ~ Planned(prior, owns, moved).replace
  <1> DEFINE Q == {p \in AsConfigured : p.replace = FALSE /\ p.val \in {cfg, prior}}
  <1>0. prior \in Settable \cup {None} /\ prior # None /\ Range(kind.modifiers) \subseteq Modifiers
    BY ModifiersTyped, ValuesApart DEF Plannable
  <1>1. ASSUME NEW p \in Q, NEW m \in Range(kind.modifiers)
        PROVE  Modify(p, m, prior, owns, moved) \in Q
    <2> DEFINE q == Modify(p, m, prior, owns, moved)
    <2>1. m \in Modifiers /\ p \in AsConfigured /\ p.replace = FALSE /\ p.val \in {cfg, prior}
      BY <1>0
    <2>2. /\ q \in AsConfigured
          /\ q.val \in {p.val, prior}
          /\ q.replace => \/ p.replace
                          \/ m = "replace" /\ prior # None /\ p.val # prior
                          \/ m = "replaceFromKnown" /\ Known(prior) /\ p.val # prior
                          \/ Known(prior) /\ Canon(cfg) # Canon(prior)
      BY <1>0, <2>1, ConfiguredStep
    <2>3. ~ q.replace
      BY <2>1, <2>2 DEF Known
    <2>4. q.replace \in BOOLEAN
      BY <2>2 DEF AsConfigured, PlanSoFar
    <2> QED
      BY <2>1, <2>2, <2>3, <2>4
  <1>2. Proposed(prior, owns, moved) \in Q
    BY <1>0, ProposedConfigured
  <1>3. \A q \in Q : q \in PlanSoFar /\ q.replace = FALSE
    BY DEF AsConfigured
  <1> HIDE DEF Q
  <1>4. KeepsAll(Q, prior, owns, moved)
    BY <1>1 DEF KeepsAll
  <1>5. PICK q \in Q : Planned(prior, owns, moved) = [q EXCEPT !.replace = @ /\ q.val # prior]
    BY <1>1, <1>2, <1>4, ModifiersKeep
  <1> QED
    BY <1>3, <1>5 DEF PlanSoFar

(* A modifier does not touch a planned reset; and the private data says    *)
(* whether the attribute is configured.                                    *)
LEMMA ResetStep ==
  ASSUME NEW p \in PlanSoFar, NEW m \in Modifiers, NEW prior \in Settable \cup {None},
         NEW owns \in BOOLEAN, NEW moved, cfg \in Configs, base \in Held
  PROVE  LET q == Modify(p, m, prior, owns, moved) IN
           /\ q \in PlanSoFar
           /\ m \in Resets => q.mark = (cfg # Null)
           /\ p.mark = (cfg # Null) => q.mark = (cfg # Null)
           /\ cfg = Null /\ owns /\ prior # None =>
                /\ m \in Resets => q.val = ServerDefault
                /\ m \notin Followers /\ p.val = ServerDefault => q.val = ServerDefault
  <1> DEFINE q == Modify(p, m, prior, owns, moved)
  <1>0. q \in PlanSoFar /\ ServerDefault # Unknown
    BY ModifyStep, ServerDefaultIsSettable, ValuesApart
  <1> SUFFICES /\ m \in Resets => q.mark = (cfg # Null)
               /\ p.mark = (cfg # Null) => q.mark = (cfg # Null)
               /\ cfg = Null /\ owns /\ prior # None =>
                    /\ m \in Resets => q.val = ServerDefault
                    /\ m \notin Followers /\ p.val = ServerDefault => q.val = ServerDefault
    BY <1>0
  <1>1. CASE m \in {"keep", "keepUnlessFollowed", "keepSettled"}
    BY <1>0, <1>1 DEF Modify, PlanSoFar, KeepSettled, KeepUnlessFollowed, UseStateForUnknown, Resets
  <1>2. CASE m \in Followers
    BY <1>2 DEF Modify, PlanSoFar, IfFollowed, Resets, Followers
  <1>3. CASE m = "inferredOnCreate"
    BY <1>3 DEF Modify, PlanSoFar, InferredOnCreate, Resets
  <1>4. CASE m \in {"keepEquivalent", "keepImported"}
    BY <1>4 DEF Modify, PlanSoFar, KeepImportedIfEquivalent, KeepStateIfEquivalent, Resets
  <1>5. CASE m \in {"refuse", "replace", "replaceFromKnown"}
    BY <1>5 DEF Modify, PlanSoFar, RefuseChange, RequiresReplace, ReplaceFromKnown, Resets
  <1>6. CASE m \in {"replaceFromKnownFold", "replaceUnlessEquivalent", "idmapReplace"}
    BY <1>6 DEF Modify, PlanSoFar, ReplaceFromKnownFold, IdmapReplace, Resets
  <1>7. CASE m = "resetWhenUnset"
    BY <1>7 DEF Modify, PlanSoFar, ResetWhenUnset, Resets
  <1>8. CASE m = "resetIfManaged"
    BY <1>8 DEF Modify, PlanSoFar, ResetIfManaged, Resets
  <1> QED
    BY <1>1, <1>2, <1>3, <1>4, <1>5, <1>6, <1>7, <1>8 DEF Modifiers, Followers

(* A value that Terraform owns and that is no longer configured is planned *)
(* as the server's default; and the private data that goes with a plan     *)
(* says whether the attribute is configured.                               *)
LEMMA PlannedReset ==
  ASSUME KindTyped(kind), NEW prior \in Settable \cup {None}, NEW owns \in BOOLEAN, NEW moved,
         cfg \in Configs, base \in Held, NEW m \in Range(kind.modifiers), m \in Resets
  PROVE  /\ Planned(prior, owns, moved).mark = (cfg # Null)
         /\ cfg = Null /\ owns /\ prior # None /\ Range(kind.modifiers) \cap Followers = {}
              => Planned(prior, owns, moved).val = ServerDefault
  <1> DEFINE Q == PlanSoFar
             R == {p \in PlanSoFar :
                     /\ p.mark = (cfg # Null)
                     /\ cfg = Null /\ owns /\ prior # None /\ Range(kind.modifiers) \cap Followers = {}
                          => p.val = ServerDefault}
  <1>0. Range(kind.modifiers) \subseteq Modifiers
    BY ModifiersTyped
  <1>1. KeepsAll(Q, prior, owns, moved)
    BY <1>0, ResetStep DEF KeepsAll
  <1>2. Proposed(prior, owns, moved) \in Q
    BY ProposedTyped
  <1>3. ASSUME NEW p \in R, NEW x \in Range(kind.modifiers)
        PROVE  Modify(p, x, prior, owns, moved) \in R
    <2>1. Range(kind.modifiers) \cap Followers = {} => x \notin Followers
      OBVIOUS
    <2>2. p \in PlanSoFar /\ x \in Modifiers
      BY <1>0
    <2> QED
      BY <2>1, <2>2, ResetStep
  <1>4. \A p \in Q : Modify(p, m, prior, owns, moved) \in R
    BY <1>0, ResetStep
  <1>5. R \subseteq Q
    OBVIOUS
  <1>6. \A q \in R : /\ q \in PlanSoFar /\ q.mark = (cfg # Null)
                     /\ cfg = Null /\ owns /\ prior # None /\ Range(kind.modifiers) \cap Followers = {}
                          => q.val = ServerDefault
    OBVIOUS
  <1> HIDE DEF Q, R
  <1>7. PICK q \in Q : /\ q \in R
                       /\ Planned(prior, owns, moved) = [q EXCEPT !.replace = @ /\ q.val # prior]
    <2>1. KeepsAll(R, prior, owns, moved)
      BY <1>3 DEF KeepsAll
    <2> QED
      BY <1>1, <1>2, <1>4, <1>5, <2>1, ModifiersKeep
  <1>8. /\ Planned(prior, owns, moved).mark = q.mark /\ Planned(prior, owns, moved).val = q.val
    BY <1>6, <1>7 DEF PlanSoFar
  <1> QED
    BY <1>6, <1>7, <1>8

-----------------------------------------------------------------------------
(* Payloads.                                                               *)

(* A known value is sent, as null where it is zero and the rule says so.   *)
LEMMA SentForwards ==
  ASSUME NEW rule \in Forwarding, NEW v \in Settable, v # Null, NEW old, NEW set,
         NEW c \in Sent(rule, v, old, set)
  PROVE  c # Omit /\ Setting(c) = Setting(v)
  <1>1. v # Unknown /\ v # Omit /\ Null # Omit /\ Zero # Null /\ v \notin Unset
    BY ValuesApart, SpecialValues DEF Plannable, Unset
  <1>2. Canon(Zero) = Zero
    BY HeldCanon
  <1>3. c = v \/ (v = Zero /\ c = Null)
    <2>1. CASE rule \in {"always", "known"}
      BY <1>1, <2>1 DEF Sent
    <2>2. CASE rule \in {"nullable", "nil"}
      BY <1>1, <2>2 DEF Sent
    <2>3. CASE rule \in {"nilZero", "knownNilZero"}
      BY <1>1, <2>3 DEF Sent
    <2>4. CASE rule \in {"emptyIsNil", "unlessUnknown"}
      BY <1>1, <2>4 DEF Sent
    <2>5. CASE rule = "knownOrImplied"
      BY <1>1, <2>5 DEF Sent
    <2> QED
      BY <2>1, <2>2, <2>3, <2>4, <2>5 DEF Forwarding
  <1> QED
    BY <1>1, <1>2, <1>3 DEF Setting

(* A configured value and what is planned of it.                           *)
LEMMA ConfiguredValue ==
  ASSUME cfg \in Configs, cfg # Null, NEW v \in Plannable, Canon(v) = Canon(cfg)
  PROVE  /\ v \in Settable /\ v # Null /\ v # Unknown /\ v \notin Unset /\ Setting(v) = Setting(cfg)
         /\ cfg \in Settable /\ cfg # Omit /\ v # Omit
         /\ ~ kind.zero => v # Zero
  <1>1. cfg \in Settable /\ cfg \notin {Unknown, None, Omit} /\ v \notin {None, Omit}
    BY ValuesApart DEF Plannable
  <1>2. v \notin {Unknown, Null}
    BY <1>1, CanonValues
  <1>3. ~ kind.zero => cfg # Zero
    BY SpecialValues DEF Configs, Written, Plain
  <1>4. v = Zero => cfg = Zero
    BY CanonValues, HeldCanon
  <1> QED
    BY <1>1, <1>2, <1>3, <1>4, CanonSetting DEF Plannable, Unset

(* The configured value is sent.                                           *)
LEMMA SentDelivers ==
  ASSUME NEW rule \in Delivering(kind), NEW v \in Plannable, NEW old,
         cfg \in Configs, cfg # Null, Canon(v) = Canon(cfg), NEW c \in Sent(rule, v, old, cfg)
  PROVE  c # Omit /\ Setting(c) = Setting(cfg)
  <1>1. /\ v \in Settable /\ v # Null /\ v # Unknown /\ v \notin Unset /\ Setting(v) = Setting(cfg)
        /\ cfg # Omit /\ v # Omit /\ (~ kind.zero => v # Zero)
    BY ConfiguredValue
  <1>2. CASE rule \in Forwarding
    BY <1>1, <1>2, SentForwards
  <1>3. CASE rule \in {"configured", "cannotClear"}
    BY <1>1, <1>3 DEF Sent
  <1>4. CASE rule = "nonzero" /\ ~ kind.zero
    BY <1>1, <1>4 DEF Sent
  <1>5. rule \in Forwarding \/ rule \in {"configured", "cannotClear"} \/ (rule = "nonzero" /\ ~ kind.zero)
    BY DEF Delivering
  <1> QED
    BY <1>2, <1>3, <1>4, <1>5

(* The configured value is sent, or is what the state has.                 *)
LEMMA SentCompares ==
  ASSUME NEW rule \in Comparing(kind), NEW v \in Plannable, NEW old,
         cfg \in Configs, cfg # Null, Canon(v) = Canon(cfg), NEW c \in Sent(rule, v, old, cfg)
  PROVE  IF c = Omit THEN Canon(v) = Canon(old) ELSE Setting(c) = Setting(cfg)
  <1>1. /\ v # Null /\ v # Unknown /\ v \notin Unset /\ Setting(v) = Setting(cfg)
        /\ v # Omit /\ (~ kind.zero => v # Zero)
    BY ConfiguredValue
  <1>2. Canon(Zero) = Zero /\ Null # Omit /\ Zero # Null /\ Setting(Null) = Setting(Zero)
    BY HeldCanon, SpecialValues DEF Setting
  <1>3. \/ c = v \/ (v = Zero /\ c = Null)
        \/ c = Omit /\ Canon(v) = Canon(old)
    <2>1. CASE rule = "changed"
      BY <1>1, <2>1 DEF Sent
    <2>2. CASE rule \in {"nilZeroChanged", "knownNilZeroChanged"}
      BY <1>1, <2>2 DEF Sent
    <2>3. CASE rule \in {"unlessAllSame", "changedOrFollowed"}
      BY <1>1, <2>3 DEF Sent
    <2>4. CASE rule \in {"nonzeroChanged", "setOnly"} /\ ~ kind.zero
      BY <1>1, <2>4 DEF Sent
    <2> QED
      BY <2>1, <2>2, <2>3, <2>4 DEF Comparing
  <1> QED
    BY <1>1, <1>2, <1>3

(* Nothing is sent of an attribute that is neither configured nor known.   *)
LEMMA SentSilent ==
  ASSUME NEW rule \in Silent, NEW old, cfg = Null, NEW c \in Sent(rule, Unknown, old, cfg)
  PROVE  c = Omit
  <1>1. Unknown \in Unset
    BY DEF Unset
  <1>2. CASE rule \in {"none", "known", "nullable", "nonzero"}
    BY <1>1, <1>2 DEF Sent
  <1>3. CASE rule \in {"knownNilZero", "emptyIsNil", "unlessUnknown"}
    BY <1>1, <1>3 DEF Sent
  <1>4. CASE rule \in {"configured", "cannotClear"}
    BY <1>4 DEF Sent
  <1>5. CASE rule \in {"setOnly", "unlessAllSame"}
    BY <1>1, <1>5 DEF Sent
  <1>6. CASE rule \in {"changed", "nonzeroChanged", "knownNilZeroChanged", "upgrade"}
    BY <1>1, <1>6 DEF Sent
  <1> QED
    BY <1>2, <1>3, <1>4, <1>5, <1>6 DEF Silent

(* Of an attribute that is not configured and keeps the state's value,     *)
(* that value is sent, or nothing.                                         *)
LEMMA SentSpares ==
  ASSUME NEW rule \in Sparing, NEW old \in Settable, cfg = Null, NEW c \in Sent(rule, old, old, cfg)
  PROVE  c = Omit \/ Setting(c) = Setting(old)
  <1>1. old # Unknown /\ old # None /\ Canon(Zero) = Zero /\ Zero # Null
    BY ValuesApart, HeldCanon, SpecialValues DEF Plannable
  <1>2. Setting(Null) = Setting(Zero)
    BY <1>1 DEF Setting
  <1>3. c \in {Omit, old} \/ (old \in {Null, Zero} /\ c \in {Null, Zero})
    <2>1. CASE rule \in {"none", "always", "known", "nullable", "nil"}
      BY <1>1, <2>1 DEF Sent, Unset
    <2>2. CASE rule \in {"nonzero", "nilZero", "knownNilZero", "emptyIsNil", "unlessUnknown"}
      BY <1>1, <2>2 DEF Sent, Unset
    <2>3. CASE rule \in {"configured", "cannotClear"}
      BY <2>3 DEF Sent
    <2>4. CASE rule \in {"setOnly", "unlessAllSame"}
      BY <1>1, <2>4 DEF Sent, Unset
    <2>5. CASE rule \in {"changed", "nonzeroChanged", "nilZeroChanged", "knownNilZeroChanged",
                         "upgrade"}
      BY <1>1, <2>5 DEF Sent, Unset
    <2> QED
      BY <2>1, <2>2, <2>3, <2>4, <2>5 DEF Sparing, Silent
  <1> QED
    BY <1>2, <1>3

(* An unknown value may be sent as zero, or as null.                       *)
LEMMA SentZeroes ==
  ASSUME NEW rule \in Zeroing, NEW old, NEW set, NEW c \in Sent(rule, Unknown, old, set)
  PROVE  c = Omit \/ Setting(c) = Zero
  <1>1. Unknown \in Unset /\ Canon(Zero) = Zero
    BY HeldCanon DEF Unset
  <1>2. Setting(Zero) = Zero /\ Setting(Null) = Zero
    BY <1>1 DEF Setting
  <1>3. c \in {Omit, Null, Zero}
    BY <1>1 DEF Zeroing, Sent
  <1> QED
    BY <1>2, <1>3

(* What the provider implies of an unknown value is a value.               *)
LEMMA SentImplies ==
  ASSUME NEW old, NEW set, NEW c \in Sent("knownOrImplied", Unknown, old, set)
  PROVE  c \in {Omit, Some}
  BY DEF Sent, Unset

-----------------------------------------------------------------------------
(* Plans for an attribute that is not configured.                          *)

(* What every modifier keeps holds of the plan.                            *)
LEMMA ModifiersStay ==
  ASSUME KindTyped(kind), NEW prior, NEW owns, NEW moved, NEW Q,
         Proposed(prior, owns, moved) \in Q, KeepsAll(Q, prior, owns, moved)
  PROVE  \E q \in Q : Planned(prior, owns, moved) = [q EXCEPT !.replace = @ /\ q.val # prior]
  <1>1. \A p \in Q, m \in Range(kind.modifiers) : Modify(p, m, prior, owns, moved) \in Q
    BY DEF KeepsAll
  <1>2. CASE "keep" \in Range(kind.modifiers)
    BY <1>1, <1>2, ModifiersKeep
  <1>3. CASE "keep" \notin Range(kind.modifiers)
    BY <1>3, ModifiersKeep
  <1> QED
    BY <1>2, <1>3

(* A schema or a modifier that plans a value by itself: a default, one     *)
(* inferred for a new object, one that goes back to the server's default   *)
(* or to zero.                                                             *)
Implied(prior) ==
  kind.default # "none"
    \/ Has(IF prior = None THEN {"inferredOnCreate"} ELSE Resets \cup {"zeroIfFollowed"})

(* What may be planned: nothing yet, the state's value, null where nothing *)
(* else provides a value, or what is implied.                              *)
Unconfigured(prior) ==
  {Unknown} \cup ({prior} \ {None})
    \cup (IF kind.computed \/ kind.default # "none" THEN {} ELSE {Null})
    \cup (IF Implied(prior) THEN Settable \ {Null} ELSE {})

(* No modifier plans anything else.                                        *)
LEMMA UnsetStep ==
  ASSUME NEW p \in PlanSoFar, NEW m \in Range(kind.modifiers), m \in Modifiers,
         NEW prior \in Settable \cup {None}, NEW owns \in BOOLEAN, NEW moved,
         cfg \in Configs, cfg = Null, base \in Held, prior = None => ~ owns,
         p.val \in Unconfigured(prior)
  PROVE  LET q == Modify(p, m, prior, owns, moved) IN
           q \in PlanSoFar /\ q.val \in Unconfigured(prior)
  <1> DEFINE q == Modify(p, m, prior, owns, moved)
  <1>0. /\ q \in PlanSoFar /\ Unknown \in Unconfigured(prior)
        /\ prior # None => prior \in Unconfigured(prior)
    BY ModifyStep DEF Unconfigured
  <1>1. Zero \in Settable \ {Null} /\ Some \in Settable \ {Null} /\ ServerDefault \in Settable \ {Null}
    BY SpecialValues, SomeIsValue, ServerDefaultIsSettable DEF ServerDefault, Settable
  <1>2. \A v \in Settable \ {Null} : Implied(prior) => v \in Unconfigured(prior)
    BY DEF Unconfigured
  <1> SUFFICES q.val \in Unconfigured(prior)
    BY <1>0
  <1>3. CASE m \in {"keep", "keepUnlessFollowed", "keepSettled"}
    BY <1>0, <1>3 DEF Modify, PlanSoFar, KeepSettled, KeepUnlessFollowed, UseStateForUnknown
  <1>4. CASE m = "unknownIfFollowed"
    BY <1>0, <1>4 DEF Modify, PlanSoFar, IfFollowed
  <1>5. CASE m = "zeroIfFollowed"
    <2>1. prior # None => Implied(prior)
      BY <1>5 DEF Implied, Has
    <2> QED
      BY <1>1, <1>2, <1>5, <2>1 DEF Modify, PlanSoFar, IfFollowed
  <1>6. CASE m = "inferredOnCreate"
    <2>1. prior = None => Implied(prior)
      BY <1>6 DEF Implied, Has
    <2> QED
      BY <1>1, <1>2, <1>6, <2>1 DEF Modify, PlanSoFar, InferredOnCreate
  <1>7. CASE m \in {"keepEquivalent", "keepImported"}
    BY <1>7 DEF Modify, PlanSoFar, KeepImportedIfEquivalent, KeepStateIfEquivalent
  <1>8. CASE m \in {"refuse", "replace", "replaceFromKnown"}
    BY <1>8 DEF Modify, PlanSoFar, RefuseChange, RequiresReplace, ReplaceFromKnown
  <1>9. CASE m \in {"replaceFromKnownFold", "replaceUnlessEquivalent", "idmapReplace"}
    BY <1>9 DEF Modify, PlanSoFar, ReplaceFromKnownFold, IdmapReplace
  <1>10. CASE m \in Resets
    <2>1. prior # None => Implied(prior)
      BY <1>10 DEF Implied, Has, Resets
    <2>2. CASE m = "resetWhenUnset"
      BY <1>0, <1>1, <1>2, <2>1, <2>2 DEF Modify, PlanSoFar, ResetWhenUnset, Known
    <2>3. CASE m = "resetIfManaged"
      BY <1>1, <1>2, <2>1, <2>3 DEF Modify, PlanSoFar, ResetIfManaged
    <2> QED
      BY <1>10, <2>2, <2>3 DEF Resets
  <1> QED
    BY <1>3, <1>4, <1>5, <1>6, <1>7, <1>8, <1>9, <1>10 DEF Modifiers, Resets

(* Nothing else is planned of an attribute that is not configured.         *)
LEMMA PlannedUnset ==
  ASSUME KindTyped(kind), NEW prior \in Settable \cup {None}, NEW owns \in BOOLEAN, NEW moved,
         cfg \in Configs, cfg = Null, base \in Held, prior = None => ~ owns, ~ kind.unseen
  PROVE  Planned(prior, owns, moved).val \in Unconfigured(prior)
  <1> DEFINE Q == {p \in PlanSoFar : p.val \in Unconfigured(prior)}
  <1>1. KeepsAll(Q, prior, owns, moved)
    BY ModifiersTyped, UnsetStep DEF KeepsAll
  <1>2. Proposed(prior, owns, moved) \in Q
    <2> DEFINE p == Proposed(prior, owns, moved)
    <2>1. p \in PlanSoFar
      BY ProposedTyped
    <2>2. CASE kind.default # "none"
      <3>1. Zero \in Settable \ {Null} /\ Some \in Settable \ {Null}
        BY SpecialValues, SomeIsValue DEF Settable
      <3>2. p.val \in {Zero, Some}
        BY <2>2 DEF Proposed
      <3> QED
        BY <2>1, <2>2, <3>1, <3>2 DEF Unconfigured, Implied
    <2>3. CASE kind.default = "none" /\ kind.computed
      <3>1. p.val = Unknown \/ (prior # None /\ p.val = prior)
        BY <2>3 DEF Proposed
      <3> QED
        BY <2>1, <3>1 DEF Unconfigured
    <2>4. CASE kind.default = "none" /\ ~ kind.computed
      <3>1. p.val = Null
        BY <2>4 DEF Proposed
      <3> QED
        BY <2>1, <2>4, <3>1 DEF Unconfigured
    <2> QED
      BY <2>2, <2>3, <2>4
  <1>3. \A q \in Q : q \in PlanSoFar /\ q.val \in Unconfigured(prior)
    OBVIOUS
  <1> HIDE DEF Q
  <1>4. PICK q \in Q : Planned(prior, owns, moved) = [q EXCEPT !.replace = @ /\ q.val # prior]
    BY <1>1, <1>2, ModifiersStay
  <1> QED
    BY <1>3, <1>4 DEF PlanSoFar

-----------------------------------------------------------------------------
(* Plans that change nothing.                                              *)

(* A state that has the configured value as it is written keeps it.        *)
LEMMA PlannedWritten ==
  ASSUME KindTyped(kind), NEW prior \in Settable, NEW owns \in BOOLEAN, NEW moved,
         cfg \in Configs, cfg # Null, base \in Held, ~ kind.unseen, prior = cfg
  PROVE  Planned(prior, owns, moved).val = prior
  <1> DEFINE Q == {p \in AsConfigured : p.val = prior}
  <1>0. prior \in Settable \cup {None}
    OBVIOUS
  <1>1. KeepsAll(Q, prior, owns, moved)
    BY <1>0, ModifiersTyped, ConfiguredStep DEF KeepsAll
  <1>2. Proposed(prior, owns, moved) \in Q
    BY <1>0, ProposedConfigured
  <1>3. \A q \in Q : q \in PlanSoFar /\ q.val = prior
    BY DEF AsConfigured
  <1> HIDE DEF Q
  <1>4. PICK q \in Q : Planned(prior, owns, moved) = [q EXCEPT !.replace = @ /\ q.val # prior]
    BY <1>1, <1>2, ModifiersStay
  <1> QED
    BY <1>3, <1>4 DEF PlanSoFar

(* A computed attribute that is not configured keeps the state's value,    *)
(* when nothing else changes and Terraform does not own the value.         *)
LEMMA PlannedQuiet ==
  ASSUME KindTyped(kind), NEW prior \in Settable, NEW owns \in BOOLEAN,
         cfg \in Configs, cfg = Null, base \in Held, ~ kind.unseen,
         kind.computed, kind.default = "none", Managed => ~ owns
  PROVE  Planned(prior, owns, "none").val = prior
  <1> DEFINE Q == {p \in PlanSoFar : p.val = prior}
  <1>0. prior \in Settable \cup {None} /\ prior # None /\ prior # Unknown
    BY ValuesApart DEF Plannable
  <1>1. ASSUME NEW p \in Q, NEW m \in Range(kind.modifiers)
        PROVE  Modify(p, m, prior, owns, "none").val = prior
    <2>0. m \in Modifiers /\ p \in PlanSoFar /\ p.val = prior
      BY ModifiersTyped
    <2>1. CASE m \in {"keep", "keepUnlessFollowed", "keepSettled"}
      BY <1>0, <2>0, <2>1 DEF Modify, PlanSoFar, KeepSettled, KeepUnlessFollowed, UseStateForUnknown
    <2>2. CASE m \in {"unknownIfFollowed", "zeroIfFollowed"}
      BY <2>0, <2>2 DEF Modify, PlanSoFar, IfFollowed
    <2>3. CASE m \in {"inferredOnCreate", "keepEquivalent", "keepImported"}
      BY <1>0, <2>0, <2>3
         DEF Modify, PlanSoFar, InferredOnCreate, KeepImportedIfEquivalent, KeepStateIfEquivalent
    <2>4. CASE m \in {"refuse", "replace", "replaceFromKnown"}
      BY <2>0, <2>4 DEF Modify, PlanSoFar, RefuseChange, RequiresReplace, ReplaceFromKnown
    <2>5. CASE m \in {"replaceFromKnownFold", "replaceUnlessEquivalent", "idmapReplace"}
      BY <2>0, <2>5 DEF Modify, PlanSoFar, ReplaceFromKnownFold, IdmapReplace
    <2>6. CASE m \in Resets
      <3>1. ~ owns
        BY <2>6 DEF Managed, Has, Resets
      <3> QED
        BY <2>0, <2>6, <3>1 DEF Modify, PlanSoFar, ResetWhenUnset, ResetIfManaged, Resets
    <2> QED
      BY <2>0, <2>1, <2>2, <2>3, <2>4, <2>5, <2>6 DEF Modifiers, Resets
  <1>2. \A p \in Q, m \in Range(kind.modifiers) :
          p \in PlanSoFar /\ m \in Modifiers /\ Modify(p, m, prior, owns, "none") \in PlanSoFar
    BY <1>0, ModifiersTyped, ModifyStep
  <1>3. Proposed(prior, owns, "none") \in PlanSoFar /\ Proposed(prior, owns, "none").val = prior
    <2>1. Proposed(prior, owns, "none") \in PlanSoFar
      BY <1>0, ProposedTyped
    <2> QED
      BY <1>0, <2>1 DEF Proposed
  <1>4. Proposed(prior, owns, "none") \in Q /\ KeepsAll(Q, prior, owns, "none")
    BY <1>1, <1>2, <1>3 DEF KeepsAll
  <1>5. \A q \in Q : q \in PlanSoFar /\ q.val = prior
    OBVIOUS
  <1> HIDE DEF Q
  <1>6. PICK q \in Q : Planned(prior, owns, "none") = [q EXCEPT !.replace = @ /\ q.val # prior]
    BY <1>4, ModifiersStay
  <1> QED
    BY <1>5, <1>6 DEF PlanSoFar
=============================================================================

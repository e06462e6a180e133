-------------------------- MODULE LifecycleProofs --------------------------
EXTENDS Lifecycle, WellFoundedInduction, TLAPS

-----------------------------------------------------------------------------
(* Values.                                                                 *)

(* What a state can hold of an attribute, and what a plan or a model can.  *)
Settable == Written \cup {Null, Zero, Some}
Plannable == Settable \cup {Unknown}

(* A set of values has a member to choose.                                 *)
LEMMA SomeIsValue == Some \in Value
  BY SpecialValues DEF Some

(* The special values are apart from the values an attribute can have.     *)
LEMMA ValuesApart ==
  /\ None \notin Plannable /\ Unknown \notin Settable /\ Omit \notin Plannable
  /\ None \notin Held /\ Unknown \notin Held /\ Null \notin Plain
  /\ Held \subseteq Settable /\ Configs \subseteq Settable /\ Plain \subseteq Held
  BY SpecialValues, SomeIsValue DEF Settable, Plannable, Written, Plain, Held, Configs

(* The server's spelling of a value is a value it can hold.                *)
LEMMA CanonValues ==
  /\ \A v \in Settable : v # Null => Canon(v) \in Plain \cup {Zero, Some}
  /\ \A v : Canon(v) \in {Null, Unknown, None, Zero} => Canon(v) = v
  /\ Canon(Null) = Null /\ Canon(Unknown) = Unknown /\ Canon(None) = None
  BY SpecialValues, SomeIsValue DEF Canon, Settable, Written, Plain

-----------------------------------------------------------------------------
(* The least-number principle, by which the proofs about the sequence of   *)
(* modifiers argue: the library's induction theorems take the predicate as *)
(* an operator, this one takes the set of counterexamples.                 *)
LEMMA LeastElement ==
  ASSUME NEW S \in SUBSET Nat, S # {}
  PROVE  \E x \in S : \A y \in S : x <= y
  <1>1. PICK x \in S : \A y \in S : ~ (<<y, x>> \in OpToRel(<, Nat))
    BY NatLessThanWellFounded, WFMin DEF OpToRel
  <1>2. \A y \in S : ~ (y < x)
    BY <1>1 DEF OpToRel
  <1> QED
    BY <1>2

-----------------------------------------------------------------------------
(* Planning: what the modifiers make of a plan, one after the other.       *)

(* A recursive function over 0..n exists.                                  *)
LEMMA ModifiersRun ==
  ASSUME NEW prior, NEW owns, NEW moved, Len(kind.modifiers) \in Nat
  PROVE  \E after :
           /\ after[0] = Proposed(prior, owns, moved)
           /\ \A i \in 1..Len(kind.modifiers) :
                after[i] = Modify(after[i - 1], kind.modifiers[i], prior, owns, moved)
           /\ Planned(prior, owns, moved)
                = [after[Len(kind.modifiers)] EXCEPT !.replace =
                     @ /\ after[Len(kind.modifiers)].val # prior]
  <1> DEFINE n == Len(kind.modifiers)
             Next1(f, i) == Modify(f, kind.modifiers[i], prior, owns, moved)
             Fn(f, k) == f = [i \in 0..k |-> IF i = 0 THEN Proposed(prior, owns, moved)
                                             ELSE Next1(f[i - 1], i)]
             Missing == {k \in Nat : ~ \E f : Fn(f, k)}
  <1>1. Missing = {}
    <2> SUFFICES ASSUME Missing # {} PROVE FALSE
      OBVIOUS
    <2>1. PICK k \in Missing : \A j \in Missing : k <= j
      <3>1. Missing \in SUBSET Nat
        OBVIOUS
      <3> HIDE DEF Missing
      <3> QED
        BY <3>1, LeastElement
    <2> HIDE DEF Next1
    <2>2. CASE k = 0
      <3> DEFINE f == [i \in 0..0 |-> Proposed(prior, owns, moved)]
      <3>1. Fn(f, 0)
        OBVIOUS
      <3> QED
        BY <3>1, <2>1, <2>2
    <2>3. CASE k # 0
      <3>0. k - 1 \in Nat
        BY <2>1, <2>3
      <3>1. k - 1 \in Nat /\ k - 1 \notin Missing
        <4>1. k \in Nat
          OBVIOUS
        <4>2. ~ (k <= k - 1)
          BY <4>1
        <4> HIDE DEF Missing
        <4> QED
          BY <2>1, <3>0, <4>2
      <3>2. PICK f : Fn(f, k - 1)
        BY <3>1
      <3> DEFINE g == [i \in 0..k |-> IF i = k THEN Next1(f[k - 1], k) ELSE f[i]]
      <3>3. Fn(g, k)
        <4>1. \A i \in 0..(k - 1) : g[i] = f[i]
          BY <3>1
        <4>2. g[k] = Next1(g[k - 1], k)
          BY <3>1, <4>1
        <4>3. \A i \in 0..(k - 1) : f[i] = IF i = 0 THEN Proposed(prior, owns, moved)
                                            ELSE Next1(f[i - 1], i)
          BY <3>2
        <4>4. \A i \in 0..k : g[i] = IF i = 0 THEN Proposed(prior, owns, moved)
                                      ELSE Next1(g[i - 1], i)
          BY <3>1, <4>1, <4>2, <4>3, <2>3
        <4> HIDE DEF g
        <4>5. g = [i \in 0..k |-> g[i]]
          BY DEF g
        <4> QED
          BY <4>4, <4>5
      <3> QED
        BY <3>3, <2>1
    <2> QED
      BY <2>2, <2>3
  <1> DEFINE after == CHOOSE f : Fn(f, n)
  <1>2. Fn(after, n)
    <2>1. \E f : Fn(f, n)
      BY <1>1
    <2> HIDE DEF Fn
    <2> QED
      BY <2>1
  <1>3. Planned(prior, owns, moved)
          = [after[n] EXCEPT !.replace = @ /\ after[n].val # prior]
    BY DEF Planned
  <1> HIDE DEF after
  <1>4. after[0] = Proposed(prior, owns, moved)
    BY <1>2
  <1>5. \A i \in 1..n : after[i] = Modify(after[i - 1], kind.modifiers[i], prior, owns, moved)
    BY <1>2
  <1> QED
    BY <1>3, <1>4, <1>5

(* The plan of one attribute while the modifiers run.                      *)
PlanSoFar == [val : Plannable, replace : BOOLEAN, refuse : BOOLEAN, mark : BOOLEAN]

(* The default that a reset plans is a value the attribute can have.       *)
LEMMA ServerDefaultIsSettable == base \in Held => ServerDefault \in Settable
  BY ValuesApart DEF ServerDefault, Settable

(* One modifier makes a plan of a plan, and the value unknown only where   *)
(* it is one that may; "keep" makes it known where there is a prior value. *)
LEMMA ModifyStep ==
  ASSUME NEW p \in PlanSoFar, NEW m \in Modifiers, NEW prior \in Settable \cup {None},
         NEW owns \in BOOLEAN, NEW moved, cfg \in Configs, base \in Held
  PROVE  /\ Modify(p, m, prior, owns, moved) \in PlanSoFar
         /\ m # "unknownIfFollowed" /\ Modify(p, m, prior, owns, moved).val = Unknown
              => p.val = Unknown /\ ~ (m = "keep" /\ prior # None)
  <1> DEFINE q == Modify(p, m, prior, owns, moved)
             Goal == /\ q \in PlanSoFar
                     /\ m # "unknownIfFollowed" /\ q.val = Unknown
                          => p.val = Unknown /\ ~ (m = "keep" /\ prior # None)
  <1>0. /\ ServerDefault \in Settable /\ cfg \in Settable /\ Some \in Settable
        /\ Zero \in Settable /\ Settable \subseteq Plannable /\ Unknown \in Plannable
        /\ Unknown \notin Settable
    BY ServerDefaultIsSettable, ValuesApart DEF Settable, Plannable
  <1>1. CASE m = "keep"
    BY <1>0, <1>1 DEF Modify, PlanSoFar, UseStateForUnknown
  <1>2. CASE m = "keepUnlessFollowed"
    BY <1>0, <1>2 DEF Modify, PlanSoFar, KeepUnlessFollowed, UseStateForUnknown
  <1>16. CASE m = "keepSettled"
    BY <1>0, <1>16 DEF Modify, PlanSoFar, KeepSettled, KeepUnlessFollowed, UseStateForUnknown
  <1>3. CASE m = "unknownIfFollowed"
    BY <1>0, <1>3 DEF Modify, PlanSoFar, IfFollowed
  <1>4. CASE m = "zeroIfFollowed"
    BY <1>0, <1>4 DEF Modify, PlanSoFar, IfFollowed
  <1>5. CASE m = "inferredOnCreate"
    BY <1>0, <1>5 DEF Modify, PlanSoFar, InferredOnCreate
  <1>6. CASE m = "keepEquivalent"
    BY <1>0, <1>6 DEF Modify, PlanSoFar, KeepStateIfEquivalent, Known
  <1>7. CASE m = "keepImported"
    BY <1>0, <1>7 DEF Modify, PlanSoFar, KeepImportedIfEquivalent, KeepStateIfEquivalent, Known
  <1>8. CASE m = "refuse"
    BY <1>0, <1>8 DEF Modify, PlanSoFar, RefuseChange
  <1>9. CASE m = "replace"
    BY <1>0, <1>9 DEF Modify, PlanSoFar, RequiresReplace
  <1>10. CASE m = "replaceFromKnown"
    BY <1>0, <1>10 DEF Modify, PlanSoFar, ReplaceFromKnown
  <1>11. CASE m = "replaceFromKnownFold"
    BY <1>0, <1>11 DEF Modify, PlanSoFar, ReplaceFromKnownFold
  <1>12. CASE m = "replaceUnlessEquivalent"
    BY <1>0, <1>12 DEF Modify, PlanSoFar, ReplaceFromKnownFold
  <1>13. CASE m = "idmapReplace"
    BY <1>0, <1>13 DEF Modify, PlanSoFar, IdmapReplace, ReplaceFromKnownFold
  <1>14. CASE m = "resetWhenUnset"
    BY <1>0, <1>14 DEF Modify, PlanSoFar, ResetWhenUnset, Known
  <1>15. CASE m = "resetIfManaged"
    BY <1>0, <1>15 DEF Modify, PlanSoFar, ResetIfManaged
  <1> QED
    BY <1>1, <1>2, <1>3, <1>4, <1>5, <1>6, <1>7, <1>8, <1>9, <1>10, <1>11, <1>12, <1>13, <1>14, <1>15,
       <1>16 DEF Modifiers

(* What is proposed before any modifier runs is unknown only where it may  *)
(* be.                                                                     *)
LEMMA ProposedTyped ==
  ASSUME KindTyped(kind), NEW prior \in Settable \cup {None}, NEW owns \in BOOLEAN, NEW moved,
         cfg \in Configs
  PROVE  /\ Proposed(prior, owns, moved) \in PlanSoFar
         /\ Proposed(prior, owns, moved).val = Unknown
              => kind.computed /\ kind.default = "none"
  BY ValuesApart DEF Proposed, PlanSoFar, Settable, Plannable

(* Planned: the plan is a value or unknown, never absent, and unknown only *)
(* where MayBeUnknown allows it.                                           *)
LEMMA PlannedTyped ==
  ASSUME KindTyped(kind), NEW prior \in Settable \cup {None}, NEW owns \in BOOLEAN, NEW moved,
         cfg \in Configs, base \in Held
  PROVE  /\ Planned(prior, owns, moved).val \in Plannable
         /\ Planned(prior, owns, moved).mark \in BOOLEAN
         /\ Planned(prior, owns, moved).val = Unknown
              => MayBeUnknown(kind, IF prior = None THEN "create" ELSE "update")
  <1> DEFINE n == Len(kind.modifiers)
             m == kind.modifiers
  <1>1. n \in Nat /\ m \in [1..n -> Modifiers]
    BY DEF KindTyped
  <1>2. PICK after :
          /\ after[0] = Proposed(prior, owns, moved)
          /\ \A i \in 1..n : after[i] = Modify(after[i - 1], m[i], prior, owns, moved)
          /\ Planned(prior, owns, moved)
               = [after[n] EXCEPT !.replace = @ /\ after[n].val # prior]
    BY <1>1, ModifiersRun
  <1> DEFINE Good(i) ==
               /\ after[i] \in PlanSoFar
               /\ after[i].val = Unknown =>
                    \/ \E j \in 1..i : m[j] = "unknownIfFollowed"
                    \/ /\ kind.computed /\ kind.default = "none"
                       /\ prior # None => \A j \in 1..i : m[j] # "keep"
             Bad == {i \in 0..n : ~ Good(i)}
  <1>3. Good(0)
    BY <1>2, ProposedTyped
  <1>4. ASSUME NEW i \in 1..n, Good(i - 1) PROVE Good(i)
    <2>1. after[i] = Modify(after[i - 1], m[i], prior, owns, moved) /\ m[i] \in Modifiers
      BY <1>1, <1>2
    <2>2. /\ after[i] \in PlanSoFar
          /\ m[i] # "unknownIfFollowed" /\ after[i].val = Unknown
               => after[i - 1].val = Unknown /\ ~ (m[i] = "keep" /\ prior # None)
      <3>1. after[i - 1] \in PlanSoFar
        BY <1>4
      <3> DEFINE p == after[i - 1]
                 x == m[i]
                 q == after[i]
      <3> HIDE DEF p, x, q
      <3>2. p \in PlanSoFar /\ x \in Modifiers /\ q = Modify(p, x, prior, owns, moved)
        BY <2>1, <3>1 DEF p, x, q
      <3>3. /\ q \in PlanSoFar
            /\ x # "unknownIfFollowed" /\ q.val = Unknown
                 => p.val = Unknown /\ ~ (x = "keep" /\ prior # None)
        BY <3>2, ModifyStep
      <3> QED
        BY <3>3 DEF p, x, q
    <2>3. \A j \in 1..i : j = i \/ j \in 1..(i - 1)
      OBVIOUS
    <2>4. 1..(i - 1) \subseteq 1..i /\ i \in 1..i
      OBVIOUS
    <2>5. Good(i - 1)
      BY <1>4
    <2>6. CASE after[i].val # Unknown
      BY <2>2, <2>6
    <2>7. CASE m[i] = "unknownIfFollowed"
      BY <2>2, <2>4, <2>7
    <2>8. CASE after[i].val = Unknown /\ m[i] # "unknownIfFollowed"
      <3>1. after[i - 1].val = Unknown /\ ~ (m[i] = "keep" /\ prior # None)
        BY <2>2, <2>8
      <3>2. CASE \E j \in 1..(i - 1) : m[j] = "unknownIfFollowed"
        BY <2>2, <2>4, <3>2
      <3>3. CASE /\ kind.computed /\ kind.default = "none"
                 /\ prior # None => \A j \in 1..(i - 1) : m[j] # "keep"
        BY <2>2, <2>3, <3>1, <3>3
      <3> QED
        BY <2>5, <3>1, <3>2, <3>3
    <2> QED
      BY <2>6, <2>7, <2>8
  <1>5. Bad = {}
    <2> SUFFICES ASSUME Bad # {} PROVE FALSE
      OBVIOUS
    <2>1. Bad \in SUBSET Nat /\ Bad \subseteq 0..n
      BY <1>1
    <2>2. PICK i \in Bad : \A j \in Bad : i <= j
      <3> HIDE DEF Bad
      <3> QED
        BY <2>1, LeastElement
    <2>3. i \in 0..n /\ ~ Good(i)
      BY <2>2
    <2> HIDE DEF Good
    <2>4. i # 0
      BY <2>3, <1>3
    <2>5. i \in 1..n /\ i - 1 \in 0..n
      BY <2>3, <2>4, <1>1
    <2>6. i - 1 \notin Bad
      <3>1. ~ (i <= i - 1)
        BY <2>5
      <3> HIDE DEF Bad
      <3> QED
        BY <2>2, <3>1
    <2>7. Good(i - 1)
      BY <2>5, <2>6
    <2> QED
      BY <2>3, <2>5, <2>7, <1>4
  <1>6. Good(n)
    <2> HIDE DEF Good
    <2> QED
      BY <1>1, <1>5
  <1>7. /\ Planned(prior, owns, moved).val = after[n].val
        /\ Planned(prior, owns, moved).mark = after[n].mark
    BY <1>2, <1>6 DEF PlanSoFar
  <1>8. \A j \in 1..n : m[j] \in Range(kind.modifiers)
    BY <1>1 DEF Range
  <1>9. "keep" \in Range(kind.modifiers) => \E j \in 1..n : m[j] = "keep"
    BY <1>1 DEF Range
  <1>10. after[n].val \in Plannable /\ after[n].mark \in BOOLEAN
    BY <1>6 DEF PlanSoFar
  <1> HIDE DEF m, n
  <1> QED
    BY <1>6, <1>7, <1>8, <1>9, <1>10 DEF MayBeUnknown

-----------------------------------------------------------------------------
(* Payloads and responses: every rule sends and takes values the attribute *)
(* can have.                                                               *)

(* A payload rule sends nothing, or a value the server can hold.           *)
LEMMA SentTyped ==
  ASSUME NEW rule \in SentRules, NEW v \in Plannable \cup {None}, NEW old,
         NEW set \in Settable \cup {None}, rule \in NullRules => Null \in Held,
         NEW c \in Sent(rule, v, old, set)
  PROVE  \/ c = Omit
         \/ /\ Canon(c) \in Held \cup {None, Zero}
            /\ v # None /\ set # None => Canon(c) # None
  <1> DEFINE Fine(w) == \/ w = Omit
                        \/ w \in Held \cup {Zero}
                        \/ w \in Settable \ {Null}
                        \/ w = None /\ (v = None \/ set = None)
  <1>1. Fine(c) => \/ c = Omit
                   \/ /\ Canon(c) \in Held \cup {None, Zero}
                      /\ v # None /\ set # None => Canon(c) # None
    <2>1. \A w \in Held \cup {Zero} : Canon(w) \in Held \cup {Zero}
      BY SomeIsValue, CanonValues, ValuesApart DEF Held, Plain, Settable
    <2>2. \A w \in Settable \ {Null} : Canon(w) \in Held \cup {Zero}
      BY SomeIsValue, CanonValues, ValuesApart DEF Plain
    <2>3. None \notin Held \cup {Zero}
      BY ValuesApart, SpecialValues
    <2> QED
      BY <2>1, <2>2, <2>3, CanonValues
  <1> SUFFICES Fine(c)
    BY <1>1
  <1>2. /\ Some \in Plain /\ Plain \subseteq Held /\ Null \notin Settable \ {Null}
        /\ Zero \in Settable \ {Null} /\ Some \in Settable \ {Null}
    BY SomeIsValue, SpecialValues, ValuesApart DEF Plain, Settable
  <1>3. Plannable = (Settable \ {Null}) \cup {Null, Unknown}
    BY DEF Plannable, Settable
  <1>4. v \in Settable \ {Null} \/ v \in {Null, Unknown, None}
    BY <1>3
  <1>5. set \in Settable \ {Null} \/ set \in {Null, None}
    OBVIOUS
  <1>6. CASE rule = "none"
    BY <1>2, <1>4, <1>5, <1>6 DEF Sent, Unset
  <1>7. CASE rule = "always"
    BY <1>2, <1>4, <1>5, <1>7 DEF Sent, Unset
  <1>8. CASE rule = "known"
    BY <1>2, <1>4, <1>5, <1>8 DEF Sent, Unset
  <1>9. CASE rule = "nullable"
    BY <1>2, <1>4, <1>5, <1>9 DEF Sent, Unset, NullRules
  <1>10. CASE rule = "nil"
    BY <1>2, <1>4, <1>5, <1>10 DEF Sent, Unset, NullRules
  <1>11. CASE rule = "nonzero"
    BY <1>2, <1>4, <1>5, <1>11 DEF Sent, Unset
  <1>12. CASE rule = "nilZero"
    BY <1>2, <1>4, <1>5, <1>12 DEF Sent, Unset, NullRules
  <1>13. CASE rule = "knownNilZero"
    BY <1>2, <1>4, <1>5, <1>13 DEF Sent, Unset, NullRules
  <1>14. CASE rule = "emptyIsNil"
    BY <1>2, <1>4, <1>5, <1>14 DEF Sent, Unset, NullRules
  <1>15. CASE rule = "unlessUnknown"
    BY <1>2, <1>4, <1>5, <1>15 DEF Sent, Unset
  <1>16. CASE rule = "configured"
    BY <1>2, <1>4, <1>5, <1>16 DEF Sent, Unset
  <1>17. CASE rule = "cannotClear"
    BY <1>2, <1>4, <1>5, <1>17 DEF Sent, Unset
  <1>18. CASE rule = "setOnly"
    BY <1>2, <1>4, <1>5, <1>18 DEF Sent, Unset
  <1>19. CASE rule = "zero"
    BY <1>2, <1>4, <1>5, <1>19 DEF Sent, Unset
  <1>20. CASE rule = "fixed"
    BY <1>2, <1>4, <1>5, <1>20 DEF Sent, Unset
  <1>21. CASE rule = "original"
    BY <1>2, <1>4, <1>5, <1>21 DEF Sent, Unset
  <1>22. CASE rule = "interim"
    BY <1>2, <1>4, <1>5, <1>22 DEF Sent, Unset
  <1>23. CASE rule = "interimZero"
    BY <1>2, <1>4, <1>5, <1>23 DEF Sent, Unset
  <1>24. CASE rule = "maybeZero"
    BY <1>2, <1>4, <1>5, <1>24 DEF Sent, Unset
  <1>25. CASE rule = "maybeNull"
    BY <1>2, <1>4, <1>5, <1>25 DEF Sent, Unset, NullRules
  <1>26. CASE rule = "knownOrImplied"
    BY <1>2, <1>4, <1>5, <1>26 DEF Sent, Unset
  <1>27. CASE rule = "unlessAllSame"
    BY <1>2, <1>4, <1>5, <1>27 DEF Sent, Unset
  <1>28. CASE rule = "changed"
    BY <1>2, <1>4, <1>5, <1>28 DEF Sent, Unset
  <1>29. CASE rule = "nonzeroChanged"
    BY <1>2, <1>4, <1>5, <1>29 DEF Sent, Unset
  <1>30. CASE rule = "nilZeroChanged"
    BY <1>2, <1>4, <1>5, <1>30 DEF Sent, Unset, NullRules
  <1>31. CASE rule = "knownNilZeroChanged"
    BY <1>2, <1>4, <1>5, <1>31 DEF Sent, Unset, NullRules
  <1>32. CASE rule = "changedOrFollowed"
    BY <1>2, <1>4, <1>5, <1>32 DEF Sent, Unset
  <1>33. CASE rule = "upgrade"
    BY <1>2, <1>4, <1>5, <1>33 DEF Sent, Unset
  <1> QED
    BY <1>6, <1>7, <1>8, <1>9, <1>10, <1>11, <1>12, <1>13, <1>14, <1>15, <1>16,
       <1>17, <1>18, <1>19, <1>20, <1>21, <1>22, <1>23, <1>24, <1>25, <1>26, <1>27, <1>28,
       <1>29, <1>30, <1>31, <1>32, <1>33 DEF SentRules, NullRules

(* A response rule gives the model a value it can have: none only out of   *)
(* nothing, and unknown only out of unknown.                               *)
LEMMA TakenTyped ==
  ASSUME NEW rule \in TakenRules, NEW r \in Held \cup {None, Zero},
         NEW m \in Plannable \cup {None}, NEW w \in Taken(rule, r, m)
  PROVE  /\ w \in Plannable \cup {None}
         /\ r # None /\ m # None => w # None
         /\ w = Unknown => m = Unknown /\ rule \notin KnownRules
  <1>1. /\ Held \subseteq Settable /\ Settable \subseteq Plannable
        /\ {Null, Zero, Some} \subseteq Settable
        /\ Unknown \notin Settable /\ None \notin Plannable /\ None # Unknown
        /\ Canon(Unknown) = Unknown
    BY ValuesApart, SpecialValues, CanonValues DEF Settable, Plannable
  <1>2. r \in Settable \cup {None} /\ r # Unknown
    BY <1>1
  <1>3. CASE rule = "none"
    BY <1>1, <1>2, <1>3 DEF Taken, Unset, KnownRules
  <1>4. CASE rule = "value"
    BY <1>1, <1>2, <1>4 DEF Taken, Unset, KnownRules
  <1>5. CASE rule = "pointer"
    BY <1>1, <1>2, <1>5 DEF Taken, Unset, KnownRules
  <1>6. CASE rule = "nullIfZero"
    BY <1>1, <1>2, <1>6 DEF Taken, Unset, KnownRules
  <1>7. CASE rule = "fixed"
    BY <1>1, <1>2, <1>7 DEF Taken, Unset, KnownRules
  <1>8. CASE rule = "null"
    BY <1>1, <1>2, <1>8 DEF Taken, Unset, KnownRules
  <1>9. CASE rule = "zero"
    BY <1>1, <1>2, <1>9 DEF Taken, Unset, KnownRules
  <1>10. CASE rule = "orZero"
    BY <1>1, <1>2, <1>10 DEF Taken, Unset, KnownRules
  <1>11. CASE rule = "nullIfUnknown"
    BY <1>1, <1>2, <1>11 DEF Taken, Unset, KnownRules
  <1>12. CASE rule = "ifUnknown"
    BY <1>1, <1>2, <1>12 DEF Taken, Unset, KnownRules
  <1>13. CASE rule = "ifUnset"
    BY <1>1, <1>2, <1>13 DEF Taken, Unset, KnownRules
  <1>14. CASE rule = "ifSet"
    BY <1>1, <1>2, <1>14 DEF Taken, Unset, KnownRules
  <1>15. CASE rule = "ifManaged"
    BY <1>1, <1>2, <1>15 DEF Taken, Unset, KnownRules
  <1>16. CASE rule = "keepEquivalent"
    BY <1>1, <1>2, <1>16 DEF Taken, Unset, KnownRules
  <1>17. CASE rule = "keepEquivalentOrNull"
    BY <1>1, <1>2, <1>17 DEF Taken, Unset, KnownRules
  <1>18. CASE rule = "unlessRedacted"
    BY <1>1, <1>2, <1>18 DEF Taken, Unset, KnownRules
  <1>19. CASE rule = "equivalentOrRedacted"
    BY <1>1, <1>2, <1>19 DEF Taken, Unset, KnownRules
  <1>20. CASE rule = "ifRead"
    BY <1>1, <1>2, <1>20 DEF Taken, Unset, KnownRules
  <1>21. CASE rule = "redactable"
    BY <1>1, <1>2, <1>21 DEF Taken, Unset, KnownRules
  <1>22. CASE rule = "ifManagedAndRead"
    BY <1>1, <1>2, <1>22 DEF Taken, Unset, KnownRules
  <1>23. CASE rule = "ifPresent"
    BY <1>1, <1>2, <1>23 DEF Taken, Unset, KnownRules
  <1>24. CASE rule = "unlessSentinel"
    BY <1>1, <1>2, <1>24, SpecialValues DEF Taken, Unset, KnownRules
  <1> QED
    BY <1>3, <1>4, <1>5, <1>6, <1>7, <1>8, <1>9, <1>10, <1>11, <1>12, <1>13, <1>14, <1>15,
       <1>16, <1>17, <1>18, <1>19, <1>20, <1>21, <1>22, <1>23, <1>24 DEF TakenRules, KnownRules

-----------------------------------------------------------------------------
(* The inductive invariant.                                                *)

(* A step of S lies behind the running handler.                            *)
Past(S) == Earlier(Handler(op), pc, S)

(* The handler is before its end, at step Handler(op)[pc].                 *)
Running == op # "idle" /\ pc # End

(* TypeOK, in these terms.                                                 *)
ValuesTyped ==
  /\ base \in Held /\ cfg \in Configs \cup {None} /\ srv \in Held \cup {None, Zero}
  /\ st \in Settable \cup {None} /\ reply \in Held \cup {None, Zero}
  /\ plan \in Plannable \cup {None} /\ model \in Plannable \cup {None}
  /\ saved \in Plannable \cup {None}

FlagsTyped ==
  /\ op \in Handlers \cup {"idle"}
  /\ then \in {"idle", "create", "read"} /\ others \in {"none", "some", "followed"}
  /\ stale \in {"no", "unread", "hidden"}
  /\ tainted \in BOOLEAN /\ mark \in BOOLEAN /\ serving \in BOOLEAN /\ planMark \in BOOLEAN
  /\ failed \in BOOLEAN /\ made \in BOOLEAN /\ told \in BOOLEAN /\ settled \in BOOLEAN
  /\ owned \in BOOLEAN

Typed == ValuesTyped /\ FlagsTyped

PcInv ==
  /\ profile \in Profiles
  /\ pc \in Nat /\ (op # "idle" => pc \in 1..End)
  /\ failed => op # "idle" /\ pc = End

(* What a handler is called for: a Create or an import for an object that  *)
(* the state does not have, an Update or a Delete for one that it has.     *)
CalledInv ==
  /\ op \in {"create", "update"} => cfg # None
  /\ op \in {"create", "import"} => st = None
  /\ op \in {"update", "delete"} => st # None
  /\ op = "delete" /\ then # "idle" => cfg # None

(* A handler with a model has one to save, takes only responses that are   *)
(* there, and has something saved once it has passed its Save.             *)
Modelling == (op \in {"create", "update"} \/ (op = "read" /\ st # None)) /\ ~ failed

ModelInv ==
  /\ Modelling => plan # None /\ model # None
  /\ Modelling /\ Running /\ Handler(op)[pc].do # "forgetIfRunning" /\ Past(Answering)
       => reply # None
  /\ op \in {"update", "delete"} => saved # None
  /\ op = "create" /\ ~ failed /\ Past({"save"}) => saved # None

(* Unknown is in a Create's or an Update's plan only where it may be, in   *)
(* its model only until a response was taken, and never in what is saved.  *)
ResolvedBefore(i) ==
  \E j \in 1..(i - 1) : Handler(op)[j].do = "take" /\ Handler(op)[j].rule \in KnownRules

KnownInv ==
  /\ op \notin {"create", "update"} => Unknown \notin {plan, model, saved}
  /\ op \in {"create", "update"} /\ model = Unknown
       => MayBeUnknown(kind, op) /\ ~ ResolvedBefore(pc)
  /\ op = "update" \/ (op = "create" /\ ~ Exempt("AppliedAsPlanned")) => saved # Unknown

(* Who is told that the daemon runs, after it did not find the object, may *)
(* conclude that the object is gone: as long as the daemon does not come   *)
(* up between the two calls.                                               *)
AskInv ==
  Running /\ Handler(op)[pc].do \in {"forgetIfRunning", "goneIfRunning"} /\ serving => srv = None

(* A Read forgets, and a Delete is done with, only what does not exist;    *)
(* and what exists is in the state or was told of.                         *)
OrphanInv ==
  /\ op = "read" /\ st # None /\ saved = None => srv = None
  /\ op = "delete" /\ ~ failed /\ made /\ srv # None => ~ Past({"delete", "goneIfRunning"})
  /\ op \in {"idle", "read", "import"} /\ ~ Standing /\ made /\ srv # None /\ st = None => told

(* Where a Create records the object at once, nothing that may fail lies   *)
(* between the answer that tells of it and the record.                     *)
RecordInv ==
  op = "create" /\ profile.recorded /\ reply # None /\ saved = None =>
    /\ Running
    /\ \/ Handler(op)[pc].do = "fetchOrRecord"
       \/ Handler(op)[pc].do = "take" /\ pc < Len(Handler(op)) /\ Handler(op)[pc + 1].do = "save"

CoreInv == Typed /\ PcInv /\ CalledInv /\ ModelInv /\ KnownInv /\ RecordInv
IInv == CoreInv /\ (~ Restarts => AskInv /\ OrphanInv)

(* The typing used here is the one the model states.                       *)
LEMMA TypedIsTypeOK == Typed => TypeOK
  BY DEF Typed, ValuesTyped, FlagsTyped, TypeOK, Settable, Plannable, Handlers

-----------------------------------------------------------------------------
(* Positions in a handler.                                                 *)

(* What is behind the next position is behind this one, or the step here.  *)
LEMMA EarlierNext ==
  ASSUME NEW s, NEW i \in Nat, i >= 1, NEW S
  PROVE  Earlier(s, i + 1, S) <=> Earlier(s, i, S) \/ s[i].do \in S
  <1>1. \A j \in 1..i : j = i \/ j \in 1..(i - 1)
    OBVIOUS
  <1>2. i + 1 - 1 = i /\ i \in 1..i /\ 1..(i - 1) \subseteq 1..i
    OBVIOUS
  <1> QED
    BY <1>1, <1>2 DEF Earlier

(* Nothing is behind the first position.                                   *)
LEMMA EarlierFirst ==
  ASSUME NEW s, NEW S
  PROVE  ~ Earlier(s, 1, S)
  BY DEF Earlier

(* The handlers that run are those of a well-formed catalog.               *)
LEMMA Formed ==
  ASSUME PcInv
  PROVE  WellFormed(profile)
  BY CatalogAssumption DEF PcInv

(* Where a step of a handler is taken.                                     *)
LEMMA AtStep ==
  ASSUME Typed, PcInv, Doing # "nothing"
  PROVE  /\ op \in Handlers /\ Len(Handler(op)) \in Nat
         /\ DOMAIN Handler(op) = 1..Len(Handler(op)) /\ End = Len(Handler(op)) + 1
         /\ pc \in 1..Len(Handler(op)) /\ pc \in Nat /\ pc >= 1
         /\ Cur = Handler(op)[pc] /\ Doing = Cur.do
         /\ Cur.do \in Allowed(op) /\ Cur.rule \in Rules(Cur.do)
         /\ Cur.rule \in NullRules => Null \in Held
         /\ Running /\ failed = FALSE
  <1>1. WellFormed(profile)
    BY Formed
  <1>2. op \in Handlers /\ pc <= Len(Handler(op)) /\ Doing = Cur.do
    <2>1. ~ Idle /\ ~ (pc > Len(Handler(op)))
      BY DEF Doing
    <2>2. op \in Handlers
      BY <2>1 DEF Idle, Typed, FlagsTyped
    <2>3. Len(Handler(op)) \in Nat
      BY <2>2, <1>1 DEF WellFormed, Handler
    <2>4. pc \in Nat
      BY DEF PcInv
    <2> QED
      BY <2>1, <2>2, <2>3, <2>4 DEF Doing
  <1>3. /\ Len(Handler(op)) \in Nat /\ DOMAIN Handler(op) = 1..Len(Handler(op))
        /\ \A i \in DOMAIN Handler(op) :
             /\ StepTyped(op, Handler(op)[i])
             /\ Handler(op)[i].rule \in NullRules => Handler(op)[i].rule \in profile.rules
    BY <1>1, <1>2 DEF WellFormed, Handler
  <1>4. op # "idle" /\ pc \in 1..End
    BY <1>2 DEF PcInv, Handlers
  <1>5. pc \in 1..Len(Handler(op)) /\ pc # End
    BY <1>2, <1>3, <1>4 DEF End
  <1>6. Cur.rule \in NullRules => Null \in Held
    <2>1. Cur.rule \in NullRules => Cur.rule \in profile.rules
      BY <1>3, <1>5 DEF Cur
    <2>2. NullRules \cap profile.rules # {} => Nullable
      BY DEF NullRules, Nullable
    <2> QED
      BY <2>1, <2>2 DEF Held
  <1>7. failed = FALSE
    BY <1>5 DEF PcInv, Typed, FlagsTyped
  <1> QED
    BY <1>2, <1>3, <1>4, <1>5, <1>6, <1>7 DEF Cur, End, Running, StepTyped

(* No action changes the catalog, so none changes what it says.            *)
LEMMA CatalogFixed ==
  ASSUME profile' = profile
  PROVE  /\ Held' = Held /\ Settable' = Settable /\ Plannable' = Plannable
         /\ Configs' = Configs /\ kind' = kind /\ (Standing <=> Standing')
  BY DEF Held, Settable, Plannable, Configs, Written, Plain, Nullable, kind, Standing, Does, Handler

(* The next position.                                                      *)
LEMMA Onward ==
  ASSUME Typed, PcInv, Doing # "nothing"
  PROVE  /\ \A S : Earlier(Handler(op), pc + 1, S) <=> Past(S) \/ Cur.do \in S
         /\ ResolvedBefore(pc + 1)
              <=> ResolvedBefore(pc) \/ (Cur.do = "take" /\ Cur.rule \in KnownRules)
         /\ pc + 1 \in 1..End /\ pc + 1 \in Nat
  <1>1. pc \in Nat /\ pc >= 1 /\ Cur = Handler(op)[pc] /\ pc \in 1..Len(Handler(op))
        /\ Len(Handler(op)) \in Nat /\ End = Len(Handler(op)) + 1
    BY AtStep
  <1>2. \A S : Earlier(Handler(op), pc + 1, S) <=> Past(S) \/ Cur.do \in S
    BY <1>1, EarlierNext DEF Past
  <1>3. pc + 1 - 1 = pc /\ pc \in 1..pc /\ 1..(pc - 1) \subseteq 1..pc
        /\ \A j \in 1..pc : j = pc \/ j \in 1..(pc - 1)
    BY <1>1
  <1>4. ResolvedBefore(pc + 1)
          <=> ResolvedBefore(pc) \/ (Cur.do = "take" /\ Cur.rule \in KnownRules)
    BY <1>1, <1>3 DEF ResolvedBefore
  <1> QED
    BY <1>1, <1>2, <1>4

(* What the catalog promises of the running handler.                       *)
LEMMA InPairs ==
  ASSUME Typed, PcInv, Doing # "nothing"
  PROVE  /\ Doing = "fetchOrAsk" => pc + 1 \in 1..Len(Handler(op))
                                    /\ Handler(op)[pc + 1].do = "forgetIfRunning"
         /\ Doing = "deleteOrAsk" => pc + 1 \in 1..Len(Handler(op))
                                     /\ Handler(op)[pc + 1].do = "goneIfRunning"
         /\ pc + 1 \in 1..Len(Handler(op)) =>
              /\ Handler(op)[pc + 1].do = "forgetIfRunning" => Doing = "fetchOrAsk"
              /\ Handler(op)[pc + 1].do = "goneIfRunning" => Doing = "deleteOrAsk"
         /\ Doing = "take" => Past(Answering)
  <1> DEFINE h == Handler(op)
  <1>1. /\ op \in Handlers /\ DOMAIN h = 1..Len(h) /\ pc \in 1..Len(h) /\ Doing = h[pc].do
        /\ pc \in Nat
    BY AtStep
  <1>2. Answered(h) /\ AskedInPairs(h)
    BY <1>1, Formed DEF WellFormed, Handler
  <1> HIDE DEF h
  <1>3. \A i \in DOMAIN h :
          /\ h[i].do = "fetchOrAsk" => i + 1 \in DOMAIN h /\ h[i + 1].do = "forgetIfRunning"
          /\ h[i].do = "forgetIfRunning" => i - 1 \in DOMAIN h /\ h[i - 1].do = "fetchOrAsk"
          /\ h[i].do = "deleteOrAsk" => i + 1 \in DOMAIN h /\ h[i + 1].do = "goneIfRunning"
          /\ h[i].do = "goneIfRunning" => i - 1 \in DOMAIN h /\ h[i - 1].do = "deleteOrAsk"
    <2> SUFFICES ASSUME NEW i \in DOMAIN h, NEW q \in Asking
                 PROVE  /\ h[i].do = q[1] => i + 1 \in DOMAIN h /\ h[i + 1].do = q[2]
                        /\ h[i].do = q[2] => i - 1 \in DOMAIN h /\ h[i - 1].do = q[1]
      BY DEF Asking
    <2> QED
      BY <1>2 DEF AskedInPairs
  <1>4. pc + 1 - 1 = pc
    BY <1>1
  <1>5. Doing = "take" => Earlier(h, pc, Answering)
    BY <1>1, <1>2 DEF Answered
  <1>6. /\ h[pc].do = "fetchOrAsk" => pc + 1 \in DOMAIN h /\ h[pc + 1].do = "forgetIfRunning"
        /\ h[pc].do = "deleteOrAsk" => pc + 1 \in DOMAIN h /\ h[pc + 1].do = "goneIfRunning"
    BY <1>1, <1>3
  <1>7. ASSUME pc + 1 \in DOMAIN h
        PROVE  /\ h[pc + 1].do = "forgetIfRunning" => h[pc].do = "fetchOrAsk"
               /\ h[pc + 1].do = "goneIfRunning" => h[pc].do = "deleteOrAsk"
    <2> DEFINE i == pc + 1
    <2>1. i \in DOMAIN h /\ i - 1 = pc
      BY <1>1, <1>7
    <2> HIDE DEF i
    <2>2. /\ h[i].do = "forgetIfRunning" => h[i - 1].do = "fetchOrAsk"
          /\ h[i].do = "goneIfRunning" => h[i - 1].do = "deleteOrAsk"
      BY <1>3, <2>1
    <2> QED
      BY <2>1, <2>2 DEF i
  <1> QED
    BY <1>1, <1>5, <1>6, <1>7 DEF h, Past

(* What the catalog promises of a Create that records the object at once.  *)
LEMMA RecordsNext ==
  ASSUME Typed, PcInv, Doing # "nothing", op = "create", profile.recorded
  PROVE  /\ Doing \in Answering => Past({"save"}) \/ Doing \in {"create", "fetchOrRecord"}
         /\ Doing = "create" => /\ pc + 1 \in 1..Len(Handler(op))
                                /\ Handler(op)[pc + 1].do = "fetchOrRecord"
         /\ Doing = "fetchOrRecord" =>
              /\ pc + 1 < Len(Handler(op)) /\ Handler(op)[pc + 1].do = "take"
              /\ Handler(op)[pc + 1 + 1].do = "save"
  <1> DEFINE h == Handler(op)
  <1>1. /\ op \in Handlers /\ DOMAIN h = 1..Len(h) /\ pc \in 1..Len(h) /\ Doing = h[pc].do
        /\ pc \in Nat /\ Len(h) \in Nat
    BY AtStep
  <1>2. RecordsAtOnce(h)
    BY <1>1, Formed DEF WellFormed, Handler
  <1> HIDE DEF h
  <1>3. /\ h[pc].do \in Answering => \/ Earlier(h, pc, {"save"})
                                      \/ h[pc].do \in {"create", "fetchOrRecord"}
        /\ h[pc].do = "create" => pc + 1 \in DOMAIN h /\ h[pc + 1].do = "fetchOrRecord"
        /\ h[pc].do = "fetchOrRecord" => /\ pc + 2 \in DOMAIN h
                                         /\ h[pc + 1].do = "take" /\ h[pc + 2].do = "save"
    BY <1>1, <1>2 DEF RecordsAtOnce
  <1>4. pc + 2 = pc + 1 + 1
    BY <1>1
  <1>5. pc + 2 \in 1..Len(h) => pc + 1 < Len(h)
    BY <1>1
  <1> QED
    BY <1>1, <1>3, <1>4, <1>5 DEF h, Past

-----------------------------------------------------------------------------
(* What the steps of a handler have in common.                             *)

RestInv == PcInv /\ CalledInv /\ ModelInv /\ KnownInv /\ RecordInv

(* The handler goes on to its next step.                                   *)
LEMMA ForwardKeeps ==
  ASSUME CoreInv, Doing \notin {"nothing", "take", "save", "forgetIfRunning"},
         profile' = profile, op' = op, then' = then, cfg' = cfg, st' = st, pc' = pc + 1,
         failed' = FALSE,
         plan' = plan, model' = model, saved' = saved,
         \/ reply' # None /\ Doing \in Answering
         \/ reply' = reply /\ (Doing \in Answering => Doing = "fetchOrAsk")
         \/ op = "delete"
  PROVE  RestInv'
  <1>1. Typed /\ PcInv /\ CalledInv /\ ModelInv /\ KnownInv /\ RecordInv
    BY DEF CoreInv
  <1>2. /\ op \in Handlers /\ op # "idle" /\ Cur = Handler(op)[pc] /\ Doing = Cur.do /\ Running
        /\ failed = FALSE /\ Len(Handler(op)) \in Nat /\ End = Len(Handler(op)) + 1
        /\ pc \in 1..Len(Handler(op))
    BY <1>1, AtStep DEF Handlers
  <1>3. /\ Handler(op)' = Handler(op) /\ End' = End /\ kind' = kind
        /\ (Exempt("AppliedAsPlanned"))' = Exempt("AppliedAsPlanned")
    BY DEF Handler, End, kind, Exempt
  <1>4. /\ \A S : (Past(S))' <=> Past(S) \/ Doing \in S
        /\ (ResolvedBefore(pc))' <=> ResolvedBefore(pc)
        /\ pc' \in 1..End /\ pc' \in Nat
    BY <1>1, <1>2, <1>3, Onward DEF Past, ResolvedBefore
  <1>5. PcInv'
    BY <1>1, <1>3, <1>4 DEF PcInv
  <1>6. CalledInv'
    BY <1>1 DEF CalledInv
  <1>7. ModelInv'
    <2>1. Modelling' <=> Modelling
      BY <1>2 DEF Modelling
    <2>2. (Running /\ Handler(op)[pc].do # "forgetIfRunning")' /\ (Past(Answering))' /\ Modelling
            => reply' # None
      <3>1. CASE reply' # None
        BY <3>1
      <3>2. CASE reply' = reply /\ Doing = "fetchOrAsk"
        BY <1>1, <1>3, <3>2, InPairs
      <3>3. CASE reply' = reply /\ Doing \notin Answering
        <4>1. (Past(Answering))' => Past(Answering)
          BY <1>4, <3>3
        <4>3. Modelling /\ Past(Answering) /\ Doing # "forgetIfRunning" => reply # None
          BY <1>1, <1>2 DEF ModelInv
        <4> QED
          BY <3>3, <4>1, <4>3
      <3>4. CASE op = "delete"
        BY <3>4 DEF Modelling
      <3> QED
        BY <3>1, <3>2, <3>3, <3>4
    <2> QED
      BY <1>1, <1>2, <1>4, <2>1, <2>2 DEF ModelInv
  <1>8. KnownInv'
    BY <1>1, <1>3, <1>4 DEF KnownInv
  <1>9. RecordInv'
    <2> SUFFICES ASSUME op = "create", profile.recorded, reply' # None, saved = None
                 PROVE  /\ Running'
                        /\ \/ (Handler(op)[pc].do)' = "fetchOrRecord"
                           \/ /\ (Handler(op)[pc].do)' = "take" /\ pc' < Len(Handler(op)')
                              /\ Handler(op)'[pc' + 1].do = "save"
      BY DEF RecordInv
    <2>1. Running => \/ reply = None
                     \/ Doing \in {"fetchOrRecord", "take"}
      BY <1>1, <1>2 DEF RecordInv
    <2>2. ~ Past({"save"})
      BY <1>1, <1>2 DEF ModelInv
    <2>3. Doing \in Answering => Doing \in {"create", "fetchOrRecord"}
      BY <1>1, <2>2, RecordsNext
    <2>4. Doing \in {"create", "fetchOrRecord"}
      <3>1. Doing \in Answering
        BY <1>2, <2>1 DEF Answering
      <3> QED
        BY <2>3, <3>1
    <2> QED
      BY <1>1, <1>2, <1>3, <2>4, RecordsNext DEF Running
  <1> QED
    BY <1>5, <1>6, <1>7, <1>8, <1>9 DEF RestInv

(* The handler returns with an error.                                      *)
LEMMA AbortKeeps ==
  ASSUME CoreInv, Doing # "nothing", Aborts, profile' = profile, cfg' = cfg, st' = st,
         \/ saved' = saved /\ Doing \notin {"take", "fetchOrRecord"} /\ reply' \in {reply, None}
         \/ saved' \notin {None, Unknown}
  PROVE  RestInv'
  <1>1. Typed /\ PcInv /\ CalledInv /\ ModelInv /\ KnownInv /\ RecordInv
    BY DEF CoreInv
  <1>2. /\ op \in Handlers /\ op # "idle" /\ Cur = Handler(op)[pc] /\ Doing = Cur.do /\ Running
        /\ failed = FALSE /\ Len(Handler(op)) \in Nat /\ End = Len(Handler(op)) + 1
    BY <1>1, AtStep DEF Handlers
  <1>3. /\ op' = op /\ pc' = End /\ failed' = TRUE /\ plan' = None /\ model' = None
        /\ End' = End /\ kind' = kind
        /\ then' = then
        /\ (Exempt("AppliedAsPlanned"))' = Exempt("AppliedAsPlanned")
    BY DEF Aborts, Handler, End, kind, Exempt
  <1>4. None # Unknown
    BY SpecialValues
  <1>5. PcInv'
    BY <1>1, <1>2, <1>3 DEF PcInv
  <1>6. CalledInv'
    BY <1>1, <1>3 DEF CalledInv
  <1>7. ModelInv'
    BY <1>1, <1>3 DEF ModelInv, Modelling
  <1>8. KnownInv'
    BY <1>1, <1>3, <1>4 DEF KnownInv
  <1>9. RecordInv'
    BY <1>1, <1>2, <1>3 DEF RecordInv
  <1> QED
    BY <1>5, <1>6, <1>7, <1>8, <1>9 DEF RestInv

(* A Read or a Delete returns early.                                       *)
LEMMA StopKeeps ==
  ASSUME CoreInv, Doing # "nothing", Stop, failed' = FALSE, op \in {"read", "delete"},
         profile' = profile, cfg' = cfg, st' = st, reply' = reply,
         saved' = saved \/ (op = "read" /\ saved' = None)
  PROVE  RestInv'
  <1>1. Typed /\ PcInv /\ CalledInv /\ ModelInv /\ KnownInv /\ RecordInv
    BY DEF CoreInv
  <1>2. /\ op \in Handlers /\ Len(Handler(op)) \in Nat /\ End = Len(Handler(op)) + 1
        /\ failed = FALSE
    BY <1>1, AtStep
  <1>3. /\ op' = op /\ pc' = End /\ plan' = plan /\ model' = model /\ End' = End
        /\ then' = then
    BY DEF Stop, Goto, Handler, End
  <1>4. None # Unknown
    BY SpecialValues
  <1>5. PcInv'
    BY <1>1, <1>2, <1>3 DEF PcInv
  <1>6. CalledInv'
    BY <1>1, <1>3 DEF CalledInv
  <1>7. ModelInv'
    BY <1>1, <1>2, <1>3 DEF ModelInv, Modelling, Running
  <1>8. KnownInv'
    BY <1>1, <1>3, <1>4 DEF KnownInv
  <1>9. RecordInv'
    BY <1>3 DEF RecordInv
  <1> QED
    BY <1>5, <1>6, <1>7, <1>8, <1>9 DEF RestInv

(* Terraform core takes over.                                              *)
LEMMA ReturnKeeps ==
  ASSUME PcInv, Return, profile' = profile
  PROVE  RestInv'
  BY SpecialValues
     DEF RestInv, Return, PcInv, CalledInv, ModelInv, KnownInv, RecordInv, Modelling, Running

(* Terraform core calls a handler.                                         *)
LEMMA CallKeeps ==
  ASSUME PcInv, profile' = profile, op' \in Handlers, pc' = 1, model' = plan', reply' = None,
         failed' = FALSE,
         op' \in {"create", "update"} => cfg' # None /\ plan' # None,
         op' = "create" => saved' = None,
         op' \in {"create", "import"} => st' = None,
         op' = "delete" /\ then' # "idle" => cfg' # None,
         op' \in {"update", "delete"} => st' # None /\ saved' # None,
         op' = "read" /\ st' # None => plan' # None,
         op' \notin {"create", "update"} => plan' # Unknown,
         saved' # Unknown,
         plan' = Unknown => MayBeUnknown(kind, op')
  PROVE  RestInv'
  <1>1. WellFormed(profile)
    BY Formed
  <1>2. op' # "idle"
    BY DEF Handlers
  <1>3. /\ End' \in Nat /\ 1 <= End' /\ kind' = kind
    BY <1>1 DEF WellFormed, Handler, End, kind
  <1>4. /\ \A S : ~ (Past(S))'
        /\ ~ (ResolvedBefore(pc))'
    BY EarlierFirst DEF Past, ResolvedBefore
  <1>5. PcInv'
    BY <1>2, <1>3 DEF PcInv
  <1>6. CalledInv'
    BY DEF CalledInv
  <1>7. ModelInv'
    BY <1>4 DEF ModelInv, Modelling
  <1>8. KnownInv'
    BY <1>3, <1>4 DEF KnownInv
  <1>9. RecordInv'
    BY DEF RecordInv
  <1> QED
    BY <1>5, <1>6, <1>7, <1>8, <1>9 DEF RestInv
-----------------------------------------------------------------------------
(* The actions, one by one.                                                *)

(* A call carries nothing, or a value the server can hold.                 *)
LEMMA CarriedTyped ==
  ASSUME CoreInv, Doing \in {"create", "update", "undo"}, NEW c \in Carried
  PROVE  \/ c = Omit
         \/ /\ Canon(c) \in Held \cup {None, Zero}
            /\ op \in {"create", "update"} => Canon(c) # None
  <1> DEFINE v == IF kind.unseen THEN cfg ELSE plan
  <1>1. /\ Cur.rule \in Rules(Cur.do) /\ Doing = Cur.do /\ failed = FALSE
        /\ Cur.rule \in NullRules => Null \in Held
    BY AtStep DEF CoreInv
  <1>2. Cur.rule \in SentRules
    BY <1>1 DEF Rules
  <1>3. cfg \in Settable \cup {None} /\ v \in Plannable \cup {None}
    BY ValuesApart DEF CoreInv, Typed, ValuesTyped, Plannable
  <1>4. op \in {"create", "update"} => cfg # None /\ v # None
    BY <1>1 DEF CoreInv, CalledInv, ModelInv, Modelling
  <1>5. c \in Sent(Cur.rule, v, st, cfg)
    BY DEF Carried
  <1> HIDE DEF v
  <1> QED
    BY <1>1, <1>2, <1>3, <1>4, <1>5, SentTyped

(* What others do leaves the running handler as it is.                     *)
LEMMA OutsideKeeps ==
  ASSUME CoreInv, Edit \/ Drift \/ Vanish \/ Restart
  PROVE  CoreInv'
  <1>1. /\ profile' = profile /\ op' = op /\ pc' = pc /\ st' = st /\ plan' = plan /\ model' = model
        /\ reply' = reply /\ saved' = saved /\ failed' = failed /\ planMark' = planMark
        /\ base' = base /\ then' = then /\ others' = others /\ tainted' = tainted /\ mark' = mark
        /\ owned' = owned
    BY DEF Edit, Drift, Vanish, Restart, handler
  <1>2. Typed'
    <2>1. ValuesTyped'
      <3>1. Held' = Held /\ Settable' = Settable /\ Plannable' = Plannable /\ Configs' = Configs
        BY <1>1, CatalogFixed
      <3>2. cfg' \in Configs \cup {None} /\ srv' \in Held \cup {None, Zero}
        BY DEF CoreInv, Typed, ValuesTyped, Edit, Drift, Vanish, Restart
      <3> QED
        BY <1>1, <3>1, <3>2 DEF CoreInv, Typed, ValuesTyped
    <2>2. FlagsTyped'
      <3>1. CASE Edit
        <4>1. /\ settled' = FALSE /\ serving' = serving /\ made' = made /\ told' = told
              /\ stale' = stale
          BY <3>1 DEF Edit
        <4>2. settled' \in BOOLEAN
          BY <4>1
        <4>3. serving' = serving /\ made' = made /\ told' = told /\ stale' = stale
          BY <4>1
        <4> QED
          BY <1>1, <4>2, <4>3 DEF CoreInv, Typed, FlagsTyped
      <3>2. CASE Drift \/ Vanish
        <4>1. /\ settled' = FALSE /\ serving' = serving
              /\ made' \in {made, FALSE} /\ told' \in {told, FALSE}
          BY <3>2 DEF Drift, Vanish
        <4>2. serving' = serving /\ settled' \in BOOLEAN /\ made' \in BOOLEAN /\ told' \in BOOLEAN
          BY <4>1 DEF CoreInv, Typed, FlagsTyped
        <4>3. stale' \in {"no", "unread", "hidden"}
          BY <3>2 DEF Drift, Vanish, Unread
        <4> QED
          BY <1>1, <4>2, <4>3 DEF CoreInv, Typed, FlagsTyped
      <3>3. CASE Restart
        BY <1>1, <3>3 DEF CoreInv, Typed, FlagsTyped, Restart
      <3> QED
        BY <3>1, <3>2, <3>3
    <2> QED
      BY <2>1, <2>2 DEF Typed
  <1>3. CalledInv'
    BY <1>1 DEF CoreInv, CalledInv, Edit, Drift, Vanish, Restart, Idle
  <1>4. /\ Handler(op)' = Handler(op) /\ End' = End /\ kind' = kind
        /\ (Running)' = Running /\ (Modelling)' = Modelling
        /\ \A S : (Past(S))' = Past(S)
        /\ (ResolvedBefore(pc))' = ResolvedBefore(pc)
        /\ (Exempt("AppliedAsPlanned"))' = Exempt("AppliedAsPlanned")
    BY <1>1 DEF Handler, End, kind, Running, Modelling, Past, ResolvedBefore, Exempt, Earlier
  <1>5. PcInv'
    BY <1>1, <1>4 DEF CoreInv, PcInv
  <1>6. ModelInv'
    BY <1>1, <1>4 DEF CoreInv, ModelInv
  <1>7. KnownInv'
    BY <1>1, <1>4 DEF CoreInv, KnownInv
  <1>8. RecordInv'
    BY <1>1, <1>4 DEF CoreInv, RecordInv
  <1> QED
    BY <1>2, <1>3, <1>5, <1>6, <1>7, <1>8 DEF CoreInv

(* A Read is called with the state as its model.                           *)
LEMMA RefreshKeeps ==
  ASSUME CoreInv, Refresh
  PROVE  CoreInv'
  <1>1. /\ Typed /\ PcInv
        /\ profile' = profile /\ cfg' = cfg /\ st' = st /\ base' = base /\ srv' = srv
        /\ tainted' = tainted /\ mark' = mark /\ serving' = serving /\ made' = made /\ told' = told
        /\ settled' = settled /\ stale' = stale /\ owned' = owned
        /\ Call("read", "idle", "none", st, st, st, mark)
    BY DEF CoreInv, Refresh, object, history
  <1>2. st \in Settable \cup {None} /\ st \in Settable \cup {None} /\ mark \in BOOLEAN
    BY <1>1 DEF Typed, ValuesTyped, FlagsTyped, Settable
  <1>3. Unknown \notin Settable \cup {None} /\ None \notin Settable
    BY ValuesApart, SpecialValues DEF Plannable
  <1>4. Typed'
    <2>1. Held' = Held /\ Settable' = Settable /\ Plannable' = Plannable /\ Configs' = Configs
      BY <1>1, CatalogFixed
    <2>2. ValuesTyped'
      BY <1>1, <1>2, <2>1 DEF Typed, ValuesTyped, Call, Plannable
    <2>3. FlagsTyped'
      BY <1>1, <1>2 DEF Typed, FlagsTyped, Call, Handlers
    <2> QED
      BY <2>2, <2>3 DEF Typed
  <1>5. RestInv'
    <2>1. "read" \in Handlers
      BY DEF Handlers
    <2>2. st # None
      BY DEF Refresh
    <2>3. st # Unknown /\ st # Unknown
      BY <1>2, <1>3
    <2>4. /\ op' = "read" /\ pc' = 1 /\ plan' = st /\ model' = st /\ saved' = st
          /\ reply' = None /\ failed' = FALSE /\ profile' = profile /\ PcInv /\ st' = st
      BY <1>1 DEF Call
    <2> QED
      BY <2>1, <2>2, <2>3, <2>4, CallKeeps
  <1> QED
    BY <1>4, <1>5 DEF CoreInv, RestInv

(* An import is called with nothing in the state.                          *)
LEMMA ImportKeeps ==
  ASSUME CoreInv, Import
  PROVE  CoreInv'
  <1>1. /\ Typed /\ PcInv
        /\ profile' = profile /\ cfg' = cfg /\ st' = st /\ base' = base /\ srv' = srv
        /\ tainted' = tainted /\ mark' = mark /\ serving' = serving /\ made' = made /\ told' = told
        /\ settled' = settled /\ stale' = stale /\ owned' = owned
        /\ Call("import", "read", "none", Null, Null, None, FALSE)
    BY DEF CoreInv, Import, object, history
  <1>2. Null \in Settable \cup {None} /\ None \in Settable \cup {None} /\ FALSE \in BOOLEAN
    BY <1>1 DEF Typed, ValuesTyped, FlagsTyped, Settable
  <1>3. Unknown \notin Settable \cup {None} /\ None \notin Settable
    BY ValuesApart, SpecialValues DEF Plannable
  <1>4. Typed'
    <2>1. Held' = Held /\ Settable' = Settable /\ Plannable' = Plannable /\ Configs' = Configs
      BY <1>1, CatalogFixed
    <2>2. ValuesTyped'
      BY <1>1, <1>2, <2>1 DEF Typed, ValuesTyped, Call, Plannable
    <2>3. FlagsTyped'
      BY <1>1, <1>2 DEF Typed, FlagsTyped, Call, Handlers
    <2> QED
      BY <2>2, <2>3 DEF Typed
  <1>5. RestInv'
    <2>1. "import" \in Handlers
      BY DEF Handlers
    <2>2. st = None
      BY DEF Import
    <2>3. Null # Unknown /\ None # Unknown
      BY <1>2, <1>3
    <2>4. /\ op' = "import" /\ pc' = 1 /\ plan' = Null /\ model' = Null /\ saved' = None
          /\ reply' = None /\ failed' = FALSE /\ profile' = profile /\ PcInv /\ st' = st
      BY <1>1 DEF Call
    <2> QED
      BY <2>1, <2>2, <2>3, <2>4, CallKeeps
  <1> QED
    BY <1>4, <1>5 DEF CoreInv, RestInv

(* A Delete is called with the state.                                      *)
LEMMA DestroyKeeps ==
  ASSUME CoreInv, Destroy
  PROVE  CoreInv'
  <1>1. /\ Typed /\ PcInv
        /\ profile' = profile /\ cfg' = cfg /\ st' = st /\ base' = base /\ srv' = srv
        /\ tainted' = tainted /\ mark' = mark /\ serving' = serving /\ made' = made /\ told' = told
        /\ settled' = settled /\ stale' = stale /\ owned' = owned
        /\ Call("delete", "idle", "none", st, st, st, FALSE)
    BY DEF CoreInv, Destroy, object, history
  <1>2. st \in Settable \cup {None} /\ st \in Settable \cup {None} /\ FALSE \in BOOLEAN
    BY <1>1 DEF Typed, ValuesTyped, FlagsTyped, Settable
  <1>3. Unknown \notin Settable \cup {None} /\ None \notin Settable
    BY ValuesApart, SpecialValues DEF Plannable
  <1>4. Typed'
    <2>1. Held' = Held /\ Settable' = Settable /\ Plannable' = Plannable /\ Configs' = Configs
      BY <1>1, CatalogFixed
    <2>2. ValuesTyped'
      BY <1>1, <1>2, <2>1 DEF Typed, ValuesTyped, Call, Plannable
    <2>3. FlagsTyped'
      BY <1>1, <1>2 DEF Typed, FlagsTyped, Call, Handlers
    <2> QED
      BY <2>2, <2>3 DEF Typed
  <1>5. RestInv'
    <2>1. "delete" \in Handlers
      BY DEF Handlers
    <2>2. st # None
      BY DEF Destroy
    <2>3. st # Unknown /\ st # Unknown
      BY <1>2, <1>3
    <2>4. /\ op' = "delete" /\ then' = "idle" /\ pc' = 1 /\ plan' = st /\ model' = st /\ saved' = st
          /\ reply' = None /\ failed' = FALSE /\ profile' = profile /\ PcInv /\ st' = st
      BY <1>1 DEF Call
    <2> QED
      BY <2>1, <2>2, <2>3, <2>4, CallKeeps
  <1> QED
    BY <1>4, <1>5 DEF CoreInv, RestInv

(* A Delete is called with the state, and a Create is to follow.           *)
LEMMA ApplyReplaceKeeps ==
  ASSUME CoreInv, ApplyReplace
  PROVE  CoreInv'
  <1>1. /\ Typed /\ PcInv
        /\ profile' = profile /\ cfg' = cfg /\ st' = st /\ base' = base /\ srv' = srv
        /\ tainted' = tainted /\ mark' = mark /\ serving' = serving /\ made' = made /\ told' = told
        /\ settled' = settled /\ stale' = stale /\ owned' = owned
        /\ Call("delete", "create", "none", st, st, st, FALSE)
    BY DEF CoreInv, ApplyReplace, object, history
  <1>2. st \in Settable \cup {None} /\ st \in Settable \cup {None} /\ FALSE \in BOOLEAN
    BY <1>1 DEF Typed, ValuesTyped, FlagsTyped, Settable
  <1>3. Unknown \notin Settable \cup {None} /\ None \notin Settable
    BY ValuesApart, SpecialValues DEF Plannable
  <1>4. Typed'
    <2>1. Held' = Held /\ Settable' = Settable /\ Plannable' = Plannable /\ Configs' = Configs
      BY <1>1, CatalogFixed
    <2>2. ValuesTyped'
      BY <1>1, <1>2, <2>1 DEF Typed, ValuesTyped, Call, Plannable
    <2>3. FlagsTyped'
      BY <1>1, <1>2 DEF Typed, FlagsTyped, Call, Handlers
    <2> QED
      BY <2>2, <2>3 DEF Typed
  <1>5. RestInv'
    <2>1. "delete" \in Handlers
      BY DEF Handlers
    <2>2. st # None /\ cfg' # None
      BY <1>1 DEF ApplyReplace
    <2>3. st # Unknown /\ st # Unknown
      BY <1>2, <1>3
    <2>4. /\ op' = "delete" /\ pc' = 1 /\ plan' = st /\ model' = st /\ saved' = st
          /\ reply' = None /\ failed' = FALSE /\ profile' = profile /\ PcInv /\ st' = st
      BY <1>1 DEF Call
    <2> QED
      BY <2>1, <2>2, <2>3, <2>4, CallKeeps
  <1> QED
    BY <1>4, <1>5 DEF CoreInv, RestInv

(* A Create is called, for a configured object that is not in the state.   *)
LEMMA CallCreateKeeps ==
  ASSUME Typed, PcInv, CallCreate, profile' = profile, cfg' = cfg, cfg # None, st' = None
  PROVE  /\ RestInv' /\ op' = "create" /\ then' = "idle" /\ others' = "some" /\ reply' = None
         /\ plan' \in Plannable /\ model' = plan' /\ saved' = None /\ planMark' = FALSE
         /\ failed' = FALSE
  <1> DEFINE p == Planned(None, FALSE, "some").val
  <1>1. KindTyped(kind)
    BY Formed DEF WellFormed, kind
  <1>2. p \in Plannable /\ (p = Unknown => MayBeUnknown(kind, "create"))
    BY <1>1, PlannedTyped DEF Typed, ValuesTyped
  <1>3. Call("create", "idle", "some", p, p, None, FALSE)
    BY DEF CallCreate
  <1>4. "create" \in Handlers /\ None \notin Plannable /\ None # Unknown
    BY ValuesApart, SpecialValues DEF Handlers
  <1> HIDE DEF p
  <1>5. RestInv'
    <2>1. /\ op' = "create" /\ pc' = 1 /\ plan' = p /\ model' = p /\ saved' = None
          /\ reply' = None /\ failed' = FALSE
      BY <1>3 DEF Call
    <2> QED
      BY <1>2, <1>4, <2>1, CallKeeps
  <1> QED
    BY <1>2, <1>3, <1>5 DEF Call

(* A Create is called with the plan as its model.                          *)
LEMMA ApplyCreateKeeps ==
  ASSUME CoreInv, ApplyCreate
  PROVE  CoreInv'
  <1>1. /\ Typed /\ PcInv /\ CallCreate /\ cfg # None
        /\ profile' = profile /\ cfg' = cfg /\ st' = None /\ base' = base /\ srv' = srv
        /\ tainted' = tainted /\ mark' = mark /\ serving' = serving /\ made' = made /\ told' = told
        /\ settled' = settled /\ stale' = stale /\ owned' = owned
    BY DEF CoreInv, ApplyCreate, object, history
  <1>2. /\ RestInv' /\ op' = "create" /\ then' = "idle" /\ others' = "some" /\ reply' = None
        /\ plan' \in Plannable /\ model' = plan' /\ saved' = None /\ planMark' = FALSE
        /\ failed' = FALSE
    BY <1>1, CallCreateKeeps
  <1>3. Held' = Held /\ Settable' = Settable /\ Plannable' = Plannable /\ Configs' = Configs
    BY <1>1, CatalogFixed
  <1>4. ValuesTyped'
    BY <1>1, <1>2, <1>3 DEF Typed, ValuesTyped
  <1>5. FlagsTyped'
    BY <1>1, <1>2 DEF Typed, FlagsTyped, Handlers
  <1> QED
    BY <1>2, <1>4, <1>5 DEF CoreInv, RestInv, Typed

(* An Update is called with the plan as its model and the state to fall    *)
(* back on.                                                                *)
LEMMA ApplyUpdateKeeps ==
  ASSUME CoreInv, NEW moved \in Moves, ApplyUpdate(moved)
  PROVE  CoreInv'
  <1> DEFINE q == Planned(st, mark, moved)
             p == q.val
  <1>1. /\ Typed /\ PcInv /\ cfg # None /\ st # None
        /\ profile' = profile /\ cfg' = cfg /\ st' = st /\ base' = base /\ srv' = srv
        /\ tainted' = tainted /\ mark' = mark /\ serving' = serving /\ made' = made /\ told' = told
        /\ settled' = settled /\ stale' = stale /\ owned' = owned
        /\ Call("update", "idle", moved, p, p, st, q.mark)
    BY DEF CoreInv, ApplyUpdate, object, history
  <1>2. KindTyped(kind)
    BY <1>1, Formed DEF WellFormed, kind
  <1>3. p \in Plannable /\ q.mark \in BOOLEAN /\ (p = Unknown => MayBeUnknown(kind, "update"))
    BY <1>1, <1>2, PlannedTyped DEF Typed, ValuesTyped, FlagsTyped
  <1>4. /\ "update" \in Handlers /\ None \notin Plannable /\ None # Unknown /\ st # Unknown
        /\ moved \in {"none", "some", "followed"}
    BY <1>1, ValuesApart, SpecialValues DEF Handlers, Typed, ValuesTyped, Moves
  <1> HIDE DEF p, q
  <1>5. RestInv'
    <2>1. /\ op' = "update" /\ pc' = 1 /\ plan' = p /\ model' = p /\ saved' = st
          /\ reply' = None /\ failed' = FALSE
      BY <1>1 DEF Call
    <2> QED
      BY <1>1, <1>3, <1>4, <2>1, CallKeeps
  <1>6. Typed'
    <2>1. Held' = Held /\ Settable' = Settable /\ Plannable' = Plannable /\ Configs' = Configs
      BY <1>1, CatalogFixed
    <2>2. ValuesTyped'
      BY <1>1, <1>3, <2>1 DEF Typed, ValuesTyped, Call, Plannable
    <2>3. FlagsTyped'
      <3>1. op' \in Handlers /\ then' \in {"idle", "create"} /\ others' \in {"none", "some", "followed"}
        BY <1>1, <1>4 DEF Call
      <3>2. planMark' \in BOOLEAN /\ failed' \in BOOLEAN
        BY <1>1, <1>3 DEF Call
      <3> QED
        BY <1>1, <3>1, <3>2 DEF Typed, FlagsTyped
    <2> QED
      BY <2>2, <2>3 DEF Typed
  <1> QED
    BY <1>5, <1>6 DEF CoreInv, RestInv

(* A step leaves the configuration, the state and the flags of the object  *)
(* alone.                                                                  *)
LEMMA StepKeepsTypes ==
  ASSUME Typed, profile' = profile, base' = base, cfg' = cfg, st' = st, tainted' = tainted,
         mark' = mark, serving' = serving, op' = op, then' = then,
         settled' = settled, owned' = owned,
         srv' \in Held \cup {None, Zero}, reply' \in Held \cup {None, Zero},
         others' \in {others, "none"}, plan' \in {plan, None}, model' \in Plannable \cup {None},
         saved' \in Plannable \cup {None}, stale' \in {"no", "unread", "hidden"},
         planMark' \in BOOLEAN, failed' \in BOOLEAN, made' \in BOOLEAN, told' \in BOOLEAN
  PROVE  Typed'
  <1>1. Held' = Held /\ Settable' = Settable /\ Plannable' = Plannable /\ Configs' = Configs
    BY CatalogFixed
  <1>2. ValuesTyped'
    BY <1>1 DEF Typed, ValuesTyped
  <1>3. FlagsTyped'
    BY DEF Typed, FlagsTyped
  <1> QED
    BY <1>2, <1>3 DEF Typed

(* The values of the object and of the running handler, for the steps that *)
(* leave them alone.                                                       *)
LEMMA Types ==
  ASSUME CoreInv
  PROVE  /\ srv \in Held \cup {None, Zero} /\ reply \in Held \cup {None, Zero}
         /\ base \in Held /\ model \in Plannable \cup {None} /\ saved \in Plannable \cup {None}
         /\ plan \in Plannable \cup {None}
         /\ stale \in {"no", "unread", "hidden"} /\ planMark \in BOOLEAN /\ failed \in BOOLEAN
         /\ made \in BOOLEAN /\ told \in BOOLEAN /\ FALSE \in BOOLEAN /\ TRUE \in BOOLEAN
         /\ Typed /\ PcInv
         /\ None \notin Held \cup {Zero} /\ None # Unknown /\ None \in Plannable \cup {None}
         /\ Held \cup {None, Zero} \subseteq Plannable \cup {None}
         /\ Unknown \notin Held \cup {None, Zero}
  <1>1. None \notin Held \cup {Zero} /\ None # Unknown
    BY ValuesApart, SpecialValues
  <1>2. /\ Held \cup {None, Zero} \subseteq Plannable \cup {None}
        /\ Unknown \notin Held \cup {None, Zero}
    BY ValuesApart, SpecialValues DEF Plannable, Settable
  <1> QED
    BY <1>1, <1>2 DEF CoreInv, Typed, ValuesTyped, FlagsTyped

(* An object is created with a value the server can hold.                  *)
LEMMA CreateCallKeeps ==
  ASSUME CoreInv, NEW fails \in BOOLEAN, CreateCall(fails)
  PROVE  CoreInv'
  <1>1. op = "create" /\ Doing = "create" /\ op \in Handlers
    BY AtStep DEF CreateCall, At, CoreInv, Allowed, Handlers, Reporting
  <1>2. srv' \in (Held \cup {None, Zero}) \ {None}
    <2>1. PICK c \in Carried : srv' = IF c = Omit THEN base ELSE Canon(c)
      BY DEF CreateCall
    <2>2. \/ c = Omit
          \/ Canon(c) \in Held \cup {None, Zero} /\ Canon(c) # None
      BY <1>1, CarriedTyped
    <2> QED
      BY <2>1, <2>2, Types
  <1>3. /\ profile' = profile /\ base' = base /\ cfg' = cfg /\ st' = st /\ tainted' = tainted
        /\ mark' = mark /\ serving' = serving /\ saved' = saved /\ planMark' = planMark
        /\ settled' = settled /\ owned' = owned /\ stale' \in {"no", "unread"}
        /\ op' = op /\ then' = then
    BY DEF CreateCall, Proceed, Aborts, NextStep, Goto
  <1>4. made' \in BOOLEAN /\ told' \in BOOLEAN
    BY DEF CreateCall
  <1>5. CASE fails
    <2>1. Aborts /\ reply' = None
      BY <1>5 DEF CreateCall, Proceed
    <2>2. RestInv'
      BY <1>1, <1>3, <2>1, AbortKeeps
    <2>3. Typed'
      <3>1. others' = "none" /\ plan' = None /\ model' = None /\ failed' \in BOOLEAN
        BY <2>1 DEF Aborts
      <3> QED
        BY <1>2, <1>3, <1>4, <2>1, <3>1, Types, StepKeepsTypes
    <2> QED
      BY <2>2, <2>3 DEF CoreInv, RestInv
  <1>6. CASE ~ fails
    <2>1. NextStep /\ model' = model /\ reply' = srv'
      BY <1>6 DEF CreateCall, Proceed
    <2>2. pc' = pc + 1 /\ others' = others /\ plan' = plan /\ failed' = FALSE
      BY <2>1 DEF NextStep, Goto
    <2>3. RestInv'
      BY <1>1, <1>2, <1>3, <2>1, <2>2, ForwardKeeps DEF Answering
    <2>4. Typed'
      <3>1. failed' \in BOOLEAN
        BY <2>2
      <3> QED
        BY <1>2, <1>3, <1>4, <2>1, <2>2, <3>1, Types, StepKeepsTypes
    <2> QED
      BY <2>3, <2>4 DEF CoreInv, RestInv
  <1> QED
    BY <1>5, <1>6

(* What a change that fails may leave behind.                              *)
LEMMA RestoredTyped ==
  ASSUME CoreInv, srv # None, NEW s \in Restored
  PROVE  s \in Held \cup {Zero}
  <1>1. Value \subseteq Held
    BY DEF Held, Plain
  <1> QED
    BY <1>1, Types DEF Restored

(* An object is changed to a value the server can hold.                    *)
LEMMA UpdateCallKeeps ==
  ASSUME CoreInv, NEW fails \in BOOLEAN, UpdateCall(fails)
  PROVE  CoreInv'
  <1>1. op \in {"create", "update", "delete"} /\ Doing = "update" /\ op \in Handlers /\ srv # None
    BY AtStep DEF UpdateCall, At, CoreInv, Allowed, Handlers, Reporting
  <1>2. srv' \in Held \cup {None, Zero} /\ (op # "delete" => srv' # None)
    <2>1. PICK c \in Carried :
            \/ c # Omit /\ srv' = Canon(c)
            \/ c = Omit /\ srv' = srv
            \/ c = Omit /\ Moving /\ srv' \in Held
            \/ fails /\ srv' \in Restored
      BY DEF UpdateCall
    <2>2. \/ c = Omit
          \/ /\ Canon(c) \in Held \cup {None, Zero}
             /\ op \in {"create", "update"} => Canon(c) # None
      BY <1>1, CarriedTyped
    <2>3. srv' \in Restored => srv' \in Held \cup {Zero}
      BY <1>1, RestoredTyped
    <2> QED
      BY <1>1, <2>1, <2>2, <2>3, Types
  <1>3. /\ profile' = profile /\ base' = base /\ cfg' = cfg /\ st' = st /\ tainted' = tainted
        /\ mark' = mark /\ serving' = serving /\ saved' = saved /\ planMark' = planMark
        /\ settled' = settled /\ owned' = owned /\ stale' = stale /\ made' = made /\ told' = told
        /\ op' = op /\ then' = then
    BY DEF UpdateCall, Proceed, Aborts, NextStep, Goto, history
  <1>5. CASE fails
    <2>1. Aborts /\ reply' = reply
      BY <1>5 DEF UpdateCall, Proceed
    <2>2. RestInv'
      BY <1>1, <1>3, <2>1, AbortKeeps
    <2>3. Typed'
      <3>1. others' = "none" /\ plan' = None /\ model' = None /\ failed' \in BOOLEAN
        BY <2>1 DEF Aborts
      <3> QED
        BY <1>2, <1>3, <2>1, <3>1, Types, StepKeepsTypes
    <2> QED
      BY <2>2, <2>3 DEF CoreInv, RestInv
  <1>6. CASE ~ fails
    <2>1. NextStep /\ model' = model /\ reply' = srv'
      BY <1>6 DEF UpdateCall, Proceed
    <2>2. pc' = pc + 1 /\ others' = others /\ plan' = plan /\ failed' = FALSE
      BY <2>1 DEF NextStep, Goto
    <2>3. RestInv'
      BY <1>1, <1>2, <1>3, <2>1, <2>2, ForwardKeeps DEF Answering
    <2>4. Typed'
      <3>1. failed' \in BOOLEAN
        BY <2>2
      <3> QED
        BY <1>2, <1>3, <2>1, <2>2, <3>1, Types, StepKeepsTypes
    <2> QED
      BY <2>3, <2>4 DEF CoreInv, RestInv
  <1> QED
    BY <1>5, <1>6

(* A Delete puts back a value the server can hold.                         *)
LEMMA UndoCallKeeps ==
  ASSUME CoreInv, UndoCall
  PROVE  CoreInv'
  <1>1. op = "delete" /\ Doing = "undo" /\ op \in Handlers
    BY AtStep DEF UndoCall, At, CoreInv, Allowed, Handlers, Reporting
  <1>2. srv' \in Held \cup {None, Zero}
    <2>1. PICK c \in Carried : srv' = IF srv = None \/ c = Omit THEN srv ELSE Canon(c)
      BY DEF UndoCall
    <2>2. c = Omit \/ Canon(c) \in Held \cup {None, Zero}
      BY <1>1, CarriedTyped
    <2> QED
      BY <2>1, <2>2, Types
  <1>3. /\ profile' = profile /\ base' = base /\ cfg' = cfg /\ st' = st /\ tainted' = tainted
        /\ mark' = mark /\ serving' = serving /\ saved' = saved /\ planMark' = planMark
        /\ settled' = settled /\ owned' = owned /\ stale' = stale /\ made' = made /\ told' = told
        /\ op' = op /\ then' = then /\ model' = model /\ reply' = reply
        /\ pc' = pc + 1 /\ others' = others /\ plan' = plan /\ failed' = FALSE
    BY DEF UndoCall, NextStep, Goto, history
  <1>4. RestInv'
    BY <1>1, <1>3, ForwardKeeps DEF Answering
  <1>5. Typed'
    <2>1. failed' \in BOOLEAN
      BY <1>3
    <2> QED
      BY <1>2, <1>3, <2>1, Types, StepKeepsTypes
  <1> QED
    BY <1>4, <1>5 DEF CoreInv, RestInv

(* A Delete is over with the call that deletes.                            *)
LEMMA DeleteCallKeeps ==
  ASSUME CoreInv, NEW fails \in BOOLEAN, DeleteCall(fails)
  PROVE  CoreInv'
  <1>1. op = "delete" /\ Doing \in {"delete", "deleteOrAsk"} /\ op \in Handlers
    BY AtStep DEF DeleteCall, At, CoreInv, Allowed, Handlers, Reporting
  <1>2. /\ profile' = profile /\ base' = base /\ cfg' = cfg /\ st' = st /\ tainted' = tainted
        /\ mark' = mark /\ serving' = serving /\ saved' = saved /\ planMark' = planMark
        /\ settled' = settled /\ owned' = owned /\ stale' = stale /\ reply' = reply /\ srv' = None
        /\ op' = op /\ then' = then
    BY DEF DeleteCall, Aborts, Stop, Goto
  <1>3. made' \in BOOLEAN /\ told' \in BOOLEAN
    BY DEF DeleteCall
  <1>4. CASE fails
    <2>1. Aborts
      BY <1>4 DEF DeleteCall
    <2>2. RestInv'
      BY <1>1, <1>2, <2>1, AbortKeeps
    <2>3. Typed'
      <3>1. others' = "none" /\ plan' = None /\ model' = None /\ failed' \in BOOLEAN
        BY <2>1 DEF Aborts
      <3> QED
        BY <1>2, <1>3, <3>1, Types, StepKeepsTypes
    <2> QED
      BY <2>2, <2>3 DEF CoreInv, RestInv
  <1>5. CASE ~ fails
    <2>1. Stop /\ failed' = FALSE
      BY <1>5 DEF DeleteCall
    <2>2. RestInv'
      BY <1>1, <1>2, <2>1, StopKeeps
    <2>3. Typed'
      <3>1. others' = others /\ plan' = plan /\ model' = model
        BY <2>1 DEF Stop, Goto
      <3>2. failed' \in BOOLEAN
        BY <2>1
      <3> QED
        BY <1>2, <1>3, <3>1, <3>2, Types, StepKeepsTypes
    <2> QED
      BY <2>2, <2>3 DEF CoreInv, RestInv
  <1> QED
    BY <1>4, <1>5

(* A call that fails ends a Read or an import, and aborts the other        *)
(* handlers.                                                               *)
LEMMA FailsKeeps ==
  ASSUME CoreInv, Fails
  PROVE  CoreInv'
  <1>1. Doing \notin {"nothing", "take", "fetchOrRecord"} /\ op \in Handlers
    BY AtStep DEF Fails, CoreInv
  <1>2. srv' \in Held \cup {None, Zero}
    <2>1. CASE At("update") /\ srv # None
      BY <2>1, RestoredTyped DEF Fails
    <2>2. CASE ~ (At("update") /\ srv # None)
      BY <2>2, Types DEF Fails
    <2> QED
      BY <2>1, <2>2
  <1>3. /\ profile' = profile /\ base' = base /\ cfg' = cfg /\ st' = st /\ tainted' = tainted
        /\ mark' = mark /\ serving' = serving
        /\ settled' = settled /\ owned' = owned /\ stale' = stale /\ made' = made /\ told' = told
    BY DEF Fails, history
  <1>4. CASE op \in {"read", "import"}
    <2>1. Return
      BY <1>4 DEF Fails
    <2>2. RestInv'
      BY <1>3, <2>1, Types, ReturnKeeps
    <2>3. Held' = Held /\ Settable' = Settable /\ Plannable' = Plannable /\ Configs' = Configs
      BY <1>3, CatalogFixed
    <2>4. ValuesTyped'
      BY <1>2, <1>3, <2>1, <2>3, Types DEF Typed, ValuesTyped, Return
    <2>5. FlagsTyped'
      <3>1. planMark' \in BOOLEAN /\ failed' \in BOOLEAN
        BY <2>1 DEF Return
      <3>2. op' = "idle" /\ then' = "idle" /\ others' = "none"
        BY <2>1 DEF Return
      <3> QED
        BY <1>3, <3>1, <3>2, Types DEF Typed, FlagsTyped
    <2> QED
      BY <2>2, <2>4, <2>5 DEF CoreInv, RestInv, Typed
  <1>5. CASE op \notin {"read", "import"}
    <2>1. Aborts /\ reply' = reply /\ saved' = saved /\ planMark' = planMark
      BY <1>5 DEF Fails
    <2>2. RestInv'
      BY <1>1, <1>3, <2>1, AbortKeeps
    <2>3. Typed'
      <3>1. /\ others' = "none" /\ plan' = None /\ model' = None /\ failed' \in BOOLEAN
            /\ op' = op /\ then' = then
        BY <2>1 DEF Aborts
      <3> QED
        BY <1>2, <1>3, <2>1, <3>1, Types, StepKeepsTypes
    <2> QED
      BY <2>2, <2>3 DEF CoreInv, RestInv
  <1> QED
    BY <1>4, <1>5

(* A response is there once the object was fetched.                        *)
LEMMA FetchStepKeeps ==
  ASSUME CoreInv, FetchStep
  PROVE  CoreInv'
  <1>1. /\ Doing \in {"fetch", "fetchOrForget", "fetchOrRecord", "fetchOrAsk"}
        /\ op \in Handlers /\ failed = FALSE /\ reply' # None /\ pc \in Nat /\ op # "idle"
        /\ Doing = "fetchOrAsk" => op = "read"
    BY AtStep DEF FetchStep, CoreInv, Allowed, Handlers, Reporting
  <1>2. /\ profile' = profile /\ base' = base /\ cfg' = cfg /\ st' = st /\ tainted' = tainted
        /\ mark' = mark /\ serving' = serving /\ saved' = saved /\ planMark' = planMark
        /\ settled' = settled /\ owned' = owned /\ stale' = stale /\ made' = made /\ told' = told
        /\ op' = op /\ then' = then /\ model' = model /\ reply' = srv /\ srv' = srv
        /\ others' = others /\ plan' = plan /\ failed' = failed
    BY DEF FetchStep, Goto, object, history
  <1>3. Typed'
    BY <1>2, Types, StepKeepsTypes
  <1>4. CASE Doing # "fetchOrAsk"
    <2>1. pc' = pc + 1
      BY <1>4 DEF FetchStep, Goto, At
    <2>2. RestInv'
      BY <1>1, <1>2, <2>1, ForwardKeeps DEF Answering
    <2> QED
      BY <1>3, <2>2 DEF CoreInv, RestInv
  <1>5. CASE Doing = "fetchOrAsk"
    <2>1. pc' = pc + 2 /\ op = "read"
      BY <1>1, <1>5 DEF FetchStep, Goto, At
    <2>2. pc + 1 \in 1..Len(Handler(op)) /\ Len(Handler(op)) \in Nat
      BY <1>5, Types, InPairs, AtStep
    <2>3. pc + 2 \in 1..(Len(Handler(op)) + 1) /\ pc + 2 \in Nat
      BY <1>1, <2>2
    <2>4. PcInv'
      BY <1>1, <1>2, <2>1, <2>3 DEF CoreInv, PcInv, End, Handler
    <2>5. CalledInv' /\ ModelInv' /\ KnownInv' /\ RecordInv'
      BY <1>1, <1>2, <2>1 DEF CoreInv, CalledInv, ModelInv, Modelling, KnownInv, RecordInv
    <2> QED
      BY <1>3, <2>4, <2>5 DEF CoreInv
  <1> QED
    BY <1>4, <1>5

(* Only a Read forgets.                                                    *)
LEMMA ForgetKeeps ==
  ASSUME CoreInv, Forget
  PROVE  CoreInv'
  <1>1. op = "read" /\ Doing # "nothing" /\ op \in Handlers /\ failed = FALSE
    BY AtStep DEF Forget, At, CoreInv, Allowed, Handlers, Reporting
  <1>2. /\ profile' = profile /\ base' = base /\ cfg' = cfg /\ st' = st /\ tainted' = tainted
        /\ mark' = mark /\ serving' = serving /\ saved' = None /\ planMark' = planMark
        /\ settled' = settled /\ owned' = owned /\ stale' = stale /\ made' = made /\ told' = told
        /\ op' = op /\ then' = then /\ model' = model /\ reply' = reply /\ srv' = srv
        /\ others' = others /\ plan' = plan /\ failed' = failed /\ Stop
    BY DEF Forget, Stop, Goto, object, history
  <1>3. Typed'
    BY <1>2, Types, StepKeepsTypes
  <1>4. RestInv'
    BY <1>1, <1>2, StopKeeps
  <1> QED
    BY <1>3, <1>4 DEF CoreInv, RestInv

(* The steps that only go on to the next one.                              *)
LEMMA PassingKeeps ==
  ASSUME CoreInv, NotFound \/ RecordManagedStep \/ ImportFlagStep \/ PassStep
  PROVE  CoreInv'
  <1>1. /\ Doing \notin {"nothing", "take", "save", "forgetIfRunning"} /\ op \in Handlers
        /\ Doing \in Answering => Doing = "fetchOrAsk"
    BY AtStep DEF NotFound, RecordManagedStep, ImportFlagStep, PassStep, At, CoreInv, Answering
  <1>2. /\ profile' = profile /\ base' = base /\ cfg' = cfg /\ st' = st /\ tainted' = tainted
        /\ mark' = mark /\ serving' = serving /\ saved' = saved
        /\ settled' = settled /\ owned' = owned /\ stale' = stale /\ made' = made /\ told' = told
        /\ op' = op /\ then' = then /\ model' = model /\ reply' = reply /\ srv' = srv
        /\ pc' = pc + 1 /\ others' = others /\ plan' = plan /\ failed' = FALSE
    BY DEF NotFound, RecordManagedStep, ImportFlagStep, PassStep, NextStep, Goto, object, history
  <1>3. planMark' \in BOOLEAN
    <2>1. CASE NotFound
      BY <2>1, Types DEF NotFound
    <2>2. CASE RecordManagedStep
      BY <2>2, Types DEF RecordManagedStep
    <2>3. CASE ImportFlagStep
      BY <2>3, Types DEF ImportFlagStep, At
    <2>4. CASE PassStep
      BY <2>4, Types DEF PassStep
    <2> QED
      BY <2>1, <2>2, <2>3, <2>4
  <1>4. Typed'
    <2>1. failed' \in BOOLEAN
      BY <1>2
    <2> QED
      BY <1>2, <1>3, <2>1, Types, StepKeepsTypes
  <1>5. RestInv'
    BY <1>1, <1>2, ForwardKeeps
  <1> QED
    BY <1>4, <1>5 DEF CoreInv, RestInv

(* A Read or a Delete is over once it has asked.                           *)
LEMMA AskedKeeps ==
  ASSUME CoreInv, Asked
  PROVE  CoreInv'
  <1>1. op \in {"read", "delete"} /\ Doing \in {"forgetIfRunning", "goneIfRunning"}
    BY AtStep DEF Asked, At, CoreInv, Allowed, Handlers, Reporting
  <1>2. /\ profile' = profile /\ base' = base /\ cfg' = cfg /\ st' = st /\ tainted' = tainted
        /\ mark' = mark /\ serving' = serving /\ saved' = saved /\ planMark' = planMark
        /\ settled' = settled /\ owned' = owned /\ stale' = stale /\ made' = made /\ told' = told
        /\ op' = op /\ then' = then /\ reply' = reply /\ srv' = srv
    BY DEF Asked, Stop, Aborts, Goto, object, history
  <1>3. CASE Stop /\ failed' = FALSE
    <2>1. RestInv'
      BY <1>1, <1>2, <1>3, StopKeeps
    <2>2. others' = others /\ plan' = plan /\ model' = model
      BY <1>3 DEF Stop, Goto
    <2>3. failed' \in BOOLEAN
      BY <1>3
    <2>4. Typed'
      BY <1>2, <2>2, <2>3, Types, StepKeepsTypes
    <2> QED
      BY <2>1, <2>4 DEF CoreInv, RestInv
  <1>4. CASE Aborts
    <2>1. RestInv'
      BY <1>1, <1>2, <1>4, AbortKeeps
    <2>2. others' = "none" /\ plan' = None /\ model' = None /\ failed' \in BOOLEAN
      BY <1>4 DEF Aborts
    <2>3. Typed'
      BY <1>2, <2>2, Types, StepKeepsTypes
    <2> QED
      BY <2>1, <2>3 DEF CoreInv, RestInv
  <1> QED
    BY <1>3, <1>4 DEF Asked

(* A Create whose read fails records something known.                      *)
LEMMA RecordKeeps ==
  ASSUME CoreInv, Record
  PROVE  CoreInv'
  <1>1. op = "create" /\ Doing = "fetchOrRecord" /\ failed = FALSE
    BY AtStep DEF Record, At, CoreInv, Allowed, Handlers, Reporting
  <1>2. /\ profile' = profile /\ base' = base /\ cfg' = cfg /\ st' = st /\ tainted' = tainted
        /\ mark' = mark /\ serving' = serving /\ planMark' = planMark
        /\ settled' = settled /\ owned' = owned /\ stale' = stale /\ made' = made /\ told' = told
        /\ op' = op /\ then' = then /\ reply' = reply /\ srv' = srv
    BY DEF Record, Aborts, object, history
  <1>3. saved' \in Plannable /\ saved' \notin {None, Unknown}
    <2>1. model # None
      BY <1>1 DEF CoreInv, ModelInv, Modelling
    <2>2. Null \in Plannable /\ Null \notin {None, Unknown}
      BY SpecialValues DEF Plannable, Settable
    <2> QED
      BY <2>1, <2>2, Types DEF Record
  <1>4. RestInv'
    BY <1>1, <1>2, <1>3, AbortKeeps DEF Record
  <1>5. others' = "none" /\ plan' = None /\ model' = None /\ failed' \in BOOLEAN
    BY DEF Record, Aborts
  <1>6. Typed'
    BY <1>2, <1>3, <1>5, Types, StepKeepsTypes
  <1> QED
    BY <1>4, <1>6 DEF CoreInv, RestInv

(* What is recorded of a model is not unknown unless the model is.         *)
LEMMA AsSavedKnown ==
  ASSUME CoreInv, NEW m \in Plannable \cup {None}
  PROVE  AsSaved(m) \in {plan, m} /\ (AsSaved(m) = Unknown => m = Unknown)
  <1>1. Canon(m) = Canon(Unknown) => m = Unknown
    BY SomeIsValue, SpecialValues DEF Canon
  <1> QED
    BY <1>1 DEF AsSaved

(* Where the plan may be unknown, a save comes after the response that     *)
(* makes the model known.                                                  *)
LEMMA SavedResolved ==
  ASSUME CoreInv, op \in {"create", "update"}, op = "create" => ~ Exempt("AppliedAsPlanned"),
         MayBeUnknown(kind, op), NEW i \in 1..Len(Handler(op)), Handler(op)[i].do = "save"
  PROVE  ResolvedBefore(i)
  <1>1. WellFormed(profile)
    BY Formed DEF CoreInv
  <1>2. Resolved(Handler(op)) /\ DOMAIN Handler(op) = 1..Len(Handler(op))
    BY <1>1 DEF WellFormed, Handler, Handlers, Exempt, kind
  <1> QED
    BY <1>2 DEF Resolved, ResolvedBefore

(* A response that is taken, and saved, makes the model known where it has *)
(* to be.                                                                  *)
LEMMA TakeStepKeeps ==
  ASSUME CoreInv, TakeStep
  PROVE  CoreInv'
  <1> DEFINE h     == Handler(op)
             saves == pc < Len(h) /\ h[pc + 1].do = "save"
  <1>1. /\ Doing = "take" /\ failed = FALSE /\ Running /\ Cur = h[pc] /\ h[pc].do = "take"
        /\ op \in {"create", "read", "update", "import"} /\ pc \in 1..Len(h) /\ Len(h) \in Nat
        /\ End = Len(h) + 1 /\ pc \in Nat /\ op # "idle"
        /\ Cur.rule \in TakenRules
    BY AtStep DEF TakeStep, At, CoreInv, Allowed, Handlers, Reporting, Rules
  <1>2. /\ profile' = profile /\ base' = base /\ cfg' = cfg /\ st' = st /\ tainted' = tainted
        /\ mark' = mark /\ serving' = serving /\ planMark' = planMark
        /\ settled' = settled /\ owned' = owned /\ stale' = stale /\ made' = made /\ told' = told
        /\ op' = op /\ then' = then /\ reply' = reply /\ srv' = srv
        /\ others' = others /\ plan' = plan /\ failed' = failed
        /\ model' \in Taken(Cur.rule, reply, model)
    BY DEF TakeStep, Goto, object, history
  <1>3. \/ saves /\ pc' = pc + 2 /\ saved' = AsSaved(model')
        \/ ~ saves /\ pc' = pc + 1 /\ saved' = saved
    BY DEF TakeStep, Goto
  <1>4. /\ model' \in Plannable \cup {None}
        /\ reply # None /\ model # None => model' # None
        /\ model' = Unknown => model = Unknown /\ Cur.rule \notin KnownRules
    <2>1. /\ Cur.rule \in TakenRules /\ reply \in Held \cup {None, Zero}
          /\ model \in Plannable \cup {None} /\ model' \in Taken(Cur.rule, reply, model)
      BY <1>1, <1>2, Types
    <2> QED
      BY <2>1, TakenTyped
  <1>5. AsSaved(model') \in {plan, model'} /\ (AsSaved(model') = Unknown => model' = Unknown)
    BY <1>4, AsSavedKnown
  <1>6. Modelling => reply # None /\ model' # None /\ plan # None
    <2>1. Past(Answering)
      BY <1>1, Types, InPairs
    <2> QED
      BY <1>1, <1>4, <2>1 DEF CoreInv, ModelInv
  <1>7. Typed'
    <2>1. saved' \in Plannable \cup {None}
      BY <1>3, <1>4, <1>5, Types
    <2> QED
      BY <1>2, <1>4, <2>1, Types, StepKeepsTypes
  <1>8. /\ Handler(op)' = h /\ End' = End /\ kind' = kind /\ Modelling' = Modelling
        /\ (Exempt("AppliedAsPlanned"))' = Exempt("AppliedAsPlanned")
    BY <1>2 DEF Handler, End, kind, Exempt, Modelling
  <1>9. PcInv'
    <2>1. pc' \in 1..End /\ pc' \in Nat
      <3> HIDE DEF h
      <3> QED
        BY <1>1, <1>3
    <2> QED
      BY <1>1, <1>2, <1>8, <2>1 DEF CoreInv, PcInv
  <1>10. CalledInv'
    BY <1>2 DEF CoreInv, CalledInv
  <1>11. op \in {"create", "update"} => Modelling
    BY <1>1 DEF Modelling
  <1>12. ModelInv'
    <2>1. (Past({"save"}))' => Past({"save"}) \/ saves
      <3> SUFFICES ASSUME ~ saves, (Past({"save"}))' PROVE Past({"save"})
        OBVIOUS
      <3>1. Earlier(Handler(op), pc + 1, {"save"})
        BY <1>3, <1>8 DEF Past
      <3> QED
        BY <1>1, <3>1, Types, Onward
    <2>2. Modelling' => plan' # None /\ model' # None /\ reply' # None
      BY <1>2, <1>6, <1>8
    <2>3. op \in {"create", "update"} /\ saves => saved' # None
      BY <1>3, <1>5, <1>6, <1>11
    <2>4. op = "update" => saved' # None
      BY <1>3, <2>3 DEF CoreInv, ModelInv
    <2>5. op = "create" /\ (Past({"save"}))' => saved' # None
      BY <1>1, <1>3, <2>1, <2>3 DEF CoreInv, ModelInv
    <2> QED
      BY <1>1, <1>2, <2>2, <2>4, <2>5 DEF ModelInv
  <1>13. KnownInv'
    <2>1. op \notin {"create", "update"} => Unknown \notin {plan', model', saved'}
      BY <1>2, <1>3, <1>4, <1>5 DEF CoreInv, KnownInv
    <2>2. ASSUME op \in {"create", "update"}, model' = Unknown
          PROVE  MayBeUnknown(kind, op) /\ ~ ResolvedBefore(pc + 1)
      BY <1>1, <1>4, <2>2, Types, Onward DEF CoreInv, KnownInv
    <2>3. ASSUME op \in {"create", "update"}, model' = Unknown
          PROVE  ~ (ResolvedBefore(pc))'
      <3>1. CASE ~ saves
        BY <1>3, <1>8, <2>2, <2>3, <3>1 DEF ResolvedBefore
      <3>2. CASE saves
        <4>1. pc' = pc + 2 /\ h[pc + 1].do # "take"
          BY <1>3, <3>2
        <4>2. \A j \in 1..(pc' - 1) : j = pc + 1 \/ j \in 1..(pc + 1 - 1)
          <5> HIDE DEF h
          <5> QED
            BY <1>1, <4>1
        <4>3. ~ \E j \in 1..(pc + 1 - 1) : h[j].do = "take" /\ h[j].rule \in KnownRules
          <5>1. ~ ResolvedBefore(pc + 1)
            BY <2>2, <2>3
          <5> QED
            BY <1>1, <5>1 DEF ResolvedBefore
        <4>4. ~ \E j \in 1..(pc' - 1) : h[j].do = "take" /\ h[j].rule \in KnownRules
          <5> HIDE DEF h
          <5> QED
            BY <4>1, <4>2, <4>3
        <4> QED
          BY <1>8, <4>4 DEF ResolvedBefore
      <3> QED
        BY <3>1, <3>2
    <2>4. ASSUME op = "update" \/ (op = "create" /\ ~ Exempt("AppliedAsPlanned"))
          PROVE  saved' # Unknown
      <3>1. CASE ~ saves
        BY <1>3, <2>4, <3>1 DEF CoreInv, KnownInv
      <3>2. CASE saves
        <4> SUFFICES ASSUME model' = Unknown PROVE FALSE
          BY <1>3, <1>5, <3>2
        <4>1. pc + 1 \in 1..Len(h) /\ h[pc + 1].do = "save"
          <5>1. h[pc + 1].do = "save" /\ pc < Len(h)
            BY <3>2
          <5> HIDE DEF h
          <5> QED
            BY <1>1, <5>1
        <4>2. op \in {"create", "update"}
          BY <2>4
        <4>3. MayBeUnknown(kind, op) /\ ~ ResolvedBefore(pc + 1)
          BY <2>2, <4>2
        <4> QED
          BY <2>4, <4>1, <4>2, <4>3, SavedResolved
      <3> QED
        BY <3>1, <3>2
    <2> QED
      BY <1>2, <1>8, <2>1, <2>2, <2>3, <2>4 DEF KnownInv
  <1>14. RecordInv'
    <2> SUFFICES ASSUME op = "create", profile.recorded, reply # None, saved' = None
                 PROVE  FALSE
      BY <1>2 DEF RecordInv
    <2>1. ~ saves /\ saved = None
      BY <1>3, <1>5, <1>6, <1>11
    <2> QED
      BY <1>1, <2>1 DEF CoreInv, RecordInv
  <1> QED
    BY <1>7, <1>9, <1>10, <1>12, <1>13, <1>14 DEF CoreInv

(* What is saved is known where it has to be.                              *)
LEMMA SaveStepKeeps ==
  ASSUME CoreInv, SaveStep
  PROVE  CoreInv'
  <1> DEFINE h == Handler(op)
  <1>1. /\ Doing \in {"save", "saveId"} /\ failed = FALSE /\ Running /\ Doing = h[pc].do
        /\ op \in {"create", "read", "update", "import"} /\ pc \in 1..Len(h) /\ Len(h) \in Nat
        /\ End = Len(h) + 1 /\ pc \in Nat /\ op # "idle" /\ Cur.do = Doing
        /\ Doing = "saveId" => op = "import"
    BY AtStep DEF SaveStep, CoreInv, Allowed, Handlers, Reporting
  <1>2. /\ profile' = profile /\ base' = base /\ cfg' = cfg /\ st' = st /\ tainted' = tainted
        /\ mark' = mark /\ serving' = serving /\ planMark' = planMark
        /\ settled' = settled /\ owned' = owned /\ stale' = stale /\ made' = made /\ told' = told
        /\ op' = op /\ then' = then /\ reply' = reply /\ srv' = srv /\ model' = model
        /\ others' = others /\ plan' = plan /\ failed' = FALSE /\ pc' = pc + 1
    BY DEF SaveStep, NextStep, Goto, object, history
  <1>3. \/ Doing = "save" /\ saved' = AsSaved(model)
        \/ Doing = "saveId" /\ saved' \in {srv, Null} /\ op = "import"
    BY <1>1 DEF SaveStep, At
  <1>4. AsSaved(model) \in {plan, model} /\ (AsSaved(model) = Unknown => model = Unknown)
    BY AsSavedKnown, Types
  <1>5. saved' \in Plannable \cup {None}
    <2>1. Null \in Plannable
      BY DEF Plannable, Settable
    <2> QED
      BY <1>3, <1>4, <2>1, Types
  <1>6. Typed'
    <2>1. failed' \in BOOLEAN
      BY <1>2
    <2> QED
      BY <1>2, <1>5, <2>1, Types, StepKeepsTypes
  <1>7. /\ Handler(op)' = h /\ End' = End /\ kind' = kind /\ Modelling' = Modelling
        /\ (Exempt("AppliedAsPlanned"))' = Exempt("AppliedAsPlanned")
    BY <1>1, <1>2 DEF Handler, End, kind, Exempt, Modelling
  <1>8. /\ \A S : (Past(S))' <=> Past(S) \/ Doing \in S
        /\ (ResolvedBefore(pc))' <=> ResolvedBefore(pc)
        /\ pc' \in 1..End /\ pc' \in Nat
    BY <1>1, <1>2, <1>7, Types, Onward DEF Past, ResolvedBefore
  <1>9. PcInv'
    BY <1>2, <1>7, <1>8 DEF CoreInv, PcInv
  <1>10. CalledInv'
    BY <1>2 DEF CoreInv, CalledInv
  <1>11. Modelling => saved' # None /\ model # None /\ plan # None
    BY <1>3, <1>4 DEF CoreInv, ModelInv, Modelling
  <1>12. ModelInv'
    <2>1. ~ (Doing \in Answering)
      BY <1>1 DEF Answering
    <2>2. Modelling /\ (Past(Answering))' => reply' # None
      BY <1>1, <1>2, <1>8, <2>1 DEF CoreInv, ModelInv
    <2>3. op \in {"create", "update"} => Modelling
      BY <1>1 DEF Modelling
    <2>4. op # "delete"
      BY <1>1
    <2> QED
      BY <1>2, <1>7, <1>11, <2>2, <2>3, <2>4 DEF ModelInv
  <1>13. KnownInv'
    <2>1. op \notin {"create", "update"} => Unknown \notin {plan', model', saved'}
      <3>1. Null # Unknown
        BY SpecialValues
      <3> QED
        BY <1>2, <1>3, <1>4, <3>1, Types DEF CoreInv, KnownInv
    <2>2. ASSUME op = "update" \/ (op = "create" /\ ~ Exempt("AppliedAsPlanned"))
          PROVE  saved' # Unknown
      <3> SUFFICES ASSUME model = Unknown PROVE FALSE
        BY <1>3, <1>4, <2>2
      <3>1. op \in {"create", "update"} /\ h[pc].do = "save"
        BY <1>1, <2>2
      <3>2. MayBeUnknown(kind, op) /\ ~ ResolvedBefore(pc)
        BY <3>1 DEF CoreInv, KnownInv
      <3> QED
        BY <1>1, <2>2, <3>1, <3>2, SavedResolved
    <2>3. op \in {"create", "update"} /\ model = Unknown
            => MayBeUnknown(kind, op) /\ ~ (ResolvedBefore(pc))'
      BY <1>8 DEF CoreInv, KnownInv
    <2> QED
      BY <1>2, <1>7, <2>1, <2>2, <2>3 DEF KnownInv
  <1>14. RecordInv'
    <2>1. op = "create" => saved' # None
      BY <1>1, <1>11 DEF Modelling
    <2> QED
      BY <1>2, <2>1 DEF RecordInv
  <1> QED
    BY <1>6, <1>9, <1>10, <1>12, <1>13, <1>14 DEF CoreInv

-----------------------------------------------------------------------------
(* The end of a handler.                                                   *)

(* After the return of a handler nothing runs.                             *)
LEMMA EndTypes ==
  ASSUME CoreInv, Return, profile' = profile, base' = base, cfg' = cfg, srv' = srv,
         serving' = serving, st' \in Settable \cup {None}, tainted' \in BOOLEAN, mark' \in BOOLEAN,
         made' \in BOOLEAN, told' \in BOOLEAN, settled' \in BOOLEAN, owned' \in BOOLEAN,
         stale' \in {"no", "unread", "hidden"}
  PROVE  CoreInv'
  <1>1. Held' = Held /\ Settable' = Settable /\ Plannable' = Plannable /\ Configs' = Configs
    BY CatalogFixed
  <1>2. ValuesTyped'
    BY <1>1 DEF CoreInv, Typed, ValuesTyped, Return
  <1>3. planMark' \in BOOLEAN /\ failed' \in BOOLEAN
    BY DEF Return
  <1>4. op' = "idle" /\ then' = "idle" /\ others' = "none"
    BY DEF Return
  <1>5. FlagsTyped'
    BY <1>3, <1>4 DEF CoreInv, Typed, FlagsTyped
  <1>6. RestInv'
    BY ReturnKeeps DEF CoreInv
  <1> QED
    BY <1>2, <1>5, <1>6 DEF CoreInv, RestInv, Typed

(* Whether the state can be trusted is one of three answers.               *)
LEMMA TrustTyped ==
  ASSUME CoreInv
  PROVE  Trust \in {"no", "unread", "hidden"}
  BY Types DEF Trust

(* What core records of a Create is known.                                 *)
LEMMA CreatedKeeps ==
  ASSUME CoreInv, Created
  PROVE  CoreInv'
  <1>1. st' \in Settable \cup {None}
    <2>1. Null \in Settable /\ Plannable = Settable \cup {Unknown}
      BY DEF Settable, Plannable
    <2> QED
      BY <2>1, Types DEF Created
  <1>2. stale' \in {"no", "unread", "hidden"}
    BY TrustTyped DEF Created
  <1>3. /\ Return /\ profile' = profile /\ base' = base /\ cfg' = cfg /\ srv' = srv
        /\ serving' = serving /\ made' = made
    BY DEF Created
  <1>4. tainted' \in BOOLEAN /\ mark' \in BOOLEAN
    BY Types DEF Created, Rejected
  <1>5. told' \in BOOLEAN /\ settled' \in BOOLEAN /\ owned' \in BOOLEAN
    BY Types DEF Created, Rejected, Managed, Has
  <1> QED
    BY <1>1, <1>2, <1>3, <1>4, <1>5, Types, EndTypes

(* What core records of an Update is known.                                *)
LEMMA UpdatedKeeps ==
  ASSUME CoreInv, Updated
  PROVE  CoreInv'
  <1>1. st' \in Settable \cup {None}
    <2>1. Plannable = Settable \cup {Unknown}
      BY DEF Settable, Plannable
    <2>2. saved # Unknown
      BY DEF Updated, Ended, CoreInv, KnownInv
    <2> QED
      BY <2>1, <2>2, Types DEF Updated
  <1>2. stale' \in {"no", "unread", "hidden"}
    BY TrustTyped DEF Updated
  <1>3. /\ Return /\ profile' = profile /\ base' = base /\ cfg' = cfg /\ srv' = srv
        /\ serving' = serving /\ made' = made /\ told' = told /\ tainted' = tainted
        /\ mark' = planMark
    BY DEF Updated
  <1>4. tainted' \in BOOLEAN
    BY <1>3 DEF CoreInv, Typed, FlagsTyped
  <1>5. settled' \in BOOLEAN /\ owned' \in BOOLEAN
    BY Types DEF Updated, Managed, Has
  <1> QED
    BY <1>1, <1>2, <1>3, <1>4, <1>5, Types, EndTypes

(* What core records of a Read is known.                                   *)
LEMMA WasReadKeeps ==
  ASSUME CoreInv, WasRead
  PROVE  CoreInv'
  <1>1. st' \in Settable \cup {None}
    <2>1. Plannable = Settable \cup {Unknown}
      BY DEF Settable, Plannable
    <2>2. saved # Unknown
      BY DEF WasRead, Ended, CoreInv, KnownInv
    <2> QED
      BY <2>1, <2>2, Types DEF WasRead
  <1>2. stale' \in {"no", "unread", "hidden"}
    BY DEF WasRead
  <1>3. /\ Return /\ profile' = profile /\ base' = base /\ cfg' = cfg /\ srv' = srv
        /\ serving' = serving
    BY DEF WasRead
  <1>4. tainted' \in BOOLEAN /\ mark' \in BOOLEAN
    BY DEF WasRead, CoreInv, Typed, FlagsTyped
  <1>5. made' \in BOOLEAN /\ told' \in BOOLEAN
    BY DEF WasRead, CoreInv, Typed, FlagsTyped
  <1>6. settled' \in BOOLEAN /\ owned' \in BOOLEAN
    BY DEF WasRead, CoreInv, Typed, FlagsTyped
  <1> QED
    BY <1>1, <1>2, <1>3, <1>4, <1>5, <1>6, EndTypes

(* An import is followed by a Read of what it returned.                    *)
LEMMA ImportedKeeps ==
  ASSUME CoreInv, Imported
  PROVE  CoreInv'
  <1>1. /\ Typed /\ PcInv /\ op = "import"
        /\ profile' = profile /\ cfg' = cfg /\ st' = st /\ base' = base /\ srv' = srv
        /\ tainted' = tainted /\ mark' = mark /\ serving' = serving /\ made' = made /\ told' = told
        /\ settled' = settled /\ stale' = stale /\ owned' = owned
        /\ Call("read", "idle", "none", saved, saved, saved, planMark)
    BY DEF CoreInv, Imported, Ended, object, history
  <1>2. saved \in Plannable \cup {None} /\ saved # Unknown /\ planMark \in BOOLEAN
    BY <1>1, Types DEF CoreInv, KnownInv
  <1>3. st = None
    BY <1>1 DEF CoreInv, CalledInv
  <1>4. Typed'
    <2>1. Held' = Held /\ Settable' = Settable /\ Plannable' = Plannable /\ Configs' = Configs
      BY <1>1, CatalogFixed
    <2>2. ValuesTyped'
      BY <1>1, <1>2, <2>1 DEF Typed, ValuesTyped, Call
    <2>3. FlagsTyped'
      BY <1>1, <1>2 DEF Typed, FlagsTyped, Call, Handlers
    <2> QED
      BY <2>2, <2>3 DEF Typed
  <1>5. RestInv'
    <2>1. "read" \in Handlers
      BY DEF Handlers
    <2>2. /\ op' = "read" /\ pc' = 1 /\ plan' = saved /\ model' = saved /\ saved' = saved
          /\ reply' = None /\ failed' = FALSE /\ st' = None
      BY <1>1, <1>3 DEF Call
    <2> QED
      BY <1>1, <1>2, <2>1, <2>2, CallKeeps
  <1> QED
    BY <1>4, <1>5 DEF CoreInv, RestInv

(* A Delete leaves no state, or the one it had, and a Create may follow.   *)
LEMMA DeletedKeeps ==
  ASSUME CoreInv, Deleted
  PROVE  CoreInv'
  <1>1. /\ profile' = profile /\ base' = base /\ cfg' = cfg /\ srv' = srv
        /\ serving' = serving /\ made' = made /\ op = "delete"
    BY DEF Deleted, Ended
  <1>2. st' \in Settable \cup {None}
    <2>1. Plannable = Settable \cup {Unknown}
      BY DEF Settable, Plannable
    <2>2. saved # Unknown
      BY <1>1 DEF CoreInv, KnownInv
    <2> QED
      BY <2>1, <2>2, Types DEF Deleted
  <1>3. stale' \in {"no", "unread", "hidden"}
    BY TrustTyped DEF Deleted
  <1>4. tainted' \in BOOLEAN /\ mark' \in BOOLEAN
    BY DEF Deleted, CoreInv, Typed, FlagsTyped
  <1>5. told' \in BOOLEAN /\ settled' \in BOOLEAN /\ owned' \in BOOLEAN
    BY DEF Deleted, CoreInv, Typed, FlagsTyped
  <1>6. CASE failed \/ then = "idle"
    <2>1. Return
      BY <1>6 DEF Deleted
    <2> QED
      BY <1>1, <1>2, <1>3, <1>4, <1>5, <2>1, Types, EndTypes
  <1>7. CASE ~ failed /\ then # "idle"
    <2>1. CallCreate /\ st' = None /\ cfg # None
      BY <1>1, <1>7 DEF Deleted, CoreInv, CalledInv
    <2>2. /\ RestInv' /\ op' = "create" /\ then' = "idle" /\ others' = "some" /\ reply' = None
          /\ plan' \in Plannable /\ model' = plan' /\ saved' = None /\ planMark' = FALSE
          /\ failed' = FALSE
      BY <1>1, <2>1, Types, CallCreateKeeps
    <2>3. Held' = Held /\ Settable' = Settable /\ Plannable' = Plannable /\ Configs' = Configs
      BY <1>1, CatalogFixed
    <2>4. ValuesTyped'
      BY <1>1, <1>2, <2>2, <2>3 DEF CoreInv, Typed, ValuesTyped
    <2>5. FlagsTyped'
      <3>1. planMark' \in BOOLEAN /\ failed' \in BOOLEAN
        BY <2>2
      <3>2. op' = "create" /\ then' = "idle" /\ others' = "some"
        BY <2>2
      <3> QED
        BY <1>1, <1>3, <1>4, <1>5, <3>1, <3>2 DEF CoreInv, Typed, FlagsTyped, Handlers
    <2> QED
      BY <2>2, <2>4, <2>5 DEF CoreInv, RestInv, Typed
  <1> QED
    BY <1>6, <1>7

-----------------------------------------------------------------------------
(* Initially, and over every step.                                         *)

(* The core of the invariant holds before the first apply.                 *)
LEMMA InitCore == Init => CoreInv
  <1> SUFFICES ASSUME Init PROVE CoreInv
    OBVIOUS
  <1>1. base \in Held
    BY DEF Init, Bases, Held
  <1>2. srv \in {None, base}
    BY DEF Init
  <1>3. ValuesTyped
    BY <1>1, <1>2 DEF Init, ValuesTyped
  <1>4. FlagsTyped
    <2>1. /\ tainted \in BOOLEAN /\ mark \in BOOLEAN /\ serving \in BOOLEAN /\ planMark \in BOOLEAN
      BY DEF Init
    <2>2. /\ failed \in BOOLEAN /\ made \in BOOLEAN /\ told \in BOOLEAN /\ settled \in BOOLEAN
          /\ owned \in BOOLEAN
      BY DEF Init
    <2>3. op = "idle" /\ then = "idle" /\ others = "none" /\ stale = "no"
      BY DEF Init
    <2> QED
      BY <2>1, <2>2, <2>3 DEF FlagsTyped
  <1>5. PcInv /\ CalledInv /\ RecordInv
    BY DEF Init, PcInv, CalledInv, RecordInv
  <1>6. ModelInv /\ KnownInv
    BY SpecialValues DEF Init, ModelInv, Modelling, KnownInv
  <1> QED
    BY <1>3, <1>4, <1>5, <1>6 DEF CoreInv, Typed

(* Every step keeps the core of the invariant.                             *)
LEMMA NextCore == CoreInv /\ [Next]_vars => CoreInv'
  <1> SUFFICES ASSUME CoreInv, [Next]_vars PROVE CoreInv'
    OBVIOUS
  <1>1. CASE Edit \/ Drift \/ Vanish \/ Restart
    BY <1>1, OutsideKeeps
  <1>2. CASE Refresh
    BY <1>2, RefreshKeeps
  <1>3. CASE Import
    BY <1>3, ImportKeeps
  <1>4. CASE Destroy
    BY <1>4, DestroyKeeps
  <1>5. CASE ApplyCreate
    BY <1>5, ApplyCreateKeeps
  <1>6. CASE ApplyReplace
    BY <1>6, ApplyReplaceKeeps
  <1>7. CASE \E moved \in Moves : ApplyUpdate(moved)
    BY <1>7, ApplyUpdateKeeps
  <1>8. CASE \E fails \in BOOLEAN : CreateCall(fails) \/ UpdateCall(fails) \/ DeleteCall(fails)
    BY <1>8, CreateCallKeeps, UpdateCallKeeps, DeleteCallKeeps
  <1>9. CASE UndoCall
    BY <1>9, UndoCallKeeps
  <1>10. CASE Fails
    BY <1>10, FailsKeeps
  <1>11. CASE FetchStep
    BY <1>11, FetchStepKeeps
  <1>12. CASE Forget
    BY <1>12, ForgetKeeps
  <1>13. CASE NotFound \/ RecordManagedStep \/ ImportFlagStep \/ PassStep
    BY <1>13, PassingKeeps
  <1>14. CASE Asked
    BY <1>14, AskedKeeps
  <1>15. CASE Record
    BY <1>15, RecordKeeps
  <1>16. CASE TakeStep
    BY <1>16, TakeStepKeeps
  <1>17. CASE SaveStep
    BY <1>17, SaveStepKeeps
  <1>18. CASE Created
    BY <1>18, CreatedKeeps
  <1>19. CASE Updated
    BY <1>19, UpdatedKeeps
  <1>20. CASE WasRead
    BY <1>20, WasReadKeeps
  <1>21. CASE Imported
    BY <1>21, ImportedKeeps
  <1>22. CASE Deleted
    BY <1>22, DeletedKeeps
  <1>23. CASE UNCHANGED vars
    <2>1. /\ profile' = profile /\ base' = base /\ cfg' = cfg /\ srv' = srv /\ st' = st
          /\ tainted' = tainted /\ mark' = mark /\ serving' = serving /\ op' = op /\ pc' = pc
          /\ then' = then /\ others' = others /\ plan' = plan /\ model' = model /\ reply' = reply
          /\ saved' = saved /\ planMark' = planMark /\ failed' = failed /\ made' = made
          /\ told' = told /\ settled' = settled /\ stale' = stale /\ owned' = owned
      BY <1>23 DEF vars, handler, history
    <2>2. Typed'
      BY <2>1, Types, StepKeepsTypes
    <2>3. /\ Handler(op)' = Handler(op) /\ End' = End /\ kind' = kind
          /\ (Running)' = Running /\ (Modelling)' = Modelling
          /\ \A S : (Past(S))' = Past(S)
          /\ (ResolvedBefore(pc))' = ResolvedBefore(pc)
          /\ (Exempt("AppliedAsPlanned"))' = Exempt("AppliedAsPlanned")
      BY <2>1 DEF Handler, End, kind, Running, Modelling, Past, ResolvedBefore, Exempt, Earlier
    <2>4. PcInv' /\ CalledInv'
      BY <2>1, <2>3 DEF CoreInv, PcInv, CalledInv
    <2>5. ModelInv'
      BY <2>1, <2>3 DEF CoreInv, ModelInv
    <2>6. KnownInv'
      BY <2>1, <2>3 DEF CoreInv, KnownInv
    <2>7. RecordInv'
      BY <2>1, <2>3 DEF CoreInv, RecordInv
    <2> QED
      BY <2>2, <2>4, <2>5, <2>6, <2>7 DEF CoreInv
  <1> QED
    BY <1>1, <1>2, <1>3, <1>4, <1>5, <1>6, <1>7, <1>8, <1>9, <1>10, <1>11, <1>12, <1>13, <1>14,
       <1>15, <1>16, <1>17, <1>18, <1>19, <1>20, <1>21, <1>22, <1>23 DEF Next

-----------------------------------------------------------------------------
(* What the state may forget.                                              *)

LossInv == AskInv /\ OrphanInv

(* The question comes after the call, never first.                         *)
LEMMA AskedAfter ==
  ASSUME PcInv, op \in Handlers, NEW i \in 1..Len(Handler(op)),
         Handler(op)[i].do \in {"forgetIfRunning", "goneIfRunning"}
  PROVE  i - 1 \in 1..Len(Handler(op)) /\ Handler(op)[i - 1].do \in {"fetchOrAsk", "deleteOrAsk"}
  <1> DEFINE h == Handler(op)
  <1>1. AskedInPairs(h) /\ DOMAIN h = 1..Len(h)
    BY Formed DEF WellFormed, Handler
  <1> HIDE DEF h
  <1>2. ASSUME NEW q \in Asking
        PROVE  h[i].do = q[2] => i - 1 \in DOMAIN h /\ h[i - 1].do = q[1]
    BY <1>1 DEF AskedInPairs, h
  <1>3. /\ h[i].do = "forgetIfRunning" => i - 1 \in DOMAIN h /\ h[i - 1].do = "fetchOrAsk"
        /\ h[i].do = "goneIfRunning" => i - 1 \in DOMAIN h /\ h[i - 1].do = "deleteOrAsk"
    BY <1>2 DEF Asking
  <1> QED
    BY <1>1, <1>3 DEF h

(* No handler asks when it is called, or when it is done.                  *)
LEMMA CallAsksNothing ==
  ASSUME CoreInv', profile' = profile, PcInv, op' # "idle", pc' = 1
  PROVE  AskInv'
  <1>1. PcInv' /\ op' \in Handlers
    BY DEF CoreInv, Typed, FlagsTyped
  <1> SUFFICES ASSUME Running', (Handler(op)[pc])'.do \in {"forgetIfRunning", "goneIfRunning"}
               PROVE  FALSE
    BY DEF AskInv
  <1>2. WellFormed(profile')
    BY <1>1, Formed
  <1> DEFINE h == Handler(op)'
  <1>3. AskedInPairs(h) /\ DOMAIN h = 1..Len(h) /\ Len(h) \in Nat
    BY <1>1, <1>2 DEF WellFormed, Handler
  <1>4. pc' # Len(h) + 1 /\ pc' \in 1..(Len(h) + 1)
    BY <1>1 DEF Running, PcInv, End
  <1>5. h[1].do \in {"forgetIfRunning", "goneIfRunning"}
    OBVIOUS
  <1> HIDE DEF h
  <1>6. 1 \in DOMAIN h
    BY <1>3, <1>4
  <1>7. ASSUME NEW q \in Asking
        PROVE  h[1].do = q[2] => 1 - 1 \in DOMAIN h
    BY <1>3, <1>6 DEF AskedInPairs
  <1>8. 1 - 1 \in DOMAIN h
    BY <1>5, <1>7 DEF Asking
  <1> QED
    BY <1>3, <1>8

(* No other step leads to the question.                                    *)
LEMMA StepAsksNothing ==
  ASSUME CoreInv, CoreInv', Doing \notin {"nothing", "fetchOrAsk", "deleteOrAsk"}, profile' = profile,
         op' = op, \/ pc' = pc + 1
                   \/ pc' = pc + 2 /\ Handler(op)[pc + 1].do = "save"
                   \/ pc' = End
  PROVE  AskInv'
  <1> DEFINE h == Handler(op)
  <1>1. /\ op \in Handlers /\ Len(h) \in Nat /\ End = Len(h) + 1 /\ pc \in Nat /\ pc >= 1
        /\ h[pc].do = Doing /\ PcInv
    BY AtStep DEF CoreInv
  <1>2. Handler(op)' = h /\ End' = End
    BY DEF Handler, End
  <1> SUFFICES ASSUME Running', h[pc'].do \in {"forgetIfRunning", "goneIfRunning"}
               PROVE  FALSE
    BY <1>2 DEF AskInv
  <1>3. pc' # End
    BY <1>2 DEF Running
  <1>4. pc' \in 1..Len(h)
    <2>1. pc' \in 1..End
      BY <1>1, <1>2 DEF CoreInv, PcInv, Handlers
    <2> HIDE DEF h
    <2> QED
      BY <1>1, <1>3, <2>1
  <1>5. h[pc' - 1].do \in {"fetchOrAsk", "deleteOrAsk"}
    BY <1>1, <1>4, AskedAfter
  <1>6. pc' = pc + 1 => pc' - 1 = pc
    BY <1>1
  <1>7. pc' = pc + 2 => pc' - 1 = pc + 1
    BY <1>1
  <1> QED
    BY <1>1, <1>3, <1>5, <1>6, <1>7

(* While a Create or an Update runs, nothing is claimed of the state.      *)
LEMMA ApplyingOrphans ==
  ASSUME op' \in {"create", "update"}
  PROVE  OrphanInv'
  BY DEF OrphanInv

(* A step that neither makes the object nor forgets or deletes it.         *)
LEMMA StepOrphans ==
  ASSUME CoreInv, OrphanInv, Doing \notin {"nothing", "delete", "goneIfRunning"},
         profile' = profile, op' = op, st' = st, pc' = pc + 1, made' = made, told' = told,
         saved' = saved, srv' # None => srv # None
  PROVE  OrphanInv'
  <1>1. /\ failed = FALSE /\ Doing = Cur.do
        /\ Earlier(Handler(op), pc + 1, {"delete", "goneIfRunning"})
             => Past({"delete", "goneIfRunning"})
    <2>1. failed = FALSE /\ Doing = Cur.do
      BY AtStep DEF CoreInv
    <2>2. Earlier(Handler(op), pc + 1, {"delete", "goneIfRunning"})
            <=> Past({"delete", "goneIfRunning"}) \/ Cur.do \in {"delete", "goneIfRunning"}
      BY Onward DEF CoreInv
    <2> QED
      BY <2>1, <2>2
  <1>2. Handler(op)' = Handler(op) /\ (Standing <=> Standing')
    BY CatalogFixed DEF Handler
  <1>3. (Past({"delete", "goneIfRunning"}))' => Past({"delete", "goneIfRunning"})
    BY <1>1, <1>2 DEF Past
  <1> QED
    BY <1>1, <1>2, <1>3 DEF OrphanInv

(* No step, and nothing that happens between handlers.                     *)
LEMMA OutsideLoses ==
  ASSUME CoreInv, LossInv, ~ Restarts, Edit \/ Drift \/ Vanish \/ Restart
  PROVE  LossInv'
  <1>1. /\ op = "idle" /\ op' = op /\ profile' = profile /\ st' = st
    BY DEF Edit, Drift, Vanish, Restart, Idle, handler
  <1>2. \/ made' = made /\ told' = told /\ (srv' # None => srv # None)
        \/ srv' = None
    BY DEF Edit, Drift, Vanish, Restart
  <1>3. Standing <=> Standing'
    BY <1>1, CatalogFixed
  <1>4. AskInv'
    BY <1>1 DEF AskInv, Running
  <1>5. OrphanInv'
    BY <1>1, <1>2, <1>3 DEF LossInv, OrphanInv
  <1> QED
    BY <1>4, <1>5 DEF LossInv

(* No call of a handler loses the object.                                  *)
LEMMA CallsLose ==
  ASSUME CoreInv, CoreInv', LossInv,
         \/ Refresh \/ Import \/ Destroy \/ ApplyCreate \/ ApplyReplace
         \/ \E moved \in Moves : ApplyUpdate(moved)
  PROVE  LossInv'
  <1>1. /\ op = "idle" /\ op' \in Handlers /\ pc' = 1 /\ profile' = profile /\ st' = st
        /\ srv' = srv /\ made' = made /\ told' = told /\ op' # "idle"
    BY DEF Refresh, Import, Destroy, ApplyCreate, ApplyReplace, ApplyUpdate, Idle, Call, CallCreate,
           object, history, Handlers
  <1>2. AskInv'
    BY <1>1, CallAsksNothing DEF CoreInv
  <1>3. op' = "read" => saved' = st /\ st # None
    BY DEF Refresh, Import, Destroy, ApplyCreate, ApplyReplace, ApplyUpdate, Call, CallCreate
  <1>4. ~ (Past({"delete", "goneIfRunning"}))'
    BY <1>1, EarlierFirst DEF Past
  <1>5. Standing <=> Standing'
    BY <1>1, CatalogFixed
  <1>6. OrphanInv'
    BY <1>1, <1>3, <1>4, <1>5 DEF LossInv, OrphanInv
  <1> QED
    BY <1>2, <1>6 DEF LossInv

(* No call that changes the appliance loses the object.                    *)
LEMMA MutationsLose ==
  ASSUME CoreInv, CoreInv', LossInv, NEW fails \in BOOLEAN,
         CreateCall(fails) \/ UpdateCall(fails) \/ DeleteCall(fails) \/ UndoCall
  PROVE  LossInv'
  <1>1. CASE CreateCall(fails)
    <2>1. op = "create" /\ Doing = "create"
      BY <1>1, AtStep DEF CreateCall, At, CoreInv, Allowed, Handlers, Reporting
    <2>2. op' = op /\ profile' = profile /\ (pc' = pc + 1 \/ pc' = End)
      BY <1>1 DEF CreateCall, Proceed, Aborts, NextStep, Goto
    <2> QED
      BY <2>1, <2>2, StepAsksNothing, ApplyingOrphans DEF LossInv
  <1>2. CASE UpdateCall(fails)
    <2>1. op \in {"create", "update", "delete"} /\ Doing = "update" /\ srv # None
      BY <1>2, AtStep DEF UpdateCall, At, CoreInv, Allowed, Handlers, Reporting
    <2>2. /\ op' = op /\ profile' = profile /\ (pc' = pc + 1 \/ pc' = End) /\ st' = st
          /\ made' = made /\ told' = told /\ saved' = saved
      BY <1>2 DEF UpdateCall, Proceed, Aborts, NextStep, Goto, history
    <2>3. AskInv'
      BY <2>1, <2>2, StepAsksNothing
    <2>4. OrphanInv'
      <3>1. CASE fails
        <4>1. failed'
          BY <1>2, <3>1 DEF UpdateCall, Proceed, Aborts
        <4> QED
          BY <2>1, <2>2, <4>1 DEF OrphanInv
      <3>2. CASE ~ fails
        <4>1. pc' = pc + 1
          BY <1>2, <3>2 DEF UpdateCall, Proceed, NextStep, Goto
        <4> QED
          BY <2>1, <2>2, <4>1, StepOrphans DEF LossInv
      <3> QED
        BY <3>1, <3>2
    <2> QED
      BY <2>3, <2>4 DEF LossInv
  <1>3. CASE DeleteCall(fails)
    <2>1. op = "delete"
      BY <1>3, AtStep DEF DeleteCall, At, CoreInv, Allowed, Handlers, Reporting
    <2>2. op' = op /\ profile' = profile /\ pc' = End /\ srv' = None
      BY <1>3 DEF DeleteCall, Aborts, Stop, Goto
    <2> QED
      BY <2>1, <2>2 DEF LossInv, AskInv, OrphanInv
  <1>4. CASE UndoCall
    <2>1. Doing = "undo"
      BY <1>4 DEF UndoCall, At
    <2>2. /\ op' = op /\ profile' = profile /\ pc' = pc + 1 /\ st' = st
          /\ made' = made /\ told' = told /\ saved' = saved
      BY <1>4 DEF UndoCall, NextStep, Goto, history
    <2>3. srv' # None => srv # None
      BY <1>4 DEF UndoCall
    <2> QED
      BY <2>1, <2>2, <2>3, StepAsksNothing, StepOrphans DEF LossInv
  <1> QED
    BY <1>1, <1>2, <1>3, <1>4

(* No failure loses the object.                                            *)
LEMMA FailuresLose ==
  ASSUME CoreInv, LossInv, Fails
  PROVE  LossInv'
  <1>1. /\ profile' = profile /\ st' = st /\ made' = made /\ told' = told
        /\ op \in Handlers /\ (At("update") => op \notin {"read", "import"})
    BY AtStep DEF Fails, history, At, CoreInv, Allowed, Handlers, Reporting
  <1>2. Standing <=> Standing'
    BY <1>1, CatalogFixed
  <1>3. CASE op \in {"read", "import"}
    <2>1. op' = "idle" /\ srv' = srv
      BY <1>1, <1>3 DEF Fails, Return
    <2> QED
      BY <1>1, <1>2, <1>3, <2>1 DEF LossInv, AskInv, Running, OrphanInv
  <1>4. CASE op \notin {"read", "import"}
    <2>1. op' = op /\ pc' = End /\ failed' /\ End' = End /\ op # "idle"
      BY <1>1, <1>4 DEF Fails, Aborts, End, Handler, Handlers
    <2> QED
      BY <1>4, <2>1 DEF LossInv, AskInv, Running, OrphanInv
  <1> QED
    BY <1>3, <1>4

(* No fetch loses the object.                                              *)
LEMMA FetchesLose ==
  ASSUME CoreInv, CoreInv', LossInv, FetchStep
  PROVE  LossInv'
  <1>1. /\ Doing \in {"fetch", "fetchOrForget", "fetchOrRecord", "fetchOrAsk"}
        /\ op \in Handlers /\ pc \in Nat
        /\ Doing = "fetchOrAsk" => op = "read"
    BY AtStep DEF FetchStep, CoreInv, Allowed, Handlers, Reporting
  <1>2. /\ op' = op /\ profile' = profile /\ st' = st /\ srv' = srv
        /\ made' = made /\ told' = told /\ saved' = saved
    BY DEF FetchStep, Goto, object, history
  <1>3. CASE Doing # "fetchOrAsk"
    <2>1. pc' = pc + 1
      BY <1>3 DEF FetchStep, Goto, At
    <2> QED
      BY <1>1, <1>2, <1>3, <2>1, StepAsksNothing, StepOrphans DEF LossInv
  <1>4. CASE Doing = "fetchOrAsk"
    <2> DEFINE h == Handler(op)
    <2>1. pc' = pc + 2 /\ op = "read"
      BY <1>1, <1>4 DEF FetchStep, Goto, At
    <2>2. Handler(op)' = h /\ (Standing <=> Standing')
      BY <1>2, CatalogFixed DEF Handler
    <2>3. h[pc + 1].do = "forgetIfRunning" /\ Len(h) \in Nat
      BY <1>4, Types, InPairs, AtStep
    <2>4. AskInv'
      <3> SUFFICES ASSUME Running', h[pc'].do \in {"forgetIfRunning", "goneIfRunning"}
                   PROVE  FALSE
        BY <2>2 DEF AskInv
      <3>1. pc' \in 1..(Len(h) + 1) /\ pc' # Len(h) + 1
        BY <2>1, <1>2, <2>2 DEF Running, End, CoreInv, PcInv
      <3>2. pc' \in 1..Len(h)
        <4> HIDE DEF h
        <4> QED
          BY <2>3, <3>1
      <3>3. h[pc' - 1].do \in {"fetchOrAsk", "deleteOrAsk"}
        BY <1>1, <3>2, AskedAfter DEF CoreInv
      <3>4. pc' - 1 = pc + 1
        BY <1>1, <2>1
      <3> QED
        BY <2>3, <3>3, <3>4
    <2>5. OrphanInv'
      BY <1>2, <2>1, <2>2 DEF LossInv, OrphanInv
    <2> QED
      BY <2>4, <2>5 DEF LossInv
  <1> QED
    BY <1>3, <1>4

(* A Read forgets the object, or a Delete is content, only when the daemon *)
(* runs and did not find it.                                               *)
LEMMA AnswersLose ==
  ASSUME CoreInv, LossInv, Forget \/ Asked
  PROVE  LossInv'
  <1>1. op \in {"read", "delete"} /\ Doing # "nothing" /\ Running /\ Doing = Handler(op)[pc].do
        /\ (Doing \in {"fetchOrForget", "forgetIfRunning"} => op = "read")
    BY AtStep DEF Forget, Asked, At, CoreInv, Allowed, Handlers, Reporting
  <1>2. /\ op' = op /\ profile' = profile /\ st' = st /\ srv' = srv /\ pc' = End /\ End' = End
        /\ made' = made /\ told' = told
    BY DEF Forget, Asked, Stop, Aborts, Goto, object, history, End, Handler
  <1>3. AskInv'
    BY <1>2 DEF AskInv, Running
  <1>4. Standing <=> Standing'
    BY <1>2, CatalogFixed
  <1>5. CASE Forget
    <2>1. srv = None
      BY <1>1, <1>5 DEF LossInv, AskInv, Forget, At
    <2> QED
      BY <1>2, <1>3, <2>1 DEF LossInv, OrphanInv
  <1>6. CASE Asked
    <2>1. saved' = saved
      BY <1>6 DEF Asked
    <2>2. op = "delete" => srv = None \/ failed'
      BY <1>1, <1>6 DEF LossInv, AskInv, Asked, At, Aborts
    <2> QED
      BY <1>1, <1>2, <1>3, <1>4, <2>1, <2>2 DEF LossInv, OrphanInv
  <1> QED
    BY <1>5, <1>6

(* No step that only goes on loses the object.                             *)
LEMMA PassingLoses ==
  ASSUME CoreInv, CoreInv', LossInv, NotFound \/ RecordManagedStep \/ ImportFlagStep \/ PassStep
  PROVE  LossInv'
  <1>1. Doing \notin {"nothing", "delete", "goneIfRunning"}
    BY DEF NotFound, RecordManagedStep, ImportFlagStep, PassStep, At
  <1>2. /\ op' = op /\ profile' = profile /\ st' = st /\ srv' = srv /\ pc' = pc + 1
        /\ made' = made /\ told' = told /\ saved' = saved /\ serving' = serving
    BY DEF NotFound, RecordManagedStep, ImportFlagStep, PassStep, NextStep, Goto, object, history
  <1>3. OrphanInv'
    BY <1>1, <1>2, StepOrphans DEF LossInv
  <1>4. CASE NotFound
    BY <1>2, <1>3, <1>4 DEF NotFound, LossInv, AskInv
  <1>5. CASE RecordManagedStep \/ ImportFlagStep \/ PassStep
    <2>1. Doing \notin {"fetchOrAsk", "deleteOrAsk"}
      BY <1>5 DEF RecordManagedStep, ImportFlagStep, PassStep, At
    <2> QED
      BY <1>1, <1>2, <1>3, <2>1, StepAsksNothing DEF LossInv
  <1> QED
    BY <1>4, <1>5

(* No step that saves loses the object.                                    *)
LEMMA RecordingLoses ==
  ASSUME CoreInv, CoreInv', LossInv, Record \/ TakeStep \/ SaveStep
  PROVE  LossInv'
  <1>1. /\ Doing \in {"fetchOrRecord", "take", "save", "saveId"} /\ op \in Handlers /\ op # "delete"
        /\ op # "idle" /\ (Record => op = "create") /\ failed = FALSE /\ Running
        /\ Handler(op)[pc].do = Doing
    BY AtStep DEF Record, TakeStep, SaveStep, At, CoreInv, Allowed, Handlers, Reporting
  <1>2. /\ op' = op /\ profile' = profile /\ st' = st /\ srv' = srv
        /\ made' = made /\ told' = told
    BY DEF Record, TakeStep, SaveStep, Aborts, NextStep, Goto, object, history
  <1>3. \/ pc' = pc + 1
        \/ pc' = pc + 2 /\ Handler(op)[pc + 1].do = "save"
        \/ pc' = End
    BY DEF Record, TakeStep, SaveStep, Aborts, NextStep, Goto
  <1>4. AskInv'
    BY <1>1, <1>2, <1>3, StepAsksNothing
  <1>5. Standing <=> Standing'
    BY <1>2, CatalogFixed
  <1>6. op = "read" /\ st # None /\ saved' = None => saved = None
    <2> SUFFICES ASSUME op = "read", st # None, saved' = None, saved # None PROVE FALSE
      OBVIOUS
    <2>1. Modelling /\ plan # None /\ model # None
      BY <1>1 DEF CoreInv, ModelInv, Modelling
    <2>2. CASE TakeStep
      <3>1. Past(Answering) /\ Doing = "take" /\ Cur.rule \in TakenRules
        BY <2>2, Types, InPairs, AtStep DEF TakeStep, At, Rules
      <3>2. reply # None
        BY <1>1, <2>1, <3>1 DEF CoreInv, ModelInv
      <3>3. model' \in Plannable \cup {None} /\ model' # None
        <4>1. /\ Cur.rule \in TakenRules /\ reply \in Held \cup {None, Zero}
              /\ model \in Plannable \cup {None} /\ model' \in Taken(Cur.rule, reply, model)
          BY <2>2, <3>1, Types DEF TakeStep
        <4> QED
          BY <2>1, <3>2, <4>1, TakenTyped
      <3>4. AsSaved(model') \in {plan, model'}
        BY <3>3, AsSavedKnown
      <3> QED
        BY <2>1, <2>2, <3>3, <3>4 DEF TakeStep
    <2>3. CASE SaveStep
      <3>1. Doing = "save"
        BY <1>1, <2>3, AtStep DEF SaveStep, CoreInv, Allowed, Reporting
      <3>2. AsSaved(model) \in {plan, model}
        BY Types, AsSavedKnown
      <3> QED
        BY <2>1, <2>3, <3>1, <3>2 DEF SaveStep, At
    <2> QED
      BY <1>1, <2>2, <2>3
  <1>7. OrphanInv'
    BY <1>1, <1>2, <1>5, <1>6 DEF LossInv, OrphanInv
  <1> QED
    BY <1>4, <1>7 DEF LossInv

(* What core does with what a handler has returned.                        *)
LEMMA EndsLose ==
  ASSUME CoreInv, CoreInv', LossInv, Created \/ Updated \/ WasRead \/ Imported \/ Deleted
  PROVE  LossInv'
  <1>1. profile' = profile /\ srv' = srv /\ (Standing <=> Standing') /\ WellFormed(profile)
    <2>1. profile' = profile /\ srv' = srv
      BY DEF Created, Updated, WasRead, Imported, Deleted, object
    <2> QED
      BY <2>1, CatalogFixed, Formed DEF CoreInv
  <1>2. CASE Created
    <2>1. op' = "idle" /\ made' = made /\ op = "create" /\ pc = End
      BY <1>2 DEF Created, Return, Ended
    <2>2. ~ failed => saved # None
      <3>1. Past({"save"})
        BY <1>1, <2>1 DEF WellFormed, Past, End, Handler
      <3> QED
        BY <2>1, <3>1 DEF CoreInv, ModelInv
    <2>3. st' = None => saved = None
      BY <1>2, SpecialValues DEF Created
    <2>4. st' = None => told'
      BY <1>2, <2>2, <2>3 DEF Created, Rejected
    <2> QED
      BY <2>1, <2>4 DEF LossInv, AskInv, Running, OrphanInv
  <1>3. CASE Updated
    <2>1. op' = "idle" /\ st' # None
      BY <1>3 DEF Updated, Return, Ended, CoreInv, ModelInv
    <2> QED
      BY <2>1 DEF LossInv, AskInv, Running, OrphanInv
  <1>4. CASE WasRead
    <2>1. op' = "idle" /\ op = "read" /\ st' = saved
      BY <1>4 DEF WasRead, Return, Ended
    <2>2. ASSUME st' = None, ~ Standing, made', srv # None
          PROVE  told'
      <3>1. made
        BY <1>4, <2>2 DEF WasRead
      <3>2. told
        BY <2>1, <2>2, <3>1 DEF LossInv, OrphanInv
      <3> QED
        BY <1>4, <2>2, <3>2 DEF WasRead
    <2> QED
      BY <1>1, <2>1, <2>2 DEF LossInv, AskInv, Running, OrphanInv
  <1>5. CASE Imported
    <2>1. /\ op' = "read" /\ op = "import" /\ pc' = 1 /\ st' = st /\ made' = made /\ told' = told
          /\ op' # "idle" /\ st = None
      BY <1>5 DEF Imported, Call, Ended, object, history, CoreInv, CalledInv
    <2>2. AskInv'
      BY <1>1, <2>1, CallAsksNothing DEF CoreInv
    <2>3. OrphanInv'
      BY <1>1, <2>1 DEF LossInv, OrphanInv
    <2> QED
      BY <2>2, <2>3 DEF LossInv
  <1>6. CASE Deleted
    <2>1. op = "delete" /\ pc = End /\ made' = made
      BY <1>6 DEF Deleted, Ended
    <2>2. ~ Standing => Past({"delete", "goneIfRunning"})
      <3>1. ~ Standing => Earlier(profile.create, Len(profile.create) + 1, {"create"})
        <4> SUFFICES ASSUME NEW i \in DOMAIN profile.create, profile.create[i].do = "create"
                     PROVE  Earlier(profile.create, Len(profile.create) + 1, {"create"})
          BY DEF Standing, Does, Handler
        <4>1. DOMAIN profile.create = 1..Len(profile.create) /\ Len(profile.create) \in Nat
          BY <1>1 DEF WellFormed, Handlers
        <4>2. Len(profile.create) + 1 - 1 = Len(profile.create)
          BY <4>1
        <4> QED
          BY <4>1, <4>2 DEF Earlier
      <3> QED
        BY <1>1, <2>1, <3>1 DEF WellFormed, Past, End, Handler
    <2>3. CASE failed
      <3>1. op' = "idle" /\ st' # None
        BY <1>6, <2>1, <2>3 DEF Deleted, Return, CoreInv, ModelInv
      <3> QED
        BY <3>1 DEF LossInv, AskInv, Running, OrphanInv
    <2>4. CASE ~ failed
      <3>1. ~ Standing /\ made => srv = None
        BY <2>1, <2>2, <2>4 DEF LossInv, OrphanInv
      <3>2. CASE then = "idle"
        <4>1. op' = "idle"
          BY <1>6, <3>2 DEF Deleted, Return
        <4> QED
          BY <1>1, <2>1, <3>1, <4>1 DEF LossInv, AskInv, Running, OrphanInv
      <3>3. CASE then # "idle"
        <4>1. op' = "create" /\ pc' = 1 /\ op' # "idle"
          BY <1>6, <2>4, <3>3 DEF Deleted, CallCreate, Call
        <4> QED
          BY <1>1, <4>1, CallAsksNothing, ApplyingOrphans DEF LossInv, CoreInv
      <3> QED
        BY <3>2, <3>3
    <2> QED
      BY <2>3, <2>4
  <1> QED
    BY <1>2, <1>3, <1>4, <1>5, <1>6

(* No step loses the object, unless its daemon restarts while a handler    *)
(* runs.                                                                   *)
LEMMA NextLoss == CoreInv /\ CoreInv' /\ LossInv /\ ~ Restarts /\ [Next]_vars => LossInv'
  <1> SUFFICES ASSUME CoreInv, CoreInv', LossInv, ~ Restarts, [Next]_vars PROVE LossInv'
    OBVIOUS
  <1>1. CASE Edit \/ Drift \/ Vanish \/ Restart
    BY <1>1, OutsideLoses
  <1>2. CASE \/ Refresh \/ Import \/ Destroy \/ ApplyCreate \/ ApplyReplace
             \/ \E moved \in Moves : ApplyUpdate(moved)
    BY <1>2, CallsLose
  <1>3. CASE \E fails \in BOOLEAN : CreateCall(fails) \/ UpdateCall(fails) \/ DeleteCall(fails)
    BY <1>3, MutationsLose
  <1>4. CASE UndoCall
    <2>1. TRUE \in BOOLEAN
      OBVIOUS
    <2> QED
      BY <1>4, <2>1, MutationsLose
  <1>5. CASE Fails
    BY <1>5, FailuresLose
  <1>6. CASE FetchStep
    BY <1>6, FetchesLose
  <1>7. CASE Forget \/ Asked
    BY <1>7, AnswersLose
  <1>8. CASE NotFound \/ RecordManagedStep \/ ImportFlagStep \/ PassStep
    BY <1>8, PassingLoses
  <1>9. CASE Record \/ TakeStep \/ SaveStep
    BY <1>9, RecordingLoses
  <1>10. CASE Created \/ Updated \/ WasRead \/ Imported \/ Deleted
    BY <1>10, EndsLose
  <1>11. CASE UNCHANGED vars
    <2>1. /\ profile' = profile /\ srv' = srv /\ st' = st /\ serving' = serving /\ op' = op
          /\ pc' = pc /\ saved' = saved /\ failed' = failed /\ made' = made /\ told' = told
      BY <1>11 DEF vars, handler, history
    <2>2. /\ Handler(op)' = Handler(op) /\ (Running)' = Running /\ (Standing <=> Standing')
          /\ \A S : (Past(S))' = Past(S)
      BY <2>1, CatalogFixed DEF Handler, End, Running, Past, Earlier
    <2> QED
      BY <2>1, <2>2 DEF LossInv, AskInv, OrphanInv
  <1> QED
    BY <1>1, <1>2, <1>3, <1>4, <1>5, <1>6, <1>7, <1>8, <1>9, <1>10, <1>11 DEF Next

(* There is nothing to lose before the first apply.                        *)
LEMMA InitLoss == Init => LossInv
  BY DEF Init, LossInv, AskInv, OrphanInv, Running

(* The invariant holds in every reachable state.                           *)
LEMMA Inductive == Spec => []IInv
  <1>1. Init => IInv
    BY InitCore, InitLoss DEF IInv, LossInv
  <1>2. IInv /\ [Next]_vars => IInv'
    BY NextCore, NextLoss DEF IInv, LossInv
  <1> QED
    BY <1>1, <1>2, PTL DEF Spec

-----------------------------------------------------------------------------
(* Whatever the catalog, the schedule and the failures: what the provider  *)
(* plans, sends, takes from a response and saves is a value the attribute  *)
(* can have, and unknown never reaches the state (the payload builders,    *)
(* response mappers and plan modifiers of internal/resources and           *)
(* internal/planmod).                                                      *)
THEOREM TypeCorrect == Spec => []TypeOK
  <1>1. IInv => TypeOK
    BY TypedIsTypeOK DEF IInv, CoreInv
  <1> QED
    BY <1>1, Inductive, PTL

(* A Create that has the new object's reply and fails afterwards has       *)
(* recorded the object, where its handler is written to (vm, container).   *)
THEOREM RecordedAtOnce == Spec => []RecordedOnceCreated
  <1>1. IInv => RecordedOnceCreated
    BY DEF IInv, CoreInv, RecordInv, RecordedOnceCreated, Ended, Running
  <1> QED
    BY <1>1, Inductive, PTL

(* An object that Terraform made or imported and that still exists does    *)
(* not drop out of the state without an error, as long as the daemon that  *)
(* serves it neither comes up nor goes down while a handler runs: Read     *)
(* forgets, and Delete is done with, only what is not there.               *)
THEOREM NothingLostSilently == ~ Restarts => (Spec => []NoSilentOrphan)
  <1> SUFFICES ASSUME ~ Restarts PROVE Spec => []NoSilentOrphan
    OBVIOUS
  <1>1. IInv => NoSilentOrphan
    BY DEF IInv, OrphanInv, NoSilentOrphan, Idle
  <1> QED
    BY <1>1, Inductive, PTL

(* A Create or an Update that returns without an error has saved a state,  *)
(* and no unknown in it: Terraform does not reject the apply for having    *)
(* an unknown or no result.                                                *)
ResultIsKnown ==
  Succeeded /\ ~ Exempt("AppliedAsPlanned") => saved \notin {None, Unknown}

(* Every handler of the catalog that ends without an error has saved a     *)
(* known value (resp.State.Set in Create and Update).                      *)
THEOREM AppliesAreKnown == Spec => []ResultIsKnown
  <1>1. IInv => ResultIsKnown
    <2> SUFFICES ASSUME IInv, Succeeded, ~ Exempt("AppliedAsPlanned")
                 PROVE  saved \notin {None, Unknown}
      BY DEF ResultIsKnown
    <2>1. op \in {"create", "update"} /\ pc = End /\ ~ failed
      BY DEF Succeeded, Applying, Ended
    <2>2. saved # Unknown
      BY <2>1 DEF IInv, CoreInv, KnownInv
    <2>3. op = "create" => Past({"save"})
      <3>1. WellFormed(profile)
        BY Formed DEF IInv, CoreInv
      <3> QED
        BY <2>1, <3>1 DEF WellFormed, Past, End, Handler
    <2>4. saved # None
      BY <2>1, <2>3 DEF IInv, CoreInv, ModelInv
    <2> QED
      BY <2>2, <2>4
  <1> QED
    BY <1>1, Inductive, PTL
=============================================================================

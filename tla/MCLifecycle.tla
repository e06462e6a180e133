---- MODULE MCLifecycle ----
EXTENDS LifecycleClasses, Catalog
\* Every resource of the provider.
MCResources == Catalog
\* The resources whose unset attributes Create sends as zero values.
MCUnset == [keychain_ssh_connection |-> Catalog.keychain_ssh_connection,
            webshare |-> Catalog.webshare]

\* The profiles of a class among those that a property is about.
Of(About(_), Class(_)) == Cardinality({p \in Profiles : About(p) /\ Class(p)})

Every(p) == TRUE
Configurable(p) == p.kind.config # "none" /\ ~ p.kind.local
Visible(p) == Configurable(p) /\ ~ p.kind.unseen
Unmanaged(p) == p.kind.config # "required" /\ p.kind.computed /\ p.kind.default = "none"
Owned(p) == With(p, Resets)
Replaces(p) == With(p, {"replace", "replaceFromKnown", "replaceFromKnownFold",
                         "replaceUnlessEquivalent", "idmapReplace"})
Alone(p) == Spared(p) \/ Untouched(p)
KeptInPlace(p) == Mirrored(p) /\ Respellable(p)

\* The theorems of LifecycleValues are about most of the provider's profiles.
ASSUME ClassesCover ==
  Resources = MCResources =>
    /\ Of(Every, Mirrored) > 250 /\ Of(Every, Echoed) > 190 /\ Of(Every, Steady) > 210
    /\ Of(Configurable, Delivered) > 210 /\ Of(Visible, Mirrored) > 200
    /\ Of(Unmanaged, Alone) > 200 /\ Of(Unmanaged, LeftOut) > 150
    /\ Of(Replaces, KeptInPlace) > 30 /\ Of(Owned, Reset) > 10
====

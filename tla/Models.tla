-------------------------------- MODULE Models --------------------------------
(***************************************************************************)
(* The model tables of both adapters (models.ts) and the --model argument  *)
(* of a turn (language-model.ts, stream-simple.ts, ask-tool.ts).  An agy   *)
(* id is a base with an effort suffix or without ("none"); names, limits   *)
(* and the "agy/" prefix are left out.                                     *)
(***************************************************************************)
EXTENDS Integers, Sequences, SequencesExt

Effort == {"high", "medium", "low"}

\* splitEffort of a normalized id.
Id(base, effort) == [base |-> base, effort |-> effort]
Bare(base) == Id(base, "none")

Default == Bare("default")

\* No --model argument at all: agy picks its own default.
NoArg == Bare("")

FALLBACK_DISCOVERY == <<Id("flash", "high"), Id("flash", "medium"), Id("flash", "low")>>

\* The rows a registry is built from, our default ahead of all of them.
AllRows(discovered) ==
    <<Default>> \o (IF discovered = <<>> THEN FALLBACK_DISCOVERY ELSE discovered)

\* Where a base is named; a default that agy lists is passed over.
Naming(rows, base) ==
    {i \in DOMAIN rows : rows[i].base = base /\ (rows[i] = Default => i = 1)}

\* A base has one entry, which stands where it is first named.
FirstNaming(rows, base) == Min(Naming(rows, base))

\* Mutant of EffortsOf: a base keeps the effort it was first seen with.
EffortsOfFirst(rows, base) == {rows[FirstNaming(rows, base)].effort} \ {"none"}

EffortsOf(rows, base) == {rows[i].effort : i \in Naming(rows, base)} \ {"none"}

Highest(efforts) ==
    IF "high" \in efforts THEN "high" ELSE IF "medium" \in efforts THEN "medium" ELSE "low"

\* The ids of a registry's entries, whose order is left out.
BareIds(rows) == {Bare(rows[i].base) : i \in DOMAIN rows}

-----------------------------------------------------------------------------
(* opencode: a collapsed base carries variants, an effort's name with the  *)
(* id it stands for.  A registry maps the ids of the picker to entries.    *)

Variant(name, arg) == [name |-> name, agyModelId |-> arg]

AgyModel(arg, collapsed, variants) ==
    [modelArg |-> arg, collapsed |-> collapsed, variants |-> variants]

\* The patch of a collapsed base reaches the entry byId holds.  A later flat row
\* of the same base has replaced it there, while the list keeps the first one.
baseRegistry(discovered) ==
    LET rows == AllRows(discovered)
        Patched(base) ==
            \A i \in Naming(rows, base) :
                rows[i].effort = "none" => i = FirstNaming(rows, base)
        Entry(base) ==
            LET efforts == EffortsOf(rows, base)
                row == rows[FirstNaming(rows, base)]
            IN IF efforts # {} /\ Patched(base)
               THEN AgyModel(Id(base, Highest(efforts)), TRUE,
                             {Variant(e, Id(base, e)) : e \in efforts})
               ELSE AgyModel(IF row = Default THEN NoArg ELSE row, FALSE, {})
    IN [id \in BareIds(rows) |-> Entry(id.base)]

\* A model of the user's config: its variants in the order of the file.
ModelConfig(id, given, variants) == [id |-> id, given |-> given, variants |-> variants]

fallbackArg(cfg) ==
    LET usable == {i \in DOMAIN cfg.variants : cfg.variants[i].agyModelId # NoArg}
        high == {i \in usable : cfg.variants[i].name = "high"}
    IN IF high # {} THEN cfg.variants[Min(high)].agyModelId
       ELSE IF usable # {} THEN cfg.variants[Min(usable)].agyModelId
       ELSE cfg.id

\* The config adds the models the registry lacks, and the variants it gives last
\* for a model are that model's.
applyConfig(base, user) ==
    LET Configuring(id) == {i \in DOMAIN user : user[i].id = id}
        Giving(id) == {i \in Configuring(id) : user[i].given}
        Entry(id) ==
            IF id \in DOMAIN base THEN base[id]
            ELSE AgyModel(fallbackArg(user[Min(Configuring(id))]), FALSE, {})
    IN [id \in DOMAIN base \cup {user[i].id : i \in DOMAIN user} |->
           IF Giving(id) = {} THEN Entry(id)
           ELSE AgyModel(Entry(id).modelArg, TRUE, ToSet(user[Max(Giving(id))].variants))]

resolveRegistry(user, discovered) == applyConfig(baseRegistry(discovered), user)
listModels(user) == resolveRegistry(user, <<>>)

resolveModel(id, user) ==
    LET models == listModels(user)
    IN IF id \in DOMAIN models THEN models[id] ELSE AgyModel(id, FALSE, {})

\* A selection may arrive in several places: the first that holds anything
\* decides, even if what it holds is no text.
Read(places, absent, garbled, none) ==
    LET filled == {i \in DOMAIN places : places[i] # absent}
        first == places[Min(filled)]
    IN IF filled = {} \/ first = garbled THEN none ELSE first

readVariant(places) == Read(places, "absent", "garbled", "none")
readDirectModelId(places) == Read(places, Bare("absent"), Bare("garbled"), NoArg)

Named(entry, variant) == {v \in entry.variants : v.name = variant}

\* Mutant of resolveVariantModelArg: the entry's own argument wins.
resolveEntryModelArg(entry, variant) ==
    IF entry.modelArg # NoArg THEN entry.modelArg
    ELSE IF Named(entry, variant) # {} THEN (CHOOSE v \in Named(entry, variant) : TRUE).agyModelId
    ELSE NoArg

resolveVariantModelArg(entry, variant) ==
    LET usable == {v \in Named(entry, variant) : v.agyModelId # NoArg}
    IN IF usable # {} THEN (CHOOSE v \in usable : TRUE).agyModelId ELSE entry.modelArg

\* The argument doStream spawns with, and whether it warns of a fallback.
modelArgOf(entry, direct, variant) ==
    IF direct # NoArg THEN direct ELSE resolveVariantModelArg(entry, variant)

variantFallbackNotice(entry, direct, variant) ==
    direct = NoArg /\ entry.collapsed /\ Named(entry, variant) = {}

-----------------------------------------------------------------------------
(* pi: a collapsed base carries a thinkingLevelMap.                        *)

ThinkingLevel == {"off", "minimal", "low", "medium", "high", "xhigh", "max"}

\* Null in the map, and no map at all, are NoArg.
PiAgyModel(id, levels) ==
    [id |-> id,
     thinkingLevelMap |-> [l \in ThinkingLevel |-> IF l \in levels THEN Id(id.base, l) ELSE NoArg]]

piBaseRegistry(discovered) ==
    LET rows == AllRows(discovered)
    IN [id \in BareIds(rows) |-> PiAgyModel(id, EffortsOf(rows, id.base))]

\* user: the configured ids.
piResolveRegistry(user, discovered) ==
    LET base == piBaseRegistry(discovered)
    IN [id \in DOMAIN base \cup user |->
           IF id \in DOMAIN base THEN base[id] ELSE PiAgyModel(id, {})]

\* stream-simple.ts: of a model the host was handed.
resolveModelArg(model, level) ==
    LET mapped == IF level = "none" THEN NoArg ELSE model.thinkingLevelMap[level]
    IN IF mapped # NoArg THEN mapped ELSE IF model.id = Default THEN NoArg ELSE model.id

\* ask-tool.ts: of an id the calling model wrote down.
resolveAskModelArg(models, requested, level) ==
    IF requested \in {NoArg, Default} THEN NoArg
    ELSE IF requested \notin DOMAIN models THEN requested
    ELSE resolveModelArg(models[requested], level)
=============================================================================

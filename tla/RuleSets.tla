------------------------------- MODULE RuleSets -------------------------------
(***************************************************************************)
(* Routing rules and the GeoSite bundles they name: RouteService (draft,   *)
(* revisions) and RuleSetService (the active bundle, its directory, the    *)
(* categories cached in memory).                                           *)
(*                                                                         *)
(* A rule is reduced to the category it names: rules of other kinds, the   *)
(* order and the action of a rule play no part here.  A refresh awaits the *)
(* index and the archive; everything else happens within one turn of the   *)
(* event loop, which only a crash cuts short.                              *)
(***************************************************************************)
EXTENDS Naturals, Sequences, FiniteSets

CONSTANTS Code,          \* GeoSite categories
          MaxBundle,     \* bound: bundle versions 1 .. MaxBundle
          Retain,        \* directories kept beside the active one (2 in the code)
          MaxRevision,   \* bound: published revisions
          MaxHarm        \* bound: crashes and damaged directories

ASSUME RuleSetsAssumption == {MaxBundle, Retain, MaxRevision, MaxHarm} \subseteq Nat

VARIABLES
    draft,       \* route_drafts: a category is not named, disabled or enabled
    revisions,   \* route_revisions; the last one is active
    ruleset,     \* setting rulesets
    bundles,     \* the directory of each version: its categories, or None
    cache,       \* geoSiteCache
    refresh,     \* the refresh in flight and the manifest it has read
    harmed,      \* history: the active directory was damaged, or its replacement cut
    harms

routeVars   == <<draft, revisions>>
ruleSetVars == <<routeVars, ruleset, bundles, cache, refresh,
                 harmed, harms>>

Bundle   == 1..MaxBundle
NoCache  == [version |-> 0, sites |-> {}]
Manifest == [version : Bundle, codes : SUBSET Code \ {{}}]
NoManifest == [version |-> 0, codes |-> {}]
Absent   == [there |-> FALSE, codes |-> {}]
There(codes) == [there |-> TRUE, codes |-> codes]
Drafts   == [Code -> {"none", "off", "on"}]

RuleSetsTypeOK ==
    /\ draft \in Drafts /\ revisions \in Seq(Drafts)
    /\ ruleset.status \in {"idle", "ready", "error"}
    /\ ruleset.active \in 0..MaxBundle /\ ruleset.codes \subseteq Code
    /\ \A v \in Bundle : bundles[v].codes \subseteq Code
    /\ cache.version \in 0..MaxBundle /\ cache.sites \subseteq Code
    /\ refresh.at \in {"idle", "index", "bundle"}
    /\ refresh.manifest \in Manifest \cup {NoManifest}
    /\ harmed \in BOOLEAN /\ harms \in 0..MaxHarm

-----------------------------------------------------------------------------
Published == IF revisions = <<>> THEN draft ELSE revisions[Len(revisions)]

Required(rules) == {c \in Code : rules[c] = "on"}

(* assert(): enabled rules name categories of the active bundle.            *)
Asserted(codes) ==
    codes # {} => ruleset.status = "ready" /\ codes \subseteq ruleset.codes

(* prepareGeoSites(): categories that are not cached are read from the      *)
(* database of that version, which must hold them.                          *)
Cached(version) == IF cache.version = version THEN cache.sites ELSE {}

Readable(version, codes) ==
    codes \ Cached(version) \subseteq
        IF bundles[version].there THEN bundles[version].codes ELSE {}

RoutesPrepared(codes) ==
    /\ Asserted(codes)
    /\ ruleset.active # 0 => Readable(ruleset.active, codes)

Warmed(codes) ==
    IF ruleset.active = 0 THEN cache
    ELSE [version |-> ruleset.active, sites |-> codes]

(* complete(), installedComplete()                                          *)
Holds(version, codes) ==
    version # 0 /\ bundles[version].there /\ codes \subseteq bundles[version].codes

-----------------------------------------------------------------------------
(* RouteService *)

OnlyDraft ==
    UNCHANGED <<revisions, ruleset, bundles, cache, refresh,
                harmed, harms>>

(* add()                                                                    *)
AddRule ==
    \E c \in Code, on \in BOOLEAN :
        /\ draft[c] = "none"
        /\ on => Asserted({c})
        /\ draft' = [draft EXCEPT ![c] = IF on THEN "on" ELSE "off"]
        /\ OnlyDraft

(* update(): another category, enabled or disabled.                         *)
UpdateRule ==
    \E c, d \in Code, on \in BOOLEAN :
        /\ draft[c] # "none"
        /\ d = c \/ draft[d] = "none"
        /\ on => Asserted({d})
        /\ draft' = [draft EXCEPT ![c] = "none", ![d] = IF on THEN "on" ELSE "off"]
        /\ OnlyDraft

RemoveRule ==
    \E c \in Code :
        /\ draft[c] # "none"
        /\ draft' = [draft EXCEPT ![c] = "none"]
        /\ OnlyDraft

Discard ==
    /\ revisions # <<>>
    /\ draft' = Published
    /\ OnlyDraft

(* publish(): prepared and asserted, then one transaction, then the cache.  *)
Publishes(rules) ==
    /\ Len(revisions) < MaxRevision
    /\ RoutesPrepared(Required(rules))
    /\ revisions' = Append(revisions, rules)
    /\ cache' = Warmed(Required(rules))
    /\ UNCHANGED <<ruleset, bundles, refresh, harmed, harms>>

PublishRoutes == Publishes(draft) /\ UNCHANGED draft

(* rollback(): an earlier revision, and the draft with it.                  *)
RollbackRoutes ==
    \E i \in 1..Len(revisions) :
        Publishes(revisions[i]) /\ draft' = revisions[i]

-----------------------------------------------------------------------------
(* RuleSetService *)

(* refresh() while the last check is recent: the cache is warmed up.        *)
WarmUp ==
    /\ refresh.at = "idle"
    /\ ruleset.active = 0 \/ Holds(ruleset.active, ruleset.codes)
    /\ RoutesPrepared(Required(Published))
    /\ cache' = Warmed(Required(Published))
    /\ UNCHANGED <<routeVars, ruleset, bundles, refresh, harmed, harms>>

RefreshStarts ==
    /\ refresh.at = "idle"
    /\ refresh' = [at |-> "index", manifest |-> NoManifest]
    /\ UNCHANGED <<routeVars, ruleset, bundles, cache, harmed, harms>>

RefreshEnds == refresh' = [at |-> "idle", manifest |-> NoManifest]

(* update(): the same bundle again needs no download, when it can be read.  *)
SameBundle(manifest) ==
    /\ ruleset.active = manifest.version
    /\ Holds(manifest.version, manifest.codes)
    /\ Required(Published) \subseteq manifest.codes
    /\ Readable(manifest.version, Required(Published))

(* The signed index describes any bundle, perhaps other categories under    *)
(* the same version.                                                        *)
IndexRead ==
    /\ refresh.at = "index"
    /\ \E m \in Manifest :
           IF SameBundle(m)
           THEN /\ ruleset' = [ruleset EXCEPT !.status = "ready"]
                /\ cache' = [version |-> m.version, sites |-> Required(Published)]
                /\ RefreshEnds
           ELSE /\ refresh' = [at |-> "bundle", manifest |-> m]
                /\ UNCHANGED <<ruleset, cache>>
    /\ UNCHANGED <<routeVars, bundles, harmed, harms>>

(* Mutant of NeededNow: what is published meanwhile does not count.         *)
NeededNone == {}

(* The published routes are read again once the archive is there.           *)
NeededNow == Required(Published)

Replaced(version, directory, kept) ==
    [v \in Bundle |-> IF v = version THEN directory
                      ELSE IF v \in kept THEN bundles[v] ELSE Absent]

(* cleanup(): the newest directories beside the active one stay.            *)
KeptBeside(version) ==
    LET others == {v \in Bundle \ {version} : bundles[v].there} IN
    {kept \in SUBSET others :
        Cardinality(kept) = IF Cardinality(others) < Retain
                            THEN Cardinality(others) ELSE Retain}

BundleInstalled ==
    LET m == refresh.manifest IN
    /\ refresh.at = "bundle"
    /\ NeededNow \subseteq m.codes
    /\ \E kept \in KeptBeside(m.version) :
           bundles' = Replaced(m.version, There(m.codes), kept)
    /\ ruleset' = [status |-> "ready", active |-> m.version, codes |-> m.codes]
    /\ cache' = [version |-> m.version, sites |-> NeededNow]
    /\ harmed' = FALSE
    /\ RefreshEnds
    /\ UNCHANGED <<routeVars, harms>>

(* The index or the archive cannot be had, does not verify, or lacks a      *)
(* published category: the active bundle stays.                             *)
RefreshFails ==
    /\ refresh.at # "idle"
    /\ ruleset' = [ruleset EXCEPT !.status =
                      IF ruleset.active # 0 THEN "ready" ELSE "error"]
    /\ RefreshEnds
    /\ UNCHANGED <<routeVars, bundles, cache, harmed, harms>>

-----------------------------------------------------------------------------
Harm == harms < MaxHarm /\ harms' = harms + 1

PlaneRestarted ==
    /\ cache' = NoCache
    /\ RefreshEnds
    /\ UNCHANGED routeVars

ControlPlaneDies ==
    /\ Harm /\ PlaneRestarted
    /\ UNCHANGED <<ruleset, bundles, harmed>>

(* The process dies between removing a directory of that version, renaming  *)
(* the new one into its place and saving the setting.                       *)
DiesInstalling ==
    LET m == refresh.manifest IN
    /\ Harm /\ PlaneRestarted
    /\ refresh.at = "bundle" /\ NeededNow \subseteq m.codes
    /\ \/ /\ bundles' = Replaced(m.version, Absent, Bundle)
          /\ bundles[m.version].there
       \/ bundles' = Replaced(m.version, There(m.codes), Bundle)
    /\ harmed' = (harmed \/ m.version = ruleset.active)
    /\ UNCHANGED ruleset

(* A directory is damaged or lost.                                          *)
Damage ==
    /\ Harm
    /\ \E v \in {v \in Bundle : bundles[v].there} :
           /\ bundles' = [bundles EXCEPT ![v] = Absent]
           /\ harmed' = (harmed \/ v = ruleset.active)
    /\ UNCHANGED <<routeVars, ruleset, cache, refresh>>

-----------------------------------------------------------------------------
RuleSetsInit ==
    /\ draft = [c \in Code |-> "none"] /\ revisions = <<>>
    /\ ruleset = [status |-> "idle", active |-> 0, codes |-> {}]
    /\ bundles = [v \in Bundle |-> Absent] /\ cache = NoCache
    /\ refresh = [at |-> "idle", manifest |-> NoManifest]
    /\ harmed = FALSE /\ harms = 0

RuleSetsNext ==
    \/ AddRule \/ UpdateRule \/ RemoveRule \/ Discard
    \/ PublishRoutes \/ RollbackRoutes
    \/ WarmUp \/ RefreshStarts \/ IndexRead
    \/ BundleInstalled \/ RefreshFails
    \/ ControlPlaneDies \/ DiesInstalling \/ Damage

RuleSetsSpec == RuleSetsInit /\ [][RuleSetsNext]_ruleSetVars

-----------------------------------------------------------------------------
(* Properties. *)

(* Whatever is published while a bundle is on its way, and whichever bundle *)
(* arrives: every category of the published routes is one of the active     *)
(* bundle, its directory holds it and the cache is of that version, so that *)
(* profiles can be rendered; unless the active directory itself was damaged *)
(* or its replacement was cut by a crash.                                   *)
RoutesAreServed ==
    ruleset.active # 0 /\ ~harmed =>
        /\ Required(Published) \subseteq ruleset.codes
        /\ Holds(ruleset.active, Required(Published))
        /\ cache # NoCache => /\ cache.version = ruleset.active
                              /\ cache.sites \subseteq bundles[ruleset.active].codes
=============================================================================

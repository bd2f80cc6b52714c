---------------------------- MODULE Config_proofs ----------------------------
(***************************************************************************)
(* Theorems about RuleSets, EngineConfig, Setup, Operations and Admission, *)
(* for any categories, bundles, revisions, templates, methods, domains and *)
(* names, any number of failures and texts of any length: routes that are  *)
(* published can be served, the engine runs what is stored, a server is    *)
(* set up for one domain or for none, what is called completed was done,   *)
(* and what the panel admits the agent and its scripts admit too.          *)
(***************************************************************************)
EXTENDS EngineConfig, RuleSets, Setup, Operations, Admission,
        FiniteSetTheorems, SequenceTheorems, WellFoundedInduction, TLAPS

-----------------------------------------------------------------------------
(* RuleSets.                                                               *)

RuleSet   == [status : {"idle", "ready", "error"}, active : 0..MaxBundle,
              codes : SUBSET Code]
Directory == [there : BOOLEAN, codes : SUBSET Code]
Cache     == [version : 0..MaxBundle, sites : SUBSET Code]
Refreshes == [at : {"idle", "index", "bundle"}, manifest : Manifest \cup {NoManifest}]

RoutesTyped ==
    /\ draft \in Drafts /\ revisions \in Seq(Drafts)
    /\ ruleset \in RuleSet /\ bundles \in [Bundle -> Directory]
    /\ cache \in Cache
    /\ refresh \in Refreshes
    /\ refresh.at = "bundle" => refresh.manifest \in Manifest
    /\ harmed \in BOOLEAN /\ harms \in 0..MaxHarm

(* The directory of the active bundle holds exactly the categories the     *)
(* setting lists, which is what makes an assertion against the setting     *)
(* good for the directory too.                                             *)
ActiveIsWhole ==
    ruleset.active # 0 /\ ~harmed => bundles[ruleset.active] = There(ruleset.codes)

RoutesIInv == RoutesTyped /\ ActiveIsWhole /\ RoutesAreServed

LEMMA PublishedTyped ==
    ASSUME RoutesTyped
    PROVE  Published \in Drafts /\ Required(Published) \in SUBSET Code
BY DEF RoutesTyped, Published, Required

(* The invariant in the form the steps use it.                             *)
LEMMA ServedFacts ==
    ASSUME RoutesIInv, ruleset.active # 0, ~harmed
    PROVE  /\ ruleset.active \in Bundle
           /\ bundles[ruleset.active] = [there |-> TRUE, codes |-> ruleset.codes]
           /\ Required(Published) \subseteq ruleset.codes
           /\ cache # NoCache => /\ cache.version = ruleset.active
                                 /\ cache.sites \subseteq ruleset.codes
<1>1. ruleset.active \in 1..MaxBundle
      BY RuleSetsAssumption DEF RoutesIInv, RoutesTyped, RuleSet
<1> QED BY <1>1 DEF RoutesIInv, ActiveIsWhole, There, RoutesAreServed, Bundle

(* And the form in which they establish it again.                          *)
LEMMA ServedAgain ==
    ASSUME RoutesTyped',
           ruleset'.active # 0 /\ ~harmed' =>
              /\ bundles'[ruleset'.active] = There(ruleset'.codes)
              /\ Required(Published)' \subseteq ruleset'.codes
              /\ cache' # NoCache => /\ cache'.version = ruleset'.active
                                     /\ cache'.sites \subseteq ruleset'.codes
    PROVE  RoutesIInv'
<1>1. ActiveIsWhole' BY DEF ActiveIsWhole, There
<1>2. RoutesAreServed'
      BY DEF RoutesAreServed, Holds, There, NoCache
<1> QED BY <1>1, <1>2 DEF RoutesIInv

(* What add() and update() let through are categories of the active bundle.*)
LEMMA DraftStep ==
    ASSUME RoutesIInv, OnlyDraft, draft' \in Drafts,
           revisions = <<>> => \A c \in Required(draft') :
               c \in Required(draft) \/ c \in ruleset.codes
    PROVE  RoutesIInv'
<1>1. RoutesTyped' BY DEF RoutesIInv, RoutesTyped, OnlyDraft
<1>2. CASE revisions = <<>>
  <2>1. Required(Published)' = Required(draft')
        BY <1>2 DEF Published, OnlyDraft, Required
  <2>2. Required(Published) = Required(draft) BY <1>2 DEF Published
  <2> QED BY <1>1, <2>1, <2>2, <1>2, ServedFacts, ServedAgain DEF OnlyDraft, There
<1>3. CASE revisions # <<>>
  <2>1. Published' = Published BY <1>3 DEF Published, OnlyDraft
  <2>2. Required(Published)' = Required(Published) BY <2>1 DEF Required
  <2> QED BY <1>1, <2>2, ServedFacts, ServedAgain DEF OnlyDraft, There
<1> QED BY <1>2, <1>3

LEMMA AddRuleStep == ASSUME RoutesIInv, AddRule PROVE RoutesIInv'
<1>1. PICK c \in Code, on \in BOOLEAN :
        /\ on => Asserted({c})
        /\ draft' = [draft EXCEPT ![c] = IF on THEN "on" ELSE "off"]
        /\ OnlyDraft
      BY DEF AddRule
<1>2. draft \in Drafts BY DEF RoutesIInv, RoutesTyped
<1>3. draft' \in Drafts BY <1>1, <1>2 DEF Drafts
<1>4. \A d \in Required(draft') : d \in Required(draft) \/ d \in ruleset.codes
      BY <1>1, <1>2 DEF Required, Drafts, Asserted
<1> QED BY <1>1, <1>3, <1>4, DraftStep

LEMMA UpdateRuleStep == ASSUME RoutesIInv, UpdateRule PROVE RoutesIInv'
<1>1. PICK c \in Code, d \in Code, on \in BOOLEAN :
        /\ on => Asserted({d})
        /\ draft' = [draft EXCEPT ![c] = "none", ![d] = IF on THEN "on" ELSE "off"]
        /\ OnlyDraft
      BY DEF UpdateRule
<1>2. draft \in Drafts BY DEF RoutesIInv, RoutesTyped
<1>3. draft' \in Drafts BY <1>1, <1>2 DEF Drafts
<1>4. \A e \in Required(draft') : e \in Required(draft) \/ e \in ruleset.codes
      BY <1>1, <1>2 DEF Required, Drafts, Asserted
<1> QED BY <1>1, <1>3, <1>4, DraftStep

LEMMA PublishesStep ==
    ASSUME RoutesIInv, NEW rules \in Drafts, Publishes(rules), draft' \in Drafts
    PROVE  RoutesIInv'
<1>1. /\ RoutesPrepared(Required(rules)) /\ revisions' = Append(revisions, rules)
      /\ cache' = Warmed(Required(rules))
      /\ UNCHANGED <<ruleset, bundles, refresh, harmed, harms>>
      BY DEF Publishes
<1>2. revisions \in Seq(Drafts) BY DEF RoutesIInv, RoutesTyped
<1>3. revisions' \in Seq(Drafts) /\ Published' = rules
      BY <1>1, <1>2 DEF Published
<1>4. Required(Published)' = Required(rules) BY <1>3 DEF Required
<1>5. Required(rules) \in SUBSET Code BY DEF Required
<1>6. Warmed(Required(rules)) \in Cache
      BY <1>5 DEF Warmed, Cache, RoutesIInv, RoutesTyped, RuleSet
<1>7. RoutesTyped' BY <1>1, <1>3, <1>6 DEF RoutesIInv, RoutesTyped
<1>8. Required(rules) = {} \/ Required(rules) \subseteq ruleset.codes
      BY <1>1 DEF RoutesPrepared, Asserted
<1>9. ruleset.active # 0 => cache' = [version |-> ruleset.active,
                                      sites |-> Required(rules)]
      BY <1>1 DEF Warmed
<1> QED BY <1>1, <1>4, <1>7, <1>8, <1>9, ServedFacts, ServedAgain DEF There

LEMMA WarmUpStep == ASSUME RoutesIInv, WarmUp PROVE RoutesIInv'
<1>1. /\ cache' = Warmed(Required(Published))
      /\ UNCHANGED <<routeVars, ruleset, bundles, refresh, harmed, harms>>
      BY DEF WarmUp
<1>2. Required(Published)' = Required(Published)
      BY <1>1 DEF Published, Required, routeVars
<1>3. Required(Published) \in SUBSET Code BY DEF Required
<1>4. Warmed(Required(Published)) \in Cache
      BY <1>3 DEF Warmed, Cache, RoutesIInv, RoutesTyped, RuleSet
<1>5. RoutesTyped' BY <1>1, <1>4 DEF RoutesIInv, RoutesTyped, routeVars
<1>6. ruleset.active # 0 => cache' = [version |-> ruleset.active,
                                      sites |-> Required(Published)]
      BY <1>1 DEF Warmed
<1> QED BY <1>1, <1>2, <1>5, <1>6, ServedFacts, ServedAgain DEF There

(* Steps that leave what is served as it is.                               *)
LEMMA SameServedStep ==
    ASSUME RoutesIInv, UNCHANGED <<routeVars, harmed>>,
           ruleset' \in RuleSet, ruleset'.active = ruleset.active,
           ruleset'.codes = ruleset.codes,
           bundles' \in [Bundle -> Directory],
           ruleset.active # 0 /\ ~harmed =>
               bundles'[ruleset.active] = bundles[ruleset.active],
           cache' \in {cache, NoCache},
           refresh' \in Refreshes, refresh'.at = "bundle" => refresh'.manifest \in Manifest,
           harms' \in 0..MaxHarm
    PROVE  RoutesIInv'
<1>1. NoCache \in Cache
      BY RuleSetsAssumption DEF NoCache, Cache
<1>2. RoutesTyped' BY <1>1 DEF RoutesIInv, RoutesTyped, routeVars
<1>3. Required(Published)' = Required(Published) BY DEF Published, Required, routeVars
<1> QED BY <1>2, <1>3, ServedFacts, ServedAgain DEF There

LEMMA IndexReadStep == ASSUME RoutesIInv, IndexRead PROVE RoutesIInv'
<1>1. RoutesTyped BY DEF RoutesIInv
<1>2. PICK m \in Manifest :
        IF SameBundle(m)
        THEN /\ ruleset' = [ruleset EXCEPT !.status = "ready"]
             /\ cache' = [version |-> m.version, sites |-> Required(Published)]
             /\ RefreshEnds
        ELSE /\ refresh' = [at |-> "bundle", manifest |-> m]
             /\ UNCHANGED <<ruleset, cache>>
      BY DEF IndexRead
<1>3. UNCHANGED <<routeVars, bundles, harmed, harms>> BY DEF IndexRead
<1>4. CASE SameBundle(m)
  <2>1. /\ ruleset' \in RuleSet /\ ruleset'.active = ruleset.active
        /\ ruleset'.codes = ruleset.codes
        BY <1>1, <1>2, <1>4 DEF RoutesTyped, RuleSet
  <2>2. cache' = [version |-> ruleset.active, sites |-> Required(Published)]
        BY <1>2, <1>4 DEF SameBundle
  <2>3. cache' \in Cache
        BY <1>1, <2>2, PublishedTyped DEF Cache, RoutesTyped, RuleSet
  <2>4. refresh' \in Refreshes /\ refresh'.at # "bundle"
        BY <1>2, <1>4 DEF RefreshEnds, Refreshes
  <2>5. RoutesTyped'
        BY <1>1, <1>3, <2>1, <2>3, <2>4 DEF RoutesTyped, routeVars
  <2>6. Required(Published)' = Required(Published)
        BY <1>3 DEF Published, Required, routeVars
  <2> QED BY <1>3, <2>1, <2>2, <2>5, <2>6, ServedFacts, ServedAgain DEF There
<1>5. CASE ~ SameBundle(m)
  <2>1. /\ refresh' \in Refreshes /\ refresh'.manifest \in Manifest
        /\ UNCHANGED <<ruleset, cache>>
        BY <1>2, <1>5 DEF Refreshes
  <2> QED BY <1>1, <1>3, <2>1, SameServedStep DEF RoutesTyped
<1> QED BY <1>4, <1>5

LEMMA BundleInstalledStep == ASSUME RoutesIInv, BundleInstalled PROVE RoutesIInv'
<1> DEFINE m == refresh.manifest
<1>1. RoutesTyped BY DEF RoutesIInv
<1>2. /\ refresh.at = "bundle" /\ Required(Published) \subseteq m.codes
      /\ ruleset' = [status |-> "ready", active |-> m.version, codes |-> m.codes]
      /\ cache' = [version |-> m.version, sites |-> Required(Published)]
      /\ harmed' = FALSE /\ RefreshEnds /\ UNCHANGED <<routeVars, harms>>
      BY DEF BundleInstalled, NeededNow
<1>3. PICK kept \in KeptBeside(m.version) :
        bundles' = Replaced(m.version, There(m.codes), kept)
      BY DEF BundleInstalled
<1>4. m \in Manifest BY <1>1, <1>2 DEF RoutesTyped
<1>5. m.version \in Bundle /\ m.codes \in SUBSET Code BY <1>4 DEF Manifest
<1>6. /\ bundles' \in [Bundle -> Directory]
      /\ bundles'[m.version] = There(m.codes)
      BY <1>1, <1>3, <1>5 DEF Replaced, Directory, There, Absent, RoutesTyped
<1>7. ruleset' \in RuleSet
      BY <1>2, <1>5, RuleSetsAssumption DEF RuleSet, Bundle
<1>8. cache' \in Cache
      BY <1>1, <1>2, <1>5, PublishedTyped, RuleSetsAssumption DEF Cache, Bundle
<1>9. refresh' \in Refreshes /\ refresh'.at # "bundle"
      BY <1>2 DEF RefreshEnds, Refreshes
<1>10. RoutesTyped'
       BY <1>1, <1>2, <1>6, <1>7, <1>8, <1>9 DEF RoutesTyped, routeVars
<1>11. Required(Published)' = Required(Published)
       BY <1>2 DEF Published, Required, routeVars
<1> QED BY <1>2, <1>6, <1>10, <1>11, ServedAgain

LEMMA DiesInstallingStep == ASSUME RoutesIInv, DiesInstalling PROVE RoutesIInv'
<1> DEFINE m == refresh.manifest
<1>1. RoutesTyped BY DEF RoutesIInv
<1>2. /\ Harm /\ cache' = NoCache /\ RefreshEnds /\ UNCHANGED <<routeVars, ruleset>>
      /\ refresh.at = "bundle" /\ harmed' = (harmed \/ m.version = ruleset.active)
      BY DEF DiesInstalling, PlaneRestarted
<1>3. PICK directory \in {Absent, There(m.codes)} :
        bundles' = Replaced(m.version, directory, Bundle)
      BY DEF DiesInstalling
<1>4. m \in Manifest BY <1>1, <1>2 DEF RoutesTyped
<1>5. m.version \in Bundle /\ m.codes \in SUBSET Code BY <1>4 DEF Manifest
<1>6. directory \in Directory
  <2>1. Absent \in Directory BY DEF Directory, Absent
  <2>2. There(m.codes) \in Directory BY <1>5 DEF Directory, There
  <2> QED BY <2>1, <2>2
<1>7. /\ bundles' \in [Bundle -> Directory]
      /\ \A v \in Bundle \ {m.version} : bundles'[v] = bundles[v]
      BY <1>1, <1>3, <1>6 DEF Replaced, RoutesTyped
<1>8. harms' \in 0..MaxHarm
      BY <1>1, <1>2, RuleSetsAssumption DEF Harm, RoutesTyped
<1>9. cache' \in Cache
      BY <1>2, RuleSetsAssumption DEF NoCache, Cache
<1>10. refresh' \in Refreshes /\ refresh'.at # "bundle"
       BY <1>2 DEF RefreshEnds, Refreshes
<1>11. harmed' \in BOOLEAN BY <1>2
<1>12. RoutesTyped'
       BY <1>1, <1>2, <1>7, <1>8, <1>9, <1>10, <1>11 DEF RoutesTyped, routeVars
<1>13. Required(Published)' = Required(Published)
       BY <1>2 DEF Published, Required, routeVars
<1>14. ruleset'.active # 0 /\ ~harmed' =>
          bundles'[ruleset'.active] = bundles[ruleset.active]
       BY <1>2, <1>7, ServedFacts
<1>15. cache' = NoCache' BY <1>2 DEF NoCache
<1> QED BY <1>2, <1>12, <1>13, <1>14, <1>15, ServedFacts, ServedAgain DEF There

LEMMA DamageStep == ASSUME RoutesIInv, Damage PROVE RoutesIInv'
<1>1. RoutesTyped BY DEF RoutesIInv
<1>2. PICK v \in Bundle : /\ bundles' = [bundles EXCEPT ![v] = Absent]
                          /\ harmed' = (harmed \/ v = ruleset.active)
      BY DEF Damage
<1>3. /\ Harm /\ UNCHANGED <<routeVars, ruleset, cache, refresh>> BY DEF Damage
<1>4. /\ bundles' \in [Bundle -> Directory]
      /\ \A w \in Bundle \ {v} : bundles'[w] = bundles[w]
      BY <1>1, <1>2 DEF RoutesTyped, Absent, Directory
<1>5. harms' \in 0..MaxHarm
      BY <1>1, <1>3, RuleSetsAssumption DEF Harm, RoutesTyped
<1>6. harmed' \in BOOLEAN BY <1>2
<1>7. RoutesTyped' BY <1>1, <1>3, <1>4, <1>5, <1>6 DEF RoutesTyped, routeVars
<1>8. Required(Published)' = Required(Published)
      BY <1>3 DEF Published, Required, routeVars
<1>9. ruleset'.active # 0 /\ ~harmed' =>
         bundles'[ruleset'.active] = bundles[ruleset.active]
      BY <1>2, <1>3, <1>4, ServedFacts
<1> QED BY <1>2, <1>3, <1>7, <1>8, <1>9, ServedFacts, ServedAgain DEF There, NoCache

LEMMA RoutesNextStep == RoutesIInv /\ [RuleSetsNext]_ruleSetVars => RoutesIInv'
<1> SUFFICES ASSUME RoutesIInv, [RuleSetsNext]_ruleSetVars PROVE RoutesIInv'
    OBVIOUS
<1>1. RoutesTyped BY DEF RoutesIInv
<1>2. CASE AddRule BY <1>2, AddRuleStep
<1>3. CASE UpdateRule BY <1>3, UpdateRuleStep
<1>4. CASE RemoveRule
  <2>1. PICK c \in Code : draft' = [draft EXCEPT ![c] = "none"] /\ OnlyDraft
        BY <1>4 DEF RemoveRule
  <2>2. draft' \in Drafts /\ Required(draft') \subseteq Required(draft)
        BY <1>1, <2>1 DEF RoutesTyped, Drafts, Required
  <2> QED BY <2>1, <2>2, DraftStep
<1>5. CASE Discard
      BY <1>1, <1>5, DraftStep, PublishedTyped DEF Discard
<1>6. CASE PublishRoutes
      BY <1>1, <1>6, PublishesStep DEF PublishRoutes, RoutesTyped
<1>7. CASE RollbackRoutes
  <2>1. PICK i \in 1..Len(revisions) : Publishes(revisions[i]) /\ draft' = revisions[i]
        BY <1>7 DEF RollbackRoutes
  <2>2. revisions[i] \in Drafts BY <1>1 DEF RoutesTyped
  <2> QED BY <2>1, <2>2, PublishesStep
<1>8. CASE WarmUp BY <1>8, WarmUpStep
<1>9. CASE RefreshStarts
      BY <1>1, <1>9, SameServedStep DEF RefreshStarts, RoutesTyped, Refreshes
<1>10. CASE IndexRead BY <1>10, IndexReadStep
<1>11. CASE BundleInstalled BY <1>11, BundleInstalledStep
<1>12. CASE RefreshFails
  <2>1. /\ ruleset' \in RuleSet /\ ruleset'.active = ruleset.active
        /\ ruleset'.codes = ruleset.codes
        BY <1>1, <1>12 DEF RefreshFails, RoutesTyped, RuleSet
  <2> QED BY <1>1, <1>12, <2>1, SameServedStep
           DEF RefreshFails, RefreshEnds, RoutesTyped, Refreshes
<1>13. CASE ControlPlaneDies
  <2>1. harms' \in 0..MaxHarm
        BY <1>1, <1>13, RuleSetsAssumption DEF ControlPlaneDies, Harm, RoutesTyped
  <2> QED BY <1>1, <1>13, <2>1, SameServedStep
           DEF ControlPlaneDies, PlaneRestarted, RefreshEnds, RoutesTyped, Refreshes
<1>14. CASE DiesInstalling BY <1>14, DiesInstallingStep
<1>15. CASE Damage BY <1>15, DamageStep
<1>16. CASE UNCHANGED ruleSetVars
       BY <1>1, <1>16, SameServedStep DEF ruleSetVars, RoutesTyped
<1> QED BY <1>2, <1>3, <1>4, <1>5, <1>6, <1>7, <1>8, <1>9, <1>10, <1>11, <1>12,
           <1>13, <1>14, <1>15, <1>16 DEF RuleSetsNext

LEMMA RoutesInitStep == RuleSetsInit => RoutesIInv
<1> SUFFICES ASSUME RuleSetsInit PROVE RoutesIInv
    OBVIOUS
<1>1. draft \in Drafts /\ revisions \in Seq(Drafts) BY DEF RuleSetsInit, Drafts
<1>2. ruleset \in RuleSet /\ cache \in Cache
      BY RuleSetsAssumption DEF RuleSetsInit, RuleSet, Cache, NoCache
<1>3. bundles \in [Bundle -> Directory] BY DEF RuleSetsInit, Directory, Absent
<1>4. refresh \in Refreshes /\ refresh.at # "bundle" BY DEF RuleSetsInit, Refreshes
<1>5. harmed \in BOOLEAN BY DEF RuleSetsInit
<1>6. harms \in 0..MaxHarm BY RuleSetsAssumption DEF RuleSetsInit
<1>7. RoutesTyped BY <1>1, <1>2, <1>3, <1>4, <1>5, <1>6 DEF RoutesTyped
<1> QED BY <1>7 DEF RuleSetsInit, RoutesIInv, ActiveIsWhole, RoutesAreServed

(* Whatever is published, discarded or rolled back while a bundle is on    *)
(* its way, and whichever bundle arrives under whatever version, every     *)
(* category of the published routes can be read from the active bundle and *)
(* the cache is of that version; for any categories, versions, revisions   *)
(* and crashes.                                                            *)
THEOREM RoutesServed == RuleSetsSpec => []RoutesAreServed
<1>1. RoutesIInv => RoutesAreServed BY DEF RoutesIInv
<1> QED BY <1>1, RoutesInitStep, RoutesNextStep, PTL DEF RuleSetsSpec

-----------------------------------------------------------------------------
(* EngineConfig.                                                           *)

Kinds == {"none", "methods", "undo", "template", "refresh"}

ScriptRow == [at : Steps, from : Content \cup {None}, shared : BOOLEAN,
              restart : {"0", "1", "sync"}, up : BOOLEAN,
              native : Content \cup {None}, awaited : BOOLEAN, ok : BOOLEAN,
              alone : BOOLEAN]

ConfigTyped ==
    /\ methods \in Methods /\ revision \in Seq(Template)
    /\ {rendered, file, previous, temporary, live} \subseteq Content \cup {None}
    /\ script \in [Slot -> ScriptRow]
    /\ request \in [kind : Kinds, to : Content \cup {None},
                    asked : Content \cup {None}, slot : Slot]
    /\ doubt \in BOOLEAN /\ missed \in BOOLEAN /\ syncs \in BOOLEAN

(* What a request wants is a rendering of what it is about to store, and   *)
(* its script reads that rendering, whatever scripts have been left behind.*)
RequestShape ==
    Holding =>
        /\ request.kind # "none" /\ request.to \in Content
        /\ Answer.at # "none" /\ Answer.awaited
        /\ request.kind = "methods" =>
              request.to = Rendered(ActiveTemplate, request.to.methods)
        /\ request.kind = "template" =>
              request.to = Rendered(request.to.template, methods)
        /\ request.kind \in {"refresh", "undo"} => request.to = Stored
        /\ request.kind # "undo" => request.asked = request.to
        /\ IF Answer.shared THEN rendered = request.to ELSE Answer.from = request.to

(* Without doubt there is no script but that of the request; a script that *)
(* started beside no other one stays so.                                   *)
OneScript ==
    /\ ~doubt => \A s \in Slot : script[s].at # "none" => Holding /\ request.slot = s
    /\ Holding /\ ~doubt => Answer.alone
    /\ Holding /\ Answer.alone =>
          \A s \in Slot \ {request.slot} : script[s].at = "none"

Placed == {"firewall", "restart", "sync", "health", "restore"}

(* Where a script beside no other one stands tells what is in the file.    *)
FileFollows ==
    Holding /\ Answer.alone =>
        /\ Answer.at = "move" => temporary = request.to
        /\ Answer.at \in Placed => file = request.to
        /\ Answer.at = "done" /\ Answer.ok => file = request.to

Before == IF request.kind = "undo" THEN {Stored, request.asked} ELSE {Stored}

(* And without doubt, what it found there and what it goes back to.        *)
FileReturns ==
    ~doubt =>
        IF Holding
        THEN /\ Answer.at \in {"test", "keep", "install", "move", "revive"} => file \in Before
             /\ Answer.at = "done" /\ ~Answer.ok => file \in Before
             /\ Answer.at \in {"install", "move"} \cup Placed => previous \in Before
        ELSE file = Stored

(* A running engine that has not loaded the file is about to be told, or   *)
(* was missed.                                                             *)
Tells(s) == \/ script[s].at \in {"restart", "sync", "restore", "revive"}
            \/ script[s].at = "firewall" /\ script[s].restart # "0"
LoadedOrTold == Up /\ ~missed => live = file \/ \E s \in Slot : Tells(s)

ConfigIInv == /\ ConfigTyped /\ RequestShape /\ OneScript
              /\ FileFollows /\ FileReturns /\ LoadedOrTold

(* The invariant is what the property needs.                               *)
LEMMA ConfigIInvSuffices == ConfigIInv => RunsWhatIsStored
<1> SUFFICES ASSUME ConfigIInv PROVE RunsWhatIsStored
    OBVIOUS
<1> USE DEF ConfigIInv
<1>1. ASSUME ~doubt, Holding PROVE file \in {Stored, request.asked}
  <2>1. Answer.alone /\ Answer.at # "none" BY <1>1 DEF OneScript, RequestShape
  <2>2. request.to \in {Stored, request.asked} BY <1>1 DEF RequestShape, ConfigTyped
  <2>3. Answer.at \in Steps BY DEF ConfigTyped, ScriptRow, Answer
  <2>4. CASE Answer.at \in Placed BY <1>1, <2>1, <2>2, <2>4 DEF FileFollows
  <2>5. CASE Answer.at = "done"
        BY <1>1, <2>1, <2>2, <2>5 DEF FileFollows, FileReturns, Before
  <2>6. CASE Answer.at \in {"test", "keep", "install", "move", "revive"}
        BY <1>1, <2>6 DEF FileReturns, Before
  <2> QED BY <2>1, <2>3, <2>4, <2>5, <2>6 DEF Steps, Placed
<1>2. ASSUME ~doubt, ~Holding PROVE file = Stored
      BY <1>2 DEF FileReturns
<1>3. InstalledIsStored BY <1>1, <1>2 DEF InstalledIsStored
<1>4. ASSUME Up, ~Holding, ~doubt, ~missed PROVE live = Stored
  <2>1. \A s \in Slot : ~ Tells(s) BY <1>4 DEF OneScript, Tells
  <2> QED BY <1>2, <1>4, <2>1 DEF LoadedOrTold
<1> QED BY <1>3, <1>4 DEF RunsWhatIsStored

-----------------------------------------------------------------------------
(* What a script's step does to its own row.                               *)

Advances(s, step) ==
    /\ script' = [script EXCEPT ![s] = script'[s]]
    /\ script'[s] \in ScriptRow /\ script'[s].at = step
    /\ script'[s].from = script[s].from /\ script'[s].shared = script[s].shared
    /\ script'[s].restart = script[s].restart
    /\ script'[s].awaited = script[s].awaited /\ script'[s].alone = script[s].alone
    /\ step # "none"

Leaves(s, ok) ==
    \/ script[s].awaited /\ Advances(s, "done") /\ script'[s].ok = ok
    \/ ~script[s].awaited /\ script' = [script EXCEPT ![s] = Idle]

LEMMA GoesAdvances ==
    ASSUME ConfigTyped, NEW s \in Slot, NEW step \in Steps \ {"none"},
           ScriptGoes(s, step)
    PROVE  Advances(s, step)
BY DEF ConfigTyped, ScriptRow, ScriptGoes, Advances

LEMMA IdleTyped == Idle \in ScriptRow /\ Idle.at = "none" /\ ~Idle.alone
BY DEF Idle, ScriptRow, Steps

LEMMA ExitsLeaves ==
    ASSUME ConfigTyped, NEW s \in Slot, NEW ok \in BOOLEAN, Exits(s, ok)
    PROVE  Leaves(s, ok)
<1>1. CASE script[s].awaited
  <2> DEFINE row == [script[s] EXCEPT !.at = "done", !.ok = ok]
  <2>1. script \in [Slot -> ScriptRow] /\ script[s] \in ScriptRow BY DEF ConfigTyped
  <2>2. script' = [script EXCEPT ![s] = row] BY <1>1 DEF Exits
  <2>3. /\ row \in ScriptRow /\ row.at = "done" /\ row.ok = ok
        /\ row.from = script[s].from /\ row.shared = script[s].shared
        /\ row.restart = script[s].restart /\ row.awaited = script[s].awaited
        /\ row.alone = script[s].alone
        BY <2>1 DEF ScriptRow, Steps
  <2> HIDE DEF row
  <2>4. script'[s] = row BY <2>1, <2>2
  <2>5. Advances(s, "done") /\ script'[s].ok = ok BY <2>2, <2>3, <2>4 DEF Advances
  <2> QED BY <1>1, <2>5 DEF Leaves
<1>2. CASE ~script[s].awaited
      BY <1>2 DEF Exits, Leaves
<1> QED BY <1>1, <1>2

(* Only the request's own script can move while a request is without doubt *)
(* or its script without company.                                          *)
LEMMA MovesAlone ==
    ASSUME ConfigIInv, NEW s \in Slot, script[s].at # "none",
           ~doubt \/ (Holding /\ Answer.alone)
    PROVE  Holding /\ s = request.slot /\ script[s].awaited /\ script[s].alone
BY DEF ConfigIInv, OneScript, RequestShape, Answer

(* A step of a script leaves the request's shape and the scripts' number.  *)
LEMMA ScriptFrame ==
    ASSUME ConfigIInv, NEW s \in Slot, script[s].at # "none",
           \/ \E step \in Steps : Advances(s, step)
           \/ \E ok \in BOOLEAN : Leaves(s, ok),
           UNCHANGED <<storeVars, rendered, syncs, request, doubt>>,
           {file', previous', temporary', live'} \subseteq Content \cup {None},
           missed' \in BOOLEAN
    PROVE  ConfigTyped' /\ RequestShape' /\ OneScript'
<1>1. ConfigTyped /\ RequestShape /\ OneScript BY DEF ConfigIInv
<1>2. \/ /\ script' = [script EXCEPT ![s] = script'[s]]
         /\ script'[s] \in ScriptRow /\ script'[s].at # "none"
         /\ script'[s].from = script[s].from /\ script'[s].shared = script[s].shared
         /\ script'[s].awaited = script[s].awaited
         /\ script'[s].alone = script[s].alone
      \/ ~script[s].awaited /\ script' = [script EXCEPT ![s] = Idle]
      BY DEF Advances, Leaves
<1>3. script' \in [Slot -> ScriptRow]
      BY <1>1, <1>2, IdleTyped DEF ConfigTyped
<1>4. ConfigTyped' BY <1>1, <1>3 DEF ConfigTyped, storeVars
<1>5. /\ Stored' = Stored /\ ActiveTemplate' = ActiveTemplate
      /\ Holding' <=> Holding
      BY DEF Stored, ActiveTemplate, Holding, storeVars
<1>6. CASE ~Holding
  <2>1. RequestShape' BY <1>5, <1>6 DEF RequestShape
  <2>2. doubt BY <1>1, <1>6 DEF OneScript
  <2> QED BY <1>4, <1>5, <1>6, <2>1, <2>2 DEF OneScript
<1>7. CASE Holding
  <2>1. Answer.awaited BY <1>1, <1>7 DEF RequestShape
  <2>2. /\ Answer'.at # "none" /\ Answer'.awaited
        /\ Answer'.from = Answer.from /\ Answer'.shared = Answer.shared
        /\ Answer'.alone = Answer.alone
        BY <1>1, <1>2, <1>7, <2>1 DEF Answer, RequestShape, ConfigTyped
  <2>3. RequestShape'
        BY <1>1, <1>5, <1>7, <2>2 DEF RequestShape, Rendered, storeVars
  <2>4. \A t \in Slot : script[t].at = "none" => script'[t].at = "none"
        BY <1>1, <1>2 DEF ConfigTyped
  <2>5. OneScript' BY <1>1, <1>5, <1>7, <2>2, <2>4 DEF OneScript
  <2> QED BY <1>4, <2>3, <2>5
<1> QED BY <1>6, <1>7

(* What a script's step has to say of the files it leaves behind when it   *)
(* is the request's and beside no other one.                               *)
FilesOf(row) ==
    /\ row.at = "move" => temporary' = request.to
    /\ row.at \in Placed => file' = request.to
    /\ row.at = "done" /\ row.ok => file' = request.to
    /\ ~doubt => /\ row.at \in {"test", "keep", "install", "move", "revive"}
                      => file' \in Before
                 /\ row.at = "done" /\ ~row.ok => file' \in Before
                 /\ row.at \in {"install", "move"} \cup Placed => previous' \in Before

LEMMA ScriptFiles ==
    ASSUME ConfigIInv, NEW s \in Slot, script[s].at # "none",
           \/ \E step \in Steps : Advances(s, step)
           \/ \E ok \in BOOLEAN : Leaves(s, ok),
           UNCHANGED <<storeVars, rendered, syncs, request, doubt>>,
           Holding /\ s = request.slot /\ script[s].alone /\ script[s].awaited
              => FilesOf(script'[s])
    PROVE  FileFollows' /\ FileReturns'
<1>1. /\ Stored' = Stored /\ ActiveTemplate' = ActiveTemplate
      /\ Holding' <=> Holding
      /\ Before' = Before
      BY DEF Stored, ActiveTemplate, Holding, storeVars, Before
<1>2. CASE Holding /\ Answer.alone
  <2>1. s = request.slot /\ script[s].alone /\ script[s].awaited
        BY <1>2, MovesAlone
  <2>2. Answer' = script'[s] /\ FilesOf(script'[s])
        BY <1>2, <2>1 DEF Answer
  <2> QED BY <1>1, <1>2, <2>2 DEF FilesOf, FileFollows, FileReturns
<1>3. CASE ~ (Holding /\ Answer.alone)
  <2>1. doubt /\ ~ (Holding /\ Answer.alone)' 
    <3>1. doubt
      <4>1. ASSUME ~doubt PROVE FALSE
        <5>1. Holding /\ s = request.slot /\ script[s].alone
              BY <4>1 DEF ConfigIInv, OneScript, Answer
        <5> QED BY <1>3, <5>1 DEF Answer
      <4> QED BY <4>1
    <3>2. Holding => ~ Answer'.alone
      <4>1. ConfigTyped BY DEF ConfigIInv
      <4>2. ASSUME NEW step \in Steps, Advances(s, step) PROVE Holding => ~ Answer'.alone
            BY <1>3, <4>1, <4>2 DEF Advances, Answer, ConfigTyped
      <4>3. ASSUME script' = [script EXCEPT ![s] = Idle] PROVE Holding => ~ Answer'.alone
            BY <1>3, <4>1, <4>3, IdleTyped DEF Answer, ConfigTyped
      <4> QED BY <4>2, <4>3 DEF Leaves, Steps
    <3> QED BY <1>1, <3>1, <3>2
  <2> QED BY <2>1 DEF FileFollows, FileReturns
<1> QED BY <1>2, <1>3

(* The other scripts go on telling.                                        *)
LEMMA OthersTell ==
    ASSUME ConfigTyped, NEW s \in Slot,
           \/ \E step \in Steps : Advances(s, step)
           \/ \E ok \in BOOLEAN : Leaves(s, ok)
    PROVE  /\ \A t \in Slot \ {s} : Tells(t)' <=> Tells(t)
           /\ script'[s].at \in {"restart", "sync", "restore", "revive"} => Tells(s)'
           /\ script'[s].restart = script[s].restart \/ script'[s].at = "none"
<1>1. \/ script' = [script EXCEPT ![s] = script'[s]]
      \/ script' = [script EXCEPT ![s] = Idle]
      BY DEF Advances, Leaves
<1>2. \A t \in Slot \ {s} : script'[t] = script[t]
      BY <1>1 DEF ConfigTyped
<1>3. script'[s].restart = script[s].restart \/ script'[s].at = "none"
      BY IdleTyped DEF Advances, Leaves, ConfigTyped
<1> QED BY <1>2, <1>3 DEF Tells

LEMMA ToldStill ==
    ASSUME ConfigIInv, NEW s \in Slot, UNCHANGED <<file, live, missed>>,
           \/ \E step \in Steps : Advances(s, step)
           \/ \E ok \in BOOLEAN : Leaves(s, ok),
           Tells(s) => Tells(s)'
    PROVE  LoadedOrTold'
BY OthersTell DEF ConfigIInv, LoadedOrTold, Up

-----------------------------------------------------------------------------
(* The steps of apply-config.                                              *)

(* The source of the request's script is what the request wants.           *)
LEMMA SourceIsWanted ==
    ASSUME ConfigIInv, Holding PROVE Source(request.slot) = request.to
BY DEF ConfigIInv, RequestShape, Source, Answer

LEMMA SourceTyped ==
    ASSUME ConfigTyped, NEW s \in Slot PROVE Source(s) \in Content \cup {None}
BY DEF ConfigTyped, ScriptRow, Source

LEMMA TestStep == ASSUME ConfigIInv, NEW s \in Slot, Test(s) PROVE ConfigIInv'
<1>1. ConfigTyped BY DEF ConfigIInv
<1>2. /\ script[s].at = "test"
      /\ UNCHANGED <<storeVars, rendered, diskVars, liveVars, syncs, request, doubt>>
      BY DEF Test
<1>3. Advances(s, "keep") \/ Leaves(s, FALSE)
  <2>1. CASE script' = [script EXCEPT ![s].at = "keep",
                 ![s].native = IF script[s].restart = "sync" THEN Source(s) ELSE None]
    <3> DEFINE read == IF script[s].restart = "sync" THEN Source(s) ELSE None
               row  == [script[s] EXCEPT !.at = "keep", !.native = read]
    <3>1. script' = [script EXCEPT ![s] = row] /\ script'[s] = row
          BY <1>1, <2>1 DEF ConfigTyped
    <3>2. script[s] \in ScriptRow /\ read \in Content \cup {None}
          BY <1>1, SourceTyped DEF ConfigTyped
    <3> HIDE DEF read
    <3>3. /\ row \in ScriptRow /\ row.at = "keep"
          /\ row.from = script[s].from /\ row.shared = script[s].shared
          /\ row.restart = script[s].restart
          /\ row.awaited = script[s].awaited /\ row.alone = script[s].alone
          BY <3>2 DEF ScriptRow, Steps
    <3> QED BY <3>1, <3>3 DEF Advances
  <2>2. CASE Exits(s, FALSE) BY <1>1, <2>2, ExitsLeaves
  <2>3. \/ script' = [script EXCEPT ![s].at = "keep",
                 ![s].native = IF script[s].restart = "sync" THEN Source(s) ELSE None]
        \/ Exits(s, FALSE)
        BY Zenon DEF Test
  <2> QED BY <2>1, <2>2, <2>3
<1>4. ConfigTyped' /\ RequestShape' /\ OneScript'
      BY <1>1, <1>2, <1>3, ScriptFrame DEF Steps, ConfigTyped, diskVars, liveVars
<1>5. Holding /\ s = request.slot /\ script[s].alone /\ script[s].awaited
        => FilesOf(script'[s])
      BY <1>2, <1>3 DEF FilesOf, Advances, Leaves, Placed, ConfigIInv, FileReturns,
                        Answer, diskVars, Before
<1>6. FileFollows' /\ FileReturns'
      BY <1>2, <1>3, <1>5, ScriptFiles DEF Steps
<1>7. LoadedOrTold'
      BY <1>2, <1>3, ToldStill DEF Tells, Steps, diskVars, liveVars
<1> QED BY <1>4, <1>6, <1>7 DEF ConfigIInv

LEMMA KeepStep == ASSUME ConfigIInv, NEW s \in Slot, Keep(s) PROVE ConfigIInv'
<1>1. ConfigTyped BY DEF ConfigIInv
<1>2. /\ script[s].at = "keep"
      /\ UNCHANGED <<storeVars, rendered, file, temporary, liveVars, syncs, request, doubt>>
      BY DEF Keep
<1>3. \/ Leaves(s, TRUE) /\ Source(s) = file /\ UNCHANGED previous
      \/ Advances(s, "install") /\ previous' = file
  <2>1. CASE Source(s) = file
        BY <1>1, <2>1, ExitsLeaves DEF Keep
  <2>2. CASE Source(s) # file
    <3>1. Advances(s, "install")
          BY <1>1, <2>2 DEF Keep, Advances, ConfigTyped, ScriptRow, Steps, Up
    <3> QED BY <2>2, <3>1 DEF Keep
  <2> QED BY <2>1, <2>2
<1>4. ConfigTyped' /\ RequestShape' /\ OneScript'
      BY <1>1, <1>2, <1>3, ScriptFrame DEF Steps, ConfigTyped, liveVars
<1>5. Holding /\ s = request.slot /\ script[s].alone /\ script[s].awaited
        => FilesOf(script'[s])
  <2> SUFFICES ASSUME Holding, s = request.slot, script[s].awaited
               PROVE  FilesOf(script'[s])
      OBVIOUS
  <2>1. ~doubt => file \in Before
        BY <1>2 DEF ConfigIInv, FileReturns, Answer
  <2>2. CASE Leaves(s, TRUE) /\ Source(s) = file
    <3>1. script'[s].at = "done" /\ script'[s].ok BY <2>2 DEF Leaves, Advances
    <3>2. file' = request.to BY <1>2, <2>2, SourceIsWanted
    <3> QED BY <3>1, <3>2 DEF FilesOf, Placed
  <2>3. CASE Advances(s, "install") /\ previous' = file
    <3>1. script'[s].at = "install" BY <2>3 DEF Advances
    <3> QED BY <1>2, <2>1, <2>3, <3>1 DEF FilesOf, Placed
  <2> QED BY <1>3, <2>2, <2>3
<1>6. FileFollows' /\ FileReturns'
      BY <1>2, <1>3, <1>5, ScriptFiles DEF Steps
<1>7. LoadedOrTold'
      BY <1>2, <1>3, ToldStill DEF Tells, Steps, liveVars
<1> QED BY <1>4, <1>6, <1>7 DEF ConfigIInv

LEMMA InstallFileStep ==
    ASSUME ConfigIInv, NEW s \in Slot, InstallFile(s)
    PROVE  ConfigIInv'
<1>1. ConfigTyped BY DEF ConfigIInv
<1>2. /\ script[s].at = "install" /\ temporary' = Source(s)
      /\ UNCHANGED <<storeVars, rendered, file, previous, liveVars, syncs, request, doubt>>
      BY DEF InstallFile
<1>3. Advances(s, "move") BY <1>1, GoesAdvances DEF InstallFile, Steps
<1>4. ConfigTyped' /\ RequestShape' /\ OneScript'
      BY <1>1, <1>2, <1>3, SourceTyped, ScriptFrame DEF Steps, ConfigTyped, liveVars
<1>5. Holding /\ s = request.slot /\ script[s].alone /\ script[s].awaited
        => FilesOf(script'[s])
  <2> SUFFICES ASSUME Holding, s = request.slot PROVE FilesOf(script'[s])
      OBVIOUS
  <2>1. ~doubt => file \in Before /\ previous \in Before
        BY <1>2 DEF ConfigIInv, FileReturns, Answer
  <2>2. temporary' = request.to BY <1>2, SourceIsWanted
  <2>3. script'[s].at = "move" BY <1>3 DEF Advances
  <2> QED BY <1>2, <2>1, <2>2, <2>3 DEF FilesOf, Placed
<1>6. FileFollows' /\ FileReturns'
      BY <1>2, <1>3, <1>5, ScriptFiles DEF Steps
<1>7. LoadedOrTold'
      BY <1>2, <1>3, ToldStill DEF Tells, Steps, liveVars
<1> QED BY <1>4, <1>6, <1>7 DEF ConfigIInv

LEMMA MoveStep == ASSUME ConfigIInv, NEW s \in Slot, Move(s) PROVE ConfigIInv'
<1>1. ConfigTyped BY DEF ConfigIInv
<1>2. /\ script[s].at = "move"
      /\ UNCHANGED <<storeVars, rendered, previous, live, syncs, request, doubt>>
      BY DEF Move
<1>3. \/ Leaves(s, FALSE) /\ UNCHANGED <<file, temporary, missed>>
      \/ /\ Advances(s, "firewall") /\ file' = temporary /\ temporary' = None
         /\ missed' = (missed \/ (Up /\ script[s].restart = "0"))
  <2>1. CASE temporary = None BY <1>1, <2>1, ExitsLeaves DEF Move
  <2>2. CASE temporary # None
        BY <1>1, <2>2, GoesAdvances DEF Move, Steps
  <2> QED BY <2>1, <2>2
<1>4. ConfigTyped' /\ RequestShape' /\ OneScript'
  <2>1. missed' \in BOOLEAN BY <1>1, <1>3 DEF ConfigTyped
  <2> QED BY <1>1, <1>2, <1>3, <2>1, ScriptFrame DEF Steps, ConfigTyped
<1>5. Holding /\ s = request.slot /\ script[s].alone /\ script[s].awaited
        => FilesOf(script'[s])
  <2> SUFFICES ASSUME Holding, s = request.slot, script[s].alone, script[s].awaited
               PROVE  FilesOf(script'[s])
      OBVIOUS
  <2>1. ~doubt => file \in Before /\ previous \in Before
        BY <1>2 DEF ConfigIInv, FileReturns, Answer
  <2>2. temporary = request.to
        BY <1>2 DEF ConfigIInv, FileFollows, Answer
  <2>3. CASE Leaves(s, FALSE) /\ UNCHANGED <<file, temporary, missed>>
    <3>1. script'[s].at = "done" /\ ~script'[s].ok BY <2>3 DEF Leaves, Advances
    <3> QED BY <2>1, <2>3, <3>1 DEF FilesOf, Placed
  <2>4. CASE Advances(s, "firewall") /\ file' = temporary
    <3>1. script'[s].at = "firewall" BY <2>4 DEF Advances
    <3> QED BY <1>2, <2>1, <2>2, <2>4, <3>1 DEF FilesOf, Placed
  <2> QED BY <1>3, <2>3, <2>4
<1>6. FileFollows' /\ FileReturns'
      BY <1>2, <1>3, <1>5, ScriptFiles DEF Steps
<1>7. LoadedOrTold'
  <2>1. CASE Leaves(s, FALSE) /\ UNCHANGED <<file, temporary, missed>>
        BY <1>2, <2>1, ToldStill DEF Tells
  <2>2. CASE /\ Advances(s, "firewall")
             /\ missed' = (missed \/ (Up /\ script[s].restart = "0"))
    <3>1. /\ script'[s].at = "firewall" /\ script'[s].restart = script[s].restart
          /\ Up' <=> Up
          BY <1>2, <2>2 DEF Advances, Up
    <3>2. Up' /\ ~missed' => Tells(s)' BY <2>2, <3>1 DEF Tells
    <3> QED BY <3>2 DEF LoadedOrTold
  <2> QED BY <1>3, <2>1, <2>2
<1> QED BY <1>4, <1>6, <1>7 DEF ConfigIInv

LEMMA FirewallStep == ASSUME ConfigIInv, NEW s \in Slot, Firewall(s) PROVE ConfigIInv'
<1>1. ConfigTyped BY DEF ConfigIInv
<1>2. /\ script[s].at = "firewall"
      /\ UNCHANGED <<storeVars, rendered, diskVars, liveVars, syncs, request, doubt>>
      BY DEF Firewall
<1>3. \/ Leaves(s, TRUE) /\ script[s].restart = "0"
      \/ \E step \in {"sync", "restart", "restore"} : Advances(s, step)
  <2>1. script[s].restart \in {"0", "1", "sync"} BY <1>1 DEF ConfigTyped, ScriptRow
  <2>2. \/ script[s].restart = "0" /\ Exits(s, TRUE)
        \/ script[s].restart = "sync" /\ ScriptGoes(s, "sync")
        \/ script[s].restart = "1" /\ ScriptGoes(s, "restart")
        \/ ScriptGoes(s, "restore")
        BY <2>1 DEF Firewall
  <2> QED BY <1>1, <2>2, ExitsLeaves, GoesAdvances DEF Steps
<1>4. ConfigTyped' /\ RequestShape' /\ OneScript'
      BY <1>1, <1>2, <1>3, ScriptFrame DEF Steps, ConfigTyped, diskVars, liveVars
<1>5. Holding /\ s = request.slot /\ script[s].alone /\ script[s].awaited
        => FilesOf(script'[s])
  <2> SUFFICES ASSUME Holding, s = request.slot, script[s].alone, script[s].awaited
               PROVE  FilesOf(script'[s])
      OBVIOUS
  <2>1. /\ file' = request.to
        /\ ~doubt => previous' \in Before
        BY <1>2 DEF ConfigIInv, FileReturns, FileFollows, Answer, Placed, diskVars
  <2>2. \/ script'[s].at = "done" /\ script'[s].ok
        \/ script'[s].at \in {"sync", "restart", "restore"}
        BY <1>3 DEF Leaves, Advances
  <2> QED BY <2>1, <2>2 DEF FilesOf
<1>6. FileFollows' /\ FileReturns'
      BY <1>2, <1>3, <1>5, ScriptFiles DEF Steps
<1>7. LoadedOrTold'
  <2>1. \/ \E step \in Steps : Advances(s, step)
        \/ \E ok \in BOOLEAN : Leaves(s, ok)
        BY <1>3 DEF Steps
  <2>2. Tells(s) => Tells(s)'
        BY <1>2, <1>3 DEF Tells, Advances
  <2> QED BY <1>2, <2>1, <2>2, ToldStill DEF diskVars, liveVars
<1> QED BY <1>4, <1>6, <1>7 DEF ConfigIInv

LEMMA SyncPeersStep ==
    ASSUME ConfigIInv, NEW s \in Slot, SyncPeers(s)
    PROVE  ConfigIInv'
<1>1. ConfigTyped BY DEF ConfigIInv
<1>2. /\ script[s].at = "sync"
      /\ UNCHANGED <<storeVars, rendered, diskVars, syncs, request, doubt>>
      BY DEF SyncPeers
<1>3. \/ /\ Leaves(s, TRUE) /\ live' = script[s].native /\ missed' = (live' # file)
      \/ Advances(s, "restore") /\ UNCHANGED liveVars
  <2>1. \/ /\ Exits(s, TRUE) /\ live' = script[s].native /\ missed' = (live' # file)
        \/ ScriptGoes(s, "restore") /\ UNCHANGED liveVars
        BY DEF SyncPeers
  <2> QED BY <1>1, <2>1, ExitsLeaves, GoesAdvances DEF Steps
<1>4. ConfigTyped' /\ RequestShape' /\ OneScript'
  <2>1. live' \in Content \cup {None}
        BY <1>1, <1>3 DEF ConfigTyped, ScriptRow, liveVars
  <2>2. missed' \in BOOLEAN BY <1>1, <1>3 DEF ConfigTyped, liveVars
  <2> QED BY <1>1, <1>2, <1>3, <2>1, <2>2, ScriptFrame DEF Steps, ConfigTyped, diskVars
<1>5. Holding /\ s = request.slot /\ script[s].alone /\ script[s].awaited
        => FilesOf(script'[s])
  <2> SUFFICES ASSUME Holding, s = request.slot, script[s].alone, script[s].awaited
               PROVE  FilesOf(script'[s])
      OBVIOUS
  <2>1. /\ file' = request.to
        /\ ~doubt => previous' \in Before
        BY <1>2 DEF ConfigIInv, FileReturns, FileFollows, Answer, Placed, diskVars
  <2>2. \/ script'[s].at = "done" /\ script'[s].ok
        \/ script'[s].at = "restore"
        BY <1>3 DEF Leaves, Advances
  <2> QED BY <2>1, <2>2 DEF FilesOf
<1>6. FileFollows' /\ FileReturns'
      BY <1>2, <1>3, <1>5, ScriptFiles DEF Steps
<1>7. LoadedOrTold'
  <2>1. CASE missed' = (live' # file)
        BY <1>2, <2>1 DEF LoadedOrTold, diskVars
  <2>2. CASE Advances(s, "restore") /\ UNCHANGED liveVars
    <3>1. Tells(s)' BY <2>2 DEF Tells, Advances
    <3> QED BY <3>1 DEF LoadedOrTold
  <2> QED BY <1>3, <2>1, <2>2
<1> QED BY <1>4, <1>6, <1>7 DEF ConfigIInv

LEMMA RestartEngineStep ==
    ASSUME ConfigIInv, NEW s \in Slot, RestartEngine(s)
    PROVE  ConfigIInv'
<1>1. ConfigTyped BY DEF ConfigIInv
<1>2. /\ script[s].at = "restart" /\ missed' = FALSE
      /\ UNCHANGED <<storeVars, rendered, diskVars, syncs, request, doubt>>
      BY DEF RestartEngine
<1>3. \/ Advances(s, "health") /\ live' = file
      \/ Advances(s, "restore") /\ live' = None
      BY <1>1, GoesAdvances DEF RestartEngine, Steps
<1>4. ConfigTyped' /\ RequestShape' /\ OneScript'
  <2>1. live' \in Content \cup {None} BY <1>1, <1>3 DEF ConfigTyped
  <2>2. missed' \in BOOLEAN BY <1>2
  <2> QED BY <1>1, <1>2, <1>3, <2>1, <2>2, ScriptFrame DEF Steps, ConfigTyped, diskVars
<1>5. Holding /\ s = request.slot /\ script[s].alone /\ script[s].awaited
        => FilesOf(script'[s])
  <2> SUFFICES ASSUME Holding, s = request.slot, script[s].alone
               PROVE  FilesOf(script'[s])
      OBVIOUS
  <2>1. /\ file' = request.to
        /\ ~doubt => previous' \in Before
        BY <1>2 DEF ConfigIInv, FileReturns, FileFollows, Answer, Placed, diskVars
  <2>2. script'[s].at \in {"health", "restore"} BY <1>3 DEF Advances
  <2> QED BY <2>1, <2>2 DEF FilesOf
<1>6. FileFollows' /\ FileReturns'
      BY <1>2, <1>3, <1>5, ScriptFiles DEF Steps
<1>7. LoadedOrTold'
      BY <1>2, <1>3 DEF LoadedOrTold, Up, diskVars, None
<1> QED BY <1>4, <1>6, <1>7 DEF ConfigIInv

LEMMA HealthStep == ASSUME ConfigIInv, NEW s \in Slot, Health(s) PROVE ConfigIInv'
<1>1. ConfigTyped BY DEF ConfigIInv
<1>2. /\ script[s].at = "health"
      /\ UNCHANGED <<storeVars, rendered, diskVars, liveVars, syncs, request, doubt>>
      BY DEF Health
<1>3. Leaves(s, TRUE) \/ Advances(s, "restore")
  <2>1. Exits(s, TRUE) \/ ScriptGoes(s, "restore") BY DEF Health
  <2> QED BY <1>1, <2>1, ExitsLeaves, GoesAdvances DEF Steps
<1>4. ConfigTyped' /\ RequestShape' /\ OneScript'
      BY <1>1, <1>2, <1>3, ScriptFrame DEF Steps, ConfigTyped, diskVars, liveVars
<1>5. Holding /\ s = request.slot /\ script[s].alone /\ script[s].awaited
        => FilesOf(script'[s])
  <2> SUFFICES ASSUME Holding, s = request.slot, script[s].alone, script[s].awaited
               PROVE  FilesOf(script'[s])
      OBVIOUS
  <2>1. /\ file' = request.to
        /\ ~doubt => previous' \in Before
        BY <1>2 DEF ConfigIInv, FileReturns, FileFollows, Answer, Placed, diskVars
  <2>2. \/ script'[s].at = "done" /\ script'[s].ok
        \/ script'[s].at = "restore"
        BY <1>3 DEF Leaves, Advances
  <2> QED BY <2>1, <2>2 DEF FilesOf
<1>6. FileFollows' /\ FileReturns'
      BY <1>2, <1>3, <1>5, ScriptFiles DEF Steps
<1>7. LoadedOrTold'
      BY <1>2, <1>3, ToldStill DEF Tells, Steps, diskVars, liveVars
<1> QED BY <1>4, <1>6, <1>7 DEF ConfigIInv

LEMMA RestoreStep == ASSUME ConfigIInv, NEW s \in Slot, Restore(s) PROVE ConfigIInv'
<1>1. ConfigTyped BY DEF ConfigIInv
<1>2. /\ script[s].at = "restore" /\ file' = previous
      /\ missed' = (missed \/ (Up /\ ~script[s].up))
      /\ UNCHANGED <<storeVars, rendered, previous, temporary, live, syncs, request, doubt>>
      BY DEF Restore
<1>3. \/ Advances(s, "revive") /\ script[s].up
      \/ Leaves(s, FALSE) /\ ~script[s].up
      BY <1>1, GoesAdvances, ExitsLeaves DEF Restore, Steps
<1>4. ConfigTyped' /\ RequestShape' /\ OneScript'
  <2>1. missed' \in BOOLEAN BY <1>1, <1>2 DEF ConfigTyped
  <2> QED BY <1>1, <1>2, <1>3, <2>1, ScriptFrame DEF Steps, ConfigTyped
<1>5. Holding /\ s = request.slot /\ script[s].alone /\ script[s].awaited
        => FilesOf(script'[s])
  <2> SUFFICES ASSUME Holding, s = request.slot, script[s].alone, script[s].awaited
               PROVE  FilesOf(script'[s])
      OBVIOUS
  <2>1. ~doubt => file' \in Before
        BY <1>2 DEF ConfigIInv, FileReturns, Answer, Placed
  <2>2. \/ script'[s].at = "done" /\ ~script'[s].ok
        \/ script'[s].at = "revive"
        BY <1>3 DEF Leaves, Advances
  <2> QED BY <2>1, <2>2 DEF FilesOf, Placed
<1>6. FileFollows' /\ FileReturns'
      BY <1>2, <1>3, <1>5, ScriptFiles DEF Steps
<1>7. LoadedOrTold'
  <2>1. CASE Advances(s, "revive")
    <3>1. Tells(s)' BY <2>1 DEF Tells, Advances
    <3> QED BY <3>1 DEF LoadedOrTold
  <2>2. CASE ~script[s].up BY <1>2, <2>2 DEF LoadedOrTold, Up, None
  <2> QED BY <1>3, <2>1, <2>2
<1> QED BY <1>4, <1>6, <1>7 DEF ConfigIInv

LEMMA ReviveStep == ASSUME ConfigIInv, NEW s \in Slot, Revive(s) PROVE ConfigIInv'
<1>1. ConfigTyped BY DEF ConfigIInv
<1>2. /\ script[s].at = "revive" /\ missed' = FALSE
      /\ live' = file \/ live' = None
      /\ UNCHANGED <<storeVars, rendered, diskVars, syncs, request, doubt>>
      BY DEF Revive
<1>3. Leaves(s, FALSE) BY <1>1, ExitsLeaves DEF Revive
<1>4. ConfigTyped' /\ RequestShape' /\ OneScript'
  <2>1. live' \in Content \cup {None} BY <1>1, <1>2 DEF ConfigTyped
  <2>2. missed' \in BOOLEAN BY <1>2
  <2> QED BY <1>1, <1>2, <1>3, <2>1, <2>2, ScriptFrame DEF Steps, ConfigTyped, diskVars
<1>5. Holding /\ s = request.slot /\ script[s].alone /\ script[s].awaited
        => FilesOf(script'[s])
  <2> SUFFICES ASSUME Holding, s = request.slot, script[s].alone, script[s].awaited
               PROVE  FilesOf(script'[s])
      OBVIOUS
  <2>1. ~doubt => file' \in Before
        BY <1>2 DEF ConfigIInv, FileReturns, Answer, Placed, diskVars
  <2>2. script'[s].at = "done" /\ ~script'[s].ok BY <1>3 DEF Leaves, Advances
  <2> QED BY <2>1, <2>2 DEF FilesOf, Placed
<1>6. FileFollows' /\ FileReturns'
      BY <1>2, <1>3, <1>5, ScriptFiles DEF Steps
<1>7. LoadedOrTold' BY <1>2 DEF LoadedOrTold, Up, diskVars, None
<1> QED BY <1>4, <1>6, <1>7 DEF ConfigIInv

-----------------------------------------------------------------------------
(* The steps of the requests.                                              *)

(* A request has begun or has been put on another track: its script is     *)
(* about to test.                                                          *)
LEMMA BegunStep ==
    ASSUME ConfigIInv, NEW s \in Slot,
           script' = [script EXCEPT ![s] = script'[s]], script'[s] \in ScriptRow,
           script'[s].at = "test", script'[s].awaited,
           script[s].at \in {"none", "done"},
           request' \in [kind : Kinds, to : Content, asked : Content, slot : Slot],
           request'.slot = s, request'.kind # "none",
           IF script'[s].shared THEN rendered' = request'.to
                                ELSE script'[s].from = request'.to,
           rendered' \in Content \cup {None},
           request'.kind = "methods" =>
              request'.to = Rendered(ActiveTemplate, request'.to.methods),
           request'.kind = "template" => request'.to = Rendered(request'.to.template, methods),
           request'.kind \in {"refresh", "undo"} => request'.to = Stored,
           request'.kind # "undo" => request'.asked = request'.to,
           script'[s].alone => \A t \in Slot \ {s} : script[t].at = "none",
           ~doubt => /\ script'[s].alone
                     /\ IF request'.kind = "undo" THEN file \in {Stored, request'.asked}
                                                  ELSE file = Stored,
           UNCHANGED <<storeVars, diskVars, liveVars, syncs, doubt>>
    PROVE  ConfigIInv'
<1>1. ConfigTyped BY DEF ConfigIInv
<1>2. /\ script' \in [Slot -> ScriptRow]
      /\ \A t \in Slot \ {s} : script'[t] = script[t]
      BY <1>1 DEF ConfigTyped
<1>3. ConfigTyped'
      BY <1>1, <1>2 DEF ConfigTyped, storeVars, diskVars, liveVars
<1>4. Holding' /\ Answer' = script'[s] BY DEF Holding, NoRequest, Answer
<1>5. Stored' = Stored /\ ActiveTemplate' = ActiveTemplate
      BY DEF Stored, ActiveTemplate, storeVars
<1>6. RequestShape'
      BY <1>4, <1>5 DEF RequestShape, Rendered, storeVars
<1>7. OneScript'
      BY <1>2, <1>4 DEF OneScript
<1>8. FileFollows' BY <1>4 DEF FileFollows, Placed
<1>9. FileReturns'
      BY <1>4, <1>5 DEF FileReturns, Placed, Before, diskVars
<1>10. LoadedOrTold'
  <2>1. \A t \in Slot : Tells(t) => Tells(t)'
        BY <1>2 DEF Tells
  <2> QED BY <2>1 DEF ConfigIInv, LoadedOrTold, Up, liveVars, diskVars
<1> QED BY <1>3, <1>6, <1>7, <1>8, <1>9, <1>10 DEF ConfigIInv

LEMMA StoredTyped ==
    ASSUME ConfigTyped PROVE ActiveTemplate \in Template /\ Stored \in Content
<1>1. ActiveTemplate \in Template
      BY EngineConfigAssumption DEF ConfigTyped, ActiveTemplate
<1> QED BY <1>1 DEF ConfigTyped, Stored, Rendered, Content

LEMMA StartsStep ==
    ASSUME ConfigIInv, ~Holding, NEW to \in Content, NEW own \in BOOLEAN,
           NEW kind \in {"methods", "template", "refresh"},
           NEW restart \in {"0", "1", "sync"}, Starts(kind, to, own, restart),
           ~own => rendered' = to, rendered' \in Content \cup {None},
           kind = "methods" => to = Rendered(ActiveTemplate, to.methods),
           kind = "template" => to = Rendered(to.template, methods),
           kind = "refresh" => to = Stored,
           UNCHANGED <<storeVars, diskVars, liveVars, syncs, doubt>>
    PROVE  ConfigIInv'
<1>1. ConfigTyped BY DEF ConfigIInv
<1>2. PICK s \in Slot :
        /\ script[s].at = "none"
        /\ script' = [script EXCEPT ![s] =
               [Idle EXCEPT !.at = "test", !.shared = ~own, !.restart = restart,
                            !.from = IF own THEN to ELSE None, !.awaited = TRUE,
                            !.alone = \A r \in Slot : script[r].at = "none"]]
        /\ request' = [kind |-> kind, to |-> to, asked |-> to, slot |-> s]
      BY DEF Starts
<1> DEFINE row == [Idle EXCEPT !.at = "test", !.shared = ~own, !.restart = restart,
                            !.from = IF own THEN to ELSE None, !.awaited = TRUE,
                            !.alone = \A r \in Slot : script[r].at = "none"]
<1>3. script' = [script EXCEPT ![s] = row] /\ script'[s] = row
      BY <1>1, <1>2 DEF ConfigTyped
<1>4. /\ row.at = "test" /\ row.shared = ~own /\ row.awaited
      /\ row.from = IF own THEN to ELSE None
      /\ row.alone <=> \A r \in Slot : script[r].at = "none"
      /\ row \in ScriptRow
      BY DEF Idle, ScriptRow, Steps, None
<1> HIDE DEF row
<1>5. request' \in [kind : Kinds, to : Content, asked : Content, slot : Slot]
      BY <1>2 DEF Kinds
<1>6. ~doubt => row.alone /\ file = Stored
      BY <1>4 DEF ConfigIInv, OneScript, FileReturns
<1>7. /\ request'.slot = s /\ request'.kind = kind /\ request'.to = to
      /\ request'.asked = to
      BY <1>2
<1> QED BY <1>2, <1>3, <1>4, <1>5, <1>6, <1>7, BegunStep

LEMMA NoRequestTyped ==
    NoRequest \in [kind : Kinds, to : Content \cup {None},
                   asked : Content \cup {None}, slot : Slot]
BY DEF NoRequest, Kinds, Slot

(* A request has ended, whichever way.                                     *)
LEMMA EndedStep ==
    ASSUME ConfigIInv, request' = NoRequest, script' \in [Slot -> ScriptRow],
           methods' \in Methods, revision' \in Seq(Template), doubt' \in BOOLEAN,
           missed' \in BOOLEAN,
           ~doubt' => file = Stored' /\ \A t \in Slot : script'[t].at = "none",
           LoadedOrTold',
           UNCHANGED <<rendered, diskVars, live, syncs>>
    PROVE  ConfigIInv'
<1>1. ConfigTyped'
      BY NoRequestTyped DEF ConfigIInv, ConfigTyped, diskVars
<1>2. ~Holding' BY DEF Holding, NoRequest
<1> QED BY <1>1, <1>2 DEF ConfigIInv, RequestShape, OneScript, FileFollows, FileReturns,
                          diskVars

LEMMA ReleasedStep ==
    ASSUME ConfigIInv, RequestAnswered, Releases,
           methods' \in Methods, revision' \in Seq(Template), doubt' \in BOOLEAN,
           ~doubt' => Answer.alone /\ file = Stored',
           UNCHANGED <<rendered, diskVars, liveVars, syncs>>
    PROVE  ConfigIInv'
<1>1. ConfigTyped BY DEF ConfigIInv
<1>2. /\ request' = NoRequest /\ Holding /\ Answer.at = "done"
      /\ script' = [script EXCEPT ![request.slot] = Idle]
      BY DEF Releases, RequestAnswered
<1>3. /\ script' \in [Slot -> ScriptRow] /\ request.slot \in Slot
      /\ script'[request.slot] = Idle
      /\ \A t \in Slot \ {request.slot} : script'[t] = script[t]
      BY <1>1, <1>2, IdleTyped DEF ConfigTyped
<1>4. Answer.alone => \A t \in Slot : script'[t].at = "none"
      BY <1>2, <1>3, IdleTyped DEF ConfigIInv, OneScript
<1>5. LoadedOrTold'
  <2>1. \A t \in Slot : Tells(t) => Tells(t)'
        BY <1>2, <1>3 DEF Tells, Answer
  <2> QED BY <2>1 DEF ConfigIInv, LoadedOrTold, Up, liveVars, diskVars
<1> QED BY <1>1, <1>2, <1>3, <1>4, <1>5, EndedStep DEF liveVars, ConfigTyped

(* What a request's own script, done beside no other one, has left.        *)
LEMMA AnsweredFile ==
    ASSUME ConfigIInv, RequestAnswered
    PROVE  /\ Answer.ok /\ Answer.alone => file = request.to
           /\ ~doubt => Answer.alone
           /\ ~doubt /\ ~Answer.ok /\ request.kind # "undo" => file = Stored
BY DEF ConfigIInv, RequestAnswered, FileFollows, FileReturns, OneScript, Before

LEMMA StoresMethodsStep == ASSUME ConfigIInv, StoresMethods PROVE ConfigIInv'
<1>1. ConfigTyped /\ RequestShape BY DEF ConfigIInv
<1>2. /\ RequestAnswered /\ Answer.ok /\ request.kind = "methods" /\ Holding
      /\ methods' = request.to.methods /\ doubt' = (doubt /\ ~Answer.alone)
      /\ Releases /\ UNCHANGED <<revision, rendered, diskVars, liveVars, syncs>>
      BY DEF StoresMethods, Settles, RequestAnswered
<1>3. request.to \in Content /\ request.to = Rendered(ActiveTemplate, request.to.methods)
      BY <1>1, <1>2 DEF RequestShape
<1>4. methods' \in Methods /\ Stored' = request.to
      BY <1>2, <1>3 DEF Stored, ActiveTemplate, Rendered, Content
<1>5. doubt' \in BOOLEAN BY <1>2
<1>6. ~doubt' => Answer.alone /\ file = Stored' BY <1>2, <1>4, AnsweredFile
<1> QED BY <1>1, <1>2, <1>4, <1>5, <1>6, ReleasedStep DEF ConfigTyped

LEMMA StoresRevisionStep == ASSUME ConfigIInv, StoresRevision PROVE ConfigIInv'
<1>1. ConfigTyped /\ RequestShape BY DEF ConfigIInv
<1>2. /\ RequestAnswered /\ Answer.ok /\ request.kind = "template" /\ Holding
      /\ revision' = Append(revision, request.to.template)
      /\ doubt' = (doubt /\ ~Answer.alone)
      /\ Releases /\ UNCHANGED <<methods, rendered, diskVars, liveVars, syncs>>
      BY DEF StoresRevision, Settles, RequestAnswered
<1>3. request.to \in Content /\ request.to = Rendered(request.to.template, methods)
      BY <1>1, <1>2 DEF RequestShape
<1>4. request.to.template \in Template BY <1>3 DEF Content
<1>5. revision' \in Seq(Template) /\ ActiveTemplate' = request.to.template
      BY <1>1, <1>2, <1>4 DEF ConfigTyped, ActiveTemplate
<1>6. Stored' = request.to BY <1>2, <1>3, <1>5 DEF Stored, Rendered
<1>7. doubt' \in BOOLEAN BY <1>2
<1>8. ~doubt' => Answer.alone /\ file = Stored' BY <1>2, <1>6, AnsweredFile
<1> QED BY <1>1, <1>2, <1>5, <1>7, <1>8, ReleasedStep DEF ConfigTyped

(* A request that stores nothing.                                          *)
LEMMA StoresNothingStep ==
    ASSUME ConfigIInv, RevisionLost \/ Refreshed \/ Rejected PROVE ConfigIInv'
<1>1. ConfigTyped /\ RequestShape BY DEF ConfigIInv
<1>2. /\ RequestAnswered /\ Releases /\ Holding
      /\ UNCHANGED <<storeVars, rendered, diskVars, liveVars, syncs>>
      BY DEF RevisionLost, Refreshed, Rejected, RequestAnswered
<1>3. \/ doubt' = TRUE
      \/ /\ doubt' = (doubt /\ ~Answer.alone) /\ Answer.ok
         /\ request.kind \in {"refresh", "undo"}
      \/ doubt' = (doubt \/ request.kind = "undo") /\ ~Answer.ok
      BY DEF RevisionLost, Refreshed, Rejected, Settles
<1>4. Stored' = Stored BY <1>2 DEF Stored, ActiveTemplate, storeVars
<1>5. doubt' \in BOOLEAN BY <1>1, <1>3 DEF ConfigTyped
<1>6. ~doubt' => Answer.alone /\ file = Stored'
      BY <1>1, <1>2, <1>3, <1>4, AnsweredFile DEF RequestShape, ConfigTyped
<1> QED BY <1>1, <1>2, <1>5, <1>6, ReleasedStep DEF ConfigTyped, storeVars

LEMMA CompensatesStep == ASSUME ConfigIInv, Compensates PROVE ConfigIInv'
<1>1. ConfigTyped /\ RequestShape /\ OneScript BY DEF ConfigIInv
<1> DEFINE s == request.slot
           row == [Idle EXCEPT !.at = "test", !.shared = TRUE, !.awaited = TRUE,
                               !.alone = Answer.alone,
                               !.restart = IF ~Up THEN "0"
                                           ELSE IF syncs THEN "sync" ELSE "1"]
<1>2. /\ RequestAnswered /\ Answer.ok /\ request.kind = "methods"
      /\ Holding /\ Answer.at = "done"
      /\ rendered' = Stored /\ script' = [script EXCEPT ![s] = row]
      /\ request' = [request EXCEPT !.kind = "undo", !.to = Stored]
      /\ UNCHANGED <<storeVars, diskVars, liveVars, syncs, doubt>>
      BY DEF Compensates, RequestAnswered, Stored
<1>3. s \in Slot /\ script' = [script EXCEPT ![s] = row] /\ script'[s] = row
      /\ script[s] \in ScriptRow
      BY <1>1, <1>2 DEF ConfigTyped
<1>4. Answer.alone \in BOOLEAN BY <1>3 DEF Answer, ScriptRow
<1>5. /\ row.at = "test" /\ row.shared /\ row.awaited /\ row.alone = Answer.alone
      /\ row \in ScriptRow
      BY <1>4 DEF Idle, ScriptRow, Steps, None
<1> HIDE DEF row
<1>6. Stored \in Content BY <1>1, StoredTyped
<1>7. /\ request' \in [kind : Kinds, to : Content, asked : Content, slot : Slot]
      /\ request'.slot = s /\ request'.kind = "undo" /\ request'.to = Stored
      /\ request'.asked = request.to
  <2>1. request.asked = request.to /\ request.to \in Content
        BY <1>1, <1>2 DEF RequestShape
  <2> QED BY <1>1, <1>2, <1>6, <2>1 DEF ConfigTyped, Kinds
<1>8. ~doubt => Answer.alone /\ file = request.to BY <1>2, AnsweredFile
<1>9. script[s].at = "done" BY <1>2 DEF Answer
<1>10. row.alone => \A t \in Slot \ {s} : script[t].at = "none"
       BY <1>1, <1>2, <1>5 DEF OneScript
<1> QED BY <1>2, <1>3, <1>5, <1>6, <1>7, <1>8, <1>9, <1>10, BegunStep

LEMMA SynchronisesStep ==
    ASSUME ConfigIInv, ~Holding, NEW to \in Content,
           NEW kind \in {"methods", "refresh"}, Synchronises(kind, to),
           kind = "methods" => to = Rendered(ActiveTemplate, to.methods),
           kind = "refresh" => to = Stored,
           UNCHANGED <<storeVars, diskVars, liveVars, syncs, doubt>>
    PROVE  ConfigIInv'
<1> DEFINE restart == IF ~Up THEN "0" ELSE IF syncs THEN "sync" ELSE "1"
<1>1. /\ restart \in {"0", "1", "sync"}
      /\ rendered' = to /\ Starts(kind, to, FALSE, restart)
      BY DEF Synchronises
<1> HIDE DEF restart
<1> QED BY <1>1, StartsStep

LEMMA PublishStep == ASSUME ConfigIInv, Publish PROVE ConfigIInv'
<1>1. PICK m \in Methods : Synchronises("methods", Rendered(ActiveTemplate, m))
      BY DEF Publish
<1>2. ~Holding /\ UNCHANGED <<storeVars, diskVars, liveVars, syncs, doubt>>
      BY DEF Publish
<1>3. /\ Rendered(ActiveTemplate, m) \in Content
      /\ Rendered(ActiveTemplate, m).methods = m
      BY StoredTyped DEF ConfigIInv, Rendered, Content
<1> QED BY <1>1, <1>2, <1>3, SynchronisesStep

LEMMA ApplyTemplateStep == ASSUME ConfigIInv, ApplyTemplate PROVE ConfigIInv'
<1>1. PICK t \in Template : Starts("template", Rendered(t, methods), TRUE, "1")
      BY DEF ApplyTemplate
<1>2. /\ ~Holding
      /\ UNCHANGED <<storeVars, rendered, diskVars, liveVars, syncs, doubt>>
      BY DEF ApplyTemplate
<1>3. /\ Rendered(t, methods) \in Content /\ Rendered(t, methods).template = t
      BY DEF ConfigIInv, ConfigTyped, Rendered, Content
<1>4. rendered' \in Content \cup {None} BY <1>2 DEF ConfigIInv, ConfigTyped
<1> QED BY <1>1, <1>2, <1>3, <1>4, StartsStep

LEMMA RefreshStep == ASSUME ConfigIInv, Refresh PROVE ConfigIInv'
<1>1. Stored \in Content BY StoredTyped DEF ConfigIInv
<1> QED BY <1>1, SynchronisesStep DEF Refresh

(* Nobody reads the answer any more: the script goes on unawaited, or its  *)
(* end is forgotten.                                                       *)
LEMMA AbandonedStep ==
    ASSUME ConfigIInv, TimesOut \/ PlaneDies PROVE ConfigIInv'
<1>1. ConfigTyped BY DEF ConfigIInv
<1>2. /\ Holding /\ doubt' = TRUE /\ request' = NoRequest
      /\ UNCHANGED <<storeVars, rendered, diskVars, liveVars, syncs>>
      BY DEF TimesOut, PlaneDies
<1> DEFINE s == request.slot
           row == [script[s] EXCEPT !.awaited = FALSE]
<1>3. \/ Answer.at = "done" /\ script' = [script EXCEPT ![s] = Idle]
      \/ script' = [script EXCEPT ![s].awaited = FALSE]
      BY DEF TimesOut, PlaneDies
<1>4. s \in Slot /\ script[s] \in ScriptRow BY <1>1 DEF ConfigTyped
<1>5. /\ row \in ScriptRow
      /\ row.at = script[s].at /\ row.restart = script[s].restart
      BY <1>4 DEF ScriptRow
<1>6. \/ Answer.at = "done" /\ script' = [script EXCEPT ![s] = Idle]
      \/ script' = [script EXCEPT ![s] = row]
      BY <1>3
<1> HIDE DEF row
<1>7. script' \in [Slot -> ScriptRow]
      BY <1>1, <1>5, <1>6, IdleTyped DEF ConfigTyped
<1>8. \A t \in Slot : Tells(t) => Tells(t)'
      BY <1>1, <1>4, <1>5, <1>6 DEF Tells, Answer, ConfigTyped
<1>9. LoadedOrTold'
      BY <1>2, <1>8 DEF ConfigIInv, LoadedOrTold, Up, liveVars, diskVars
<1>10. /\ methods' \in Methods /\ revision' \in Seq(Template) /\ missed' \in BOOLEAN
       BY <1>1, <1>2 DEF ConfigTyped, storeVars, liveVars
<1>11. doubt' \in BOOLEAN /\ doubt' BY <1>2
<1> QED BY <1>2, <1>7, <1>9, <1>10, <1>11, EndedStep DEF liveVars

LEMMA AgentDiesStep == ASSUME ConfigIInv, AgentDies PROVE ConfigIInv'
<1>1. ConfigTyped BY DEF ConfigIInv
<1>2. /\ doubt' = TRUE /\ request' = NoRequest /\ script' = [s \in Slot |-> Idle]
      /\ missed' = (missed \/ (Up /\ live # file))
      /\ UNCHANGED <<storeVars, rendered, diskVars, live, syncs>>
      BY DEF AgentDies
<1>3. script' \in [Slot -> ScriptRow] BY <1>2, IdleTyped
<1>4. LoadedOrTold' BY <1>2 DEF LoadedOrTold, Up, diskVars, None
<1>5. methods' \in Methods /\ revision' \in Seq(Template)
      BY <1>1, <1>2 DEF ConfigTyped, storeVars
<1>6. missed' \in BOOLEAN BY <1>1, <1>2 DEF ConfigTyped
<1>7. doubt' \in BOOLEAN /\ doubt' BY <1>2
<1> QED BY <1>2, <1>3, <1>4, <1>5, <1>6, <1>7, EndedStep

(* The engine is stopped, or started with the file as it is.               *)
LEMMA EngineStep ==
    ASSUME ConfigIInv, EngineStops \/ EngineStarts PROVE ConfigIInv'
<1>1. /\ live' \in {file, None} /\ missed' = FALSE
      /\ UNCHANGED <<storeVars, rendered, diskVars, syncs, script, request, doubt>>
      BY DEF EngineStops, EngineStarts
<1>2. live' \in Content \cup {None} BY <1>1 DEF ConfigIInv, ConfigTyped
<1>3. missed' \in BOOLEAN BY <1>1
<1>4. ConfigTyped'
      BY <1>1, <1>2, <1>3 DEF ConfigIInv, ConfigTyped, storeVars, diskVars
<1>5. /\ Stored' = Stored /\ ActiveTemplate' = ActiveTemplate
      /\ (Holding' <=> Holding) /\ Answer' = Answer /\ Before' = Before
      BY <1>1 DEF Stored, ActiveTemplate, Holding, Answer, Before, storeVars
<1>6. RequestShape' /\ OneScript' /\ FileFollows' /\ FileReturns'
      BY <1>1, <1>5 DEF ConfigIInv, RequestShape, OneScript, FileFollows, FileReturns,
                        storeVars, diskVars
<1>7. LoadedOrTold' BY <1>1 DEF LoadedOrTold, Up, diskVars, None
<1> QED BY <1>4, <1>6, <1>7 DEF ConfigIInv

LEMMA ConfigStutters == ASSUME ConfigIInv, UNCHANGED configVars PROVE ConfigIInv'
BY DEF ConfigIInv, configVars, storeVars, diskVars, liveVars, ConfigTyped, RequestShape,
       OneScript, FileFollows, FileReturns, LoadedOrTold, Stored, ActiveTemplate,
       Holding, Answer, Before, Up, Tells

LEMMA ConfigNextStep == ConfigIInv /\ [EngineConfigNext]_configVars => ConfigIInv'
<1> SUFFICES ASSUME ConfigIInv, [EngineConfigNext]_configVars PROVE ConfigIInv'
    OBVIOUS
<1>1. CASE Publish BY <1>1, PublishStep
<1>2. CASE ApplyTemplate BY <1>2, ApplyTemplateStep
<1>3. CASE Refresh BY <1>3, RefreshStep
<1>4. CASE StoresMethods BY <1>4, StoresMethodsStep
<1>5. CASE Compensates BY <1>5, CompensatesStep
<1>6. CASE StoresRevision BY <1>6, StoresRevisionStep
<1>7. CASE RevisionLost \/ Refreshed \/ Rejected BY <1>7, StoresNothingStep
<1>8. CASE TimesOut \/ PlaneDies BY <1>8, AbandonedStep
<1>9. CASE AgentDies BY <1>9, AgentDiesStep
<1>10. CASE \E s \in Slot : Script(s)
  <2>1. PICK s \in Slot : Script(s) BY <1>10
  <2> QED BY <2>1, TestStep, KeepStep, InstallFileStep, MoveStep, FirewallStep,
             SyncPeersStep, RestartEngineStep, HealthStep, RestoreStep, ReviveStep
          DEF Script
<1>11. CASE EngineStops \/ EngineStarts BY <1>11, EngineStep
<1>12. CASE UNCHANGED configVars BY <1>12, ConfigStutters
<1> QED BY <1>1, <1>2, <1>3, <1>4, <1>5, <1>6, <1>7, <1>8, <1>9, <1>10, <1>11, <1>12
        DEF EngineConfigNext

LEMMA ConfigInitStep == EngineConfigInit => ConfigIInv
<1> SUFFICES ASSUME EngineConfigInit PROVE ConfigIInv
    OBVIOUS
<1>1. methods \in Methods /\ revision \in Seq(Template)
      BY EngineConfigAssumption DEF EngineConfigInit
<1>2. Stored \in Content
      BY <1>1, EngineConfigAssumption
      DEF EngineConfigInit, Stored, ActiveTemplate, Rendered, Content
<1>3. doubt \in BOOLEAN /\ missed \in BOOLEAN BY DEF EngineConfigInit
<1>4. ConfigTyped
      BY <1>1, <1>2, <1>3, IdleTyped, NoRequestTyped DEF EngineConfigInit, ConfigTyped
<1>5. ~Holding /\ \A s \in Slot : script[s].at = "none"
      BY IdleTyped DEF EngineConfigInit, Holding
<1> QED BY <1>4, <1>5 DEF EngineConfigInit, ConfigIInv, RequestShape, OneScript,
                         FileFollows, FileReturns, LoadedOrTold

(* Whatever is rejected, compensated, lost or left running, without doubt  *)
(* the installed file is what the database renders to, and a running       *)
(* engine has loaded it; for any templates and methods, any number of      *)
(* revisions, faults and lost answers.                                     *)
THEOREM EngineRunsStored == EngineConfigSpec => []RunsWhatIsStored
<1> QED BY ConfigInitStep, ConfigNextStep, ConfigIInvSuffices, PTL DEF EngineConfigSpec

-----------------------------------------------------------------------------
(* Setup: the server is configured for one domain or for none.             *)

(* The commands between the first and the last change of a script.         *)
Going     == SetupFile \cup {"reload", "enable", "schedule"}
Returning == {"disable", "back", "reloadBack"}

FinalizerSteps ==
    Going \cup Returning \cup {"none", "check", "certbot", "certifying", "keep", "done", "failed"}

AnyDomain == Domain \cup {NoDomain}
FinalizerRow ==
    [at : FinalizerSteps, domain : AnyDomain, kept : [SetupFile -> AnyDomain]]
WaitRow == [at : {"none", "resolving", "waiting"}, domain : AnyDomain, for : 0..MaxScripts]

SetupTyped ==
    /\ files \in [SetupFile -> AnyDomain] /\ serving \in AnyDomain
    /\ engines \in BOOLEAN /\ restartDue \in BOOLEAN /\ blurred \in BOOLEAN
    /\ plane \in [env : AnyDomain, wait : WaitRow]
    /\ plane.wait.at = "resolving" => plane.wait.domain \in Domain
    /\ finalizer \in [Finalizer -> FinalizerRow]
    /\ \A s \in Finalizer : finalizer[s].at # "none" => finalizer[s].domain \in Domain

(* The files a script has installed when it comes to a command.            *)
InstalledBy(at) ==
    CASE at = "nginx"    -> {}
      [] at = "env"      -> {"nginx"}
      [] at = "hysteria" -> {"nginx", "env"}
      [] at = "xray"     -> {"nginx", "env", "hysteria"}
      [] OTHER           -> SetupFile

(* What the one script between its first and its last change has done: it  *)
(* kept the files of the installer, and the control plane knows no domain. *)
InProgress(s) ==
    /\ finalizer[s].kept = Untouched /\ plane.env = NoDomain /\ ~restartDue
    /\ finalizer[s].at \in Going =>
         files = [f \in SetupFile |-> IF f \in InstalledBy(finalizer[s].at)
                                      THEN finalizer[s].domain ELSE NoDomain]
    /\ finalizer[s].at \in {"enable", "schedule"} => serving = finalizer[s].domain
    /\ finalizer[s].at = "schedule" => engines
    /\ finalizer[s].at \in {"back", "reloadBack"} => ~engines
    /\ finalizer[s].at = "reloadBack" => files = Untouched

(* What is left once no script is at work.                                 *)
Settled(d) ==
    /\ files = [f \in SetupFile |-> d] /\ serving = d
    /\ engines <=> d # NoDomain
    /\ plane.env = d \/ restartDue
    /\ restartDue => d # NoDomain

SoleScript == \A r, s \in Finalizer : Armed(r) /\ Armed(s) => r = s
Orderly    == /\ SoleScript
              /\ \A s \in Finalizer : Armed(s) => InProgress(s)
              /\ (\A s \in Finalizer : ~Armed(s)) => Settled(files["env"])

SetupInv == SetupTyped /\ (~blurred => Orderly)

LEMMA ArmedSteps ==
    ASSUME NEW s \in Finalizer
    PROVE  Armed(s) <=> finalizer[s].at \in Going \cup Returning
BY DEF Armed, Going, Returning, SetupFile

LEMMA SetupStarts == SetupInit => SetupInv
<1> SUFFICES ASSUME SetupInit PROVE SetupInv
    OBVIOUS
<1>1. Untouched \in [SetupFile -> AnyDomain] BY DEF Untouched, AnyDomain
<1>2. NoScript \in FinalizerRow BY <1>1 DEF NoScript, FinalizerRow, FinalizerSteps, AnyDomain
<1>3. NoWait \in WaitRow
      BY SetupAssumption DEF NoWait, WaitRow, AnyDomain
<1>4. SetupTyped
      BY <1>1, <1>2, <1>3 DEF SetupInit, SetupTyped, AnyDomain, NoScript, NoWait
<1>5. \A s \in Finalizer : ~Armed(s) BY DEF SetupInit, Armed, NoScript
<1>6. Settled(files["env"]) BY DEF SetupInit, Settled, Untouched, SetupFile
<1> QED BY <1>4, <1>5, <1>6 DEF SetupInv, Orderly, SoleScript

(* A script that is not the one at work leaves what the one at work has    *)
(* done as it is, and so does the control plane's request.                 *)
LEMMA ElsewhereOrderly ==
    ASSUME Orderly, UNCHANGED <<files, serving, engines, restartDue>>, plane'.env = plane.env,
           \A s \in Finalizer : Armed(s)' <=> Armed(s),
           \A s \in Finalizer : Armed(s) => finalizer'[s] = finalizer[s]
    PROVE  Orderly'
<1>1. SoleScript' BY DEF Orderly, SoleScript
<1>2. ASSUME NEW s \in Finalizer, Armed(s)' PROVE InProgress(s)'
      BY <1>2 DEF Orderly, InProgress
<1>3. (\A s \in Finalizer : ~Armed(s)') => Settled(files["env"])'
      BY DEF Orderly, Settled
<1> QED BY <1>1, <1>2, <1>3 DEF Orderly

(* The script at work comes to its next command.                           *)
LEMMA AtWorkOrderly ==
    ASSUME NEW s \in Finalizer, Orderly, Armed(s), Armed(s)', InProgress(s)',
           \A r \in Finalizer : r # s => finalizer'[r] = finalizer[r]
    PROVE  Orderly'
<1>1. \A r \in Finalizer : r # s => ~Armed(r) BY DEF Orderly, SoleScript
<1>2. \A r \in Finalizer : r # s => ~Armed(r)' BY <1>1 DEF Armed
<1> QED BY <1>2 DEF Orderly, SoleScript

(* It has made its last change.                                            *)
LEMMA OverOrderly ==
    ASSUME NEW s \in Finalizer, Orderly, Armed(s), ~Armed(s)', Settled(files["env"])',
           \A r \in Finalizer : r # s => finalizer'[r] = finalizer[r]
    PROVE  Orderly'
<1>1. \A r \in Finalizer : r # s => ~Armed(r) BY DEF Orderly, SoleScript
<1>2. \A r \in Finalizer : ~Armed(r)' BY <1>1 DEF Armed
<1> QED BY <1>2 DEF Orderly, SoleScript

-----------------------------------------------------------------------------
(* Setup: the control plane.                                               *)

LEMMA WaitTyped ==
    ASSUME SetupTyped,
           NEW w, w \in WaitRow, w.at = "resolving" => w.domain \in Domain,
           plane' = [plane EXCEPT !.wait = w],
           UNCHANGED <<files, serving, engines, restartDue, finalizer, blurred>>
    PROVE  SetupTyped' /\ plane'.env = plane.env
<1>1. plane'.wait = w /\ plane'.env = plane.env /\ plane' \in [env : AnyDomain, wait : WaitRow]
      BY DEF SetupTyped
<1> QED BY <1>1 DEF SetupTyped, AnyDomain, FinalizerRow, WaitRow, Finalizer

(* The request changes and nothing else does.                              *)
LEMMA WaitKeepsSetup ==
    ASSUME SetupInv,
           NEW w, w \in WaitRow, w.at = "resolving" => w.domain \in Domain,
           plane' = [plane EXCEPT !.wait = w],
           UNCHANGED <<files, serving, engines, restartDue, finalizer, blurred>>
    PROVE  SetupInv'
<1>1. SetupTyped' /\ plane'.env = plane.env
      BY WaitTyped DEF SetupInv
<1>2. ~blurred' => Orderly'
      BY <1>1, ElsewhereOrderly DEF SetupInv, Armed
<1> QED BY <1>1, <1>2 DEF SetupInv

LEMMA NoWaitRow == NoWait \in WaitRow /\ NoWait.at # "resolving"
BY SetupAssumption DEF NoWait, WaitRow, AnyDomain

LEMMA FinalizeKeeps == SetupInv /\ Finalize => SetupInv'
<1> SUFFICES ASSUME SetupInv, Finalize PROVE SetupInv'
    OBVIOUS
<1>1. PICK d \in Domain :
         plane' = [plane EXCEPT !.wait = [at |-> "resolving", domain |-> d, for |-> 0]]
      BY DEF Finalize
<1>2. [at |-> "resolving", domain |-> d, for |-> 0] \in WaitRow
      BY SetupAssumption DEF WaitRow, AnyDomain
<1> QED BY <1>1, <1>2, WaitKeepsSetup DEF Finalize

LEMMA WaitEndsKeeps ==
    SetupInv /\ (NotResolved \/ Answered \/ SetupTimesOut) => SetupInv'
BY NoWaitRow, WaitKeepsSetup DEF NotResolved, Answered, SetupTimesOut

LEMMA ResolvedKeeps == SetupInv /\ Resolved => SetupInv'
<1> SUFFICES ASSUME SetupInv, Resolved PROVE SetupInv'
    OBVIOUS
<1>1. PICK s \in Finalizer :
         /\ finalizer[s].at = "none"
         /\ finalizer' = [finalizer EXCEPT ![s] =
                [NoScript EXCEPT !.at = "check", !.domain = plane.wait.domain]]
         /\ plane' = [plane EXCEPT !.wait.at = "waiting", !.wait.for = s]
      BY DEF Resolved
<1> DEFINE row == [NoScript EXCEPT !.at = "check", !.domain = plane.wait.domain]
<1>2. plane.wait.domain \in Domain BY DEF Resolved, SetupInv, SetupTyped
<1>3. NoScript \in FinalizerRow
      BY DEF NoScript, FinalizerRow, FinalizerSteps, AnyDomain, Untouched
<1>4. row \in FinalizerRow /\ row.at = "check" /\ row.domain \in Domain
      BY <1>2, <1>3 DEF FinalizerRow, FinalizerSteps, AnyDomain
<1> HIDE DEF row
<1>5. finalizer \in [Finalizer -> FinalizerRow] BY DEF SetupInv, SetupTyped
<1>6. finalizer' \in [Finalizer -> FinalizerRow] /\ finalizer'[s] = row
      /\ \A r \in Finalizer : r # s => finalizer'[r] = finalizer[r]
      BY <1>1, <1>4, <1>5 DEF row
<1>7. \A r \in Finalizer : finalizer'[r].at # "none" => finalizer'[r].domain \in Domain
      BY <1>4, <1>6 DEF SetupInv, SetupTyped
<1>8. plane.wait \in WaitRow /\ plane \in [env : AnyDomain, wait : WaitRow]
      BY DEF SetupInv, SetupTyped
<1>9. s \in 0..MaxScripts BY SetupAssumption DEF Finalizer
<1>10. [plane.wait EXCEPT !.at = "waiting", !.for = s] \in WaitRow
       BY <1>8, <1>9 DEF WaitRow
<1>11. plane' = [plane EXCEPT !.wait = [plane.wait EXCEPT !.at = "waiting", !.for = s]]
       BY <1>1, <1>8 DEF WaitRow
<1>12. plane'.env = plane.env /\ plane' \in [env : AnyDomain, wait : WaitRow]
       /\ plane'.wait.at = "waiting"
       BY <1>8, <1>10, <1>11 DEF WaitRow
<1>13. SetupTyped' BY <1>6, <1>7, <1>12 DEF SetupInv, SetupTyped, Resolved, AnyDomain,
                      FinalizerRow, WaitRow, Finalizer
<1>14. ~Armed(s) /\ ~Armed(s)'  BY <1>1, <1>4, <1>6 DEF Armed
<1>15. \A r \in Finalizer : Armed(r)' <=> Armed(r) BY <1>6, <1>14 DEF Armed
<1>16. ~blurred' => Orderly'
       BY <1>6, <1>12, <1>14, <1>15, ElsewhereOrderly DEF SetupInv, Resolved
<1> QED BY <1>13, <1>16 DEF SetupInv

(* The control plane starts and reads the environment.                     *)
LEMMA ReadTyped ==
    ASSUME SetupTyped, PlaneReads
    PROVE  /\ plane' \in [env : AnyDomain, wait : WaitRow]
           /\ plane'.env = files["env"] /\ plane'.wait.at # "resolving"
<1>1. files["env"] \in AnyDomain BY DEF SetupTyped, SetupFile
<1> QED BY <1>1, NoWaitRow DEF PlaneReads

LEMMA PlaneCrashesKeeps == SetupInv /\ PlaneCrashes => SetupInv'
<1> SUFFICES ASSUME SetupInv, PlaneCrashes PROVE SetupInv'
    OBVIOUS
<1>1. /\ plane' \in [env : AnyDomain, wait : WaitRow]
      /\ plane'.env = files["env"] /\ plane'.wait.at # "resolving"
      BY ReadTyped DEF SetupInv, PlaneCrashes
<1>2. blurred' \in BOOLEAN BY DEF SetupInv, SetupTyped, PlaneCrashes, Blurs
<1>3. SetupTyped' BY <1>1, <1>2 DEF SetupInv, SetupTyped, PlaneCrashes, AnyDomain, FinalizerRow,
                     WaitRow, Finalizer
<1>4. ASSUME ~blurred' PROVE Orderly'
  <2>1. Orderly /\ \A s \in Finalizer : Armed(s) => files["env"] = plane.env
        BY <1>4 DEF PlaneCrashes, Blurs, SetupInv
  <2>2. \A s \in Finalizer : Armed(s)' <=> Armed(s) BY DEF PlaneCrashes, Armed
  <2>3. ASSUME NEW s \in Finalizer, Armed(s)' PROVE InProgress(s)'
        BY <1>1, <2>1, <2>2, <2>3 DEF Orderly, InProgress, PlaneCrashes
  <2>4. (\A s \in Finalizer : ~Armed(s)') => Settled(files["env"])'
        BY <1>1, <2>1, <2>2 DEF Orderly, Settled, PlaneCrashes
  <2>5. SoleScript' BY <2>1, <2>2 DEF Orderly, SoleScript
  <2> QED BY <2>3, <2>4, <2>5 DEF Orderly
<1> QED BY <1>3, <1>4 DEF SetupInv

LEMMA ScheduledRestartKeeps == SetupInv /\ ScheduledRestart => SetupInv'
<1> SUFFICES ASSUME SetupInv, ScheduledRestart PROVE SetupInv'
    OBVIOUS
<1>1. /\ plane' \in [env : AnyDomain, wait : WaitRow]
      /\ plane'.env = files["env"] /\ plane'.wait.at # "resolving"
      BY ReadTyped DEF SetupInv, ScheduledRestart
<1>2. blurred' \in BOOLEAN BY DEF SetupInv, SetupTyped, ScheduledRestart, Blurs
<1>3. SetupTyped' BY <1>1, <1>2 DEF SetupInv, SetupTyped, ScheduledRestart, AnyDomain,
                     FinalizerRow, WaitRow, Finalizer
<1>4. ASSUME ~blurred' PROVE Orderly'
  <2>1. Orderly /\ \A s \in Finalizer : ~Armed(s)
        BY <1>4 DEF ScheduledRestart, Blurs, SetupInv
  <2>2. \A s \in Finalizer : ~Armed(s)' BY <2>1 DEF ScheduledRestart, Armed
  <2>3. Settled(files["env"])' BY <1>1, <2>1 DEF Orderly, Settled, ScheduledRestart
  <2> QED BY <2>2, <2>3 DEF Orderly, SoleScript
<1> QED BY <1>3, <1>4 DEF SetupInv

LEMMA MachineRebootsKeeps == SetupInv /\ MachineReboots => SetupInv'
<1> SUFFICES ASSUME SetupInv, MachineReboots PROVE SetupInv'
    OBVIOUS
<1>1. /\ plane' \in [env : AnyDomain, wait : WaitRow]
      /\ plane'.env = files["env"] /\ plane'.wait.at # "resolving"
      BY ReadTyped DEF SetupInv, MachineReboots
<1>2. blurred' \in BOOLEAN BY DEF SetupInv, SetupTyped, MachineReboots, Blurs
<1>3. ASSUME NEW s \in Finalizer
      PROVE  /\ finalizer'[s] \in FinalizerRow /\ finalizer'[s].at \in {"none", "failed"}
             /\ finalizer'[s].at # "none" => finalizer'[s].domain \in Domain
  <2>1. CASE finalizer[s].at = "none"
    <3>1. finalizer'[s] = NoScript BY <2>1 DEF MachineReboots
    <3> QED BY <3>1 DEF NoScript, FinalizerRow, FinalizerSteps, AnyDomain, Untouched
  <2>2. CASE finalizer[s].at # "none"
    <3>1. finalizer[s] \in FinalizerRow /\ finalizer[s].domain \in Domain
          BY <2>2 DEF SetupInv, SetupTyped
    <3>2. finalizer'[s] = [finalizer[s] EXCEPT !.at = "failed"] BY <2>2 DEF MachineReboots
    <3> QED BY <3>1, <3>2 DEF FinalizerRow, FinalizerSteps
  <2> QED BY <2>1, <2>2
<1>4. finalizer' \in [Finalizer -> FinalizerRow]
      BY <1>3 DEF MachineReboots
<1>5. serving' \in AnyDomain /\ serving' = files["nginx"]
      BY DEF SetupInv, SetupTyped, MachineReboots, SetupFile
<1>6. SetupTyped' BY <1>1, <1>2, <1>3, <1>4, <1>5 DEF SetupInv, SetupTyped, MachineReboots,
                     AnyDomain, FinalizerRow, WaitRow, Finalizer
<1>7. \A s \in Finalizer : ~Armed(s)' BY <1>3 DEF Armed
<1>8. ASSUME ~blurred' PROVE Settled(files["env"])'
  <2>1. Settled(files["env"])
        BY <1>8 DEF MachineReboots, Blurs, SetupInv, Orderly
  <2>2. files["nginx"] = files["env"] BY <2>1 DEF Settled, SetupFile
  <2> QED BY <1>1, <1>5, <2>1, <2>2 DEF Settled, MachineReboots
<1> QED BY <1>6, <1>7, <1>8 DEF SetupInv, Orderly, SoleScript

-----------------------------------------------------------------------------
(* Setup: the commands of finalize-domain.                                 *)

(* A script comes to another command, and what it touched keeps its type.  *)
LEMMA CommandGoes ==
    ASSUME SetupTyped, NEW s \in Finalizer, finalizer[s].at # "none",
           NEW step \in FinalizerSteps, Goes(s, step), UNCHANGED plane,
           files' \in [SetupFile -> AnyDomain], serving' \in AnyDomain,
           engines' \in BOOLEAN, restartDue' \in BOOLEAN, blurred' \in BOOLEAN
    PROVE  /\ SetupTyped'
           /\ finalizer'[s].at = step /\ finalizer'[s].domain = finalizer[s].domain
           /\ finalizer'[s].kept = finalizer[s].kept
           /\ \A r \in Finalizer : r # s => finalizer'[r] = finalizer[r]
<1> DEFINE row == [finalizer[s] EXCEPT !.at = step]
<1>1. finalizer \in [Finalizer -> FinalizerRow] /\ finalizer[s] \in FinalizerRow
      BY DEF SetupTyped
<1>2. /\ row \in FinalizerRow /\ row.at = step /\ row.domain = finalizer[s].domain
      /\ row.kept = finalizer[s].kept
      BY <1>1 DEF FinalizerRow
<1>3. finalizer' = [finalizer EXCEPT ![s] = row] BY <1>1 DEF Goes
<1> HIDE DEF row
<1>4. finalizer' \in [Finalizer -> FinalizerRow] /\ finalizer'[s] = row
      /\ \A r \in Finalizer : r # s => finalizer'[r] = finalizer[r]
      BY <1>1, <1>2, <1>3
<1>5. \A r \in Finalizer : finalizer'[r].at # "none" => finalizer'[r].domain \in Domain
      BY <1>2, <1>4 DEF SetupTyped
<1>6. SetupTyped' BY <1>4, <1>5 DEF SetupTyped, AnyDomain, FinalizerRow, WaitRow, Finalizer
<1> QED BY <1>2, <1>4, <1>6

LEMMA TypesOf ==
    ASSUME SetupInv
    PROVE  /\ SetupTyped /\ files \in [SetupFile -> AnyDomain] /\ serving \in AnyDomain
           /\ engines \in BOOLEAN /\ restartDue \in BOOLEAN /\ blurred \in BOOLEAN
BY DEF SetupInv, SetupTyped

(* Before its first change a script changes nothing but its own place.     *)
LEMMA BeforeFirstChange ==
    ASSUME SetupInv, NEW s \in Finalizer, NEW step \in FinalizerSteps, Goes(s, step),
           ~Armed(s), finalizer[s].at # "none", step \notin Going \cup Returning,
           UNCHANGED <<files, serving, engines, plane, restartDue, blurred>>
    PROVE  SetupInv'
<1>1. /\ SetupTyped' /\ finalizer'[s].at = step
      /\ \A r \in Finalizer : r # s => finalizer'[r] = finalizer[r]
      BY CommandGoes, TypesOf
<1>2. ~Armed(s)' BY <1>1 DEF Armed, Going, Returning, SetupFile
<1>3. \A r \in Finalizer : Armed(r)' <=> Armed(r) BY <1>1, <1>2 DEF Armed
<1>4. ~blurred' => Orderly'
      BY <1>1, <1>3, ElsewhereOrderly DEF SetupInv
<1> QED BY <1>1, <1>4 DEF SetupInv

LEMMA CheckKeeps ==
    ASSUME NEW s \in Finalizer, SetupInv, Check(s) \/ Certbot(s) \/ Certified(s)
    PROVE  SetupInv'
<1>1. ~Armed(s) /\ finalizer[s].at # "none"
      BY DEF Armed, Check, Certbot, Certified
<1>2. {"certbot", "certifying", "keep", "failed"} \subseteq FinalizerSteps
      /\ \A step \in {"certbot", "certifying", "keep", "failed"} : step \notin Going \cup Returning
      BY DEF FinalizerSteps, Going, Returning, SetupFile
<1>3. PICK step \in {"certbot", "certifying", "keep", "failed"} : Goes(s, step)
      BY DEF Check, Certbot, Certified
<1>4. UNCHANGED <<files, serving, engines, plane, restartDue, blurred>>
      BY DEF Check, Certbot, Certified
<1> QED BY <1>1, <1>2, <1>3, <1>4, BeforeFirstChange

(* An unblurred script finds the files of the installer.                   *)
LEMMA KeepFilesKeeps ==
    ASSUME NEW s \in Finalizer, SetupInv, KeepFiles(s)
    PROVE  SetupInv'
<1> DEFINE row == [finalizer[s] EXCEPT !.at = "nginx", !.kept = files]
<1>1. finalizer \in [Finalizer -> FinalizerRow] /\ finalizer[s] \in FinalizerRow
      /\ finalizer[s].at = "keep"
      BY DEF SetupInv, SetupTyped, KeepFiles
<1>2. /\ row \in FinalizerRow /\ row.at = "nginx" /\ row.domain = finalizer[s].domain
      /\ row.kept = files
      BY <1>1, TypesOf DEF FinalizerRow, FinalizerSteps, Going, SetupFile
<1>3. finalizer' = [finalizer EXCEPT ![s] = row]
      BY <1>1 DEF KeepFiles, FinalizerRow
<1> HIDE DEF row
<1>4. finalizer' \in [Finalizer -> FinalizerRow] /\ finalizer'[s] = row
      /\ \A r \in Finalizer : r # s => finalizer'[r] = finalizer[r]
      BY <1>1, <1>2, <1>3
<1>5. \A r \in Finalizer : finalizer'[r].at # "none" => finalizer'[r].domain \in Domain
      BY <1>1, <1>2, <1>4 DEF SetupInv, SetupTyped
<1>6. blurred' \in BOOLEAN BY TypesOf DEF KeepFiles, Blurs
<1>7. SetupTyped' BY <1>4, <1>5, <1>6 DEF SetupInv, SetupTyped, KeepFiles, AnyDomain,
                     FinalizerRow, WaitRow, Finalizer
<1>8. ASSUME ~blurred' PROVE Orderly'
  <2>1. /\ Orderly /\ files["env"] = NoDomain
        /\ \A r \in Finalizer : ~Armed(r)
        BY <1>8 DEF KeepFiles, Blurs, SetupInv
  <2>2. Settled(NoDomain) BY <2>1 DEF Orderly
  <2>3. \A r \in Finalizer : Armed(r)' <=> r = s
        BY <1>2, <1>4, <2>1 DEF Armed
  <2>4. files = Untouched BY <2>2 DEF Settled, Untouched
  <2>5. files = [f \in SetupFile |-> IF f \in InstalledBy("nginx") THEN row.domain
                                     ELSE NoDomain]
        BY <2>4 DEF Untouched, InstalledBy
  <2>6. InProgress(s)'
        BY <1>2, <1>4, <2>2, <2>4, <2>5 DEF InProgress, Settled, KeepFiles, Untouched
  <2> QED BY <2>3, <2>6 DEF Orderly, SoleScript
<1> QED BY <1>7, <1>8 DEF SetupInv

(* A command of the script at work: what it leaves is what the next        *)
(* command finds.                                                          *)
LEMMA CommandKeeps ==
    ASSUME SetupInv, NEW s \in Finalizer, Armed(s),
           NEW step \in Going \cup Returning, Goes(s, step), UNCHANGED plane,
           files' \in [SetupFile -> AnyDomain], serving' \in AnyDomain,
           engines' \in BOOLEAN, restartDue' \in BOOLEAN, blurred' \in BOOLEAN,
           ~blurred' => ~blurred,
           ~blurred' /\ InProgress(s) /\ finalizer'[s].at = step
             /\ finalizer'[s].domain = finalizer[s].domain
             /\ finalizer'[s].kept = finalizer[s].kept => InProgress(s)'
    PROVE  SetupInv'
<1>1. finalizer[s].at # "none" /\ step \in FinalizerSteps
      BY DEF Armed, FinalizerSteps
<1>2. /\ SetupTyped'
      /\ finalizer'[s].at = step /\ finalizer'[s].domain = finalizer[s].domain
      /\ finalizer'[s].kept = finalizer[s].kept
      /\ \A r \in Finalizer : r # s => finalizer'[r] = finalizer[r]
      BY <1>1, CommandGoes, TypesOf
<1>3. Armed(s)' BY <1>2 DEF Armed, Going, Returning, SetupFile
<1>4. ASSUME ~blurred' PROVE Orderly'
  <2>1. Orderly /\ InProgress(s) BY <1>4 DEF SetupInv, Orderly
  <2>2. InProgress(s)' BY <1>2, <1>4, <2>1
  <2> QED BY <1>2, <1>3, <2>1, <2>2, AtWorkOrderly
<1> QED BY <1>2, <1>4 DEF SetupInv

(* Whatever fails on the way, the script turns back.                       *)
LEMMA TurnsBack ==
    ASSUME SetupInv, NEW s \in Finalizer, Armed(s), Goes(s, "disable"),
           UNCHANGED <<files, serving, plane, restartDue, blurred>>, engines' \in BOOLEAN
    PROVE  SetupInv'
<1>1. "disable" \in Going \cup Returning /\ "disable" \notin Going
      BY DEF Going, Returning, SetupFile
<1>2. ASSUME InProgress(s), finalizer'[s].at = "disable", finalizer'[s].kept = finalizer[s].kept
      PROVE  InProgress(s)'
      BY <1>1, <1>2 DEF InProgress
<1> QED BY <1>1, <1>2, CommandKeeps, TypesOf

(* The next file is in place.                                              *)
LEMMA FileInstalledKeeps ==
    ASSUME SetupInv, NEW s \in Finalizer, NEW f \in SetupFile,
           NEW next \in Going, InstalledBy(next) = InstalledBy(f) \cup {f},
           next \notin {"enable", "schedule"}, FileInstalled(s, f, next)
    PROVE  SetupInv'
<1>1. Armed(s) /\ f \in Going /\ next \notin Returning /\ next # "schedule"
      BY DEF FileInstalled, Armed, SetupFile, Going, Returning
<1>2. CASE Goes(s, "disable") /\ UNCHANGED files
      BY <1>1, <1>2, TurnsBack, TypesOf DEF FileInstalled
<1>3. CASE /\ files' = [files EXCEPT ![f] = finalizer[s].domain]
           /\ Goes(s, next)
  <2>1. finalizer[s].domain \in AnyDomain
        BY DEF SetupInv, SetupTyped, FinalizerRow
  <2>2. files' \in [SetupFile -> AnyDomain] BY <1>3, <2>1, TypesOf
  <2>3. ASSUME InProgress(s), finalizer'[s].at = next,
               finalizer'[s].domain = finalizer[s].domain,
               finalizer'[s].kept = finalizer[s].kept
        PROVE  InProgress(s)'
    <3>1. finalizer[s].at = f BY DEF FileInstalled
    <3>2. files = [g \in SetupFile |-> IF g \in InstalledBy(f) THEN finalizer[s].domain
                                       ELSE NoDomain]
          BY <1>1, <2>3, <3>1 DEF InProgress
    <3>3. files' = [g \in SetupFile |-> IF g \in InstalledBy(next) THEN finalizer[s].domain
                                        ELSE NoDomain]
          BY <1>3, <3>2
    <3>4. next \notin {"back", "reloadBack"} BY <1>1 DEF Returning
    <3> QED BY <1>1, <2>3, <3>3, <3>4 DEF InProgress, FileInstalled
  <2>4. next \in Going \cup Returning OBVIOUS
  <2> QED BY <1>1, <1>3, <2>2, <2>3, <2>4, CommandKeeps, TypesOf DEF FileInstalled
<1> QED BY <1>2, <1>3 DEF FileInstalled

LEMMA InstallFilesKeeps ==
    ASSUME NEW s \in Finalizer, SetupInv, InstallFiles(s)
    PROVE  SetupInv'
<1>1. /\ InstalledBy("env") = InstalledBy("nginx") \cup {"nginx"}
      /\ InstalledBy("hysteria") = InstalledBy("env") \cup {"env"}
      /\ InstalledBy("xray") = InstalledBy("hysteria") \cup {"hysteria"}
      /\ InstalledBy("reload") = InstalledBy("xray") \cup {"xray"}
      BY DEF InstalledBy, SetupFile
<1>2. SetupFile \subseteq Going /\ "reload" \in Going BY DEF Going
<1>3. {"nginx", "env", "hysteria", "xray"} \subseteq SetupFile BY DEF SetupFile
<1>4. CASE FileInstalled(s, "nginx", "env") BY <1>1, <1>2, <1>3, <1>4, FileInstalledKeeps
<1>5. CASE FileInstalled(s, "env", "hysteria") BY <1>1, <1>2, <1>3, <1>5, FileInstalledKeeps
<1>6. CASE FileInstalled(s, "hysteria", "xray") BY <1>1, <1>2, <1>3, <1>6, FileInstalledKeeps
<1>7. CASE FileInstalled(s, "xray", "reload") BY <1>1, <1>2, <1>3, <1>7, FileInstalledKeeps
<1> QED BY <1>4, <1>5, <1>6, <1>7 DEF InstallFiles

(* From the last file on every file is the script's.                       *)
LEMMA EveryFile ==
    ASSUME NEW s \in Finalizer, InProgress(s),
           finalizer[s].at \in {"reload", "enable", "schedule"}
    PROVE  files = [f \in SetupFile |-> finalizer[s].domain]
<1>1. InstalledBy(finalizer[s].at) = SetupFile BY DEF InstalledBy
<1>2. files = [f \in SetupFile |-> IF f \in InstalledBy(finalizer[s].at)
                                   THEN finalizer[s].domain ELSE NoDomain]
      BY DEF InProgress, Going
<1> QED BY <1>1, <1>2

LEMMA ReloadNginxKeeps ==
    ASSUME NEW s \in Finalizer, SetupInv, ReloadNginx(s)
    PROVE  SetupInv'
<1>1. Armed(s) /\ finalizer[s].at = "reload" BY DEF ReloadNginx, Armed
<1>2. CASE Goes(s, "disable") /\ UNCHANGED serving
      BY <1>1, <1>2, TurnsBack, TypesOf DEF ReloadNginx
<1>3. CASE serving' = files["nginx"] /\ Goes(s, "enable")
  <2>1. serving' \in AnyDomain BY <1>3, TypesOf DEF SetupFile
  <2>2. "enable" \in Going \cup Returning BY DEF Going
  <2>3. ASSUME InProgress(s), finalizer'[s].at = "enable",
               finalizer'[s].domain = finalizer[s].domain,
               finalizer'[s].kept = finalizer[s].kept
        PROVE  InProgress(s)'
    <3>1. files = [f \in SetupFile |-> finalizer[s].domain] BY <1>1, <2>3, EveryFile
    <3>2. serving' = finalizer[s].domain BY <1>3, <3>1 DEF SetupFile
    <3>3. InstalledBy("enable") = SetupFile BY DEF InstalledBy
    <3> QED BY <2>3, <3>1, <3>2, <3>3 DEF InProgress, ReloadNginx
  <2> QED BY <1>1, <1>3, <2>1, <2>2, <2>3, CommandKeeps, TypesOf DEF ReloadNginx
<1> QED BY <1>2, <1>3 DEF ReloadNginx

LEMMA EnableEnginesKeeps ==
    ASSUME NEW s \in Finalizer, SetupInv, EnableEngines(s)
    PROVE  SetupInv'
<1>1. Armed(s) /\ finalizer[s].at = "enable" /\ engines' = TRUE BY DEF EnableEngines, Armed
<1>2. CASE Goes(s, "disable")
      BY <1>1, <1>2, TurnsBack DEF EnableEngines
<1>3. CASE Goes(s, "schedule")
  <2>1. "schedule" \in Going \cup Returning BY DEF Going
  <2>2. ASSUME InProgress(s), finalizer'[s].at = "schedule",
               finalizer'[s].domain = finalizer[s].domain,
               finalizer'[s].kept = finalizer[s].kept
        PROVE  InProgress(s)'
    <3>1. files = [f \in SetupFile |-> finalizer[s].domain] BY <1>1, <2>2, EveryFile
    <3>2. serving = finalizer[s].domain BY <1>1, <2>2 DEF InProgress
    <3>3. InstalledBy("schedule") = SetupFile BY DEF InstalledBy
    <3> QED BY <1>1, <2>2, <3>1, <3>2, <3>3 DEF InProgress, EnableEngines
  <2> QED BY <1>1, <1>3, <2>1, <2>2, CommandKeeps, TypesOf DEF EnableEngines
<1> QED BY <1>2, <1>3 DEF EnableEngines

LEMMA ScheduleRestartKeeps ==
    ASSUME NEW s \in Finalizer, SetupInv, ScheduleRestart(s)
    PROVE  SetupInv'
<1>1. Armed(s) /\ finalizer[s].at = "schedule" BY DEF ScheduleRestart, Armed
<1>2. CASE Goes(s, "disable") /\ UNCHANGED restartDue
      BY <1>1, <1>2, TurnsBack, TypesOf DEF ScheduleRestart
<1>3. CASE restartDue' = TRUE /\ Goes(s, "done")
  <2>1. "done" \in FinalizerSteps BY DEF FinalizerSteps
  <2>2. /\ SetupTyped' /\ finalizer'[s].at = "done"
        /\ \A r \in Finalizer : r # s => finalizer'[r] = finalizer[r]
        BY <1>1, <1>3, <2>1, CommandGoes, TypesOf DEF ScheduleRestart
  <2>3. ~Armed(s)' BY <2>2 DEF Armed
  <2>4. ASSUME ~blurred' PROVE Orderly'
    <3>1. Orderly /\ InProgress(s) BY <1>1, <2>4 DEF SetupInv, Orderly, ScheduleRestart
    <3>2. files = [f \in SetupFile |-> finalizer[s].domain] BY <1>1, <3>1, EveryFile
    <3>3. finalizer[s].domain # NoDomain
          BY <1>1, SetupAssumption DEF SetupInv, SetupTyped
    <3>4. files["env"] = finalizer[s].domain BY <3>2 DEF SetupFile
    <3>5. serving = finalizer[s].domain /\ engines BY <1>1, <3>1 DEF InProgress
    <3>6. Settled(files["env"])'
          BY <1>3, <3>2, <3>3, <3>4, <3>5 DEF Settled, ScheduleRestart
    <3> QED BY <1>1, <2>2, <2>3, <3>1, <3>6, OverOrderly
  <2> QED BY <2>2, <2>4 DEF SetupInv
<1> QED BY <1>2, <1>3 DEF ScheduleRestart

LEMMA DisableEnginesKeeps ==
    ASSUME NEW s \in Finalizer, SetupInv, DisableEngines(s)
    PROVE  SetupInv'
<1>1. Armed(s) /\ engines' = FALSE /\ Goes(s, "back") BY DEF DisableEngines, Armed
<1>2. "back" \in Going \cup Returning /\ "back" \notin Going
      BY DEF Going, Returning, SetupFile
<1>3. ASSUME InProgress(s), finalizer'[s].at = "back", finalizer'[s].kept = finalizer[s].kept
      PROVE  InProgress(s)'
      BY <1>1, <1>2, <1>3 DEF InProgress, DisableEngines
<1> QED BY <1>1, <1>2, <1>3, CommandKeeps, TypesOf DEF DisableEngines

LEMMA RestoreFilesKeeps ==
    ASSUME NEW s \in Finalizer, SetupInv, RestoreFiles(s)
    PROVE  SetupInv'
<1>1. Armed(s) /\ finalizer[s].at = "back" /\ Goes(s, "reloadBack")
      BY DEF RestoreFiles, Armed
<1>2. finalizer[s].kept \in [SetupFile -> AnyDomain]
      BY DEF SetupInv, SetupTyped, FinalizerRow
<1>3. /\ files' \in [SetupFile -> AnyDomain] /\ blurred' \in BOOLEAN
      /\ ~blurred' => ~blurred /\ files' = finalizer[s].kept
  <2>1. CASE files' = FilesBack(s) /\ UNCHANGED blurred
        BY <1>2, <2>1, TypesOf DEF FilesBack
  <2>2. CASE /\ blurred' = TRUE
             /\ \E f \in SetupFile : files' = [FilesBack(s) EXCEPT ![f] = files[f]]
        BY <1>2, <2>2, TypesOf DEF FilesBack
  <2> QED BY <2>1, <2>2 DEF RestoreFiles
<1>4. "reloadBack" \in Going \cup Returning /\ "reloadBack" \notin Going
      BY DEF Going, Returning, SetupFile
<1>5. ASSUME ~blurred', InProgress(s), finalizer'[s].at = "reloadBack",
             finalizer'[s].kept = finalizer[s].kept
      PROVE  InProgress(s)'
      BY <1>1, <1>3, <1>4, <1>5 DEF InProgress, RestoreFiles
<1> QED BY <1>1, <1>3, <1>4, <1>5, CommandKeeps, TypesOf DEF RestoreFiles

LEMMA ReloadBackKeeps ==
    ASSUME NEW s \in Finalizer, SetupInv, ReloadBack(s)
    PROVE  SetupInv'
<1>1. Armed(s) /\ finalizer[s].at = "reloadBack" /\ Goes(s, "failed")
      BY DEF ReloadBack, Armed
<1>2. /\ serving' \in AnyDomain /\ blurred' \in BOOLEAN
      /\ ~blurred' => ~blurred /\ serving' = files["nginx"]
  <2>1. files["nginx"] \in AnyDomain BY TypesOf DEF SetupFile
  <2>2. CASE serving' = files["nginx"] /\ blurred' = blurred BY <2>1, <2>2, TypesOf
  <2>3. CASE blurred' = TRUE /\ serving' = serving BY <2>3, TypesOf
  <2> QED BY <2>2, <2>3 DEF ReloadBack
<1>3. "failed" \in FinalizerSteps BY DEF FinalizerSteps
<1>4. /\ SetupTyped' /\ finalizer'[s].at = "failed"
      /\ \A r \in Finalizer : r # s => finalizer'[r] = finalizer[r]
      BY <1>1, <1>2, <1>3, CommandGoes, TypesOf DEF ReloadBack
<1>5. ~Armed(s)' BY <1>4 DEF Armed
<1>6. ASSUME ~blurred' PROVE Orderly'
  <2>1. Orderly /\ InProgress(s) BY <1>1, <1>2, <1>6 DEF SetupInv, Orderly
  <2>2. /\ files = Untouched /\ ~engines /\ plane.env = NoDomain /\ ~restartDue
        BY <1>1, <2>1 DEF InProgress
  <2>3. files["env"] = NoDomain /\ files["nginx"] = NoDomain
        BY <2>2 DEF Untouched, SetupFile
  <2>4. Settled(files["env"])'
        BY <1>2, <1>6, <2>2, <2>3 DEF Settled, ReloadBack, Untouched
  <2> QED BY <1>1, <1>4, <1>5, <2>1, <2>4, OverOrderly
<1> QED BY <1>4, <1>6 DEF SetupInv

-----------------------------------------------------------------------------
LEMMA SetupInvKept == SetupInv /\ [SetupNext]_setupVars => SetupInv'
<1> SUFFICES ASSUME SetupInv, [SetupNext]_setupVars PROVE SetupInv'
    OBVIOUS
<1>1. CASE Finalize BY <1>1, FinalizeKeeps
<1>2. CASE NotResolved \/ Answered \/ SetupTimesOut BY <1>2, WaitEndsKeeps
<1>3. CASE Resolved BY <1>3, ResolvedKeeps
<1>4. CASE PlaneCrashes BY <1>4, PlaneCrashesKeeps
<1>5. CASE ScheduledRestart BY <1>5, ScheduledRestartKeeps
<1>6. CASE MachineReboots BY <1>6, MachineRebootsKeeps
<1>7. ASSUME NEW s \in Finalizer, FinalizeDomain(s) PROVE SetupInv'
      BY <1>7, CheckKeeps, KeepFilesKeeps, InstallFilesKeeps, ReloadNginxKeeps,
         EnableEnginesKeeps, ScheduleRestartKeeps, DisableEnginesKeeps, RestoreFilesKeeps,
         ReloadBackKeeps DEF FinalizeDomain
<1>8. CASE UNCHANGED setupVars
  <2>1. SetupTyped'
        BY <1>8 DEF SetupInv, SetupTyped, setupVars, AnyDomain, FinalizerRow, WaitRow, Finalizer
  <2>2. ~blurred' => Orderly'
        BY <1>8, ElsewhereOrderly DEF SetupInv, setupVars, Armed
  <2> QED BY <2>1, <2>2 DEF SetupInv
<1> QED BY <1>1, <1>2, <1>3, <1>4, <1>5, <1>6, <1>7, <1>8 DEF SetupNext

LEMMA SetupInvWhole == SetupInv => SetupIsWhole
<1> SUFFICES ASSUME SetupInv, ~blurred, \A s \in Finalizer : ~Armed(s)
             PROVE  \E d \in Domain \cup {NoDomain} :
                        /\ files = [f \in SetupFile |-> d] /\ serving = d
                        /\ engines = (d # NoDomain)
                        /\ plane.env = d \/ restartDue
    BY DEF SetupIsWhole
<1>1. Settled(files["env"]) BY DEF SetupInv, Orderly
<1>2. files["env"] \in Domain \cup {NoDomain} BY TypesOf DEF AnyDomain, SetupFile
<1>3. engines = (files["env"] # NoDomain)
  <2>1. CASE engines = TRUE BY <1>1, <2>1 DEF Settled
  <2>2. CASE engines = FALSE BY <1>1, <2>2 DEF Settled
  <2> QED BY <2>1, <2>2, TypesOf
<1> QED BY <1>1, <1>2, <1>3 DEF Settled

(* Where the scripts, the control plane and the server stand together, for *)
(* any domains, any number of scripts and any number of failures.          *)
THEOREM SetupCorrect == SetupSpec => []SetupInv
BY SetupStarts, SetupInvKept, PTL DEF SetupSpec

(* Whatever finalize-domain and the control plane that waits for it meet   *)
(* on the way, the server ends up set up for one domain or for none: the   *)
(* site, the environment and the engines' files agree, nginx serves them,  *)
(* and the control plane has read them or is about to.                     *)
THEOREM SetupWhole == SetupSpec => []SetupIsWhole
BY SetupCorrect, SetupInvWhole, PTL

-----------------------------------------------------------------------------
(* Operations: what is called completed was done.                          *)

ActiveSteps == {"sent", "tar", "tarred", "plain", "sealing"}
JobSteps    == ActiveSteps \cup {"none", "done", "failed", "killed"}

Journaled == {<<"started">>, <<"started", "completed">>, <<"started", "failed">>}

OperationRow ==
    [request : Requests, confirmation : Nat,
     status : {"queued", "running", "completed", "failed"},
     waits : BOOLEAN, events : Journaled, untold : BOOLEAN]
ConfirmationRow == [request : Requests, used : BOOLEAN, expired : BOOLEAN]
JobRow     == [at : JobSteps, shared : BOOLEAN]
BackupFile == [by : SUBSET Nat, ended : SUBSET Nat, sound : BOOLEAN]

OperationsTyped ==
    /\ confirmations \in Seq(ConfirmationRow) /\ operations \in Seq(OperationRow)
    /\ jobs \in Seq(JobRow) /\ Len(jobs) = Len(operations)
    /\ backups \in [Name -> [Suffix -> BackupFile]]
    /\ operationFaults \in Nat

(* The panel's process may have ended with an operation in it.             *)
PanelLost == \/ operationFaults > 0
             \/ \E p \in DOMAIN operations :
                   operations[p].request.of = "outpost" /\ jobs[p].at = "done"

Confirmed(o) ==
    /\ operations[o].confirmation \in DOMAIN confirmations
    /\ confirmations[operations[o].confirmation].used
    /\ confirmations[operations[o].confirmation].request = operations[o].request

OwnConfirmations ==
    \A o, p \in DOMAIN operations :
       operations[o].confirmation = operations[p].confirmation => o = p

(* The row of an operation, its events and its job.                        *)
Told(o, end) ==
    operations[o].events = IF operations[o].untold THEN <<"started">>
                           ELSE <<"started">> \o end

RowTells(o) ==
    /\ operations[o].untold => operationFaults > 0
    /\ operations[o].status = "queued" => jobs[o].at = "none"
    /\ operations[o].status \in {"queued", "running"} =>
          /\ operations[o].events = <<"started">> /\ ~operations[o].untold
          /\ operations[o].waits \/ PanelLost
    /\ operations[o].status = "completed" =>
          jobs[o].at = "done" /\ Told(o, EventsAtEnd(o))
    /\ operations[o].status = "failed" => Told(o, <<"failed">>)

IsExport(o) == operations[o].request.action = "backup.export"
ExportsOf(name) == {o \in DOMAIN operations : IsExport(o) /\ Of(o) = name}

Archives(o) ==
    /\ jobs[o].at \in {"tar", "tarred", "plain", "sealing"} => IsExport(o)
    /\ jobs[o].at \in {"plain", "sealing"} => PlainOutput(o) = ".plain"
    /\ jobs[o].at = "none" => ~jobs[o].shared

(* What an export that is alone with its name has put where.               *)
WrittenBy(o, ended) == [by |-> {o}, ended |-> ended, sound |-> TRUE]

Progress(o) ==
    /\ jobs[o].at = "tar" =>
         backups[Of(o)][Temporary(PlainOutput(o))] = WrittenBy(o, {})
    /\ jobs[o].at = "tarred" =>
         backups[Of(o)][Temporary(PlainOutput(o))] = WrittenBy(o, {o})
    /\ jobs[o].at \in {"plain", "sealing"} => backups[Of(o)][".plain"] = WrittenBy(o, {o})
    /\ jobs[o].at = "sealing" => backups[Of(o)][".tmp"] = WrittenBy(o, {})

Apart(name) == \A o \in ExportsOf(name) : ~jobs[o].shared

WhenApart(name) ==
    /\ \A o, p \in ExportsOf(name) :
          jobs[o].at \in ActiveSteps /\ jobs[p].at \in ActiveSteps => o = p
    /\ \A o \in ExportsOf(name) : Progress(o)
    /\ Downloadable(name) => Whole(backups[name][""])
    /\ backups[name][".plain"] # NoFile =>
         \E o \in ExportsOf(name) : jobs[o].at \in {"plain", "sealing", "killed"}

NameFits(name) ==
    /\ \A suffix \in Suffix : backups[name][suffix].by \subseteq ExportsOf(name)
    /\ \A o \in ExportsOf(name) : jobs[o].at = "done" => Downloadable(name)
    /\ Apart(name) => WhenApart(name)

OperationFits(o) == Confirmed(o) /\ RowTells(o) /\ Archives(o)

OperationsInv ==
    /\ OperationsTyped /\ OwnConfirmations
    /\ \A o \in DOMAIN operations : OperationFits(o)
    /\ \A name \in Name : NameFits(name)

LEMMA RequestFacts ==
    ASSUME NEW asked \in Requests
    PROVE  asked.action = "backup.export" => asked.of \in Name
BY DEF Requests, Asks, Export

LEMMA OperationsFacts ==
    ASSUME OperationsTyped
    PROVE  /\ DOMAIN operations = 1..Len(operations) /\ DOMAIN jobs = DOMAIN operations
           /\ DOMAIN confirmations = 1..Len(confirmations)
           /\ \A o \in DOMAIN operations : /\ operations[o] \in OperationRow
                                           /\ jobs[o] \in JobRow /\ o \in Nat
           /\ \A c \in DOMAIN confirmations : confirmations[c] \in ConfirmationRow
           /\ Len(operations) \in Nat /\ Len(confirmations) \in Nat
BY DEF OperationsTyped

LEMMA OfName ==
    ASSUME OperationsTyped, NEW o \in DOMAIN operations, IsExport(o)
    PROVE  Of(o) \in Name /\ o \in ExportsOf(Of(o))
BY OperationsFacts, RequestFacts DEF IsExport, ExportsOf, Of, OperationRow

LEMMA NoFileTyped == NoFile \in BackupFile
BY DEF NoFile, BackupFile

LEMMA OperationsStart == OperationsInit => OperationsInv
<1> SUFFICES ASSUME OperationsInit PROVE OperationsInv
    OBVIOUS
<1>1. OperationsTyped BY NoFileTyped DEF OperationsInit, OperationsTyped
<1>2. DOMAIN operations = {} /\ \A name \in Name : ExportsOf(name) = {}
      BY DEF OperationsInit, ExportsOf
<1>3. \A name \in Name : \A suffix \in Suffix : backups[name][suffix] = NoFile
      BY DEF OperationsInit
<1>4. ASSUME NEW name \in Name PROVE NameFits(name)
  <2>1. backups[name][""] = NoFile /\ backups[name][".plain"] = NoFile
        BY <1>3 DEF Suffix
  <2>2. NoFile.by = {} BY DEF NoFile
  <2> QED BY <1>2, <1>3, <2>1, <2>2 DEF NameFits, WhenApart, Downloadable
<1> QED BY <1>1, <1>2, <1>4 DEF OperationsInv, OwnConfirmations

-----------------------------------------------------------------------------
(* Operations: what steps leave alone.                                     *)

(* The requests stay; rows may change otherwise.                           *)
SameRequests ==
    /\ DOMAIN operations' = DOMAIN operations
    /\ \A p \in DOMAIN operations : /\ operations'[p].request = operations[p].request
                                    /\ operations'[p].confirmation = operations[p].confirmation

LEMMA SameExports ==
    ASSUME SameRequests
    PROVE  /\ \A name : ExportsOf(name)' = ExportsOf(name)
           /\ \A p \in DOMAIN operations : /\ Of(p)' = Of(p) /\ IsExport(p)' = IsExport(p)
                                           /\ PlainOutput(p)' = PlainOutput(p)
                                           /\ EventsAtEnd(p)' = EventsAtEnd(p)
BY DEF SameRequests, ExportsOf, Of, IsExport, PlainOutput, EventsAtEnd

(* A name whose exports and files a step does not touch.                   *)
LEMMA NameElsewhere ==
    ASSUME SameRequests, NEW name, NameFits(name), backups'[name] = backups[name],
           \A p \in ExportsOf(name) : /\ jobs'[p].at = jobs[p].at
                                      /\ jobs[p].shared => jobs'[p].shared
    PROVE  NameFits(name)'
<1>1. ExportsOf(name)' = ExportsOf(name) BY SameExports
<1>2. \A p \in ExportsOf(name) : /\ p \in DOMAIN operations /\ Of(p) = name
                                 /\ Of(p)' = name /\ PlainOutput(p)' = PlainOutput(p)
      BY SameExports DEF ExportsOf
<1>3. ASSUME NEW p \in ExportsOf(name), Progress(p) PROVE Progress(p)'
      BY <1>2, <1>3 DEF Progress
<1>4. Apart(name)' => Apart(name) BY <1>1 DEF Apart
<1>5. WhenApart(name) => WhenApart(name)'
      BY <1>1, <1>3 DEF WhenApart, Downloadable
<1> QED BY <1>1, <1>4, <1>5 DEF NameFits, Downloadable

(* A step of the panel that touches confirmations only.                    *)
LEMMA ConfirmationsOnly ==
    ASSUME OperationsInv, confirmations' \in Seq(ConfirmationRow),
           \A c \in DOMAIN confirmations :
              /\ c \in DOMAIN confirmations'
              /\ confirmations[c].used => confirmations'[c].used
              /\ confirmations'[c].request = confirmations[c].request,
           UNCHANGED <<operations, jobs, backups, connection, operationFaults>>
    PROVE  OperationsInv'
<1>1. OperationsTyped' /\ OwnConfirmations'
      BY DEF OperationsInv, OperationsTyped, OwnConfirmations
<1>2. SameRequests BY DEF SameRequests
<1>3. ASSUME NEW name \in Name PROVE NameFits(name)'
      BY <1>2, NameElsewhere DEF OperationsInv
<1>4. ASSUME NEW o \in DOMAIN operations PROVE OperationFits(o)'
  <2>1. OperationFits(o) BY DEF OperationsInv
  <2>2. Confirmed(o)' BY <2>1 DEF OperationFits, Confirmed
  <2>3. RowTells(o)' BY <2>1 DEF OperationFits, RowTells, Told, PanelLost, EventsAtEnd
  <2>4. Archives(o)' BY <2>1 DEF OperationFits, Archives, IsExport, PlainOutput
  <2> QED BY <2>2, <2>3, <2>4 DEF OperationFits
<1> QED BY <1>1, <1>3, <1>4 DEF OperationsInv

(* One that touches the operations' rows only.                             *)
LEMMA RowsOnly ==
    ASSUME OperationsInv, SameRequests, operations' \in Seq(OperationRow),
           Len(operations') = Len(operations), operationFaults' \in Nat,
           \A o \in DOMAIN operations : RowTells(o)',
           UNCHANGED <<confirmations, jobs, backups>>
    PROVE  OperationsInv'
<1>1. OperationsTyped' BY DEF OperationsInv, OperationsTyped
<1>2. OwnConfirmations' BY DEF OperationsInv, OwnConfirmations, SameRequests
<1>3. ASSUME NEW name \in Name PROVE NameFits(name)'
      BY NameElsewhere DEF OperationsInv
<1>4. ASSUME NEW o \in DOMAIN operations PROVE OperationFits(o)'
  <2>1. OperationFits(o) BY DEF OperationsInv
  <2>2. Confirmed(o)' BY <2>1 DEF OperationFits, Confirmed, SameRequests
  <2>3. Archives(o)' BY <2>1, SameExports DEF OperationFits, Archives
  <2> QED BY <2>2, <2>3 DEF OperationFits
<1> QED BY <1>1, <1>2, <1>3, <1>4 DEF OperationsInv, SameRequests

LEMMA InvTyped == ASSUME OperationsInv PROVE OperationsTyped
BY DEF OperationsInv

LEMMA PreviewKeeps ==
    ASSUME OperationsInv, NEW asked \in Requests, Preview(asked)
    PROVE  OperationsInv'
<1> DEFINE row == [request |-> asked, used |-> FALSE, expired |-> FALSE]
<1>1. row \in ConfirmationRow BY DEF ConfirmationRow
<1>2. confirmations' = Append(confirmations, row) BY DEF Preview
<1> HIDE DEF row
<1>3. confirmations \in Seq(ConfirmationRow) BY InvTyped DEF OperationsTyped
<1>4. confirmations' \in Seq(ConfirmationRow) BY <1>1, <1>2, <1>3
<1>5. \A c \in DOMAIN confirmations : c \in DOMAIN confirmations'
                                      /\ confirmations'[c] = confirmations[c]
      BY <1>1, <1>2, <1>3
<1> QED BY <1>4, <1>5, ConfirmationsOnly DEF Preview

LEMMA ConfirmationExpiresKeeps ==
    ASSUME OperationsInv, NEW c \in DOMAIN confirmations, ConfirmationExpires(c)
    PROVE  OperationsInv'
<1> DEFINE row == [confirmations[c] EXCEPT !.expired = TRUE]
<1>1. confirmations \in Seq(ConfirmationRow) /\ confirmations[c] \in ConfirmationRow
      BY InvTyped, OperationsFacts DEF OperationsTyped
<1>2. /\ row \in ConfirmationRow /\ row.used = confirmations[c].used
      /\ row.request = confirmations[c].request
      BY <1>1 DEF ConfirmationRow
<1>3. confirmations' = [confirmations EXCEPT ![c] = row] BY DEF ConfirmationExpires
<1> HIDE DEF row
<1>4. confirmations' \in Seq(ConfirmationRow) BY <1>1, <1>2, <1>3
<1>5. \A d \in DOMAIN confirmations : /\ d \in DOMAIN confirmations'
                                      /\ confirmations'[d].used = confirmations[d].used
                                      /\ confirmations'[d].request = confirmations[d].request
      BY <1>2, <1>3
<1> QED BY <1>4, <1>5, ConfirmationsOnly DEF ConfirmationExpires

LEMMA ConfirmKeeps ==
    ASSUME OperationsInv, NEW c \in DOMAIN confirmations, NEW asked \in Requests,
           Confirm(c, asked)
    PROVE  OperationsInv'
<1> DEFINE spent == [confirmations[c] EXCEPT !.used = TRUE]
           row   == [request |-> asked, confirmation |-> c, status |-> "queued",
                     waits |-> TRUE, events |-> <<"started">>, untold |-> FALSE]
           job   == [at |-> "none", shared |-> FALSE]
<1>1. /\ confirmations \in Seq(ConfirmationRow) /\ confirmations[c] \in ConfirmationRow
      /\ operations \in Seq(OperationRow) /\ jobs \in Seq(JobRow)
      /\ Len(jobs) = Len(operations) /\ c \in Nat
      /\ DOMAIN operations = 1..Len(operations) /\ DOMAIN jobs = DOMAIN operations
      /\ Len(operations) \in Nat
      BY InvTyped, OperationsFacts DEF OperationsTyped
<1> PICK new \in Nat : new = Len(operations) + 1
    BY <1>1
<1>2. /\ spent \in ConfirmationRow /\ spent.used
      /\ spent.request = confirmations[c].request
      BY <1>1 DEF ConfirmationRow
<1>3. /\ row \in OperationRow /\ row.request = asked /\ row.confirmation = c
      /\ row.status = "queued" /\ row.waits /\ row.events = <<"started">> /\ ~row.untold
      BY <1>1 DEF OperationRow, Journaled
<1>4. job \in JobRow /\ job.at = "none" /\ ~job.shared BY DEF JobRow, JobSteps
<1>5. /\ confirmations' = [confirmations EXCEPT ![c] = spent]
      /\ operations' = Append(operations, row) /\ jobs' = Append(jobs, job)
      /\ UNCHANGED <<backups, connection, operationFaults>>
      BY DEF Confirm
<1>6. ~confirmations[c].used /\ confirmations[c].request = asked
      BY DEF Confirm, MayConfirm
<1> HIDE DEF spent, row, job
<1>7. /\ confirmations' \in Seq(ConfirmationRow) /\ DOMAIN confirmations' = DOMAIN confirmations
      /\ confirmations'[c] = spent
      /\ \A d \in DOMAIN confirmations : d # c => confirmations'[d] = confirmations[d]
      BY <1>1, <1>2, <1>5
<1>8. /\ operations' \in Seq(OperationRow) /\ jobs' \in Seq(JobRow)
      /\ Len(jobs') = Len(operations')
      /\ DOMAIN operations' = DOMAIN operations \cup {new} /\ new \notin DOMAIN operations
      /\ operations'[new] = row /\ jobs'[new] = job
      /\ \A o \in DOMAIN operations : operations'[o] = operations[o] /\ jobs'[o] = jobs[o]
      BY <1>1, <1>3, <1>4, <1>5
<1>9. OperationsTyped' BY <1>5, <1>7, <1>8, InvTyped DEF OperationsTyped
<1>10. \A o \in DOMAIN operations : operations[o].confirmation # c
       BY <1>6 DEF OperationsInv, OperationFits, Confirmed
<1>11. OwnConfirmations'
       BY <1>3, <1>8, <1>10 DEF OperationsInv, OwnConfirmations
<1>12. PanelLost => PanelLost' BY <1>5, <1>8 DEF PanelLost
<1>13. ASSUME NEW o \in DOMAIN operations PROVE OperationFits(o)'
  <2>1. OperationFits(o) BY DEF OperationsInv
  <2>2. Confirmed(o)' BY <1>7, <1>8, <1>10, <2>1 DEF OperationFits, Confirmed
  <2>3. RowTells(o)' BY <1>5, <1>8, <1>12, <2>1 DEF OperationFits, RowTells, Told, EventsAtEnd
  <2>4. Archives(o)' BY <1>8, <2>1 DEF OperationFits, Archives, IsExport, PlainOutput
  <2> QED BY <2>2, <2>3, <2>4 DEF OperationFits
<1>14. OperationFits(new)'
  <2>1. Confirmed(new)' BY <1>2, <1>3, <1>6, <1>7, <1>8 DEF Confirmed
  <2>2. RowTells(new)' BY <1>3, <1>4, <1>8 DEF RowTells, Told
  <2>3. Archives(new)' BY <1>4, <1>8 DEF Archives
  <2> QED BY <2>1, <2>2, <2>3 DEF OperationFits
<1>15. ASSUME NEW name \in Name PROVE NameFits(name)'
  <2>1. /\ ExportsOf(name) \subseteq ExportsOf(name)'
        /\ \A p \in ExportsOf(name)' : p \in ExportsOf(name) \/ p = new
        BY <1>8 DEF ExportsOf, IsExport, Of
  <2>2. \A p \in ExportsOf(name) : p \in DOMAIN operations BY DEF ExportsOf
  <2>3. ASSUME NEW p \in ExportsOf(name)', p # new, Progress(p) PROVE Progress(p)'
        BY <1>5, <1>8, <2>1, <2>2, <2>3 DEF Progress, Of, PlainOutput
  <2>4. Progress(new)' BY <1>4, <1>8 DEF Progress
  <2>5. Apart(name)' => Apart(name) BY <1>8, <2>1, <2>2 DEF Apart
  <2>6. ASSUME WhenApart(name) PROVE WhenApart(name)'
    <3>1. ASSUME NEW o \in ExportsOf(name)', NEW p \in ExportsOf(name)',
                 jobs'[o].at \in ActiveSteps, jobs'[p].at \in ActiveSteps
          PROVE  o = p
          BY <1>4, <1>8, <2>1, <2>2, <2>6, <3>1 DEF WhenApart, ActiveSteps
    <3>2. \A p \in ExportsOf(name)' : Progress(p)'
          BY <2>1, <2>3, <2>4, <2>6 DEF WhenApart
    <3> QED BY <1>5, <1>8, <2>1, <2>2, <2>6, <3>1, <3>2 DEF WhenApart, Downloadable
  <2>7. \A p \in ExportsOf(name)' : jobs'[p].at = "done" => Downloadable(name)'
        BY <1>4, <1>5, <1>8, <2>1, <2>2 DEF OperationsInv, NameFits, Downloadable
  <2> QED BY <1>5, <2>1, <2>5, <2>6, <2>7 DEF OperationsInv, NameFits
<1> QED BY <1>8, <1>9, <1>11, <1>13, <1>14, <1>15 DEF OperationsInv

LEMMA FaultsTyped ==
    ASSUME OperationsTyped, UNCHANGED operationFaults \/ OperationFault
    PROVE  operationFaults' \in Nat /\ (operationFaults > 0 => operationFaults' > 0)
BY DEF OperationsTyped, OperationFault

LEMMA JournalTuple ==
    ASSUME NEW e \in {"completed", "failed"}
    PROVE  <<"started">> \o <<e>> = <<"started", e>>
<1> DEFINE S == {"started", "completed", "failed"}
           a == <<"started">> \o <<e>>
           b == <<"started", e>>
<1>1. <<"started">> \in Seq(S) /\ <<e>> \in Seq(S) /\ b \in Seq(S)
      OBVIOUS
<1>2. Len(b) = 2 /\ b[1] = "started" /\ b[2] = e
      OBVIOUS
<1> HIDE DEF S, b
<1>3. a \in Seq(S) /\ Len(a) = 2 /\ a[1] = "started" /\ a[2] = e
      BY <1>1, ConcatProperties
<1> HIDE DEF a
<1>4. \A i \in 1..Len(a) : a[i] = b[i]
  <2> SUFFICES ASSUME NEW i \in 1..Len(a) PROVE a[i] = b[i]
      OBVIOUS
  <2>1. i = 1 \/ i = 2 BY <1>3
  <2> QED BY <1>2, <1>3, <2>1
<1>5. a = b BY <1>1, <1>2, <1>3, <1>4, SeqEqual
<1> QED BY <1>5 DEF a, b

LEMMA JournalEnds ==
    ASSUME NEW o, NEW events, events = EventsAtEnd(o) \/ events = <<"failed">>
    PROVE  <<"started">> \o events \in Journaled
<1>1. <<"started">> \o <<>> = <<"started">> OBVIOUS
<1> QED BY <1>1, JournalTuple DEF EventsAtEnd, Journaled

LEMMA EndsKeeps ==
    ASSUME OperationsInv, NEW o \in DOMAIN operations, operations[o].status = "running",
           NEW status \in {"completed", "failed"}, NEW events, Ends(o, status, events),
           UNCHANGED operationFaults \/ OperationFault,
           status = "completed" => jobs[o].at = "done" /\ events = EventsAtEnd(o),
           status = "failed" => events = <<"failed">>
    PROVE  OperationsInv'
<1> DEFINE row == [operations[o] EXCEPT !.status = status, !.waits = FALSE,
                                        !.events = @ \o events]
<1>1. operations \in Seq(OperationRow) /\ operations[o] \in OperationRow
      BY InvTyped, OperationsFacts DEF OperationsTyped
<1>2. operations[o].events = <<"started">> /\ ~operations[o].untold
      BY DEF OperationsInv, OperationFits, RowTells
<1>3. <<"started">> \o events \in Journaled BY JournalEnds
<1>4. /\ row \in OperationRow /\ row.status = status
      /\ row.events = <<"started">> \o events /\ ~row.untold
      /\ row.request = operations[o].request
      /\ row.confirmation = operations[o].confirmation
      BY <1>1, <1>2, <1>3 DEF OperationRow
<1>5. operations' = [operations EXCEPT ![o] = row]
      BY <1>1 DEF Ends, OperationRow
<1> HIDE DEF row
<1>6. /\ operations' \in Seq(OperationRow) /\ Len(operations') = Len(operations)
      /\ DOMAIN operations' = DOMAIN operations /\ operations'[o] = row
      /\ \A p \in DOMAIN operations : p # o => operations'[p] = operations[p]
      BY <1>1, <1>4, <1>5
<1>7. SameRequests BY <1>4, <1>6 DEF SameRequests
<1>8. operationFaults' \in Nat /\ (operationFaults > 0 => operationFaults' > 0)
      BY FaultsTyped, InvTyped
<1>9. UNCHANGED <<confirmations, jobs, backups>> BY DEF Ends
<1>10. PanelLost => PanelLost' BY <1>7, <1>8, <1>9 DEF PanelLost, SameRequests
<1>11. ASSUME NEW p \in DOMAIN operations PROVE RowTells(p)'
  <2>1. RowTells(p) BY DEF OperationsInv, OperationFits
  <2>2. EventsAtEnd(p)' = EventsAtEnd(p) BY <1>7, SameExports
  <2>3. CASE p # o BY <1>6, <1>8, <1>9, <1>10, <2>1, <2>2, <2>3 DEF RowTells, Told
  <2>4. CASE p = o /\ status = "completed"
        BY <1>4, <1>6, <1>9, <2>2, <2>4 DEF RowTells, Told
  <2>5. CASE p = o /\ status = "failed"
        BY <1>4, <1>6, <2>5 DEF RowTells, Told
  <2> QED BY <2>3, <2>4, <2>5
<1> QED BY <1>6, <1>7, <1>8, <1>9, <1>11, RowsOnly

(* The row alone is written, and the others may be forgotten with it.      *)
LEMMA EndsUntoldKeeps ==
    ASSUME OperationsInv, NEW o \in DOMAIN operations, operations[o].status = "running",
           NEW status \in {"completed", "failed"}, EndsUntold(o, status),
           status = "completed" => jobs[o].at = "done"
    PROVE  OperationsInv'
<1>1. /\ DOMAIN operations = 1..Len(operations) /\ Len(operations) \in Nat
      /\ \A p \in DOMAIN operations : operations[p] \in OperationRow
      BY InvTyped, OperationsFacts
<1>2. operations[o].events = <<"started">> BY DEF OperationsInv, OperationFits, RowTells
<1>3. PICK dies \in BOOLEAN :
        operations' = [p \in DOMAIN operations |->
            IF p = o THEN [operations[p] EXCEPT !.status = status, !.waits = FALSE,
                                                !.untold = TRUE]
            ELSE [operations[p] EXCEPT !.waits = @ /\ ~dies]]
      BY DEF EndsUntold
<1>4. DOMAIN operations' = 1..Len(operations)
      BY <1>1, <1>3
<1>5. /\ operations'[o] \in OperationRow /\ operations'[o].status = status
      /\ operations'[o].events = operations[o].events /\ operations'[o].untold
      /\ operations'[o].request = operations[o].request
      /\ operations'[o].confirmation = operations[o].confirmation
  <2>1. operations'[o] = [operations[o] EXCEPT !.status = status, !.waits = FALSE,
                                               !.untold = TRUE]
        BY <1>3
  <2> QED BY <1>1, <2>1 DEF OperationRow
<1>6. ASSUME NEW p \in DOMAIN operations, p # o
      PROVE  /\ operations'[p] \in OperationRow
             /\ operations'[p].status = operations[p].status
             /\ operations'[p].events = operations[p].events
             /\ operations'[p].untold = operations[p].untold
             /\ operations'[p].request = operations[p].request
             /\ operations'[p].confirmation = operations[p].confirmation
  <2>1. PICK waits \in BOOLEAN : waits = (operations[p].waits /\ ~dies)
        BY Zenon
  <2>2. operations'[p] = [operations[p] EXCEPT !.waits = waits] BY <1>3, <1>6, <2>1
  <2> QED BY <1>1, <2>2 DEF OperationRow
<1>7. operations' = [p \in 1..Len(operations) |-> operations'[p]]
      BY <1>1, <1>3
<1>8. operations' \in Seq(OperationRow) /\ Len(operations') = Len(operations)
      BY <1>1, <1>4, <1>5, <1>6, <1>7
<1>9. SameRequests BY <1>1, <1>4, <1>5, <1>6 DEF SameRequests
<1>10. operationFaults' \in Nat /\ operationFaults' > 0
  <2>1. OperationFault BY Zenon DEF EndsUntold
  <2> QED BY <2>1, InvTyped DEF OperationFault, OperationsTyped
<1>11. PanelLost' BY <1>10 DEF PanelLost
<1>12. UNCHANGED <<confirmations, jobs, backups>> BY DEF EndsUntold
<1>13. ASSUME NEW p \in DOMAIN operations PROVE RowTells(p)'
  <2>1. RowTells(p) BY DEF OperationsInv, OperationFits
  <2>2. EventsAtEnd(p)' = EventsAtEnd(p) BY <1>9, SameExports
  <2>3. CASE p # o BY <1>6, <1>10, <1>11, <1>12, <2>1, <2>2, <2>3 DEF RowTells, Told
  <2>4. CASE p = o BY <1>2, <1>5, <1>10, <1>12, <2>4 DEF RowTells, Told
  <2> QED BY <2>3, <2>4
<1> QED BY <1>8, <1>9, <1>10, <1>12, <1>13, RowsOnly

LEMMA AgentAnswersKeeps ==
    ASSUME OperationsInv, NEW o \in DOMAIN operations, AgentAnswers(o) \/ AnswerTimesOut(o)
    PROVE  OperationsInv'
<1>1. operations[o].status = "running" BY DEF AgentAnswers, AnswerTimesOut
<1>2. CASE /\ jobs[o].at = "done" /\ Ends(o, "completed", EventsAtEnd(o))
           /\ UNCHANGED operationFaults
      BY <1>1, <1>2, EndsKeeps
<1>3. CASE /\ Ends(o, "failed", <<"failed">>)
           /\ UNCHANGED operationFaults \/ OperationFault
      BY <1>1, <1>3, EndsKeeps
<1>4. CASE jobs[o].at = "done" /\ EndsUntold(o, "completed")
      BY <1>1, <1>4, EndsUntoldKeeps
<1>5. CASE EndsUntold(o, "failed") BY <1>1, <1>5, EndsUntoldKeeps
<1> QED BY <1>2, <1>3, <1>4, <1>5 DEF AgentAnswers, AnswerTimesOut

(* Nobody waits any more: what the rows say stays.                         *)
LEMMA ForgottenRows ==
    ASSUME OperationsTyped, Forgotten
    PROVE  /\ operations' \in Seq(OperationRow) /\ Len(operations') = Len(operations)
           /\ SameRequests
           /\ \A p \in DOMAIN operations : /\ operations'[p].status = operations[p].status
                                           /\ operations'[p].events = operations[p].events
                                           /\ operations'[p].untold = operations[p].untold
<1>1. /\ DOMAIN operations = 1..Len(operations) /\ Len(operations) \in Nat
      /\ \A p \in DOMAIN operations : operations[p] \in OperationRow
      BY OperationsFacts
<1>2. ASSUME NEW p \in DOMAIN operations
      PROVE  /\ operations'[p] \in OperationRow
             /\ operations'[p].status = operations[p].status
             /\ operations'[p].events = operations[p].events
             /\ operations'[p].untold = operations[p].untold
             /\ operations'[p].request = operations[p].request
             /\ operations'[p].confirmation = operations[p].confirmation
  <2>1. operations'[p] = [operations[p] EXCEPT !.waits = FALSE] BY DEF Forgotten
  <2> QED BY <1>1, <2>1 DEF OperationRow
<1>3. DOMAIN operations' = 1..Len(operations) BY <1>1 DEF Forgotten
<1>4. operations' = [p \in 1..Len(operations) |-> operations'[p]]
      BY <1>1 DEF Forgotten
<1>5. operations' \in Seq(OperationRow) /\ Len(operations') = Len(operations)
      BY <1>1, <1>2, <1>3, <1>4
<1> QED BY <1>1, <1>2, <1>3, <1>5 DEF SameRequests

LEMMA OperationsPanelDiesKeeps ==
    ASSUME OperationsInv, OperationsPanelDies
    PROVE  OperationsInv'
<1>1. /\ operations' \in Seq(OperationRow) /\ Len(operations') = Len(operations)
      /\ SameRequests
      /\ \A p \in DOMAIN operations : /\ operations'[p].status = operations[p].status
                                      /\ operations'[p].events = operations[p].events
                                      /\ operations'[p].untold = operations[p].untold
      BY ForgottenRows, InvTyped DEF OperationsPanelDies
<1>2. operationFaults' \in Nat /\ operationFaults' > 0
      BY InvTyped DEF OperationsPanelDies, OperationFault, OperationsTyped
<1>3. PanelLost' BY <1>2 DEF PanelLost
<1>4. ASSUME NEW p \in DOMAIN operations PROVE RowTells(p)'
  <2>1. RowTells(p) BY DEF OperationsInv, OperationFits
  <2>2. EventsAtEnd(p)' = EventsAtEnd(p) BY <1>1, SameExports
  <2> QED BY <1>1, <1>2, <1>3, <2>1, <2>2 DEF RowTells, Told, OperationsPanelDies
<1> QED BY <1>1, <1>2, <1>4, RowsOnly DEF OperationsPanelDies

LEMMA ConnectionMovesKeeps ==
    ASSUME OperationsInv, UNCHANGED <<confirmations, operations, jobs, backups, operationFaults>>
    PROVE  OperationsInv'
<1>1. SameRequests BY DEF SameRequests
<1>2. ASSUME NEW p \in DOMAIN operations PROVE RowTells(p)'
      BY DEF OperationsInv, OperationFits, RowTells, Told, PanelLost, EventsAtEnd
<1> QED BY <1>1, <1>2, RowsOnly, InvTyped DEF OperationsTyped

(* The job of an operation begins: beside another of its name both are     *)
(* known to be, and an export that is apart is alone.                      *)
LEMMA ExecuteKeeps ==
    ASSUME OperationsInv, NEW o \in DOMAIN operations, Execute(o)
    PROVE  OperationsInv'
<1> DEFINE row == [operations[o] EXCEPT !.status = "running"]
<1>1. /\ operations \in Seq(OperationRow) /\ operations[o] \in OperationRow
      /\ DOMAIN operations = 1..Len(operations) /\ DOMAIN jobs = DOMAIN operations
      /\ \A p \in DOMAIN operations : jobs[p] \in JobRow
      /\ Len(jobs) = Len(operations) /\ Len(operations) \in Nat
      BY InvTyped, OperationsFacts DEF OperationsTyped
<1>2. /\ operations[o].events = <<"started">> /\ operations[o].waits
      /\ ~operations[o].untold
      /\ operations[o].status = "queued" /\ jobs[o].at = "none"
      BY DEF OperationsInv, OperationFits, RowTells, Told, Execute
<1>3. /\ row \in OperationRow /\ row.status = "running" /\ row.waits
      /\ row.events = <<"started">> /\ ~row.untold
      /\ row.request = operations[o].request
      /\ row.confirmation = operations[o].confirmation
      BY <1>1, <1>2 DEF OperationRow
<1>4. operations' = [operations EXCEPT ![o] = row] BY DEF Execute
<1> HIDE DEF row
<1>5. /\ operations' \in Seq(OperationRow) /\ Len(operations') = Len(operations)
      /\ DOMAIN operations' = DOMAIN operations /\ operations'[o] = row
      /\ \A p \in DOMAIN operations : p # o => operations'[p] = operations[p]
      BY <1>1, <1>3, <1>4
<1>6. SameRequests BY <1>3, <1>5 DEF SameRequests
<1> DEFINE sharing == IF IsExport(o) THEN Sharing(o) ELSE {}
           at == IF operations[o].request.action # "connection.rotate" THEN "sent"
                 ELSE IF connection = "active" THEN "done" ELSE "failed"
<1>7. jobs' = [p \in DOMAIN jobs |->
                IF p = o THEN [at |-> at, shared |-> sharing # {}]
                ELSE [jobs[p] EXCEPT !.shared = @ \/ p \in sharing]]
      BY DEF Execute, IsExport
<1>8. at \in {"sent", "done", "failed"} /\ (IsExport(o) => at = "sent")
      BY DEF IsExport
<1> HIDE DEF sharing, at
<1>9. jobs'[o] = [at |-> at, shared |-> sharing # {}] BY <1>1, <1>7
<1>10. ASSUME NEW p \in DOMAIN operations, p # o
       PROVE  /\ jobs'[p] \in JobRow /\ jobs'[p].at = jobs[p].at
              /\ jobs[p].shared => jobs'[p].shared
              /\ jobs'[p].shared => jobs[p].shared \/ p \in sharing
  <2>1. jobs'[p] = [jobs[p] EXCEPT !.shared = @ \/ p \in sharing] BY <1>1, <1>7, <1>10
  <2> QED BY <1>1, <2>1 DEF JobRow
<1>11. jobs'[o] \in JobRow /\ jobs'[o].at = at BY <1>8, <1>9 DEF JobRow, JobSteps, ActiveSteps
<1>12. jobs' \in Seq(JobRow) /\ Len(jobs') = Len(operations)
  <2>1. DOMAIN jobs' = 1..Len(operations) /\ \A p \in 1..Len(operations) : jobs'[p] \in JobRow
        BY <1>1, <1>7, <1>10, <1>11
  <2>2. jobs' = [p \in 1..Len(operations) |-> jobs'[p]] BY <1>1, <1>7
  <2> QED BY <1>1, <2>1, <2>2
<1>13. UNCHANGED <<confirmations, backups, operationFaults>> BY DEF Execute
<1>14. OperationsTyped' BY <1>5, <1>12, <1>13, InvTyped DEF OperationsTyped
<1>15. OwnConfirmations' BY <1>6 DEF OperationsInv, OwnConfirmations, SameRequests
<1>16. PanelLost => PanelLost'
       BY <1>2, <1>6, <1>10, <1>13 DEF PanelLost, SameRequests
<1>17. ASSUME NEW p \in DOMAIN operations PROVE OperationFits(p)'
  <2>1. OperationFits(p) BY DEF OperationsInv
  <2>2. Confirmed(p)' BY <1>6, <1>13, <2>1 DEF OperationFits, Confirmed, SameRequests
  <2>3. EventsAtEnd(p)' = EventsAtEnd(p) /\ PlainOutput(p)' = PlainOutput(p)
        /\ (IsExport(p)' <=> IsExport(p))
        BY <1>6, SameExports
  <2>4. CASE p = o BY <1>3, <1>5, <1>8, <1>11, <2>2, <2>4 DEF OperationFits, RowTells, Told, Archives
  <2>5. CASE p # o
    <3>1. jobs[p].at = "none" => p \notin sharing BY DEF sharing, Sharing
    <3> QED BY <1>5, <1>10, <1>13, <1>16, <2>1, <2>2, <2>3, <2>5, <3>1
            DEF OperationFits, RowTells, Told, Archives
  <2> QED BY <2>4, <2>5
<1>18. ASSUME NEW name \in Name PROVE NameFits(name)'
  <2>1. NameFits(name) BY DEF OperationsInv
  <2>2. \A p \in ExportsOf(name) : p \in DOMAIN operations BY DEF ExportsOf
  <2>3. CASE o \notin ExportsOf(name)
        BY <1>6, <1>10, <1>13, <2>1, <2>2, <2>3, NameElsewhere
  <2>4. CASE o \in ExportsOf(name)
    <3>1. /\ IsExport(o) /\ sharing = Sharing(o) /\ at = "sent" /\ Of(o) = name
          BY <1>8, <2>4 DEF ExportsOf, sharing
    <3>2. ExportsOf(name)' = ExportsOf(name) BY <1>6, SameExports
    <3>3. ASSUME NEW p \in ExportsOf(name), Progress(p) PROVE Progress(p)'
      <4>1. Of(p)' = Of(p) /\ PlainOutput(p)' = PlainOutput(p) BY <1>6, <2>2, SameExports
      <4>2. CASE p = o BY <1>11, <3>1, <4>2 DEF Progress
      <4>3. CASE p # o BY <1>10, <1>13, <2>2, <3>3, <4>1, <4>3 DEF Progress
      <4> QED BY <4>2, <4>3
    <3>4. ASSUME Apart(name)' PROVE Apart(name) /\ Sharing(o) = {}
      <4>1. ~jobs'[o].shared BY <2>4, <3>2, <3>4 DEF Apart
      <4>2. Sharing(o) = {}
        <5> SUFFICES ASSUME sharing # {} PROVE FALSE
            BY <3>1
        <5>1. (sharing # {}) = TRUE BY Zenon
        <5>2. jobs'[o] = [at |-> at, shared |-> TRUE] BY <1>9, <5>1
        <5> QED BY <4>1, <5>2
      <4>3. ASSUME NEW p \in ExportsOf(name) PROVE ~jobs[p].shared
        <5>1. CASE p = o BY <1>2, <5>1 DEF OperationsInv, OperationFits, Archives
        <5>2. CASE p # o BY <1>10, <2>2, <3>2, <3>4, <5>2 DEF Apart
        <5> QED BY <5>1, <5>2
      <4> QED BY <4>2, <4>3 DEF Apart
    <3>5. ASSUME Apart(name)' PROVE WhenApart(name)'
      <4>1. WhenApart(name) BY <2>1, <3>4, <3>5 DEF NameFits
      <4>2. \A p \in ExportsOf(name) : p # o => jobs[p].at \notin ActiveSteps
        <5> SUFFICES ASSUME NEW p \in ExportsOf(name), p # o, jobs[p].at \in ActiveSteps
                     PROVE  FALSE
            OBVIOUS
        <5>1. p \in Sharing(o)
              BY <1>1, <2>2, <3>1 DEF Sharing, ActiveSteps, ExportsOf, IsExport, Of
        <5> QED BY <3>4, <3>5, <5>1
      <4>3. ASSUME NEW p \in ExportsOf(name), NEW q \in ExportsOf(name),
                   jobs'[p].at \in ActiveSteps, jobs'[q].at \in ActiveSteps
            PROVE  p = q
            BY <1>10, <2>2, <4>2, <4>3
      <4>4. \A p \in ExportsOf(name) : Progress(p)' BY <3>3, <4>1 DEF WhenApart
      <4>5. backups[name][".plain"] # NoFile =>
              \E p \in ExportsOf(name) : jobs'[p].at \in {"plain", "sealing", "killed"}
            BY <1>2, <1>10, <2>2, <4>1 DEF WhenApart
      <4> QED BY <1>13, <3>2, <4>1, <4>3, <4>4, <4>5 DEF WhenApart, Downloadable
    <3>6. ASSUME NEW p \in ExportsOf(name), jobs'[p].at = "done" PROVE Downloadable(name)
          BY <1>10, <1>11, <2>1, <2>2, <3>1, <3>6 DEF NameFits
    <3> QED BY <1>13, <2>1, <3>2, <3>5, <3>6 DEF NameFits, Downloadable
  <2> QED BY <2>3, <2>4
<1> QED BY <1>5, <1>14, <1>15, <1>17, <1>18 DEF OperationsInv

-----------------------------------------------------------------------------
(* Operations: the agent.                                                  *)

LEMMA JobGoes ==
    ASSUME OperationsTyped, NEW o \in DOMAIN operations, NEW at \in JobSteps, JobAt(o, at)
    PROVE  /\ jobs' \in Seq(JobRow) /\ Len(jobs') = Len(jobs)
           /\ jobs'[o].at = at /\ jobs'[o].shared = jobs[o].shared
           /\ \A p \in DOMAIN operations : p # o => jobs'[p] = jobs[p]
<1> DEFINE row == [jobs[o] EXCEPT !.at = at]
<1>1. jobs \in Seq(JobRow) /\ jobs[o] \in JobRow /\ DOMAIN jobs = DOMAIN operations
      /\ DOMAIN jobs = 1..Len(jobs)
      BY OperationsFacts DEF OperationsTyped
<1>2. row \in JobRow /\ row.at = at /\ row.shared = jobs[o].shared BY <1>1 DEF JobRow
<1>3. jobs' = [jobs EXCEPT ![o] = row] BY DEF JobAt
<1> HIDE DEF row
<1> QED BY <1>1, <1>2, <1>3

(* The rows say what they said, or their panel has died.                   *)
RowsStay ==
    /\ operations' \in Seq(OperationRow) /\ Len(operations') = Len(operations)
    /\ SameRequests
    /\ \A p \in DOMAIN operations :
          /\ operations'[p].status = operations[p].status
          /\ operations'[p].events = operations[p].events
          /\ operations'[p].untold = operations[p].untold
          /\ operations[p].waits => operations'[p].waits \/ PanelLost'

LEMMA UnchangedStay == OperationsTyped /\ UNCHANGED operations => RowsStay
BY DEF RowsStay, SameRequests, OperationsTyped

(* A job goes on, and the names still fit.                                 *)
LEMMA JobMoves ==
    ASSUME OperationsInv, NEW o \in DOMAIN operations, jobs[o].at \in ActiveSteps,
           NEW at \in JobSteps \ {"none"}, JobAt(o, at), RowsStay,
           UNCHANGED <<confirmations, operationFaults>>,
           backups' \in [Name -> [Suffix -> BackupFile]],
           at \in {"tar", "tarred", "plain", "sealing"} => IsExport(o),
           at \in {"plain", "sealing"} => PlainOutput(o) = ".plain",
           \A name \in Name : NameFits(name)'
    PROVE  OperationsInv'
<1>1. /\ jobs' \in Seq(JobRow) /\ Len(jobs') = Len(jobs)
      /\ jobs'[o].at = at /\ jobs'[o].shared = jobs[o].shared
      /\ \A p \in DOMAIN operations : p # o => jobs'[p] = jobs[p]
      BY JobGoes, InvTyped
<1>2. SameRequests BY DEF RowsStay
<1>3. OperationsTyped' BY <1>1, InvTyped DEF OperationsTyped, RowsStay
<1>4. OwnConfirmations' BY <1>2 DEF OperationsInv, OwnConfirmations, SameRequests
<1>5. jobs[o].at \notin {"done", "none"} BY DEF ActiveSteps
<1>6. PanelLost => PanelLost' BY <1>1, <1>2, <1>5 DEF PanelLost, SameRequests
<1>7. ASSUME NEW p \in DOMAIN operations PROVE OperationFits(p)'
  <2>1. OperationFits(p) BY DEF OperationsInv
  <2>2. Confirmed(p)' BY <1>2, <2>1 DEF OperationFits, Confirmed, SameRequests
  <2>3. EventsAtEnd(p)' = EventsAtEnd(p) /\ PlainOutput(p)' = PlainOutput(p)
        /\ (IsExport(p)' <=> IsExport(p))
        BY <1>2, SameExports
  <2>4. /\ jobs[p].at = "done" => jobs'[p].at = "done"
        /\ jobs[p].at = "none" => jobs'[p].at = "none"
        BY <1>1, <1>5
  <2>5. RowTells(p)' BY <1>6, <2>1, <2>3, <2>4 DEF OperationFits, RowTells, Told, RowsStay
  <2>6. Archives(p)'
    <3>1. CASE p = o BY <1>1, <2>3, <3>1 DEF Archives
    <3>2. CASE p # o BY <1>1, <2>1, <2>3, <3>2 DEF OperationFits, Archives
    <3> QED BY <3>1, <3>2
  <2> QED BY <2>2, <2>5, <2>6 DEF OperationFits
<1> QED BY <1>2, <1>3, <1>4, <1>7 DEF OperationsInv, SameRequests

(* A command that is no export's touches no name.                          *)
LEMMA NoExportMoves ==
    ASSUME OperationsInv, NEW o \in DOMAIN operations, jobs[o].at \in ActiveSteps,
           ~IsExport(o), NEW at \in {"done", "failed"}, JobAt(o, at), RowsStay,
           UNCHANGED <<confirmations, backups, operationFaults>>
    PROVE  OperationsInv'
<1>1. at \in JobSteps \ {"none"} BY DEF JobSteps
<1>2. \A p \in DOMAIN operations : p # o => jobs'[p] = jobs[p]
      BY <1>1, JobGoes, InvTyped
<1>3. ASSUME NEW name \in Name PROVE NameFits(name)'
  <2>1. \A p \in ExportsOf(name) : p \in DOMAIN operations /\ p # o BY DEF ExportsOf
  <2>2. NameFits(name) /\ SameRequests BY DEF OperationsInv, RowsStay
  <2> QED BY <1>2, <2>1, <2>2, NameElsewhere
<1>4. backups' \in [Name -> [Suffix -> BackupFile]] BY InvTyped DEF OperationsTyped
<1> QED BY <1>1, <1>3, <1>4, JobMoves

LEMMA RunsCommandKeeps ==
    ASSUME OperationsInv, NEW o \in DOMAIN operations, RunsCommand(o)
    PROVE  OperationsInv'
<1>1. jobs[o].at \in ActiveSteps /\ ~IsExport(o) /\ JobAt(o, "done")
      BY DEF RunsCommand, ActiveSteps, IsExport
<1>2. UNCHANGED <<confirmations, backups, operationFaults>> BY DEF RunsCommand
<1>3. CASE UNCHANGED operations
      BY <1>1, <1>2, <1>3, NoExportMoves, UnchangedStay, InvTyped
<1>4. CASE operations[o].request.of = "outpost" /\ Forgotten
  <2>1. /\ operations' \in Seq(OperationRow) /\ Len(operations') = Len(operations)
        /\ SameRequests
        /\ \A p \in DOMAIN operations : /\ operations'[p].status = operations[p].status
                                        /\ operations'[p].events = operations[p].events
                                        /\ operations'[p].untold = operations[p].untold
        BY <1>4, ForgottenRows, InvTyped
  <2>2. jobs'[o].at = "done" BY <1>1, JobGoes, InvTyped DEF JobSteps
  <2>3. PanelLost' BY <1>4, <2>1, <2>2 DEF PanelLost, SameRequests
  <2>4. RowsStay BY <2>1, <2>3 DEF RowsStay
  <2> QED BY <1>1, <1>2, <2>4, NoExportMoves
<1> QED BY <1>3, <1>4 DEF RunsCommand

(* A command of an export: what it has to leave in the files of its name.  *)
LEMMA ExportMoves ==
    ASSUME OperationsInv, NEW o \in DOMAIN operations, jobs[o].at \in ActiveSteps,
           IsExport(o), NEW at \in JobSteps \ {"none"}, JobAt(o, at),
           UNCHANGED <<confirmations, operations, operationFaults>>,
           backups' = [backups EXCEPT ![Of(o)] = backups'[Of(o)]],
           backups'[Of(o)] \in [Suffix -> BackupFile],
           \A suffix \in Suffix : backups'[Of(o)][suffix].by \subseteq ExportsOf(Of(o)),
           Downloadable(Of(o)) \/ at = "done" => backups'[Of(o)][""] # NoFile,
           at \in {"plain", "sealing"} => PlainOutput(o) = ".plain",
           WhenApart(Of(o)) /\ Progress(o) /\ jobs'[o].at = at =>
              /\ Progress(o)'
              /\ backups'[Of(o)][""] # NoFile => Whole(backups'[Of(o)][""])
              /\ backups'[Of(o)][".plain"] # NoFile =>
                    \/ at \in {"plain", "sealing"}
                    \/ /\ backups[Of(o)][".plain"] # NoFile
                       /\ jobs[o].at \notin {"plain", "sealing"}
    PROVE  OperationsInv'
<1>1. /\ jobs'[o].at = at /\ jobs'[o].shared = jobs[o].shared
      /\ \A p \in DOMAIN operations : p # o => jobs'[p] = jobs[p]
      BY JobGoes, InvTyped
<1>2. Of(o) \in Name /\ o \in ExportsOf(Of(o)) BY OfName, InvTyped
<1>3. backups \in [Name -> [Suffix -> BackupFile]] BY InvTyped DEF OperationsTyped
<1>4. /\ backups' \in [Name -> [Suffix -> BackupFile]]
      /\ \A name \in Name : name # Of(o) => backups'[name] = backups[name]
      BY <1>2, <1>3
<1>5. RowsStay /\ SameRequests BY UnchangedStay, InvTyped DEF RowsStay
<1>6. ASSUME NEW name \in Name PROVE NameFits(name)'
  <2>1. NameFits(name) BY DEF OperationsInv
  <2>2. \A p \in ExportsOf(name) : p \in DOMAIN operations /\ Of(p) = name BY DEF ExportsOf
  <2>3. ExportsOf(name)' = ExportsOf(name) BY <1>5, SameExports
  <2>4. CASE name # Of(o)
    <3>1. \A p \in ExportsOf(name) : p # o BY <2>2, <2>4
    <3> QED BY <1>1, <1>4, <1>5, <2>1, <2>2, <2>4, <3>1, NameElsewhere
  <2>5. CASE name = Of(o)
    <3>1. Apart(name)' => Apart(name)
          BY <1>1, <2>2, <2>3 DEF Apart
    <3>2. ASSUME WhenApart(name) PROVE WhenApart(name)'
      <4>1. Progress(o) BY <1>2, <2>5, <3>2 DEF WhenApart
      <4>2. /\ Progress(o)'
            /\ backups'[name][""] # NoFile => Whole(backups'[name][""])
            /\ backups'[name][".plain"] # NoFile =>
                  \/ at \in {"plain", "sealing"}
                  \/ /\ backups[name][".plain"] # NoFile
                     /\ jobs[o].at \notin {"plain", "sealing"}
            BY <1>1, <2>5, <3>2, <4>1
      <4>3. \A p \in ExportsOf(name) : p # o => jobs[p].at \notin ActiveSteps
            BY <1>2, <2>5, <3>2 DEF WhenApart
      <4>4. ASSUME NEW p \in ExportsOf(name), NEW q \in ExportsOf(name),
                   jobs'[p].at \in ActiveSteps, jobs'[q].at \in ActiveSteps
            PROVE  p = q
            BY <1>1, <2>2, <4>3, <4>4
      <4>5. ASSUME NEW p \in ExportsOf(name) PROVE Progress(p)'
        <5>1. CASE p = o BY <4>2, <5>1
        <5>2. CASE p # o BY <1>1, <2>2, <4>3, <5>2 DEF Progress, ActiveSteps
        <5> QED BY <5>1, <5>2
      <4>6. ASSUME backups'[name][".plain"] # NoFile
            PROVE  \E p \in ExportsOf(name) : jobs'[p].at \in {"plain", "sealing", "killed"}
        <5>1. CASE at \in {"plain", "sealing"} BY <1>1, <1>2, <2>5, <5>1
        <5>2. CASE /\ backups[name][".plain"] # NoFile
                   /\ jobs[o].at \notin {"plain", "sealing"}
          <6>1. PICK p \in ExportsOf(name) : jobs[p].at \in {"plain", "sealing", "killed"}
                BY <3>2, <5>2 DEF WhenApart
          <6>2. p # o BY <5>2, <6>1 DEF ActiveSteps
          <6> QED BY <1>1, <2>2, <6>1, <6>2
        <5> QED BY <4>2, <4>6, <5>1, <5>2
      <4> QED BY <2>3, <4>2, <4>4, <4>5, <4>6 DEF WhenApart, Downloadable
    <3>3. \A suffix \in Suffix : backups'[name][suffix].by \subseteq ExportsOf(name)'
          BY <2>3, <2>5
    <3>4. ASSUME NEW p \in ExportsOf(name), jobs'[p].at = "done" PROVE Downloadable(name)'
          BY <1>1, <2>1, <2>2, <2>5, <3>4 DEF NameFits, Downloadable
    <3> QED BY <2>1, <2>3, <3>1, <3>2, <3>3, <3>4 DEF NameFits
  <2> QED BY <2>4, <2>5
<1> QED BY <1>4, <1>5, <1>6, JobMoves

LEMMA WrittenWhole == ASSUME NEW o PROVE Whole(WrittenBy(o, {o}))
BY FS_Singleton DEF Whole, WrittenBy

LEMMA PlaceFacts ==
    ASSUME NEW o
    PROVE  /\ PlainOutput(o) \in {"", ".plain"} /\ {"", ".plain", ".tmp"} \subseteq Suffix
           /\ Temporary(PlainOutput(o)) \in {".tmp", ".plain.tmp"}
           /\ Temporary(PlainOutput(o)) \in Suffix
           /\ PlainOutput(o) \in Suffix
BY DEF PlainOutput, Temporary, Suffix

(* What holds of an export when one of its commands comes.                 *)
LEMMA ExportFacts ==
    ASSUME OperationsInv, NEW o \in DOMAIN operations, IsExport(o)
    PROVE  /\ Of(o) \in Name /\ o \in ExportsOf(Of(o)) /\ o \in Nat
           /\ backups \in [Name -> [Suffix -> BackupFile]]
           /\ backups[Of(o)] \in [Suffix -> BackupFile]
           /\ \A suffix \in Suffix : backups[Of(o)][suffix].by \subseteq ExportsOf(Of(o))
           /\ jobs[o].at \in {"plain", "sealing"} => PlainOutput(o) = ".plain"
           /\ ExportsOf(Of(o)) \subseteq Nat
<1>1. Of(o) \in Name /\ o \in ExportsOf(Of(o)) BY OfName, InvTyped
<1>2. backups \in [Name -> [Suffix -> BackupFile]] BY InvTyped DEF OperationsTyped
<1>3. \A p \in DOMAIN operations : p \in Nat BY OperationsFacts, InvTyped
<1>4. NameFits(Of(o)) /\ OperationFits(o) BY <1>1 DEF OperationsInv
<1> QED BY <1>1, <1>2, <1>3, <1>4 DEF NameFits, OperationFits, Archives, ExportsOf

(* The export fails, and what is unencrypted is removed.                   *)
LEMMA ExportFailsKeeps ==
    ASSUME OperationsInv, NEW o \in DOMAIN operations, IsExport(o), JobAt(o, "failed"),
           UNCHANGED <<confirmations, operations, operationFaults>>,
           jobs[o].at \in ActiveSteps,
           \/ Discards(o)
           \/ UNCHANGED backups /\ jobs[o].at \notin {"plain", "sealing"}
    PROVE  OperationsInv'
<1>1. /\ Of(o) \in Name /\ backups \in [Name -> [Suffix -> BackupFile]]
      /\ backups[Of(o)] \in [Suffix -> BackupFile]
      /\ \A suffix \in Suffix : backups[Of(o)][suffix].by \subseteq ExportsOf(Of(o))
      /\ jobs[o].at \in {"plain", "sealing"} => PlainOutput(o) = ".plain"
      BY ExportFacts
<1>2. "failed" \in JobSteps \ {"none"} BY DEF JobSteps
<1>3. NoFile \in BackupFile /\ NoFile.by = {} BY NoFileTyped DEF NoFile
<1>4. jobs'[o].at = "failed" => Progress(o)' BY DEF Progress
<1>5. CASE UNCHANGED backups /\ jobs[o].at \notin {"plain", "sealing"}
      BY <1>1, <1>2, <1>4, <1>5, ExportMoves DEF WhenApart, Downloadable
<1>6. CASE Puts(o, ".plain", NoFile)
  <2>1. /\ backups'[Of(o)] = [backups[Of(o)] EXCEPT ![".plain"] = NoFile]
        /\ backups' = [backups EXCEPT ![Of(o)] = backups'[Of(o)]]
        BY <1>1, <1>6 DEF Puts
  <2>2. /\ backups'[Of(o)] \in [Suffix -> BackupFile]
        /\ backups'[Of(o)][".plain"] = NoFile
        /\ backups'[Of(o)][""] = backups[Of(o)][""]
        /\ \A suffix \in Suffix : backups'[Of(o)][suffix].by \subseteq ExportsOf(Of(o))
        BY <1>1, <1>3, <2>1 DEF Suffix
  <2> QED BY <1>1, <1>2, <1>4, <2>1, <2>2, ExportMoves DEF WhenApart, Downloadable
<1> QED BY <1>1, <1>5, <1>6, PlaceFacts DEF Discards

LEMMA CommandFailsKeeps ==
    ASSUME OperationsInv, NEW o \in DOMAIN operations, CommandFails(o)
    PROVE  OperationsInv'
<1>1. /\ jobs[o].at \in ActiveSteps /\ jobs[o].at \notin {"plain", "sealing"}
      /\ JobAt(o, "failed")
      /\ UNCHANGED <<confirmations, operations, operationFaults>>
      BY DEF CommandFails, ActiveSteps
<1>2. CASE IsExport(o)
      BY <1>1, <1>2, ExportFailsKeeps DEF CommandFails
<1>3. CASE ~IsExport(o)
  <2>1. UNCHANGED backups BY <1>3 DEF CommandFails, IsExport
  <2> QED BY <1>1, <1>3, <2>1, NoExportMoves, UnchangedStay, InvTyped
<1> QED BY <1>2, <1>3

LEMMA TarOpensKeeps ==
    ASSUME OperationsInv, NEW o \in DOMAIN operations, TarOpens(o)
    PROVE  OperationsInv'
<1> DEFINE suffix  == Temporary(PlainOutput(o))
           writing == {p \in backups[Of(o)][suffix].by : jobs[p].at \in {"tar", "sealing"}}
           archive    == [File(o, TRUE) EXCEPT !.by = @ \cup writing]
<1>1. /\ IsExport(o) /\ jobs[o].at = "sent" /\ jobs[o].at \in ActiveSteps
      /\ JobAt(o, "tar") /\ Puts(o, suffix, archive)
      /\ UNCHANGED <<confirmations, operations, operationFaults>>
      BY DEF TarOpens, IsExport, ActiveSteps
<1>2. /\ Of(o) \in Name /\ o \in ExportsOf(Of(o)) /\ o \in Nat
      /\ backups \in [Name -> [Suffix -> BackupFile]]
      /\ backups[Of(o)] \in [Suffix -> BackupFile]
      /\ \A s \in Suffix : backups[Of(o)][s].by \subseteq ExportsOf(Of(o))
      /\ ExportsOf(Of(o)) \subseteq Nat
      BY <1>1, ExportFacts
<1>3. suffix \in {".tmp", ".plain.tmp"} /\ suffix \in Suffix BY PlaceFacts
<1>4. writing \subseteq ExportsOf(Of(o)) BY <1>2, <1>3
<1>5. /\ File(o, TRUE) \in BackupFile /\ File(o, TRUE).by = {o}
      /\ File(o, TRUE).ended = {} /\ File(o, TRUE).sound = TRUE
      BY <1>2 DEF File, BackupFile
<1>6. WhenApart(Of(o)) => writing = {}
      BY <1>1, <1>2, <1>4 DEF WhenApart, ActiveSteps
<1> HIDE DEF suffix, writing
<1>7. /\ archive \in BackupFile /\ archive.by = {o} \cup writing /\ archive.ended = {}
       /\ archive.sound = TRUE
       BY <1>2, <1>4, <1>5 DEF BackupFile
<1>8. archive.by \subseteq ExportsOf(Of(o)) BY <1>2, <1>4, <1>7
<1> HIDE DEF archive
<1>9. ASSUME WhenApart(Of(o)) PROVE archive = WrittenBy(o, {})
      BY <1>6, <1>9, <1>7 DEF WrittenBy, BackupFile
<1>10. /\ backups'[Of(o)] = [backups[Of(o)] EXCEPT ![suffix] = archive]
      /\ backups' = [backups EXCEPT ![Of(o)] = backups'[Of(o)]]
      BY <1>1, <1>2 DEF Puts
<1>11. /\ backups'[Of(o)] \in [Suffix -> BackupFile]
      /\ backups'[Of(o)][""] = backups[Of(o)][""]
      /\ backups'[Of(o)][".plain"] = backups[Of(o)][".plain"]
      /\ backups'[Of(o)][suffix] = archive
      /\ \A s \in Suffix : backups'[Of(o)][s].by \subseteq ExportsOf(Of(o))
  <2>1. "" \in Suffix /\ ".plain" \in Suffix /\ "" # suffix /\ ".plain" # suffix
        BY <1>3, PlaceFacts
  <2>2. backups'[Of(o)][suffix] = archive BY <1>2, <1>3, <1>10
  <2>3. \A s \in Suffix : s # suffix => backups'[Of(o)][s] = backups[Of(o)][s]
        BY <1>2, <1>10
  <2>4. backups'[Of(o)] \in [Suffix -> BackupFile] BY <1>2, <1>7, <1>10
  <2> QED BY <1>2, <1>8, <2>1, <2>2, <2>3, <2>4
<1>12. ASSUME WhenApart(Of(o)), jobs'[o].at = "tar" PROVE Progress(o)'
  <2>1. Of(o)' = Of(o) /\ PlainOutput(o)' = PlainOutput(o)
        BY <1>1 DEF Of, PlainOutput
  <2> QED BY <1>9, <1>11, <1>12, <2>1 DEF Progress, suffix, WrittenBy
<1>13. "tar" \in JobSteps \ {"none"} BY DEF JobSteps, ActiveSteps
<1> QED BY <1>1, <1>10, <1>11, <1>12, <1>13, ExportMoves DEF WhenApart, Downloadable

(* Only files of its own name can be a script's.                           *)
LEMMA WrittenHere ==
    ASSUME OperationsInv, NEW o \in DOMAIN operations, IsExport(o), Written(o)
    PROVE  /\ backups' = [backups EXCEPT ![Of(o)] = backups'[Of(o)]]
           /\ backups'[Of(o)] = [suffix \in Suffix |->
                 IF o \in backups[Of(o)][suffix].by
                 THEN [backups[Of(o)][suffix] EXCEPT !.ended = @ \cup {o}]
                 ELSE backups[Of(o)][suffix]]
<1>1. Of(o) \in Name /\ backups \in [Name -> [Suffix -> BackupFile]] BY ExportFacts
<1>2. ASSUME NEW name \in Name, name # Of(o) PROVE backups'[name] = backups[name]
  <2>1. \A suffix \in Suffix : o \notin backups[name][suffix].by
        BY <1>2 DEF OperationsInv, NameFits, ExportsOf
  <2>2. backups'[name] = [suffix \in Suffix |-> backups[name][suffix]]
        BY <2>1 DEF Written
  <2> QED BY <1>1, <2>2
<1>3. backups' = [name \in Name |-> backups'[name]] BY DEF Written
<1>4. [backups EXCEPT ![Of(o)] = backups'[Of(o)]]
         = [name \in Name |-> IF name = Of(o) THEN backups'[Of(o)] ELSE backups[name]]
      BY <1>1
<1>5. backups' = [backups EXCEPT ![Of(o)] = backups'[Of(o)]] BY <1>2, <1>3, <1>4
<1> QED BY <1>1, <1>5 DEF Written

LEMMA TarEndsKeeps ==
    ASSUME OperationsInv, NEW o \in DOMAIN operations, TarEnds(o)
    PROVE  OperationsInv'
<1>1. /\ jobs[o].at = "tar" /\ jobs[o].at \in ActiveSteps
      /\ JobAt(o, "tarred") /\ Written(o)
      /\ UNCHANGED <<confirmations, operations, operationFaults>>
      BY DEF TarEnds, ActiveSteps
<1>2. IsExport(o) BY <1>1 DEF OperationsInv, OperationFits, Archives
<1>3. /\ Of(o) \in Name /\ o \in Nat
      /\ backups[Of(o)] \in [Suffix -> BackupFile]
      /\ \A s \in Suffix : backups[Of(o)][s].by \subseteq ExportsOf(Of(o))
      BY <1>2, ExportFacts
<1>4. backups' = [backups EXCEPT ![Of(o)] = backups'[Of(o)]] BY <1>1, <1>2, WrittenHere
<1>5. ASSUME NEW s \in Suffix
      PROVE  /\ backups'[Of(o)][s] \in BackupFile
             /\ backups'[Of(o)][s].by = backups[Of(o)][s].by
             /\ backups'[Of(o)][s].sound = backups[Of(o)][s].sound
             /\ backups'[Of(o)][s].ended = IF o \in backups[Of(o)][s].by
                                           THEN backups[Of(o)][s].ended \cup {o}
                                           ELSE backups[Of(o)][s].ended
             /\ backups'[Of(o)][s] # NoFile <=> backups[Of(o)][s] # NoFile
  <2>1. backups[Of(o)][s] \in BackupFile BY <1>3
  <2>2. CASE o \in backups[Of(o)][s].by
    <3>1. backups'[Of(o)][s] = [backups[Of(o)][s] EXCEPT !.ended = @ \cup {o}]
          BY <1>1, <1>2, <2>2, WrittenHere
    <3>2. backups'[Of(o)][s].by = backups[Of(o)][s].by BY <2>1, <3>1 DEF BackupFile
    <3>3. NoFile.by = {} BY DEF NoFile
    <3>4. backups'[Of(o)][s] # NoFile /\ backups[Of(o)][s] # NoFile BY <2>2, <3>2, <3>3
    <3> QED BY <1>3, <2>1, <2>2, <3>1, <3>4 DEF BackupFile
  <2>3. CASE o \notin backups[Of(o)][s].by
    <3>1. backups'[Of(o)][s] = backups[Of(o)][s] BY <1>1, <1>2, <2>3, WrittenHere
    <3> QED BY <2>1, <2>3, <3>1
  <2> QED BY <2>2, <2>3
<1>6. backups'[Of(o)] \in [Suffix -> BackupFile]
      BY <1>1, <1>2, <1>5, WrittenHere
<1>7. \A s \in Suffix : Whole(backups[Of(o)][s]) => Whole(backups'[Of(o)][s])
  <2> SUFFICES ASSUME NEW s \in Suffix, Whole(backups[Of(o)][s])
               PROVE  Whole(backups'[Of(o)][s])
      OBVIOUS
  <2>1. backups'[Of(o)][s].ended = backups'[Of(o)][s].by BY <1>5 DEF Whole
  <2> QED BY <1>5, <2>1 DEF Whole
<1>8. ASSUME Progress(o), jobs'[o].at = "tarred" PROVE Progress(o)'
  <2>1. Of(o)' = Of(o) /\ PlainOutput(o)' = PlainOutput(o)
        BY <1>1 DEF Of, PlainOutput
  <2> DEFINE s == Temporary(PlainOutput(o))
  <2>2. s \in Suffix BY PlaceFacts
  <2>3. backups[Of(o)][s] = WrittenBy(o, {}) BY <1>1, <1>8 DEF Progress
  <2> HIDE DEF s
  <2>4. /\ backups'[Of(o)][s] \in BackupFile /\ backups'[Of(o)][s].by = {o}
        /\ backups'[Of(o)][s].ended = {o} /\ backups'[Of(o)][s].sound
        BY <1>5, <2>2, <2>3 DEF WrittenBy
  <2>5. backups'[Of(o)][s] = WrittenBy(o, {o}) BY <2>4 DEF BackupFile, WrittenBy
  <2> QED BY <1>8, <2>1, <2>5 DEF Progress, s
<1>9. "tarred" \in JobSteps \ {"none"} BY DEF JobSteps, ActiveSteps
<1>10. "" \in Suffix /\ ".plain" \in Suffix BY DEF Suffix
<1>11. \A s \in Suffix : backups'[Of(o)][s].by \subseteq ExportsOf(Of(o)) BY <1>3, <1>5
<1> QED BY <1>1, <1>2, <1>4, <1>5, <1>6, <1>7, <1>8, <1>9, <1>10, <1>11, ExportMoves
        DEF WhenApart, Downloadable

LEMMA TarMovesKeeps ==
    ASSUME OperationsInv, NEW o \in DOMAIN operations, TarMoves(o)
    PROVE  OperationsInv'
<1> DEFINE output == PlainOutput(o)
           from   == Temporary(output)
           archive   == backups[Of(o)][from]
<1>1. /\ jobs[o].at = "tarred" /\ jobs[o].at \in ActiveSteps
      /\ UNCHANGED <<confirmations, operations, operationFaults>>
      BY DEF TarMoves, ActiveSteps
<1>2. IsExport(o) BY <1>1 DEF OperationsInv, OperationFits, Archives
<1>3. /\ Of(o) \in Name /\ o \in Nat
      /\ backups \in [Name -> [Suffix -> BackupFile]]
      /\ backups[Of(o)] \in [Suffix -> BackupFile]
      /\ \A s \in Suffix : backups[Of(o)][s].by \subseteq ExportsOf(Of(o))
      BY <1>2, ExportFacts
<1>4. CASE archive = NoFile
      BY <1>1, <1>2, <1>4, ExportFailsKeeps DEF TarMoves
<1>5. CASE archive # NoFile
  <2> DEFINE at == IF output = "" THEN "done" ELSE "plain"
  <2>1. JobAt(o, at) /\ backups' = [backups EXCEPT ![Of(o)] =
                           [[@ EXCEPT ![from] = NoFile] EXCEPT ![output] = archive]]
        BY <1>5 DEF TarMoves
  <2>2. /\ output \in {"", ".plain"} /\ from \in {".tmp", ".plain.tmp"}
        /\ from \in Suffix /\ output \in Suffix /\ {"", ".plain"} \subseteq Suffix
        BY PlaceFacts
  <2>3. at \in JobSteps \ {"none"} /\ at \in {"done", "plain"}
        /\ (at = "done" <=> output = "") /\ (at = "plain" <=> output = ".plain")
        BY <2>2 DEF JobSteps, ActiveSteps
  <2>4. archive \in BackupFile /\ archive.by \subseteq ExportsOf(Of(o)) BY <1>3, <2>2
  <2>5. ASSUME Progress(o) PROVE archive = WrittenBy(o, {o}) BY <1>1, <2>5 DEF Progress
  <2> HIDE DEF at, from, archive
  <2>6. /\ backups'[Of(o)] = [[backups[Of(o)] EXCEPT ![from] = NoFile] EXCEPT ![output] = archive]
        /\ backups' = [backups EXCEPT ![Of(o)] = backups'[Of(o)]]
        BY <1>3, <2>1
  <2>7. NoFile \in BackupFile /\ NoFile.by = {} BY NoFileTyped DEF NoFile
  <2>8. /\ backups'[Of(o)] \in [Suffix -> BackupFile]
        /\ backups'[Of(o)][output] = archive
        /\ backups'[Of(o)][from] = NoFile
        /\ \A s \in Suffix : s \notin {from, output} =>
              backups'[Of(o)][s] = backups[Of(o)][s]
        BY <1>3, <2>2, <2>4, <2>6, <2>7
  <2>9. \A s \in Suffix : backups'[Of(o)][s].by \subseteq ExportsOf(Of(o))
        BY <1>3, <2>4, <2>7, <2>8
  <2>10. /\ output = "" => /\ backups'[Of(o)][""] = archive
                           /\ backups'[Of(o)][".plain"] = backups[Of(o)][".plain"]
         /\ output = ".plain" => /\ backups'[Of(o)][""] = backups[Of(o)][""]
                                 /\ backups'[Of(o)][".plain"] = archive
         BY <2>2, <2>8
  <2>11. ASSUME Progress(o), jobs'[o].at = at PROVE Progress(o)'
    <3>1. Of(o)' = Of(o) /\ PlainOutput(o)' = PlainOutput(o)
          BY <1>1 DEF Of, PlainOutput
    <3> QED BY <2>3, <2>5, <2>10, <2>11, <3>1 DEF Progress
  <2>12. Progress(o) => Whole(archive) BY <2>5, WrittenWhole
  <2>13. Downloadable(Of(o)) \/ at = "done" => backups'[Of(o)][""] # NoFile
         BY <1>5, <2>2, <2>3, <2>10 DEF Downloadable
  <2>14. ASSUME WhenApart(Of(o)), Progress(o), jobs'[o].at = at
         PROVE  /\ Progress(o)'
                /\ backups'[Of(o)][""] # NoFile => Whole(backups'[Of(o)][""])
                /\ backups'[Of(o)][".plain"] # NoFile =>
                      \/ at \in {"plain", "sealing"}
                      \/ /\ backups[Of(o)][".plain"] # NoFile
                         /\ jobs[o].at \notin {"plain", "sealing"}
         BY <1>1, <2>2, <2>3, <2>10, <2>11, <2>12, <2>14 DEF WhenApart, Downloadable
  <2> QED BY <1>1, <1>2, <2>1, <2>3, <2>6, <2>8, <2>9, <2>13, <2>14, ExportMoves
<1> QED BY <1>4, <1>5

LEMMA WholeOrNot == ASSUME NEW archive PROVE Whole(archive) = TRUE \/ Whole(archive) = FALSE
BY Zenon DEF Whole

LEMMA WholeTrue == ASSUME NEW archive, Whole(archive) PROVE Whole(archive) = TRUE
BY Zenon DEF Whole

LEMMA SealOpensKeeps ==
    ASSUME OperationsInv, NEW o \in DOMAIN operations, SealOpens(o)
    PROVE  OperationsInv'
<1>1. /\ jobs[o].at = "plain" /\ jobs[o].at \in ActiveSteps
      /\ UNCHANGED <<confirmations, operations, operationFaults>>
      BY DEF SealOpens, ActiveSteps
<1>2. IsExport(o) BY <1>1 DEF OperationsInv, OperationFits, Archives
<1>3. /\ Of(o) \in Name /\ o \in Nat /\ o \in ExportsOf(Of(o))
      /\ backups \in [Name -> [Suffix -> BackupFile]]
      /\ backups[Of(o)] \in [Suffix -> BackupFile]
      /\ \A s \in Suffix : backups[Of(o)][s].by \subseteq ExportsOf(Of(o))
      /\ PlainOutput(o) = ".plain"
      BY <1>1, <1>2, ExportFacts
<1>4. CASE Discards(o) /\ JobAt(o, "failed")
      BY <1>1, <1>2, <1>4, ExportFailsKeeps
<1>5. CASE /\ Puts(o, ".tmp", File(o, Whole(backups[Of(o)][".plain"])))
           /\ JobAt(o, "sealing")
  <2> DEFINE archive == File(o, Whole(backups[Of(o)][".plain"]))
  <2>1. Puts(o, ".tmp", archive) BY <1>5
  <2>2. archive = File(o, TRUE) \/ archive = File(o, FALSE) BY WholeOrNot
  <2>3. ASSUME Progress(o) PROVE archive = WrittenBy(o, {})
    <3>1. backups[Of(o)][".plain"] = WrittenBy(o, {o}) BY <1>1, <2>3 DEF Progress
    <3>2. Whole(backups[Of(o)][".plain"]) BY <3>1, WrittenWhole
    <3>3. Whole(backups[Of(o)][".plain"]) = TRUE BY <3>2, WholeTrue
    <3> QED BY <3>3 DEF File, WrittenBy
  <2> HIDE DEF archive
  <2>4. archive \in BackupFile /\ archive.by = {o}
    <3>1. /\ File(o, TRUE) \in BackupFile /\ File(o, TRUE).by = {o}
          /\ File(o, FALSE) \in BackupFile /\ File(o, FALSE).by = {o}
          BY <1>3 DEF File, BackupFile
    <3> QED BY <2>2, <3>1
  <2>5. {"", ".plain", ".tmp"} \subseteq Suffix BY PlaceFacts
  <2>6. /\ backups'[Of(o)] = [backups[Of(o)] EXCEPT ![".tmp"] = archive]
        /\ backups' = [backups EXCEPT ![Of(o)] = backups'[Of(o)]]
        BY <1>3, <2>1 DEF Puts
  <2>7. /\ backups'[Of(o)] \in [Suffix -> BackupFile]
        /\ backups'[Of(o)][".tmp"] = archive
        /\ \A s \in Suffix : s # ".tmp" => backups'[Of(o)][s] = backups[Of(o)][s]
        BY <1>3, <2>4, <2>5, <2>6
  <2>8. \A s \in Suffix : backups'[Of(o)][s].by \subseteq ExportsOf(Of(o))
        BY <1>3, <2>4, <2>7
  <2>9. /\ backups'[Of(o)][""] = backups[Of(o)][""]
        /\ backups'[Of(o)][".plain"] = backups[Of(o)][".plain"]
        BY <2>5, <2>7
  <2>10. ASSUME Progress(o), jobs'[o].at = "sealing" PROVE Progress(o)'
    <3>1. Of(o)' = Of(o) BY <1>1 DEF Of
    <3> QED BY <1>1, <2>3, <2>7, <2>9, <2>10, <3>1 DEF Progress
  <2>11. "sealing" \in JobSteps \ {"none"} BY DEF JobSteps, ActiveSteps
  <2>12. ASSUME WhenApart(Of(o)), Progress(o), jobs'[o].at = "sealing"
         PROVE  /\ Progress(o)'
                /\ backups'[Of(o)][""] # NoFile => Whole(backups'[Of(o)][""])
         BY <2>9, <2>10, <2>12 DEF WhenApart, Downloadable
  <2>13. Downloadable(Of(o)) => backups'[Of(o)][""] # NoFile BY <2>9 DEF Downloadable
  <2> QED BY <1>1, <1>2, <1>3, <1>5, <2>6, <2>7, <2>8, <2>11, <2>12, <2>13, ExportMoves
<1> QED BY <1>4, <1>5 DEF SealOpens

LEMMA SealEndsKeeps ==
    ASSUME OperationsInv, NEW o \in DOMAIN operations, SealEnds(o)
    PROVE  OperationsInv'
<1>1. /\ jobs[o].at = "sealing" /\ jobs[o].at \in ActiveSteps
      /\ UNCHANGED <<confirmations, operations, operationFaults>>
      BY DEF SealEnds, ActiveSteps
<1>2. IsExport(o) BY <1>1 DEF OperationsInv, OperationFits, Archives
<1>3. /\ Of(o) \in Name /\ o \in Nat /\ o \in ExportsOf(Of(o))
      /\ backups \in [Name -> [Suffix -> BackupFile]]
      /\ backups[Of(o)] \in [Suffix -> BackupFile]
      /\ \A s \in Suffix : backups[Of(o)][s].by \subseteq ExportsOf(Of(o))
      BY <1>1, <1>2, ExportFacts
<1>4. NoFile \in BackupFile /\ NoFile.by = {} BY NoFileTyped DEF NoFile
<1>5. {"", ".plain", ".tmp"} \subseteq Suffix BY PlaceFacts
<1>6. \A at \in {"done", "failed"} : jobs'[o].at = at => Progress(o)' BY DEF Progress
<1>7. CASE /\ backups' = [backups EXCEPT ![Of(o)] =
                 [[@ EXCEPT ![".tmp"] = NoFile] EXCEPT ![".plain"] = NoFile]]
           /\ JobAt(o, "failed")
  <2>1. /\ backups'[Of(o)] = [[backups[Of(o)] EXCEPT ![".tmp"] = NoFile]
                                 EXCEPT ![".plain"] = NoFile]
        /\ backups' = [backups EXCEPT ![Of(o)] = backups'[Of(o)]]
        BY <1>3, <1>7
  <2>2. /\ backups'[Of(o)] \in [Suffix -> BackupFile]
        /\ backups'[Of(o)][".tmp"] = NoFile /\ backups'[Of(o)][".plain"] = NoFile
        /\ \A s \in Suffix : s \notin {".tmp", ".plain"} =>
              backups'[Of(o)][s] = backups[Of(o)][s]
        BY <1>3, <1>4, <1>5, <2>1
  <2>3. \A s \in Suffix : backups'[Of(o)][s].by \subseteq ExportsOf(Of(o))
        BY <1>3, <1>4, <2>2
  <2>4. backups'[Of(o)][""] = backups[Of(o)][""] BY <1>5, <2>2
  <2>5. "failed" \in JobSteps \ {"none"} BY DEF JobSteps
  <2> QED BY <1>1, <1>2, <1>6, <1>7, <2>1, <2>2, <2>3, <2>4, <2>5, ExportMoves
          DEF WhenApart, Downloadable
<1>8. CASE /\ backups' = [backups EXCEPT ![Of(o)] =
                 [[[@ EXCEPT ![".tmp"] = NoFile] EXCEPT ![".plain"] = NoFile]
                     EXCEPT ![""] = [backups[Of(o)][".tmp"] EXCEPT !.ended = @ \cup {o}]]]
           /\ JobAt(o, "done") /\ backups[Of(o)][".tmp"] # NoFile
  <2> DEFINE archive == [backups[Of(o)][".tmp"] EXCEPT !.ended = @ \cup {o}]
  <2>1. backups[Of(o)][".tmp"] \in BackupFile
        /\ backups[Of(o)][".tmp"].by \subseteq ExportsOf(Of(o))
        BY <1>3, <1>5
  <2>2. /\ archive \in BackupFile /\ archive.by = backups[Of(o)][".tmp"].by
        /\ archive.ended = backups[Of(o)][".tmp"].ended \cup {o}
        /\ archive.sound = backups[Of(o)][".tmp"].sound
        BY <1>3, <2>1 DEF BackupFile
  <2>3. backups' = [backups EXCEPT ![Of(o)] =
           [[[@ EXCEPT ![".tmp"] = NoFile] EXCEPT ![".plain"] = NoFile] EXCEPT ![""] = archive]]
        BY <1>8
  <2> HIDE DEF archive
  <2>4. NoFile.ended = {} BY DEF NoFile
  <2>5. archive # NoFile BY <2>2, <2>4
  <2>6. ASSUME Progress(o) PROVE Whole(archive)
    <3>1. backups[Of(o)][".tmp"] = WrittenBy(o, {}) BY <1>1, <2>6 DEF Progress
    <3>2. archive.by = {o} /\ archive.ended = {o} /\ archive.sound = TRUE
          BY <2>2, <3>1 DEF WrittenBy
    <3>3. archive = WrittenBy(o, {o}) BY <2>2, <3>2 DEF WrittenBy, BackupFile
    <3> QED BY <3>3, WrittenWhole
  <2>7. /\ backups'[Of(o)] = [[[backups[Of(o)] EXCEPT ![".tmp"] = NoFile]
                                  EXCEPT ![".plain"] = NoFile] EXCEPT ![""] = archive]
        /\ backups' = [backups EXCEPT ![Of(o)] = backups'[Of(o)]]
        BY <1>3, <2>3
  <2>8. /\ backups'[Of(o)] \in [Suffix -> BackupFile]
        /\ backups'[Of(o)][".tmp"] = NoFile /\ backups'[Of(o)][".plain"] = NoFile
        /\ backups'[Of(o)][""] = archive
        /\ \A s \in Suffix : s \notin {"", ".tmp", ".plain"} =>
              backups'[Of(o)][s] = backups[Of(o)][s]
        BY <1>3, <1>4, <1>5, <2>2, <2>7
  <2>9. \A s \in Suffix : backups'[Of(o)][s].by \subseteq ExportsOf(Of(o))
        BY <1>3, <1>4, <2>1, <2>2, <2>8
  <2>10. "done" \in JobSteps \ {"none"} BY DEF JobSteps
  <2> QED BY <1>1, <1>2, <1>6, <1>8, <2>5, <2>6, <2>7, <2>8, <2>9, <2>10, ExportMoves
<1> QED BY <1>7, <1>8 DEF SealEnds

LEMMA AgentDiesKeeps ==
    ASSUME OperationsInv, OperationsAgentDies
    PROVE  OperationsInv'
<1>1. /\ DOMAIN jobs = DOMAIN operations /\ DOMAIN jobs = 1..Len(jobs)
      /\ \A p \in DOMAIN operations : jobs[p] \in JobRow
      /\ jobs \in Seq(JobRow) /\ Len(jobs) = Len(operations) /\ Len(operations) \in Nat
      BY OperationsFacts, InvTyped DEF OperationsTyped
<1>2. /\ operationFaults' \in Nat /\ operationFaults' > 0
      /\ UNCHANGED <<confirmations, operations, backups, connection>>
      BY InvTyped DEF OperationsAgentDies, OperationFault, OperationsTyped
<1>3. ASSUME NEW p \in DOMAIN operations
      PROVE  /\ jobs'[p] \in JobRow /\ jobs'[p].shared = jobs[p].shared
             /\ jobs'[p].at \in {"none", "done", "failed", "killed"}
             /\ jobs[p].at \in {"none", "done", "failed"} => jobs'[p].at = jobs[p].at
             /\ jobs[p].at \notin {"none", "done", "failed"} => jobs'[p].at = "killed"
  <2>1. CASE jobs[p].at \in {"none", "done", "failed"}
    <3>1. jobs'[p] = jobs[p] BY <1>1, <2>1 DEF OperationsAgentDies
    <3> QED BY <1>1, <2>1, <3>1
  <2>2. CASE jobs[p].at \notin {"none", "done", "failed"}
    <3>1. jobs'[p] = [jobs[p] EXCEPT !.at = "killed"] BY <1>1, <2>2 DEF OperationsAgentDies
    <3>2. jobs[p] \in JobRow BY <1>1
    <3> QED BY <2>2, <3>1, <3>2 DEF JobRow, JobSteps
  <2> QED BY <2>1, <2>2
<1>4. jobs' \in Seq(JobRow) /\ Len(jobs') = Len(operations)
  <2>1. DOMAIN jobs' = 1..Len(operations) /\ \A p \in 1..Len(operations) : jobs'[p] \in JobRow
        BY <1>1, <1>3 DEF OperationsAgentDies
  <2>2. jobs' = [p \in 1..Len(operations) |-> jobs'[p]] BY <1>1 DEF OperationsAgentDies
  <2> QED BY <1>1, <2>1, <2>2
<1>5. OperationsTyped' BY <1>2, <1>4, InvTyped DEF OperationsTyped
<1>6. OwnConfirmations' BY <1>2 DEF OperationsInv, OwnConfirmations
<1>7. PanelLost' BY <1>2 DEF PanelLost
<1>8. SameRequests BY <1>2 DEF SameRequests
<1>9. ASSUME NEW p \in DOMAIN operations PROVE OperationFits(p)'
  <2>1. OperationFits(p) BY DEF OperationsInv
  <2>2. Confirmed(p)' BY <1>2, <2>1 DEF OperationFits, Confirmed
  <2>3. EventsAtEnd(p)' = EventsAtEnd(p) BY <1>8, SameExports
  <2>4. RowTells(p)' BY <1>2, <1>3, <1>7, <2>1, <2>3 DEF OperationFits, RowTells, Told
  <2>5. Archives(p)' BY <1>3, <2>1 DEF OperationFits, Archives
  <2> QED BY <2>2, <2>4, <2>5 DEF OperationFits
<1>10. ASSUME NEW name \in Name PROVE NameFits(name)'
  <2>1. NameFits(name) BY DEF OperationsInv
  <2>2. \A p \in ExportsOf(name) : p \in DOMAIN operations BY DEF ExportsOf
  <2>3. ExportsOf(name)' = ExportsOf(name) BY <1>8, SameExports
  <2>4. Apart(name)' => Apart(name) BY <1>3, <2>2, <2>3 DEF Apart
  <2>5. ASSUME WhenApart(name) PROVE WhenApart(name)'
    <3>1. \A p \in ExportsOf(name) : jobs'[p].at \notin ActiveSteps
          BY <1>3, <2>2 DEF ActiveSteps
    <3>2. \A p \in ExportsOf(name) : Progress(p)' BY <3>1 DEF Progress, ActiveSteps
    <3>3. backups[name][".plain"] # NoFile =>
             \E p \in ExportsOf(name) : jobs'[p].at \in {"plain", "sealing", "killed"}
          BY <1>3, <2>2, <2>5 DEF WhenApart
    <3> QED BY <1>2, <2>3, <2>5, <3>1, <3>2, <3>3 DEF WhenApart, Downloadable
  <2>6. ASSUME NEW p \in ExportsOf(name), jobs'[p].at = "done" PROVE Downloadable(name)
        BY <1>3, <2>1, <2>2, <2>6 DEF NameFits
  <2> QED BY <1>2, <2>1, <2>3, <2>4, <2>5, <2>6 DEF NameFits, Downloadable
<1> QED BY <1>2, <1>5, <1>6, <1>9, <1>10 DEF OperationsInv

-----------------------------------------------------------------------------
LEMMA OperationsInvKept == OperationsInv /\ [OperationsNext]_operationsVars => OperationsInv'
<1> SUFFICES ASSUME OperationsInv, [OperationsNext]_operationsVars PROVE OperationsInv'
    OBVIOUS
<1>1. CASE PanelNext
      BY <1>1, PreviewKeeps, ConfirmKeeps, ConfirmationExpiresKeeps, ExecuteKeeps,
         AgentAnswersKeeps, OperationsPanelDiesKeeps, ConnectionMovesKeeps
         DEF PanelNext, ConnectionMoves
<1>2. CASE AgentNext
      BY <1>2, RunsCommandKeeps, CommandFailsKeeps, TarOpensKeeps, TarEndsKeeps,
         TarMovesKeeps, SealOpensKeeps, SealEndsKeeps, AgentDiesKeeps DEF AgentNext
<1>3. CASE UNCHANGED operationsVars
      BY <1>3, ConnectionMovesKeeps DEF operationsVars
<1> QED BY <1>1, <1>2, <1>3 DEF OperationsNext

LEMMA JournalRead ==
    ASSUME NEW end \in {<<>>, <<"completed">>, <<"failed">>}
    PROVE  /\ Head(<<"started">> \o end) = "started"
           /\ Tail(<<"started">> \o end) = end
<1>1. CASE end = <<>>
  <2>1. <<"started">> \o <<>> = <<"started">> OBVIOUS
  <2>2. Head(<<"started">>) = "started" /\ Tail(<<"started">>) = <<>>
        OBVIOUS
  <2> QED BY <1>1, <2>1, <2>2
<1>2. ASSUME NEW e \in {"completed", "failed"}, end = <<e>>
      PROVE  /\ Head(<<"started">> \o end) = "started"
             /\ Tail(<<"started">> \o end) = end
  <2>1. <<"started">> \o end = <<"started", e>> BY <1>2, JournalTuple
  <2>2. Head(<<"started", e>>) = "started" /\ Tail(<<"started", e>>) = <<e>>
        OBVIOUS
  <2> QED BY <1>2, <2>1, <2>2
<1> QED BY <1>1, <1>2

(* What the journal has of an operation's end.                             *)
ToldEnd(o, end) == IF operations[o].untold THEN <<>> ELSE end

LEMMA InvToldOnce == OperationsInv => ToldOnce
<1> SUFFICES ASSUME OperationsInv PROVE ToldOnce
    OBVIOUS
<1>1. \A o, p \in DOMAIN operations :
         o # p => operations[o].confirmation # operations[p].confirmation
      BY DEF OperationsInv, OwnConfirmations
<1>2. ASSUME NEW o \in DOMAIN operations
      PROVE  /\ confirmations[operations[o].confirmation].request = operations[o].request
             /\ Head(operations[o].events) = "started"
             /\ operations[o].status = "completed" =>
                   jobs[o].at = "done" /\ Tail(operations[o].events) = ToldEnd(o, EventsAtEnd(o))
             /\ operations[o].status = "failed" =>
                   Tail(operations[o].events) = ToldEnd(o, <<"failed">>)
             /\ operations[o].untold => operationFaults > 0
             /\ operations[o].status \in {"queued", "running"} =>
                   /\ Tail(operations[o].events) = <<>>
                   /\ operations[o].waits \/ PanelLost
  <2>1. Confirmed(o) /\ RowTells(o) BY <1>2 DEF OperationsInv, OperationFits
  <2>2. operations[o].status \in {"queued", "running", "completed", "failed"}
        BY OperationsFacts, InvTyped DEF OperationRow
  <2>3. EventsAtEnd(o) \in {<<>>, <<"completed">>} BY DEF EventsAtEnd
  <2>4. Head(<<"started">>) = "started" /\ Tail(<<"started">>) = <<>>
        OBVIOUS
  <2>5. CASE operations[o].status \in {"queued", "running"}
        BY <2>1, <2>4, <2>5 DEF Confirmed, RowTells
  <2>6. ASSUME NEW end \in {<<>>, <<"completed">>, <<"failed">>}, Told(o, end)
        PROVE  /\ Head(operations[o].events) = "started"
               /\ Tail(operations[o].events) = ToldEnd(o, end)
        BY <2>4, <2>6, JournalRead DEF Told, ToldEnd
  <2>7. CASE operations[o].status = "completed"
        BY <2>1, <2>3, <2>6, <2>7 DEF Confirmed, RowTells
  <2>8. CASE operations[o].status = "failed"
        BY <2>1, <2>6, <2>8 DEF Confirmed, RowTells
  <2> QED BY <2>2, <2>5, <2>7, <2>8
<1> QED BY <1>1, <1>2 DEF ToldOnce, ToldEnd, PanelLost

LEMMA InvCompletedIsDone == OperationsInv => CompletedIsDone
<1> SUFFICES ASSUME OperationsInv PROVE CompletedIsDone
    OBVIOUS
<1>1. ToldOnce BY InvToldOnce
<1>2. ASSUME NEW name \in Name, ~ \E o \in ExportsOf(name) : jobs[o].shared
      PROVE  /\ Downloadable(name) => Whole(backups[name][""])
             /\ \A o \in ExportsOf(name) : operations[o].status = "completed" =>
                                              Downloadable(name)
             /\ (\A o \in ExportsOf(name) : jobs[o].at \in {"none", "done", "failed"}) =>
                   backups[name][".plain"] = NoFile
  <2>1. NameFits(name) /\ Apart(name) BY <1>2 DEF OperationsInv, Apart
  <2>2. WhenApart(name) BY <2>1 DEF NameFits
  <2>3. ASSUME NEW o \in ExportsOf(name), operations[o].status = "completed"
        PROVE  Downloadable(name)
    <3>1. jobs[o].at = "done"
          BY <2>3 DEF OperationsInv, OperationFits, RowTells, Told, ExportsOf
    <3> QED BY <2>1, <3>1 DEF NameFits
  <2> QED BY <2>2, <2>3 DEF WhenApart
<1>3. \A name : {o \in DOMAIN operations :
                   /\ operations[o].request.action = "backup.export"
                   /\ operations[o].request.of = name} = ExportsOf(name)
      BY DEF ExportsOf, IsExport, Of
<1> QED BY <1>1, <1>2, <1>3 DEF CompletedIsDone

(* Where confirmations, operations, jobs and the files of backups stand    *)
(* together, for any names, requests and failures.                         *)
THEOREM OperationsCorrect ==
    OperationsInit /\ [][OperationsNext]_operationsVars => []OperationsInv
BY OperationsStart, OperationsInvKept, PTL

(* Every operation is of one confirmation and has one end, what is called  *)
(* completed was done by the agent, and what stands under a backup's name  *)
(* is a whole archive unless two exports of it overlapped.                 *)
THEOREM CompletedDone ==
    OperationsInit /\ [][OperationsNext]_operationsVars => []CompletedIsDone
BY OperationsCorrect, InvCompletedIsDone, PTL

-----------------------------------------------------------------------------
(* Admission.                                                              *)

DomainChar == {"a", "1", "-", "."}

(* A part that could still become a label, for all the agent has read.     *)
CouldBe(s, p) ==
    /\ Size(p) <= MaxLabel
    /\ \A k \in p[1]..p[2] : s[k] \in Alnum \cup {"-"}
    /\ Size(p) > 0 => s[p[1]] # "-"

(* What the loop has read: whole labels and the beginning of one.          *)
Accepts(s) ==
    \A p \in Parts(s, 1, Len(s)) :
       CouldBe(s, p) /\ (p[2] < Len(s) => Label(s, p))

(* The state of the loop says so, and where the last part begins.          *)
Scanned(s, state) ==
    /\ state \in [ok : BOOLEAN, dots : Nat, length : 0..Len(s), last : DomainChar]
    /\ state.length < Len(s) => s[Len(s) - state.length] = "."
    /\ \A k \in (Len(s) - state.length + 1)..Len(s) : s[k] # "."
    /\ s # <<>> => state.last = s[Len(s)]
    /\ state.dots > 0 <=> Dotted(s)
    /\ state.ok <=> Accepts(s)

TextTyped == field \in DOMAIN Alphabet /\ text \in Seq(Alphabet[field])

AdmissionInv == TextTyped /\ (field = "domain" => Scanned(text, scan))

LEMMA Appended ==
    ASSUME NEW T, NEW s \in Seq(T), NEW c \in T
    PROVE  /\ Append(s, c) \in Seq(T) /\ Len(Append(s, c)) = Len(s) + 1
           /\ Len(s) \in Nat
           /\ Append(s, c)[Len(s) + 1] = c
           /\ \A k \in 1..Len(s) : Append(s, c)[k] = s[k]
OBVIOUS

LEMMA PartsOf ==
    ASSUME NEW s, NEW a \in Int, NEW b \in Int, NEW p
    PROVE  p \in Parts(s, a, b) <=>
              \E i \in a..(b + 1), j \in (a - 1)..b :
                 /\ p = <<i, j>>
                 /\ i <= j + 1
                 /\ i = a \/ s[i - 1] = "."
                 /\ j = b \/ s[j + 1] = "."
                 /\ \A k \in i..j : s[k] # "."
<1>1. ASSUME p \in Parts(s, a, b)
      PROVE  \E i \in a..(b + 1), j \in (a - 1)..b :
                 /\ p = <<i, j>>
                 /\ i <= j + 1
                 /\ i = a \/ s[i - 1] = "."
                 /\ j = b \/ s[j + 1] = "."
                 /\ \A k \in i..j : s[k] # "."
  <2>1. p[1] \in a..(b + 1) /\ p[2] \in (a - 1)..b /\ p = <<p[1], p[2]>>
    BY <1>1 DEF Parts
  <2> QED BY <1>1, <2>1 DEF Parts
<1>2. ASSUME NEW i \in a..(b + 1), NEW j \in (a - 1)..b,
                 p = <<i, j>>,
                 i <= j + 1,
                 i = a \/ s[i - 1] = ".",
                 j = b \/ s[j + 1] = ".",
                 \A k \in i..j : s[k] # "."
      PROVE  p \in Parts(s, a, b)
  <2>1. p \in (a..(b + 1)) \X ((a - 1)..b) /\ p[1] = i /\ p[2] = j BY <1>2
  <2> QED BY <1>2, <2>1 DEF Parts
<1> QED BY <1>1, <1>2

(* A dot ends the last part, and an empty one begins.                      *)
LEMMA PartsAfterDot ==
    ASSUME NEW T, NEW s \in Seq(T), "." \in T, NEW p
    PROVE  p \in Parts(Append(s, "."), 1, Len(s) + 1) <=>
              p \in Parts(s, 1, Len(s)) \/ p = <<Len(s) + 2, Len(s) + 1>>
<1> DEFINE n == Len(s)
           t == Append(s, ".")
<1>1. n \in Nat /\ t[n + 1] = "." /\ \A k \in 1..n : t[k] = s[k] BY Appended
<1> HIDE DEF n, t
<1>2. ASSUME p \in Parts(t, 1, n + 1), p # <<n + 2, n + 1>>
      PROVE  p \in Parts(s, 1, n)
  <2>1. PICK i \in 1..(n + 2), j \in 0..(n + 1) :
           /\ p = <<i, j>> /\ i <= j + 1 /\ (i = 1 \/ t[i - 1] = ".")
           /\ j = n + 1 \/ t[j + 1] = "."
           /\ \A k \in i..j : t[k] # "."
    BY <1>1, <1>2, PartsOf
  <2>2. j # n + 1
    <3>1. CASE i <= n + 1 BY <1>1, <2>1, <3>1
    <3>2. CASE i = n + 2 BY <1>1, <1>2, <2>1, <3>2
    <3> QED BY <1>1, <3>1, <3>2
  <2>3. i \in 1..(n + 1) /\ j \in 0..n BY <1>1, <2>1, <2>2
  <2>4. i = 1 \/ s[i - 1] = "." BY <1>1, <2>1, <2>3
  <2>5. j = n \/ s[j + 1] = "." BY <1>1, <2>1, <2>3
  <2>6. \A k \in i..j : s[k] # "." BY <1>1, <2>1, <2>3
  <2> QED BY <1>1, <2>1, <2>3, <2>4, <2>5, <2>6, PartsOf
<1>3. ASSUME p \in Parts(s, 1, n) PROVE p \in Parts(t, 1, n + 1)
  <2>1. PICK i \in 1..(n + 1), j \in 0..n :
           /\ p = <<i, j>> /\ i <= j + 1 /\ (i = 1 \/ s[i - 1] = ".")
           /\ j = n \/ s[j + 1] = "."
           /\ \A k \in i..j : s[k] # "."
    BY <1>1, <1>3, PartsOf
  <2>2. i \in 1..(n + 2) /\ j \in 0..(n + 1) BY <1>1
  <2>3. i = 1 \/ t[i - 1] = "." BY <1>1, <2>1
  <2>4. j = n + 1 \/ t[j + 1] = "." BY <1>1, <2>1
  <2>5. \A k \in i..j : t[k] # "." BY <1>1, <2>1
  <2> QED BY <1>1, <2>1, <2>2, <2>3, <2>4, <2>5, PartsOf
<1>4. <<n + 2, n + 1>> \in Parts(t, 1, n + 1)
  <2>1. n + 2 \in 1..((n + 1) + 1) /\ n + 1 \in (1 - 1)..(n + 1) BY <1>1
  <2>2. t[(n + 2) - 1] = "." /\ n + 2 <= (n + 1) + 1 /\ \A k \in (n + 2)..(n + 1) : t[k] # "."
    BY <1>1
  <2> QED BY <1>1, <2>1, <2>2, PartsOf
<1>5. p \in Parts(t, 1, n + 1) <=> p \in Parts(s, 1, n) \/ p = <<n + 2, n + 1>>
  BY <1>2, <1>3, <1>4
<1> QED BY <1>5 DEF n, t

(* Any other character makes the last part longer.                         *)
LEMMA PartsAfterOther ==
    ASSUME NEW T, NEW s \in Seq(T), NEW c \in T, c # ".", NEW f \in 1..(Len(s) + 1),
           f = 1 \/ s[f - 1] = ".", \A k \in f..Len(s) : s[k] # ".", NEW p
    PROVE  p \in Parts(Append(s, c), 1, Len(s) + 1) <=>
              (p \in Parts(s, 1, Len(s)) /\ p[2] < Len(s)) \/ p = <<f, Len(s) + 1>>
<1> DEFINE n == Len(s)
           t == Append(s, c)
<1>1. n \in Nat /\ t[n + 1] = c /\ \A k \in 1..n : t[k] = s[k] BY Appended
<1>0. f \in 1..(n + 1) /\ (f = 1 \/ s[f - 1] = ".") /\ \A k \in f..n : s[k] # "." OBVIOUS
<1> HIDE DEF n, t
<1>2. ASSUME p \in Parts(t, 1, n + 1)
      PROVE  (p \in Parts(s, 1, n) /\ p[2] < n) \/ p = <<f, n + 1>>
  <2>1. PICK i \in 1..(n + 2), j \in 0..(n + 1) :
           /\ p = <<i, j>> /\ i <= j + 1 /\ (i = 1 \/ t[i - 1] = ".")
           /\ j = n + 1 \/ t[j + 1] = "."
           /\ \A k \in i..j : t[k] # "."
    BY <1>1, <1>2, PartsOf
  <2>2. i # n + 2 BY <1>1, <2>1
  <2>3. CASE j = n + 1
    <3>1. ~ (i < f)
      <4> SUFFICES ASSUME i < f PROVE FALSE OBVIOUS
      <4>1. f # 1 /\ s[f - 1] = "." /\ f - 1 \in i..j /\ f - 1 \in 1..n BY <1>0, <1>1, <2>1, <2>3
      <4> QED BY <1>1, <2>1, <4>1
    <3>2. ~ (f < i)
      <4> SUFFICES ASSUME f < i PROVE FALSE OBVIOUS
      <4>1. i # 1 /\ i - 1 \in f..n /\ i - 1 \in 1..n BY <1>0, <1>1, <2>1, <2>2
      <4> QED BY <1>0, <1>1, <2>1, <4>1
    <3>3. i = f BY <1>0, <1>1, <3>1, <3>2
    <3> QED BY <2>1, <2>3, <3>3
  <2>4. CASE j # n + 1
    <3>1. j # n BY <1>1, <2>1, <2>4
    <3>2. j \in 0..n /\ j < n /\ i \in 1..(n + 1) BY <1>1, <2>1, <2>4, <3>1
    <3>3. i = 1 \/ s[i - 1] = "." BY <1>1, <2>1, <3>2
    <3>4. s[j + 1] = "." BY <1>1, <2>1, <3>2
    <3>5. \A k \in i..j : s[k] # "." BY <1>1, <2>1, <3>2
    <3>6. p \in Parts(s, 1, n) BY <1>1, <2>1, <3>2, <3>3, <3>4, <3>5, PartsOf
    <3> QED BY <2>1, <3>2, <3>6
  <2> QED BY <2>3, <2>4
<1>3. ASSUME p \in Parts(s, 1, n), p[2] < n PROVE p \in Parts(t, 1, n + 1)
  <2>1. PICK i \in 1..(n + 1), j \in 0..n :
           /\ p = <<i, j>> /\ i <= j + 1 /\ (i = 1 \/ s[i - 1] = ".")
           /\ j = n \/ s[j + 1] = "."
           /\ \A k \in i..j : s[k] # "."
    BY <1>1, <1>3, PartsOf
  <2>2. i \in 1..(n + 2) /\ j \in 0..(n + 1) /\ j < n /\ i <= n
    <3>1. j < n BY <1>3, <2>1
    <3> QED BY <1>1, <2>1, <3>1
  <2>3. i = 1 \/ t[i - 1] = "." BY <1>1, <2>1, <2>2
  <2>4. t[j + 1] = "." BY <1>1, <2>1, <2>2
  <2>5. \A k \in i..j : t[k] # "." BY <1>1, <2>1, <2>2
  <2> QED BY <1>1, <2>1, <2>2, <2>3, <2>4, <2>5, PartsOf
<1>4. <<f, n + 1>> \in Parts(t, 1, n + 1)
  <2>1. f \in 1..((n + 1) + 1) /\ n + 1 \in (1 - 1)..(n + 1) /\ f <= (n + 1) + 1 BY <1>0, <1>1
  <2>2. f = 1 \/ t[f - 1] = "." BY <1>0, <1>1
  <2>3. \A k \in f..(n + 1) : t[k] # "."
    <3> TAKE k \in f..(n + 1)
    <3>1. CASE k = n + 1 BY <1>1, <3>1
    <3>2. CASE k # n + 1 BY <1>0, <1>1, <3>2
    <3> QED BY <3>1, <3>2
  <2> QED BY <1>1, <2>1, <2>2, <2>3, PartsOf
<1>5. p \in Parts(t, 1, n + 1) <=> (p \in Parts(s, 1, n) /\ p[2] < n) \/ p = <<f, n + 1>>
  BY <1>2, <1>3, <1>4
<1> QED BY <1>5 DEF n, t

(* The only part that reaches the end is the one the loop is in.           *)
LEMMA LastPart ==
    ASSUME NEW T, NEW s \in Seq(T), NEW f \in 1..(Len(s) + 1),
           f = 1 \/ s[f - 1] = ".", \A k \in f..Len(s) : s[k] # "."
    PROVE  /\ <<f, Len(s)>> \in Parts(s, 1, Len(s))
           /\ \A p \in Parts(s, 1, Len(s)) :
                 /\ p[1] \in 1..(Len(s) + 1) /\ p[2] \in 0..Len(s)
                 /\ p[2] = Len(s) => p = <<f, Len(s)>>
<1> DEFINE n == Len(s)
<1>1. n \in Nat OBVIOUS
<1>0. f \in 1..(n + 1) /\ (f = 1 \/ s[f - 1] = ".") /\ \A k \in f..n : s[k] # "." OBVIOUS
<1> HIDE DEF n
<1>2. <<f, n>> \in Parts(s, 1, n)
  <2>1. n \in (1 - 1)..n /\ f <= n + 1 BY <1>0, <1>1
  <2> QED BY <1>0, <1>1, <2>1, PartsOf
<1>3. ASSUME NEW p \in Parts(s, 1, n)
      PROVE  /\ p[1] \in 1..(n + 1) /\ p[2] \in 0..n
             /\ p[2] = n => p = <<f, n>>
  <2>1. PICK i \in 1..(n + 1), j \in 0..n :
           /\ p = <<i, j>> /\ i <= j + 1 /\ (i = 1 \/ s[i - 1] = ".")
           /\ j = n \/ s[j + 1] = "."
           /\ \A k \in i..j : s[k] # "."
    BY <1>1, PartsOf
  <2>2. ASSUME j = n PROVE i = f
    <3>1. ~ (i < f)
      <4> SUFFICES ASSUME i < f PROVE FALSE OBVIOUS
      <4>1. f # 1 /\ s[f - 1] = "." /\ f - 1 \in i..j BY <1>0, <1>1, <2>1, <2>2
      <4> QED BY <2>1, <4>1
    <3>2. ~ (f < i)
      <4> SUFFICES ASSUME f < i PROVE FALSE OBVIOUS
      <4>1. i # 1 /\ i - 1 \in f..n BY <1>0, <1>1, <2>1
      <4> QED BY <1>0, <2>1, <4>1
    <3> QED BY <1>0, <1>1, <3>1, <3>2
  <2> QED BY <2>1, <2>2
<1>4. /\ <<f, n>> \in Parts(s, 1, n)
      /\ \A p \in Parts(s, 1, n) :
            /\ p[1] \in 1..(n + 1) /\ p[2] \in 0..n
            /\ p[2] = n => p = <<f, n>>
  BY <1>2, <1>3
<1> QED BY <1>4 DEF n

LEMMA SamePart ==
    ASSUME NEW T, NEW s \in Seq(T), NEW c \in T, NEW p,
           p[1] \in 1..(Len(s) + 1), p[2] \in 0..Len(s)
    PROVE  /\ Label(Append(s, c), p) <=> Label(s, p)
           /\ CouldBe(Append(s, c), p) <=> CouldBe(s, p)
<1>1. /\ Len(s) \in Nat /\ Size(p) \in Int
      /\ \A k \in p[1]..p[2] : k \in 1..Len(s)
      /\ \A k \in 1..Len(s) : Append(s, c)[k] = s[k]
      /\ Size(p) > 0 => p[1] \in p[1]..p[2] /\ p[2] \in p[1]..p[2]
      BY Appended DEF Size
<1>2. \A k \in p[1]..p[2] : Append(s, c)[k] = s[k] BY <1>1
<1>3. CASE Size(p) > 0
  <2>1. Append(s, c)[p[1]] = s[p[1]] /\ Append(s, c)[p[2]] = s[p[2]] BY <1>1, <1>2, <1>3
  <2> QED BY <1>2, <2>1 DEF Label, CouldBe
<1>4. CASE ~ (Size(p) > 0)
  <2>1. Size(p) \notin 1..MaxLabel BY <1>1, <1>4, AdmissionAssumption
  <2> QED BY <1>2, <1>4, <2>1 DEF Label, CouldBe
<1> QED BY <1>3, <1>4

LEMMA LabelCouldBe ==
    ASSUME NEW s, NEW p, p[1] \in Int, p[2] \in Int
    PROVE  Label(s, p) <=> CouldBe(s, p) /\ Size(p) > 0 /\ s[p[2]] # "-" /\ s[p[2]] # "."
<1>1. Size(p) \in Int /\ MaxLabel \in Nat BY AdmissionAssumption DEF Size
<1>2. Size(p) > 0 => p[1] \in p[1]..p[2] /\ p[2] \in p[1]..p[2] BY DEF Size
<1>3. "-" \notin Alnum /\ "." \notin Alnum BY DEF Alnum, Digit
<1>4. Label(s, p) => CouldBe(s, p) /\ Size(p) > 0 /\ s[p[2]] # "-" /\ s[p[2]] # "."
  BY <1>1, <1>3 DEF Label, CouldBe
<1>5. ASSUME CouldBe(s, p), Size(p) > 0, s[p[2]] # "-"
      PROVE  Label(s, p)
  <2>1. s[p[1]] \in Alnum \cup {"-"} /\ s[p[2]] \in Alnum \cup {"-"}
    BY <1>2, <1>5 DEF CouldBe
  <2> QED BY <1>1, <1>5, <2>1 DEF Label, CouldBe
<1> QED BY <1>4, <1>5

Start(s, state) == Len(s) - state.length + 1

LEMMA StartOf ==
    ASSUME NEW T, NEW s \in Seq(T), NEW state, Scanned(s, state)
    PROVE  /\ Start(s, state) \in 1..(Len(s) + 1)
           /\ Start(s, state) = 1 \/ s[Start(s, state) - 1] = "."
           /\ \A k \in Start(s, state)..Len(s) : s[k] # "."
           /\ Size(<<Start(s, state), Len(s)>>) = state.length
<1>1. Len(s) \in Nat /\ state.length \in 0..Len(s) BY DEF Scanned
<1>2. Start(s, state) # 1 => s[Start(s, state) - 1] = "."
  <2> SUFFICES ASSUME Start(s, state) # 1 PROVE s[Start(s, state) - 1] = "." OBVIOUS
  <2>1. state.length < Len(s) /\ Start(s, state) - 1 = Len(s) - state.length
    BY <1>1 DEF Start
  <2> QED BY <2>1 DEF Scanned
<1>3. Size(<<Start(s, state), Len(s)>>) = state.length BY <1>1 DEF Size, Start
<1> QED BY <1>1, <1>2, <1>3 DEF Scanned, Start

(* The loop, character by character.                                       *)
LEMMA ScanDot ==
    ASSUME NEW s \in Seq(DomainChar), NEW state, Scanned(s, state)
    PROVE  Scanned(Append(s, "."), Scan(state, "."))
<1> DEFINE T == DomainChar
           n == Len(s)
           t == Append(s, ".")
           f == Start(s, state)
           q == <<f, n>>
           next == Scan(state, ".")
<1>1. /\ t \in Seq(T) /\ n \in Nat /\ Len(t) = n + 1 /\ t[n + 1] = "."
      /\ \A k \in 1..n : t[k] = s[k] /\ s[k] \in T
      BY Appended DEF DomainChar
<1>2. next = [ok |-> state.ok /\ state.length > 0 /\ state.last # "-",
              dots |-> state.dots + 1, length |-> 0, last |-> "."]
      BY DEF Scan
<1>3. /\ f \in 1..(n + 1) /\ (f = 1 \/ s[f - 1] = ".")
      /\ (\A k \in f..n : s[k] # ".") /\ Size(q) = state.length
      BY StartOf
<1>4. /\ q \in Parts(s, 1, n)
      /\ \A p \in Parts(s, 1, n) :
            p[1] \in 1..(n + 1) /\ p[2] \in 0..n /\ (p[2] = n => p = q)
      BY <1>3, LastPart
<1>5. Accepts(t) <=> \A p \in Parts(s, 1, n) : Label(s, p)
  <2>1. \A p : p \in Parts(t, 1, n + 1) <=> p \in Parts(s, 1, n) \/ p = <<n + 2, n + 1>>
    BY PartsAfterDot DEF DomainChar
  <2>2. \A p \in Parts(s, 1, n) :
           /\ p[2] < n + 1 /\ (Label(t, p) <=> Label(s, p))
           /\ CouldBe(t, p) <=> CouldBe(s, p)
    BY <1>1, <1>4, SamePart DEF DomainChar
  <2>3. CouldBe(t, <<n + 2, n + 1>>) /\ ~ (<<n + 2, n + 1>>[2] < n + 1)
    BY <1>1, AdmissionAssumption DEF CouldBe, Size
  <2>4. \A p \in Parts(s, 1, n) : Label(s, p) => CouldBe(s, p)
    <3> TAKE p \in Parts(s, 1, n)
    <3>1. p[1] \in Int /\ p[2] \in Int BY <1>4
    <3> QED BY <3>1, LabelCouldBe
  <2> HIDE DEF t, q, next
  <2> QED BY <1>1, <2>1, <2>2, <2>3, <2>4 DEF Accepts
<1>6. next.ok <=> Accepts(t)
  <2>1. state.ok <=> Accepts(s) BY DEF Scanned
  <2>2. Accepts(s) <=> /\ CouldBe(s, q)
                       /\ \A p \in Parts(s, 1, n) : CouldBe(s, p) /\ (p # q => Label(s, p))
    <3>1. \A p \in Parts(s, 1, n) : p # q <=> p[2] < n
      <4> TAKE p \in Parts(s, 1, n)
      <4>1. p[2] \in 0..n /\ (p[2] = n => p = q) BY <1>4
      <4>2. q[2] = n OBVIOUS
      <4> HIDE DEF q
      <4> QED BY <1>1, <4>1, <4>2
    <3> HIDE DEF q
    <3> QED BY <1>4, <3>1 DEF Accepts
  <2>3. Label(s, q) <=> CouldBe(s, q) /\ state.length > 0 /\ state.last # "-"
    <3>1. f \in Int /\ n \in Int /\ q[1] = f /\ q[2] = n BY <1>1, <1>3
    <3>2. Label(s, q) <=> CouldBe(s, q) /\ Size(q) > 0 /\ s[n] # "-" /\ s[n] # "."
      BY <3>1, LabelCouldBe
    <3>3. state.length > 0 => state.last = s[n] /\ s[n] # "."
      <4> SUFFICES ASSUME state.length > 0 PROVE state.last = s[n] /\ s[n] # "." OBVIOUS
      <4>1. state.length \in 0..n BY DEF Scanned
      <4>2. n \in f..n /\ s # <<>> BY <1>1, <1>3, <4>1 DEF Start
      <4> QED BY <1>3, <4>2 DEF Scanned
    <3> QED BY <1>3, <3>2, <3>3
  <2>4. \A p \in Parts(s, 1, n) : Label(s, p) => CouldBe(s, p)
    <3> TAKE p \in Parts(s, 1, n)
    <3>1. p[1] \in Int /\ p[2] \in Int BY <1>4
    <3> QED BY <3>1, LabelCouldBe
  <2>5. next.ok <=> state.ok /\ state.length > 0 /\ state.last # "-"
    BY DEF Scan
  <2> HIDE DEF t, q, next
  <2> QED BY <1>4, <1>5, <2>1, <2>2, <2>3, <2>4, <2>5
<1>7. next \in [ok : BOOLEAN, dots : Nat, length : 0..Len(t), last : DomainChar]
  <2>1. state.dots \in Nat /\ state.length \in 0..n BY DEF Scanned
  <2>2. PICK b \in BOOLEAN : b = (state.ok /\ state.length > 0 /\ state.last # "-")
    OBVIOUS
  <2>3. next = [ok |-> b, dots |-> state.dots + 1, length |-> 0, last |-> "."]
    BY <2>2 DEF Scan
  <2>4. 0 \in 0..Len(t) /\ state.dots + 1 \in Nat /\ "." \in DomainChar
    BY <1>1, <2>1 DEF DomainChar
  <2> HIDE DEF next, t
  <2> QED BY <2>3, <2>4
<1>8. next.dots > 0 /\ Dotted(t)
  <2>1. state.dots \in Nat BY DEF Scanned
  <2>2. next.dots > 0 BY <1>2, <2>1
  <2>3. n + 1 \in DOMAIN t BY <1>1
  <2> QED BY <1>1, <2>2, <2>3 DEF Dotted
<1>9. next.length = 0 /\ next.last = "." BY <1>2
<1>10. Scanned(t, next)
  <2> HIDE DEF t, next
  <2>1. next.length = 0 /\ Len(t) - 0 + 1 = n + 2 /\ Len(t) - 0 = n + 1 BY <1>1, <1>9
  <2>2. \A k \in (Len(t) - next.length + 1)..Len(t) : t[k] # "." BY <1>1, <2>1
  <2>3. next.length < Len(t) => t[Len(t) - next.length] = "." BY <1>1, <2>1
  <2> QED BY <1>1, <1>6, <1>7, <1>8, <1>9, <2>2, <2>3 DEF Scanned
<1> QED BY <1>10

LEMMA ScanOther ==
    ASSUME NEW s \in Seq(DomainChar), NEW c \in DomainChar, c # ".",
           NEW state, Scanned(s, state)
    PROVE  Scanned(Append(s, c), Scan(state, c))
<1> DEFINE n == Len(s)
           t == Append(s, c)
           f == Start(s, state)
           q == <<f, n>>
           r == <<f, n + 1>>
           next == Scan(state, c)
<1>1. /\ t \in Seq(DomainChar) /\ n \in Nat /\ Len(t) = n + 1 /\ t[n + 1] = c
      /\ \A k \in 1..n : t[k] = s[k] /\ s[k] \in DomainChar
      BY Appended
<1>2. next = [ok |-> /\ state.ok /\ (state.length = 0 => c # "-")
                     /\ c \in Alnum \cup {"-"} /\ state.length < MaxLabel,
              dots |-> state.dots, length |-> state.length + 1, last |-> c]
      BY DEF Scan
<1>3. /\ f \in 1..(n + 1) /\ (f = 1 \/ s[f - 1] = ".")
      /\ (\A k \in f..n : s[k] # ".") /\ Size(q) = state.length
      BY StartOf
<1>4. /\ q \in Parts(s, 1, n)
      /\ \A p \in Parts(s, 1, n) :
            p[1] \in 1..(n + 1) /\ p[2] \in 0..n /\ (p[2] = n => p = q)
      BY <1>3, LastPart
<1>5. \A p \in Parts(s, 1, n) : p # q <=> p[2] < n
  <2> TAKE p \in Parts(s, 1, n)
  <2>1. p[2] \in 0..n /\ (p[2] = n => p = q) BY <1>4
  <2>2. q[2] = n OBVIOUS
  <2> HIDE DEF q
  <2> QED BY <1>1, <2>1, <2>2
<1>6. Accepts(t) <=> /\ CouldBe(t, r)
                     /\ \A p \in Parts(s, 1, n) : p # q => Label(s, p)
  <2>1. \A p : p \in Parts(t, 1, n + 1) <=> (p \in Parts(s, 1, n) /\ p[2] < n) \/ p = r
    <3> TAKE p
    <3>1. f \in 1..(Len(s) + 1) /\ (f = 1 \/ s[f - 1] = ".") /\ \A k \in f..Len(s) : s[k] # "."
      BY <1>3
    <3> HIDE DEF f
    <3> QED BY <3>1, PartsAfterOther
  <2>2. \A p \in Parts(s, 1, n) :
           /\ Label(t, p) <=> Label(s, p)
           /\ CouldBe(t, p) <=> CouldBe(s, p)
    <3> TAKE p \in Parts(s, 1, n)
    <3>1. p[1] \in 1..(Len(s) + 1) /\ p[2] \in 0..Len(s) BY <1>4
    <3> QED BY <3>1, SamePart
  <2>3. r[2] = n + 1 /\ ~ (n + 1 < n + 1) /\ \A p \in Parts(s, 1, n) : p[2] < n => p[2] < n + 1
    BY <1>1, <1>4
  <2>4. \A p \in Parts(s, 1, n) : Label(s, p) => CouldBe(s, p)
    <3> TAKE p \in Parts(s, 1, n)
    <3>1. p[1] \in Int /\ p[2] \in Int BY <1>4
    <3> QED BY <3>1, LabelCouldBe
  <2> HIDE DEF t, q, r
  <2> QED BY <1>1, <1>5, <2>1, <2>2, <2>3, <2>4 DEF Accepts
<1>7. Accepts(s) <=> /\ CouldBe(s, q)
                     /\ \A p \in Parts(s, 1, n) : CouldBe(s, p) /\ (p # q => Label(s, p))
  <2> HIDE DEF q
  <2> QED BY <1>4, <1>5 DEF Accepts
<1>8. CouldBe(t, r) <=> /\ CouldBe(s, q) /\ state.length < MaxLabel
                        /\ c \in Alnum \cup {"-"} /\ (state.length = 0 => c # "-")
  <2>1. state.length \in 0..n /\ f + state.length = n + 1 BY <1>1 DEF Scanned, Start
  <2>2. /\ Size(r) = state.length + 1 /\ Size(q) = state.length
        /\ r[1] = f /\ r[2] = n + 1 /\ q[1] = f /\ q[2] = n
    <3>1. r[1] = f /\ r[2] = n + 1 /\ q[1] = f /\ q[2] = n OBVIOUS
    <3>2. (n + 1) - f + 1 = state.length + 1 /\ n - f + 1 = state.length BY <1>1, <1>3, <2>1
    <3> HIDE DEF f, q, r, n
    <3> QED BY <3>1, <3>2 DEF Size
  <2>3. CouldBe(t, r) <=> /\ state.length + 1 <= MaxLabel
                          /\ \A k \in f..(n + 1) : t[k] \in Alnum \cup {"-"}
                          /\ t[f] # "-"
    <3>1. state.length + 1 > 0 BY <2>1, <1>1
    <3> HIDE DEF t, f, q, r, n
    <3> QED BY <2>2, <3>1 DEF CouldBe
  <2>4. CouldBe(s, q) <=> /\ state.length <= MaxLabel
                          /\ \A k \in f..n : s[k] \in Alnum \cup {"-"}
                          /\ state.length > 0 => s[f] # "-"
    <3> HIDE DEF f, q, n
    <3> QED BY <2>2 DEF CouldBe
  <2>5. (\A k \in f..(n + 1) : t[k] \in Alnum \cup {"-"}) <=>
           c \in Alnum \cup {"-"} /\ \A k \in f..n : s[k] \in Alnum \cup {"-"}
    <3>1. f \in 1..(n + 1) /\ f..n \subseteq 1..n /\ n + 1 \in f..(n + 1) BY <1>1, <1>3
    <3>2. \A k \in f..(n + 1) : k = n + 1 \/ k \in f..n BY <1>1, <1>3
    <3>3. f..n \subseteq f..(n + 1) BY <1>1, <1>3
    <3> HIDE DEF t, f
    <3> QED BY <1>1, <3>1, <3>2, <3>3
  <2>6. t[f] # "-" <=> IF state.length = 0 THEN c # "-" ELSE s[f] # "-"
    <3>1. CASE state.length = 0
      <4>1. f = n + 1 BY <1>1, <1>3, <2>1, <3>1
      <4> QED BY <1>1, <3>1, <4>1
    <3>2. CASE state.length # 0
      <4>1. f \in 1..n BY <1>1, <1>3, <2>1, <3>2
      <4> QED BY <1>1, <3>2, <4>1
    <3> QED BY <3>1, <3>2
  <2>7. /\ state.length + 1 <= MaxLabel <=> state.length < MaxLabel
        /\ state.length < MaxLabel => state.length <= MaxLabel
        /\ state.length > 0 <=> state.length # 0
    BY <1>1, <2>1, AdmissionAssumption
  <2> HIDE DEF t, f, q, r
  <2> QED BY <2>3, <2>4, <2>5, <2>6, <2>7
<1>9. next.ok <=> Accepts(t)
  <2>1. state.ok <=> Accepts(s) BY DEF Scanned
  <2>2. next.ok <=> /\ state.ok /\ (state.length = 0 => c # "-")
                    /\ c \in Alnum \cup {"-"} /\ state.length < MaxLabel
    BY DEF Scan
  <2>3. \A p \in Parts(s, 1, n) : Label(s, p) => CouldBe(s, p)
    <3> TAKE p \in Parts(s, 1, n)
    <3>1. p[1] \in Int /\ p[2] \in Int BY <1>4
    <3> QED BY <3>1, LabelCouldBe
  <2> HIDE DEF t, q, r, next
  <2> QED BY <1>6, <1>7, <1>8, <2>1, <2>2, <2>3
<1>10. next \in [ok : BOOLEAN, dots : Nat, length : 0..Len(t), last : DomainChar]
  <2>1. state.dots \in Nat /\ state.length \in 0..n BY DEF Scanned
  <2>2. PICK b \in BOOLEAN : b = (/\ state.ok /\ (state.length = 0 => c # "-")
                                  /\ c \in Alnum \cup {"-"} /\ state.length < MaxLabel)
    OBVIOUS
  <2>3. next = [ok |-> b, dots |-> state.dots, length |-> state.length + 1, last |-> c]
    BY <2>2 DEF Scan
  <2>4. state.length + 1 \in 0..Len(t) BY <1>1, <2>1
  <2> HIDE DEF next, t
  <2> QED BY <2>1, <2>3, <2>4
<1>11. next.dots > 0 <=> Dotted(t)
  <2>1. next.dots = state.dots BY <1>2
  <2>2. state.dots > 0 <=> Dotted(s) BY DEF Scanned
  <2>3. DOMAIN s = 1..n /\ DOMAIN t = 1..(n + 1) BY <1>1
  <2>4. Dotted(t) <=> Dotted(s)
    <3>1. \A k \in 1..(n + 1) : k = n + 1 \/ k \in 1..n BY <1>1
    <3>2. 1..n \subseteq 1..(n + 1) BY <1>1
    <3> HIDE DEF t
    <3> QED BY <1>1, <2>3, <3>1, <3>2 DEF Dotted
  <2> QED BY <2>1, <2>2, <2>4
<1>12. next.length = state.length + 1 /\ next.last = c BY <1>2
<1>13. Scanned(t, next)
  <2>1. state.length \in 0..n BY DEF Scanned
  <2>2. Len(t) - next.length + 1 = f /\ Len(t) - next.length = n - state.length
        /\ (next.length < Len(t) <=> state.length < n)
    BY <1>1, <1>12, <2>1 DEF Start
  <2>3. state.length < n => s[n - state.length] = "." /\ n - state.length \in 1..n
    BY <1>1, <2>1 DEF Scanned
  <2>4. next.length < Len(t) => t[Len(t) - next.length] = "."
    BY <1>1, <2>2, <2>3
  <2>5. \A k \in (Len(t) - next.length + 1)..Len(t) : t[k] # "."
    <3> TAKE k \in (Len(t) - next.length + 1)..Len(t)
    <3>1. k \in f..(n + 1) BY <1>1, <2>2
    <3>2. CASE k = n + 1 BY <1>1, <3>2
    <3>3. CASE k # n + 1
      <4>1. k \in f..n /\ k \in 1..n BY <1>1, <1>3, <3>1, <3>3
      <4> QED BY <1>1, <1>3, <4>1
    <3> QED BY <3>2, <3>3
  <2> HIDE DEF t, next
  <2> QED BY <1>1, <1>9, <1>10, <1>11, <1>12, <2>4, <2>5 DEF Scanned
<1> QED BY <1>13

(* A domain that has been read to its end: the agent's loop and the regular *)
(* expression of the panel and of the script agree on its parts.            *)
LEMMA ReadToItsEnd ==
    ASSUME NEW s \in Seq(DomainChar), NEW state, Scanned(s, state), s # <<>>,
           s[Len(s)] # "."
    PROVE  Labelled(s) <=> state.ok /\ state.length > 0 /\ s[Len(s)] # "-"
<1> DEFINE n == Len(s)
           f == Start(s, state)
           q == <<f, n>>
<1>1. n \in Nat /\ n >= 1 OBVIOUS
<1>2. /\ f \in 1..(n + 1) /\ (f = 1 \/ s[f - 1] = ".")
      /\ (\A k \in f..n : s[k] # ".") /\ Size(q) = state.length
      BY StartOf
<1>3. /\ q \in Parts(s, 1, n)
      /\ \A p \in Parts(s, 1, n) :
            p[1] \in 1..(n + 1) /\ p[2] \in 0..n /\ (p[2] = n => p = q)
      BY <1>2, LastPart
<1>4. \A p \in Parts(s, 1, n) :
         Label(s, p) <=> CouldBe(s, p) /\ Size(p) > 0 /\ s[p[2]] # "-" /\ s[p[2]] # "."
  <2> TAKE p \in Parts(s, 1, n)
  <2>1. p[1] \in Int /\ p[2] \in Int BY <1>3
  <2> QED BY <2>1, LabelCouldBe
<1>5. q[2] = n OBVIOUS
<1>6. \A p \in Parts(s, 1, n) : p # q => p[2] < n
  <2> TAKE p \in Parts(s, 1, n)
  <2>1. p[2] \in 0..n /\ (p[2] = n => p = q) BY <1>3
  <2> HIDE DEF q
  <2> QED BY <1>1, <2>1
<1>7. state.ok <=> Accepts(s) BY DEF Scanned
<1> HIDE DEF q
<1> QED BY <1>1, <1>2, <1>3, <1>4, <1>5, <1>6, <1>7 DEF Labelled, Accepts

(* A label begins with no dot, and so does what is made of labels.          *)
LEMMA FirstIsNoDot ==
    ASSUME NEW s \in Seq(DomainChar), s # <<>>, Labelled(s)
    PROVE  s[1] # "."
<1> SUFFICES ASSUME s[1] = "." PROVE FALSE OBVIOUS
<1>1. Len(s) \in Nat /\ 1 \in 1..(Len(s) + 1) /\ 0 \in 0..Len(s) OBVIOUS
<1>2. <<1, 0>> \in Parts(s, 1, Len(s)) BY <1>1, PartsOf
<1>3. Size(<<1, 0>>) = 0 BY DEF Size
<1> QED BY <1>2, <1>3 DEF Labelled, Label

LEMMA DomainsAlike ==
    ASSUME NEW s \in Seq(DomainChar), NEW state, Scanned(s, state), s # <<>>
    PROVE  /\ PanelDomain(s) /\ Len(s) >= MinDomain => AgentDomain(s, state)
           /\ AgentDomain(s, state) => PanelDomain(s) /\ ScriptDomain(s)
<1>1. s[Len(s)] # "." => (Labelled(s) <=> state.ok /\ state.length > 0 /\ s[Len(s)] # "-")
  BY ReadToItsEnd
<1>2. state.dots > 0 <=> Dotted(s) BY DEF Scanned
<1>3. Len(s) \in Nat /\ {MaxDomain, MinDomain} \subseteq Nat BY AdmissionAssumption
<1>4. Labelled(s) => s[1] # "." BY FirstIsNoDot
<1>5. PanelDomain(s) /\ Len(s) >= MinDomain => AgentDomain(s, state)
  BY <1>1, <1>2, <1>3, <1>4 DEF PanelDomain, AgentDomain
<1>6. AgentDomain(s, state) => PanelDomain(s) /\ ScriptDomain(s)
  BY <1>1, <1>2, <1>3, <1>4 DEF PanelDomain, AgentDomain, ScriptDomain
<1> QED BY <1>5, <1>6

(* The least of a set of numbers.                                           *)
LEMMA LeastOf ==
    ASSUME NEW S, S \subseteq Nat, S # {}
    PROVE  \E i \in S : \A k \in S : i <= k
<1> DEFINE L == OpToRel(<, Nat)
<1>1. PICK i \in S : \A k \in S : ~ (<<k, i>> \in L)
  BY NatLessThanWellFounded, WFMin
<1>2. \A k \in S : i <= k
  <2> TAKE k \in S
  <2>1. ~ (<<k, i>> \in L)
    <3> HIDE DEF L
    <3> QED BY <1>1
  <2>2. ~ (k < i) BY <2>1 DEF OpToRel
  <2> QED BY <2>2
<1> QED BY <1>2

LEMMA CoreEndOf ==
    ASSUME NEW T, NEW s \in Seq(T)
    PROVE  CoreEnd(s) \in 0..Len(s)
<1> DEFINE S == {k \in DOMAIN s : s[k] = "-"}
<1>1. Len(s) \in Nat /\ DOMAIN s = 1..Len(s) OBVIOUS
<1>2. CASE \A k \in DOMAIN s : s[k] # "-" BY <1>1, <1>2 DEF CoreEnd
<1>3. CASE ~ \A k \in DOMAIN s : s[k] # "-"
  <2>1. S \subseteq Nat /\ S # {} BY <1>1, <1>3
  <2>2. \E i \in S : \A k \in S : i <= k
    <3> HIDE DEF S
    <3> QED BY <2>1, LeastOf
  <2>3. PICK i \in S : \A k \in S : i <= k BY <2>2
  <2>4. i \in DOMAIN s /\ s[i] = "-" /\ \A j \in 1..(i - 1) : s[j] # "-"
    <3>1. i \in DOMAIN s /\ s[i] = "-" BY <2>3
    <3>2. ASSUME NEW j \in 1..(i - 1) PROVE s[j] # "-"
      <4>1. j \in DOMAIN s /\ ~ (i <= j) BY <1>1, <3>1
      <4> QED BY <2>3, <4>1
    <3> QED BY <3>1, <3>2
  <2> DEFINE k == CHOOSE k \in DOMAIN s : s[k] = "-" /\ \A j \in 1..(k - 1) : s[j] # "-"
  <2>5. k \in DOMAIN s BY <2>4
  <2>6. CoreEnd(s) = k - 1 BY <1>3 DEF CoreEnd
  <2> HIDE DEF k
  <2> QED BY <1>1, <2>5, <2>6
<1> QED BY <1>2, <1>3

(* A version that is parsed begins with a digit, and is not empty.          *)
LEMMA ParsedIsSafe ==
    ASSUME NEW T, NEW s \in Seq(T), ParsedVersion(s), Len(s) <= MaxVersion
    PROVE  SafeVersion(s)
<1> DEFINE e == CoreEnd(s)
           S == {j \in 0..e : j = e \/ s[j + 1] = "."}
<1>1. Len(s) \in Nat /\ e \in 0..Len(s) /\ e \in Nat BY CoreEndOf
<1> HIDE DEF e
<1>2. S \subseteq Nat /\ S # {}
  <2>1. e \in S BY <1>1
  <2> QED BY <1>1, <2>1
<1>3. \E j \in S : \A k \in S : j <= k
  <2> HIDE DEF S
  <2> QED BY <1>2, LeastOf
<1>4. PICK j \in S : \A k \in S : j <= k BY <1>3
<1>5. j \in 0..e /\ (j = e \/ s[j + 1] = ".") BY <1>4
<1>6. ASSUME NEW k \in 1..j PROVE s[k] # "."
  <2>1. k - 1 \in 0..e /\ (k - 1) + 1 = k /\ ~ (j <= k - 1) BY <1>1, <1>5
  <2>2. k - 1 \notin S BY <1>4, <2>1
  <2> QED BY <2>1, <2>2
<1>7. <<1, j>> \in Parts(s, 1, e)
  <2>1. 1 \in 1..(e + 1) /\ j \in (1 - 1)..e /\ 1 <= j + 1 BY <1>1, <1>5
  <2> QED BY <1>1, <1>5, <1>6, <2>1, PartsOf
<1>8. Number(s, <<1, j>>) BY <1>7 DEF ParsedVersion, e
<1>9. j > 0 /\ Digits(s, <<1, j>>) BY <1>5, <1>8 DEF Number, Size
<1>10. s[1] \in Digit
  <2>1. 1 \in 1..j BY <1>5, <1>9
  <2> QED BY <1>9, <2>1 DEF Digits
<1>11. Len(s) \in 1..MaxVersion BY <1>1, <1>5, <1>9, AdmissionAssumption
<1> QED BY <1>10, <1>11 DEF SafeVersion

(* A character takes no more UTF-16 units than it takes bytes.              *)
LEMMA PassphrasesAlike ==
    ASSUME NEW T, NEW s \in Seq(T), PanelPassphrase(s)
    PROVE  AgentPassphrase(s) \/ BytesOf(s) > MaxPassphrase
<1>1. \A c : Count(s, c) \in Nat
  <2> TAKE c
  <2>1. Len(s) \in Nat /\ DOMAIN s = 1..Len(s) OBVIOUS
  <2>2. IsFiniteSet(DOMAIN s)
    <3>1. IsFiniteSet(1..Len(s)) BY <2>1, FS_Interval
    <3> QED BY <2>1, <3>1
  <2>3. IsFiniteSet({k \in DOMAIN s : s[k] = c}) BY <2>2, FS_Subset
  <2> QED BY <2>3, FS_CardinalityType DEF Count
<1>2. {MinPassphrase, MaxPassphrase} \subseteq Nat /\ Len(s) \in Nat
  BY AdmissionAssumption
<1> QED BY <1>1, <1>2 DEF PanelPassphrase, AgentPassphrase, UnitsOf, BytesOf

(* Every request of the control plane is one the agent knows.               *)
LEMMA ReadsKnown ==
    ASSUME NEW e \in Engine
    PROVE  /\ \A n \in {1, 30} :
                 Validate(Sent("network.ping", [address |-> "public", count |-> n]))
           /\ Validate(Sent("logs.read", [engine |-> e, connectionId |-> "uuid",
                                          since |-> "an hour ago", limit |-> 25]))
           /\ Validate(Sent("telemetry.read", [engine |-> "amneziawg"]))
<1>1. \A n \in {1, 30} :
         Validate(Sent("network.ping", [address |-> "public", count |-> n]))
  BY DEF Validate, Sent
<1>2. Validate(Sent("logs.read", [engine |-> e, connectionId |-> "uuid",
                                  since |-> "an hour ago", limit |-> 25]))
  <2> DEFINE p == [engine |-> e, connectionId |-> "uuid", since |-> "an hour ago",
                   limit |-> 25]
  <2>1. DOMAIN p = {"engine", "connectionId", "since", "limit"} OBVIOUS
  <2>2. /\ p.engine \in Engine /\ p.connectionId = "uuid" /\ p.since = "an hour ago"
        /\ p.limit \in 1..100
    OBVIOUS
  <2> HIDE DEF p
  <2>3. Validate(Sent("logs.read", p)) BY <2>1, <2>2 DEF Validate, Sent
  <2> QED BY <2>3 DEF p
<1>3. Validate(Sent("telemetry.read", [engine |-> "amneziawg"]))
  BY DEF Validate, Sent, Engine
<1> QED BY <1>1, <1>2, <1>3

LEMMA ServicesKnown ==
    /\ \A s \in Engine \cup {"outpost", "nginx"} :
          Validate(Sent("service.restart", [service |-> s]))
    /\ \A action \in {"service.start", "service.stop"}, s \in Engine :
          Validate(Sent(action, [service |-> s]))
    /\ Validate(Sent("nginx.reload", [none |-> "none"]))
<1>1. \A s \in Engine \cup {"outpost", "nginx"} :
          Validate(Sent("service.restart", [service |-> s]))
  BY DEF Validate, Sent
<1>2. \A action \in {"service.start", "service.stop"}, s \in Engine :
          Validate(Sent(action, [service |-> s]))
  <2> TAKE action \in {"service.start", "service.stop"}, s \in Engine
  <2>1. CASE action = "service.start" BY <2>1 DEF Validate, Sent
  <2>2. CASE action = "service.stop" BY <2>2 DEF Validate, Sent
  <2> QED BY <2>1, <2>2
<1>3. Validate(Sent("nginx.reload", [none |-> "none"])) BY DEF Validate, Sent
<1> QED BY <1>1, <1>2, <1>3

LEMMA ScriptsKnown ==
    /\ Validate(Sent("setup.finalize", [domain |-> "domain", publicIp |-> "IPv4"]))
    /\ Validate(Sent("update.apply", [version |-> "version", operationId |-> "uuid",
                                      bundle |-> "incoming archive of version",
                                      signature |-> "incoming signature of version"]))
    /\ Validate(Sent("backup.export", [output |-> "backups"]))
    /\ Validate(Sent("backup.export", [output |-> "backups", passphrase |-> "passphrase"]))
    /\ Validate(Sent("backup.restore", [archive |-> "incoming age of uuid",
                                        restoreId |-> "uuid",
                                        passphrase |-> "passphrase"]))
    /\ Validate(Sent("backup.restore", [archive |-> "incoming tar of uuid",
                                        restoreId |-> "uuid"]))
<1>1. Validate(Sent("setup.finalize", [domain |-> "domain", publicIp |-> "IPv4"]))
  BY DEF Validate, Sent
<1>2. Validate(Sent("update.apply", [version |-> "version", operationId |-> "uuid",
                                     bundle |-> "incoming archive of version",
                                     signature |-> "incoming signature of version"]))
  BY DEF Validate, Sent
<1>3. Validate(Sent("backup.export", [output |-> "backups"])) BY DEF Validate, Sent
<1>4. Validate(Sent("backup.export", [output |-> "backups", passphrase |-> "passphrase"]))
  BY DEF Validate, Sent
<1>5. Validate(Sent("backup.restore", [archive |-> "incoming age of uuid",
                                       restoreId |-> "uuid",
                                       passphrase |-> "passphrase"]))
  BY DEF Validate, Sent
<1>6. Validate(Sent("backup.restore", [archive |-> "incoming tar of uuid",
                                       restoreId |-> "uuid"]))
  BY DEF Validate, Sent
<1> QED BY <1>1, <1>2, <1>3, <1>4, <1>5, <1>6

LEMMA EnginesKnown ==
    ASSUME NEW e \in Engine
    PROVE  /\ Validate(Sent("engine.update", [engine |-> e, version |-> "version",
                                              checksum |-> "sha256"]))
           /\ Validate(Sent("config.sync", [engine |-> e, source |-> "runtime"]))
           /\ \A r \in BOOLEAN :
                 Validate(Sent("config.apply", [engine |-> e, source |-> "runtime",
                                                target |-> e, restart |-> r]))
           /\ Validate(Sent("xray.user.add", [source |-> "runtime", rendered |-> "runtime"]))
           /\ Validate(Sent("xray.user.revoke", [email |-> "email", rendered |-> "runtime"]))
<1>1. Validate(Sent("engine.update", [engine |-> e, version |-> "version",
                                      checksum |-> "sha256"]))
  BY DEF Validate, Sent
<1>2. Validate(Sent("config.sync", [engine |-> e, source |-> "runtime"]))
  BY DEF Validate, Sent
<1>3. ASSUME NEW r \in BOOLEAN
      PROVE  Validate(Sent("config.apply", [engine |-> e, source |-> "runtime",
                                            target |-> e, restart |-> r]))
  BY DEF Validate, Sent
<1>4. Validate(Sent("xray.user.add", [source |-> "runtime", rendered |-> "runtime"]))
  BY DEF Validate, Sent
<1>5. Validate(Sent("xray.user.revoke", [email |-> "email", rendered |-> "runtime"]))
  BY DEF Validate, Sent
<1> QED BY <1>1, <1>2, <1>3, <1>4, <1>5

LEMMA ServiceKnown ==
    ASSUME NEW sent, sent \in ServiceRequests
    PROVE  Validate(sent)
<1>1. PICK action \in {"service.start", "service.stop"}, s \in Engine :
         sent = Sent(action, [service |-> s])
  BY DEF ServiceRequests
<1> QED BY <1>1, ServicesKnown

LEMMA ApplyKnown ==
    ASSUME NEW sent, sent \in ApplyRequests
    PROVE  Validate(sent)
<1>1. PICK e \in Engine, r \in BOOLEAN :
         sent = Sent("config.apply", [engine |-> e, source |-> "runtime",
                                         target |-> e, restart |-> r])
  BY DEF ApplyRequests
<1> QED BY <1>1, EnginesKnown

LEMMA RequestsKnown ==
    ASSUME NEW sent \in PanelRequests
    PROVE  Validate(sent)
<1>1. /\ \A e \in Engine :
            /\ Validate(Sent("logs.read", [engine |-> e, connectionId |-> "uuid",
                                           since |-> "an hour ago", limit |-> 25]))
            /\ Validate(Sent("engine.update", [engine |-> e, version |-> "version",
                                               checksum |-> "sha256"]))
            /\ Validate(Sent("config.sync", [engine |-> e, source |-> "runtime"]))
            /\ \A r \in BOOLEAN :
                  Validate(Sent("config.apply", [engine |-> e, source |-> "runtime",
                                                 target |-> e, restart |-> r]))
  BY ReadsKnown, EnginesKnown
<1>2. /\ \A n \in {1, 30} :
            Validate(Sent("network.ping", [address |-> "public", count |-> n]))
      /\ Validate(Sent("telemetry.read", [engine |-> "amneziawg"]))
      /\ Validate(Sent("xray.user.add", [source |-> "runtime", rendered |-> "runtime"]))
      /\ Validate(Sent("xray.user.revoke", [email |-> "email", rendered |-> "runtime"]))
  <2>1. "xray" \in Engine BY DEF Engine
  <2> QED BY <2>1, ReadsKnown, EnginesKnown
<1>3. sent \in PingRequests => Validate(sent) BY <1>2 DEF PingRequests
<1>4. sent \in LogRequests => Validate(sent) BY <1>1 DEF LogRequests
<1>5. sent \in RestartRequests => Validate(sent)
  BY ServicesKnown DEF RestartRequests
<1>6. sent \in UpdateRequests => Validate(sent) BY <1>1 DEF UpdateRequests
<1>7. sent \in OwnerRequests => Validate(sent)
  BY ServicesKnown, ScriptsKnown DEF OwnerRequests
<1>8. sent \in SetupRequests => Validate(sent) BY ScriptsKnown DEF SetupRequests
<1>9. sent \in TelemetryRequests => Validate(sent) BY <1>2 DEF TelemetryRequests
<1>10. sent \in SyncRequests => Validate(sent) BY <1>1 DEF SyncRequests
<1>11. sent \in UserRequests => Validate(sent) BY <1>2 DEF UserRequests
<1> QED BY <1>3, <1>4, <1>5, <1>6, <1>7, <1>8, <1>9, <1>10, <1>11,
           ServiceKnown, ApplyKnown DEF PanelRequests

LEMMA AdmissionInitial ==
    ASSUME AdmissionInit
    PROVE  AdmissionInv
<1>1. TextTyped BY DEF AdmissionInit, TextTyped
<1>2. scan = [ok |-> TRUE, dots |-> 0, length |-> 0, last |-> "."] /\ text = <<>>
  BY DEF AdmissionInit, NotScanned
<1>3. Accepts(text)
  <2>1. ASSUME NEW p \in Parts(text, 1, Len(text)) PROVE p = <<1, 0>>
    BY <1>2, PartsOf
  <2>2. CouldBe(text, <<1, 0>>) BY AdmissionAssumption DEF CouldBe, Size
  <2>3. Len(text) = 0 BY <1>2
  <2> QED BY <2>1, <2>2, <2>3 DEF Accepts
<1>4. ~ Dotted(text) BY <1>2 DEF Dotted
<1>5. scan \in [ok : BOOLEAN, dots : Nat, length : 0..Len(text), last : DomainChar]
  BY <1>2 DEF DomainChar
<1>6. Scanned(text, scan) BY <1>2, <1>3, <1>4, <1>5 DEF Scanned
<1> QED BY <1>1, <1>6 DEF AdmissionInv

LEMMA AdmissionStep ==
    ASSUME AdmissionInv, [AdmissionNext]_admissionVars
    PROVE  AdmissionInv'
<1>1. CASE UNCHANGED admissionVars
  BY <1>1 DEF admissionVars, AdmissionInv, TextTyped, Scanned, Accepts
<1>2. CASE AdmissionNext
  <2>1. PICK c \in Alphabet[field] :
           /\ text' = Append(text, c)
           /\ scan' = IF field = "domain" THEN Scan(scan, c) ELSE scan
           /\ field' = field
    BY <1>2 DEF AdmissionNext, Writes
  <2>2. field \in DOMAIN Alphabet /\ text \in Seq(Alphabet[field])
    BY DEF AdmissionInv, TextTyped
  <2>3. TextTyped'
    <3>1. Append(text, c) \in Seq(Alphabet[field]) BY <2>2, Appended
    <3> QED BY <2>1, <2>2, <3>1 DEF TextTyped
  <2>4. ASSUME field = "domain" PROVE Scanned(text', scan')
    <3>1. c \in DomainChar /\ text \in Seq(DomainChar)
      <4>1. Alphabet[field] = DomainChar BY <2>4 DEF Alphabet, DomainChar
      <4> QED BY <2>1, <2>2, <4>1
    <3>2. Scanned(text, scan) BY <2>4 DEF AdmissionInv
    <3>3. Scanned(Append(text, c), Scan(scan, c))
      <4>1. CASE c = "." BY <3>1, <3>2, <4>1, ScanDot
      <4>2. CASE c # "." BY <3>1, <3>2, <4>2, ScanOther
      <4> QED BY <4>1, <4>2
    <3> QED BY <2>1, <2>4, <3>3
  <2>5. (field = "domain" => Scanned(text, scan))' BY <2>1, <2>4 
  <2> QED BY <2>3, <2>5 DEF AdmissionInv
<1> QED BY <1>1, <1>2

LEMMA AdmissionMeans ==
    ASSUME AdmissionInv
    PROVE  AdmittedAlike
<1>1. field \in DOMAIN Alphabet /\ text \in Seq(Alphabet[field])
  BY DEF AdmissionInv, TextTyped
<1>2. ASSUME field = "domain", text # <<>>
      PROVE  /\ PanelDomain(text) /\ Len(text) >= MinDomain => AgentDomain(text, scan)
             /\ AgentDomain(text, scan) => PanelDomain(text) /\ ScriptDomain(text)
  <2>1. text \in Seq(DomainChar)
    <3>1. Alphabet[field] = DomainChar BY <1>2 DEF Alphabet, DomainChar
    <3> QED BY <1>1, <3>1
  <2>2. Scanned(text, scan) BY <1>2 DEF AdmissionInv
  <2> QED BY <1>2, <2>1, <2>2, DomainsAlike
<1>3. ParsedVersion(text) /\ Len(text) <= MaxVersion => SafeVersion(text)
  BY <1>1, ParsedIsSafe
<1>4. PanelPassphrase(text) => AgentPassphrase(text) \/ BytesOf(text) > MaxPassphrase
  BY <1>1, PassphrasesAlike
<1>5. \A sent \in PanelRequests : Validate(sent) BY RequestsKnown
<1> QED BY <1>2, <1>3, <1>4, <1>5 DEF AdmittedAlike

(* For any limits and texts of any length: what the panel admits the agent  *)
(* admits and its script accepts, but for the three exceptions stated, and  *)
(* the agent lets nothing through that its script would refuse.             *)
THEOREM AdmittedByAll == AdmissionSpec => []AdmittedAlike
<1>1. AdmissionInit => AdmissionInv BY AdmissionInitial
<1>2. AdmissionInv /\ [AdmissionNext]_admissionVars => AdmissionInv' BY AdmissionStep
<1>3. AdmissionInv => AdmittedAlike BY AdmissionMeans
<1> QED BY <1>1, <1>2, <1>3, PTL DEF AdmissionSpec
=============================================================================

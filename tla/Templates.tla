------------------------------- MODULE Templates -------------------------------
(***************************************************************************)
(* The template revisions of one engine and the presets they descend from: *)
(* EngineConfigService.apply(), rollback() and reconcilePresets(), the     *)
(* presets Outpost has shipped, and validateTemplate(), which keeps the    *)
(* protected blocks and the system's rules in what the owner writes.       *)
(*                                                                         *)
(* A template is a value of PresetMerge at each path the presets, the      *)
(* validation or the owner care about; merging objects is merging paths.   *)
(* How a revision is installed is in EngineConfig.                         *)
(***************************************************************************)
EXTENDS PresetMerge

CONSTANT MaxTemplates  \* bound: revisions of an engine

ASSUME TemplatesAssumption == {"direct", "block"} \subseteq Tag /\ MaxTemplates \in Nat

VARIABLES
    engine,
    present,      \* engines.has(): a required engine always is
    revisions,    \* engine_configs, the last one active
    report        \* what reconcilePresets() has answered

templateVars == <<engine, present, revisions, report>>

EngineIds == {"hysteria", "xray", "mihomo", "sing-box", "amneziawg"}
RequiredEngines == {"hysteria", "xray"}

(* A block in its place, a value of the owner, the block twice, a setting   *)
(* of the preset.                                                           *)
Placeholder == Value(1)
Own         == Value(2)
Twice       == Value(3)
Shipped     == Value(4)

(* Rules: the one that rejects UDP/443, one of the owner, one of the preset. *)
Rule(n) == [tag |-> "", body |-> n]
Guard   == Rule(1)

Outbound(t, n) == [tag |-> t, body |-> n]
DirectOutbound         == Outbound("direct", 4)
Blackhole      == Outbound("block", 1)

-----------------------------------------------------------------------------
(* The presets. *)

protectedBlocks ==
    [e \in EngineIds |->
        CASE e = "hysteria" -> {"auth", "statsListen", "statsSecret", "cert", "key"}
          [] e = "amneziawg" -> {"server", "peers"}
          [] e = "mihomo" -> {"listeners", "secret"}
          [] e = "sing-box" -> {"inbounds", "services"}
          [] e = "xray" ->
                 {"xhttpUsers", "grpcUsers", "api", "stats", "xhttpPath", "grpcService"}]

(* What a preset ships, and a block in every place that has one.            *)
Preset(e, shipped) ==
    [p \in DOMAIN shipped \cup protectedBlocks[e] |->
        IF p \in DOMAIN shipped THEN shipped[p] ELSE Placeholder]

Since(n, version, value) == IF n >= version THEN value ELSE missing

hysteriaPreset(n) ==
    Preset("hysteria", [rules |-> Since(n, 2, List(<<Guard>>)), masquerade |-> Shipped,
                        speedTest |-> Since(n, 3, Shipped)])

xrayOutbounds(n) == IF n >= 2 THEN <<DirectOutbound, Blackhole>> ELSE <<DirectOutbound>>

xrayPreset(n) ==
    Preset("xray", [log |-> Shipped, outbounds |-> List(xrayOutbounds(n)),
                    rules |-> Since(n, 2, List(<<Guard>>))])

mihomoPreset ==
    Preset("mihomo", [rules |-> List(<<Rule(3), Guard>>), mode |-> Shipped, tun |-> missing])

singBoxPreset(n) ==
    Preset("sing-box", [services |-> Since(n, 2, Placeholder), log |-> Shipped,
                        rules |-> List(<<Rule(3), Guard>>)])

amneziaPreset == Preset("amneziawg", [other |-> missing])

presets(e, n) ==
    CASE e = "hysteria" -> hysteriaPreset(n)
      [] e = "xray" -> xrayPreset(n)
      [] e = "mihomo" -> mihomoPreset
      [] e = "sing-box" -> singBoxPreset(n)
      [] e = "amneziawg" -> amneziaPreset

currentVersion ==
    [e \in EngineIds |->
        CASE e = "hysteria" -> 3 [] e \in {"xray", "sing-box"} -> 2 [] OTHER -> 1]

defaultTemplate(e) == presets(e, currentVersion[e])

Known(e, n) == n \in 1..currentVersion[e]

-----------------------------------------------------------------------------
(* validateTemplate() *)

(* nestedArray(): what is not an array has no item.                         *)
Items(t, p) == Members(t[p].items)

validateTemplate(e, t) ==
    /\ \A p \in protectedBlocks[e] : t[p] = Placeholder
    /\ e # "amneziawg" => Guard \in Items(t, "rules")
    /\ e = "xray" => Blackhole \in Items(t, "outbounds")
    /\ e = "mihomo" => t["mode"] = Shipped /\ t["tun"] = missing
    /\ e = "amneziawg" => t["other"] = missing

-----------------------------------------------------------------------------
(* mergeEnginePreset() *)

(* Mutant of Base: a template is taken to descend from the newest preset.   *)
BaseCurrent(e, n) == defaultTemplate(e)

Base(e, n) == presets(e, n)

(* mergeObject(): every path any of the three has.                          *)
mergeObject(b, u, p) ==
    [template |-> [path \in DOMAIN u |-> mergeValue(b[path], u[path], p[path]).value],
     conflict |-> \E path \in DOMAIN u : mergeValue(b[path], u[path], p[path]).conflict]

mergeEnginePreset(e, t, from) ==
    IF ~Known(e, from) THEN [template |-> t, conflict |-> FALSE, error |-> TRUE]
    ELSE IF from = currentVersion[e] THEN [template |-> t, conflict |-> FALSE, error |-> FALSE]
    ELSE LET merged == mergeObject(Base(e, from), t, defaultTemplate(e))
         IN  [template |-> merged.template, conflict |-> merged.conflict, error |-> FALSE]

-----------------------------------------------------------------------------
Active == revisions[Len(revisions)]

Upgrade(r) == mergeEnginePreset(engine, r.template, r.preset)

(* presetState(), and the status reconcilePresets() reports otherwise.      *)
presetState(r) ==
    IF r.preset = currentVersion[engine] THEN "current"
    ELSE IF r.preset > currentVersion[engine] THEN "newer"
    ELSE IF Upgrade(r).conflict THEN "conflict"
    ELSE IF Upgrade(r).error \/ ~validateTemplate(engine, Upgrade(r).template)
    THEN "invalid" ELSE "available"

(* apply(): preview() has accepted the template and the agent installed it. *)
Applied(t, from) ==
    /\ validateTemplate(engine, t)
    /\ Len(revisions) < MaxTemplates
    /\ revisions' = Append(revisions,
           [template |-> t, preset |-> currentVersion[engine], from |-> from])
    /\ UNCHANGED <<engine, present>>

(* What an owner may write at a path.                                       *)
Editable(p) ==
    IF p \in protectedBlocks[engine] THEN {missing, Placeholder, Own, Twice}
    ELSE IF p = "rules"
    THEN {missing, Own, List(<<>>), List(<<Guard>>), List(<<Rule(2)>>),
          List(<<Guard, Rule(2)>>), List(<<Rule(2), Rule(3), Guard>>)}
    ELSE IF p = "outbounds"
    THEN {missing, List(<<DirectOutbound>>), List(<<DirectOutbound, Blackhole>>),
          List(<<Outbound("block", 2), DirectOutbound>>), List(<<DirectOutbound, Rule(2)>>)}
    ELSE {missing, Own, Shipped}

Edited(t) ==
    UNION {{[t EXCEPT ![p] = v] : v \in Editable(p)} : p \in DOMAIN t}

(* engineState(): the editor shows the active template, or the upgraded one *)
(* it is offered, conflicts as the owner has them.                          *)
engineState ==
    IF revisions = <<>> THEN {defaultTemplate(engine)}
    ELSE {Active.template} \cup
         (IF presetState(Active) \in {"conflict", "invalid", "available"}
          THEN {Upgrade(Active).template} ELSE {})

Apply ==
    /\ \E shown \in engineState : \E t \in Edited(shown) : Applied(t, 0)
    /\ UNCHANGED report

Rollback ==
    /\ \E v \in DOMAIN revisions :
          /\ ~Upgrade(revisions[v]).error /\ ~Upgrade(revisions[v]).conflict
          /\ Applied(Upgrade(revisions[v]).template, v)
    /\ UNCHANGED report

FirstPreset ==
    /\ present /\ revisions = <<>>
    /\ Applied(defaultTemplate(engine), 0)
    /\ report' = "applied"

ReconcilePresets ==
    /\ present /\ revisions # <<>> /\ presetState(Active) = "available"
    /\ Applied(Upgrade(Active).template, Len(revisions))
    /\ report' = "applied"

LeftToTheOwner ==
    /\ \/ ~present /\ report' = "not-installed"
       \/ /\ present /\ revisions # <<>>
          /\ presetState(Active) \in {"conflict", "invalid"}
          /\ report' = presetState(Active)
       \/ /\ present /\ revisions # <<>> /\ Active.preset >= currentVersion[engine]
          /\ report' = "current"
    /\ UNCHANGED <<engine, present, revisions>>

EngineAdded == ~present /\ present' = TRUE /\ UNCHANGED <<engine, revisions, report>>

TemplatesNext ==
    Apply \/ Rollback \/ FirstPreset \/ ReconcilePresets \/ LeftToTheOwner \/ EngineAdded

(* Revisions of earlier releases, of the next one too where the program has *)
(* been put back; their validation asked for less.                          *)
EditedTwice(t) == UNION {Edited(once) : once \in Edited(t)}

Earlier(e) ==
    UNION {{[template |-> t, preset |-> n, from |-> 0] : t \in EditedTwice(presets(e, n))} :
               n \in 1..(currentVersion[e] + 1)}

TemplatesInit ==
    /\ engine \in EngineIds
    /\ present \in BOOLEAN /\ (engine \in RequiredEngines => present)
    /\ revisions \in {<<>>} \cup {<<r>> : r \in Earlier(engine)}
    /\ report = "none"

TemplatesSpec == TemplatesInit /\ [][TemplatesNext]_templateVars

-----------------------------------------------------------------------------
(* Properties. *)

(* Whatever sequence of edits, upgrades and rollbacks has led to it, every  *)
(* revision since the first one has all that protects the server, and one   *)
(* that was made from an earlier revision (an upgrade, a rollback across    *)
(* presets) is that revision rebased: each path the owner had changed as it *)
(* was, each other one as the newest preset has it.                         *)
RevisionsKeepEdits ==
    \A i \in 2..Len(revisions) :
        LET new == revisions[i]
            old == revisions[new.from]
        IN  /\ validateTemplate(engine, new.template)
            /\ new.from # 0 =>
                   \A p \in DOMAIN new.template :
                       Rebased(presets(engine, old.preset)[p], old.template[p],
                               defaultTemplate(engine)[p], new.template[p])

(* After a reconciliation the engine runs on the newest preset, or the      *)
(* owner has been told why not.                                             *)
ReconciledOrReported ==
    report = "applied" => Active.preset = currentVersion[engine]

(* An upgrade never costs the owner an edit nor the server a guard: neither *)
(* where one document is merged, item by item (mergeEnginePreset() and      *)
(* syncYamlDocument()), nor along the revisions of an engine                *)
(* (reconcilePresets(), rollback()).                                        *)
UpgradeKeepsEdits == DocumentKeepsEdits /\ RevisionsKeepEdits /\ ReconciledOrReported
=============================================================================

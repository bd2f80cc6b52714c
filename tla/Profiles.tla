-------------------------------- MODULE Profiles --------------------------------
(***************************************************************************)
(* The order of the routing rules and what the client profiles make of it: *)
(* the draft and the revisions of RouteService, the network settings, and  *)
(* the rules that each renderer of subscriptions.ts writes.                *)
(*                                                                         *)
(* Conditions are unique in the draft, so that a rule is named by its      *)
(* condition; GeoSite categories are the subject of RuleSets.              *)
(***************************************************************************)
EXTENDS Naturals, Sequences, Lists

CONSTANTS UserCondition,   \* conditions of the owner's rules
          MaxEdits,        \* bound: changes of the draft and the settings
          MaxPublished     \* bound: revisions

VARIABLES
    rules,      \* route_drafts ORDER BY position
    published,  \* route_revisions; the last one is active
    network,    \* setting network
    edits

profileVars == <<rules, published, network, edits>>

localNetworks == <<"10.0.0.0/8", "192.168.0.0/16">>
Everything    == "*"

LocalNetwork  == {localNetworks[i] : i \in DOMAIN localNetworks}

(* An owner's rule has a condition of its own (duplicate(), terminal()).    *)
ASSUME ProfilesAssumption ==
    /\ {MaxEdits, MaxPublished} \subseteq Nat
    /\ UserCondition \cap (LocalNetwork \cup {Everything, "ipv6", "quic"}) = {}

Local(rule)    == rule.if \in LocalNetwork
Terminal(rule) == rule.if = Everything

Actions   == {"DIRECT", "PROXY", "BLOCK"}
RuleOf(condition, action, on) == [if |-> condition, action |-> action, on |-> on]

(* What Array.filter() leaves of a list: the elements at these places.      *)
Those(list, places) ==
    LET at == Ascending(places) IN [k \in DOMAIN at |-> list[at[k]]]

Conditions(list) == {list[i].if : i \in DOMAIN list}
RuleFor(condition) == CHOOSE rule \in {rules[i] : i \in DOMAIN rules} : rule.if = condition

-----------------------------------------------------------------------------
(* RouteService *)

Edits(list) ==
    /\ edits < MaxEdits /\ edits' = edits + 1
    /\ rules' = list
    /\ UNCHANGED <<published, network>>

(* add(): behind the local networks, before everything else.                *)
AddRoute(condition, action, on) ==
    /\ condition \notin Conditions(rules)
    /\ LET locals == {i \in DOMAIN rules : Local(rules[i])}
       IN Edits(Those(rules, locals) \o <<RuleOf(condition, action, on)>>
                \o Those(rules, DOMAIN rules \ locals))

(* update() of an owner's rule, perhaps with another condition.             *)
UpdateRoute(i, condition, action, on) ==
    /\ rules[i].if \in UserCondition
    /\ condition = rules[i].if \/ condition \notin Conditions(rules)
    /\ Edits([rules EXCEPT ![i] = RuleOf(condition, action, on)])

(* A protected rule only takes another action; local networks together.     *)
UpdateProtected(i, action) ==
    /\ rules[i].if \notin UserCondition
    /\ Edits([k \in DOMAIN rules |->
                  IF k = i \/ (Local(rules[i]) /\ Local(rules[k]))
                  THEN [rules[k] EXCEPT !.action = action] ELSE rules[k]])

RemoveRoute(i) ==
    /\ rules[i].if \in UserCondition
    /\ Edits(Those(rules, DOMAIN rules \ {i}))

(* A rule takes the last of the positions it is given; one that is not in   *)
(* the list keeps its old position plus 10000.                              *)
Positioned(ids) ==
    LET given  == {i \in DOMAIN ids : \A k \in DOMAIN ids : k > i => ids[k] # ids[i]}
        listed == Those(ids, given)
    IN [k \in DOMAIN listed |-> RuleFor(listed[k])]
       \o Those(rules, {i \in DOMAIN rules :
                           \A k \in DOMAIN ids : ids[k] # rules[i].if})

(* reorder(): as many rules as there are, all of them known -- but perhaps  *)
(* one of them twice.                                                       *)
Reorder(ids) ==
    /\ ids[Len(ids)] = Everything
    /\ \A i \in DOMAIN localNetworks : ids[i] = localNetworks[i]
    /\ Edits(Positioned(ids))

(* publish()                                                                *)
PublishList(list) ==
    /\ Len(published) < MaxPublished
    /\ published' = Append(published, list)
    /\ UNCHANGED <<network, edits>>

ActiveRules == published[Len(published)]

PublishDraft == PublishList(rules) /\ UNCHANGED rules

(* rollback(): published anew, and the draft with it.                       *)
RollbackTo(version) ==
    /\ PublishList(published[version])
    /\ rules' = published[version]

(* discard()                                                                *)
DiscardDraft == Edits(ActiveRules)

(* PATCH /settings                                                          *)
SetNetwork(settings) ==
    /\ edits < MaxEdits /\ edits' = edits + 1
    /\ network' = settings
    /\ UNCHANGED <<rules, published>>

-----------------------------------------------------------------------------
(* The renderers.  A profile is a list of conditions with their targets,    *)
(* the target of what matches none, and the targets it defines.             *)

LineOf(condition, target) == [if |-> condition, to |-> target]

Enabled  == {i \in DOMAIN ActiveRules : ActiveRules[i].on}
Ordinary == Those(ActiveRules, {i \in Enabled : ~Terminal(ActiveRules[i])})
CatchAll == Those(ActiveRules, {i \in Enabled : Terminal(ActiveRules[i])})

Guards(target) ==
    (IF network.ipv6 THEN <<>> ELSE <<LineOf("ipv6", target)>>)
    \o (IF network.blockQuic THEN <<LineOf("quic", target)>> ELSE <<>>)

(* mihomoRule(): PROXY is the group, DIRECT and REJECT are Mihomo's own.    *)
mihomoRule(rule) ==
    LineOf(rule.if, IF rule.action = "BLOCK" THEN "REJECT" ELSE rule.action)

LineByLine(list, line(_)) == [k \in DOMAIN list |-> line(list[k])]

(* What Mihomo does with what no rule matches is Mihomo's own.              *)
mihomo ==
    [lines |-> LineByLine(Ordinary, mihomoRule) \o Guards("REJECT")
               \o LineByLine(CatchAll, mihomoRule),
     final |-> "DIRECT", defined |-> {"PROXY", "DIRECT", "REJECT"}]

(* singBoxRule(), catchAll(): "reject" is an action, not an outbound.       *)
singBoxRule(rule) ==
    LineOf(rule.if, CASE rule.action = "BLOCK"  -> "reject"
                    [] rule.action = "DIRECT" -> "direct"
                    [] rule.action = "PROXY"  -> "proxy")

singBoxFinal ==
    IF CatchAll = <<>> THEN "proxy"
    ELSE CASE CatchAll[1].action = "DIRECT" -> "direct"
           [] CatchAll[1].action = "BLOCK"  -> "block"
           [] CatchAll[1].action = "PROXY"  -> "proxy"

singBox ==
    [lines |-> LineByLine(Ordinary, singBoxRule) \o Guards("reject"),
     final |-> singBoxFinal, defined |-> {"proxy", "direct", "reject"}]

xrayRule(rule) ==
    LineOf(rule.if, CASE rule.action = "PROXY"  -> "proxy"
                    [] rule.action = "DIRECT" -> "direct"
                    [] rule.action = "BLOCK"  -> "block")

(* Mutant of xrayJson: the rule for everything else stays where it is.      *)
xrayInPlace ==
    [lines |-> LineByLine(Those(ActiveRules, Enabled), xrayRule) \o Guards("block"),
     final |-> "proxy", defined |-> {"proxy", "direct", "block"}]

(* What no rule matches leaves through Xray's first outbound.               *)
xrayJson ==
    [lines |-> LineByLine(Ordinary, xrayRule) \o Guards("block")
               \o LineByLine(CatchAll, xrayRule),
     final |-> "proxy", defined |-> {"proxy", "direct", "block"}]

(* incyRoutingProfile(): conditions by action, the IPv6 block among them.   *)
linkGroups ==
    [action \in Actions |->
        {Ordinary[i].if : i \in {k \in DOMAIN Ordinary : Ordinary[k].action = action}}
        \cup (IF action = "BLOCK" /\ ~network.ipv6 THEN {"ipv6"} ELSE {})]

-----------------------------------------------------------------------------
ProfilesInit ==
    /\ rules = [i \in DOMAIN localNetworks |-> RuleOf(localNetworks[i], "DIRECT", TRUE)]
               \o <<RuleOf(Everything, "PROXY", TRUE)>>
    /\ published = <<rules>>
    /\ network = [ipv6 |-> FALSE, blockQuic |-> TRUE]
    /\ edits = 0

ProfilesNext ==
    \/ \E condition \in UserCondition, action \in Actions, on \in BOOLEAN :
          AddRoute(condition, action, on)
    \/ \E i \in DOMAIN rules, condition \in UserCondition, action \in Actions,
          on \in BOOLEAN : UpdateRoute(i, condition, action, on)
    \/ \E i \in DOMAIN rules, action \in Actions : UpdateProtected(i, action)
    \/ \E i \in DOMAIN rules : RemoveRoute(i)
    \/ \E ids \in [DOMAIN rules -> Conditions(rules)] : Reorder(ids)
    \/ PublishDraft
    \/ \E version \in DOMAIN published : RollbackTo(version)
    \/ DiscardDraft
    \/ \E ipv6, blockQuic \in BOOLEAN :
          SetNetwork([ipv6 |-> ipv6, blockQuic |-> blockQuic])

ProfilesSpec == ProfilesInit /\ [][ProfilesNext]_profileVars

-----------------------------------------------------------------------------
(* Properties. *)

(* A destination is the set of conditions that match it.  Two are enough to *)
(* tell which of them comes first.                                          *)
Condition == UserCondition \cup LocalNetwork \cup {"ipv6", "quic"}

Destination == {{}} \cup {{c, d} : c, d \in Condition}

Hits(list, destination) ==
    {k \in DOMAIN list : list[k].if = Everything \/ list[k].if \in destination}

First(hits) == CHOOSE k \in hits : \A j \in hits : k <= j

Chosen(profile, destination) ==
    LET hits == Hits(profile.lines, destination)
    IN IF hits = {} THEN profile.final ELSE profile.lines[First(hits)].to

Meaning(target) ==
    CASE target \in {"REJECT", "reject", "block"} -> "BLOCK"
      [] target \in {"DIRECT", "direct"}          -> "DIRECT"
      [] target \in {"PROXY", "proxy"}            -> "PROXY"

(* What the published rules say of a destination: the first of the owner's  *)
(* rules that are on and match, else the network settings, else the rule    *)
(* for everything else.                                                     *)
Owned == {i \in DOMAIN ActiveRules : ActiveRules[i].on /\ ~Terminal(ActiveRules[i])}

Decision(destination) ==
    LET hits    == Owned \cap Hits(ActiveRules, destination)
        guarded == \/ ~network.ipv6 /\ "ipv6" \in destination
                   \/ network.blockQuic /\ "quic" \in destination
    IN IF hits # {} THEN ActiveRules[First(hits)].action
       ELSE IF guarded THEN "BLOCK"
       ELSE ActiveRules[CHOOSE i \in DOMAIN ActiveRules : Terminal(ActiveRules[i])].action

Agreed ==
    /\ \A profile \in {mihomo, singBox, xrayJson} : \A destination \in Destination :
          Meaning(Chosen(profile, destination)) = Decision(destination)
    /\ \A i \in Owned, action \in Actions :
          ActiveRules[i].if \in linkGroups[action] <=> action = ActiveRules[i].action

(* Whatever has been edited, reordered and rolled back: once rules are      *)
(* published or the settings changed, the three full profiles send every    *)
(* destination where these rules and settings send it, and the groups of    *)
(* the limited profile name every enabled rule under its own action only.   *)
ProfilesAgree ==
    [][<<published, network>>' # <<published, network>> => Agreed']_profileVars

(* catalog.ts promises of the full profiles "All rules and their order are  *)
(* preserved"; at least every target they name must be one they define.     *)
TargetsAreDefined ==
    \A profile \in {mihomo, singBox, xrayJson} :
        /\ profile.final \in profile.defined
        /\ \A i \in DOMAIN profile.lines : profile.lines[i].to \in profile.defined
=============================================================================

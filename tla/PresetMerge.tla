------------------------------ MODULE PresetMerge ------------------------------
(***************************************************************************)
(* The upgrade of a configuration template to the preset of a new version: *)
(* mergeEnginePreset(), which merges the preset the template was made from *)
(* (base), the owner's template (user) and the new preset, and             *)
(* syncYamlDocument(), which turns the owner's YAML document into the      *)
(* result item by item, so that comments and order stay.                   *)
(*                                                                         *)
(* One path of the template is followed: it is missing, a plain value, or  *)
(* an array; an item of an array has a key (tag, name or id) and a body,   *)
(* or a body only.                                                         *)
(***************************************************************************)
EXTENDS Naturals, Sequences, SequencesExt, Lists

CONSTANTS Tag,        \* keys of items
          MaxBody,    \* bound: bodies and plain values 1 .. MaxBody
          MaxItems    \* bound: items of an array

ASSUME PresetMergeAssumption == {MaxBody, MaxItems} \subseteq Nat /\ "" \notin Tag

VARIABLES
    base, user, preset,   \* the value at the path in each template
    merge,                \* the result, and whether it has a conflict
    document,             \* the value at the path in the owner's document
    target,               \* syncYamlArray(): the next index
    phase

mergeVars == <<base, user, preset, merge, document, target, phase>>

Body == 1..MaxBody
Keyed == [tag : Tag, body : Body]
Plain == [tag : {""}, body : Body]

missing     == [kind |-> "missing", value |-> 0, items |-> <<>>]
Value(n)    == [kind |-> "value", value |-> n, items |-> <<>>]
List(items) == [kind |-> "array", value |-> 0, items |-> items]

(* arrayKey(): every item has a key, and no key is there twice.             *)
HasKey(items) ==
    /\ \A i \in DOMAIN items : items[i].tag # ""
    /\ \A i, j \in DOMAIN items : items[i].tag = items[j].tag => i = j

arrayKey(lists) ==
    /\ \A list \in lists : HasKey(list)
    /\ \E list \in lists : list # <<>>

Members(items) == {items[i] : i \in DOMAIN items}

-----------------------------------------------------------------------------
(* mergeValue() *)

Conflicting(b, u, p) == u # b /\ p # b /\ u # p

Resolved(b, u, p) == IF u = b THEN p ELSE u

(* The items at some of the indices, in their order.                        *)
Picked(items, indices) ==
    LET order == Ascending(indices) IN [k \in DOMAIN order |-> items[order[k]]]

(* mergeArray(): what the preset has dropped goes, what it has added comes  *)
(* at the end.                                                              *)
mergeArray(b, u, p) ==
    LET kept == Picked(u, {i \in DOMAIN u : u[i] \in Members(b) => u[i] \in Members(p)})
    IN  kept \o Picked(p, {i \in DOMAIN p :
                              /\ p[i] \notin Members(b) \cup Members(kept)
                              /\ \A j \in 1..(i - 1) : p[j] # p[i]})

(* Body of an item, 0 when no item has the key.                             *)
BodyOf(items, t) ==
    IF \E i \in DOMAIN items : items[i].tag = t
    THEN items[CHOOSE i \in DOMAIN items : items[i].tag = t].body ELSE 0

(* mergeKeyedArray(): the owner's order, then the keys the preset has added. *)
mergeKeyedArray(b, u, p) ==
    LET order == u \o Picked(p, {i \in DOMAIN p : BodyOf(u, p[i].tag) = 0})
        merged(t) == Resolved(BodyOf(b, t), BodyOf(u, t), BodyOf(p, t))
        left  == Picked(order, {i \in DOMAIN order : merged(order[i].tag) # 0})
    IN  [i \in DOMAIN left |-> [tag |-> left[i].tag, body |-> merged(left[i].tag)]]

KeyedConflict(b, u, p) ==
    \E t \in Tag : Conflicting(BodyOf(b, t), BodyOf(u, t), BodyOf(p, t))

Result(value, conflict) == [value |-> value, conflict |-> conflict]

(* Arrays on both sides are merged item by item, also when the base has     *)
(* none; where only the base has nothing the owner's value stands.          *)
mergeValue(b, u, p) ==
    IF ~Conflicting(b, u, p) THEN Result(Resolved(b, u, p), FALSE)
    ELSE IF u.kind = "array" /\ p.kind = "array" /\ b.kind \in {"array", "missing"}
    THEN IF arrayKey({b.items, u.items, p.items})
         THEN Result(List(mergeKeyedArray(b.items, u.items, p.items)),
                     KeyedConflict(b.items, u.items, p.items))
         ELSE Result(List(mergeArray(b.items, u.items, p.items)), FALSE)
    ELSE Result(u, b # missing)

-----------------------------------------------------------------------------
Merge ==
    /\ phase = "merge"
    /\ merge' = mergeValue(base, user, preset)
    /\ phase' = "sync"
    /\ UNCHANGED <<base, user, preset, document, target>>

(* reconcilePresets(): a conflict leaves the template to the owner.         *)
Outcome == IF merge.conflict THEN "conflict" ELSE "applied"

(* A JSON template is written anew, and so is a value that is not an array  *)
(* on both sides.                                                           *)
Replace ==
    /\ phase = "sync" /\ target = 1
    /\ document' = merge.value
    /\ phase' = Outcome
    /\ UNCHANGED <<base, user, preset, merge, target>>

Arranged == document.kind = "array" /\ merge.value.kind = "array"

Identity(item) ==
    IF arrayKey({user.items, merge.value.items}) THEN [tag |-> item.tag, body |-> 0]
    ELSE item

(* syncYamlArray(): the wanted item is found at its index or behind it and  *)
(* moved there, or inserted; its body is written.                           *)
SyncItem ==
    LET items  == document.items
        wanted == merge.value.items[target]
        found  == {i \in DOMAIN items :
                      i >= target /\ Identity(items[i]) = Identity(wanted)}
        without == IF found = {} THEN items
                   ELSE RemoveAt(items, CHOOSE i \in found : \A j \in found : i <= j)
    IN
    /\ phase = "sync" /\ Arranged /\ target <= Len(merge.value.items)
    /\ document' = List(InsertAt(without, target, wanted))
    /\ target' = target + 1
    /\ UNCHANGED <<base, user, preset, merge, phase>>

Truncated(items, n) == SubSeq(items, 1, n)

SyncEnds ==
    /\ phase = "sync" /\ Arranged /\ target > Len(merge.value.items)
    /\ document' = List(Truncated(document.items, Len(merge.value.items)))
    /\ phase' = Outcome
    /\ UNCHANGED <<base, user, preset, merge, target>>

-----------------------------------------------------------------------------
Presets == {missing} \cup {Value(n) : n \in Body}
           \cup {List(s) : s \in {s \in BoundedSeq(Keyed, MaxItems) : HasKey(s)}}
           \cup {List(s) : s \in BoundedSeq(Plain, MaxItems)}
Templates == Presets \cup {List(s) : s \in BoundedSeq(Keyed \cup Plain, MaxItems)}

PresetMergeTypeOK ==
    /\ {base, preset} \subseteq Presets /\ user \in Templates
    /\ merge.value.kind \in {"missing", "value", "array"} /\ merge.conflict \in BOOLEAN
    /\ document.kind \in {"missing", "value", "array"}
    /\ target \in Nat /\ phase \in {"merge", "sync", "conflict", "applied"}

(* reconcilePresets() and the rollback to an earlier revision merge whatever *)
(* the owner has made of a template.                                        *)
PresetMergeInit ==
    /\ base \in Presets /\ preset \in Presets /\ user \in Templates
    /\ merge = Result(missing, FALSE)
    /\ document = user /\ target = 1 /\ phase = "merge"

PresetMergeNext == Merge \/ Replace \/ SyncItem \/ SyncEnds

PresetMergeSpec == PresetMergeInit /\ [][PresetMergeNext]_mergeVars

-----------------------------------------------------------------------------
(* Properties. *)

(* Where keys identify the items, a fact is a key with its body, otherwise  *)
(* an item or a value: what the owner changed of it stays, and what the     *)
(* owner left alone follows the preset.                                     *)
Follows(b, u, p, d) == (u # b => d = u) /\ (u = b => d = p)

ThreeWay(b, u, p, d) ==
    IF arrayKey({b, u, p})
    THEN \A t \in Tag :
             Follows(BodyOf(b, t), BodyOf(u, t), BodyOf(p, t), BodyOf(d, t))
    ELSE \A x \in UNION {Members(items) : items \in {b, u, p, d}} :
             Follows(x \in Members(b), x \in Members(u), x \in Members(p), x \in Members(d))

Rebased(b, u, p, d) ==
    IF Conflicting(b, u, p) /\ b.kind # "value" /\ {u.kind, p.kind} = {"array"}
    THEN d.kind = "array" /\ ThreeWay(b.items, u.items, p.items, d.items)
    ELSE Follows(b, u, p, d)

(* The document that has been synchronised, item by item, is the three-way  *)
(* merge of what the owner and the new preset have changed: no edit is      *)
(* lost, nothing that was deleted comes back, every change of the preset    *)
(* arrives, and no item is left over or doubled.                            *)
DocumentKeepsEdits ==
    phase \in {"conflict", "applied"} =>
        document = merge.value /\ Rebased(base, user, preset, document)
=============================================================================

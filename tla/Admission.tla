-------------------------------- MODULE Admission --------------------------------
(***************************************************************************)
(* What the root agent admits (policy.go), beside what the control plane   *)
(* lets through to it and what the scripts it runs accept.  Each of the    *)
(* three checks domains and versions with code of its own, in its own      *)
(* language, and one that is stricter than the one before it turns a       *)
(* request that has been accepted into a failure.                          *)
(*                                                                         *)
(* A text is written one character at a time, and checked by all of them   *)
(* at every length up to a bound; the limits of the code are scaled to it. *)
(* The agent's loop over the characters goes along with the writing, and   *)
(* what is split is the set of the places of its parts.                    *)
(***************************************************************************)
EXTENDS Integers, Sequences, FiniteSets

CONSTANTS MaxLabel,     \* 63: characters in a label of a domain
          MaxDomain,    \* 253: characters in a domain
          MinDomain,    \* 4: the agent's shortest domain
          MaxVersion,   \* 40: characters in a version
          MinPassphrase, MaxPassphrase,   \* 12 and 200
          MaxText       \* bound: characters of a text

ASSUME AdmissionAssumption ==
    /\ {MaxLabel, MaxDomain, MinDomain, MaxVersion, MaxText} \subseteq Nat \ {0}
    /\ {MinPassphrase, MaxPassphrase} \subseteq Nat \ {0}

VARIABLES
    field,   \* what is being written: a domain, a version or a passphrase
    text,    \* its characters so far
    scan     \* the loop of policy.go's validDomain() after these

admissionVars == <<field, text, scan>>

Digit == {"0", "1"}
Alnum == Digit \cup {"a"}

(* String.split("."): the places of the parts of s[from..to]; a part may be *)
(* empty.                                                                   *)
Parts(s, from, to) ==
    {p \in (from..(to + 1)) \X ((from - 1)..to) :
        /\ p[1] <= p[2] + 1
        /\ p[1] = from \/ s[p[1] - 1] = "."
        /\ p[2] = to \/ s[p[2] + 1] = "."
        /\ \A k \in p[1]..p[2] : s[k] # "."}

Size(p) == p[2] - p[1] + 1

Digits(s, p) == \A k \in p[1]..p[2] : s[k] \in Digit

(* Both sides' validIPv4(); no number of these digits is above 255.         *)
IPv4(s) ==
    LET parts == Parts(s, 1, Len(s))
    IN /\ Cardinality(parts) = 4
       /\ \A p \in parts : Size(p) \in 1..3 /\ Digits(s, p)

-----------------------------------------------------------------------------
(* Domains                                                                  *)

(* ^[a-z0-9](?:[a-z0-9-]{0,61}[a-z0-9])?$, in setup.ts and in the scripts.  *)
Label(s, p) ==
    /\ Size(p) \in 1..MaxLabel
    /\ {s[p[1]], s[p[2]]} \subseteq Alnum
    /\ \A k \in p[1]..p[2] : s[k] \in Alnum \cup {"-"}

Labelled(s) == \A p \in Parts(s, 1, Len(s)) : Label(s, p)

Dotted(s) == \E k \in DOMAIN s : s[k] = "."

(* A letter after the last dot.                                             *)
Lettered(s) == \E k \in DOMAIN s : s[k] = "a" /\ \A j \in k..Len(s) : s[j] # "."

(* validDomain() of setup.ts, with the schema around it.                    *)
PanelDomain(s) ==
    /\ Len(s) <= MaxDomain
    /\ Dotted(s) /\ s[Len(s)] # "." /\ ~ IPv4(s)
    /\ Lettered(s) /\ Labelled(s)

(* finalize-domain; it is not given an address for a domain.                *)
ScriptDomain(s) == Dotted(s) /\ Labelled(s) /\ Lettered(s)

(* Mutant of Scan: what stands before a dot is not looked at.               *)
ScanLabels(state, c) ==
    [ok     |-> /\ state.ok /\ (c = "." => state.length > 0)
                /\ (state.length = 0 => c # "-") /\ state.length <= MaxLabel,
     dots   |-> state.dots + (IF c = "." THEN 1 ELSE 0),
     length |-> IF c = "." THEN 0 ELSE state.length + 1, last |-> c]

(* One character of validDomain() of policy.go.                             *)
Scan(state, c) ==
    CASE c = "." ->
            [ok |-> state.ok /\ state.length > 0 /\ state.last # "-",
             dots |-> state.dots + 1, length |-> 0, last |-> c]
      [] c # "." ->
            [ok |-> /\ state.ok /\ (state.length = 0 => c # "-")
                    /\ c \in Alnum \cup {"-"} /\ state.length < MaxLabel,
             dots |-> state.dots, length |-> state.length + 1, last |-> c]

NotScanned == [ok |-> TRUE, dots |-> 0, length |-> 0, last |-> "."]

AgentDomain(s, end) ==
    /\ Len(s) \in MinDomain..MaxDomain
    /\ s[1] # "." /\ s[Len(s)] # "." /\ ~ IPv4(s)
    /\ end.ok /\ end.dots > 0 /\ end.length > 0 /\ s[Len(s)] # "-"
    /\ Lettered(s)

-----------------------------------------------------------------------------
(* Versions                                                                 *)

(* ^[0-9][0-9A-Za-z.-]{0,39}$ of operations.ts and the scripts, and         *)
(* safeVersion() of policy.go.                                              *)
SafeVersion(s) == Len(s) \in 1..MaxVersion /\ s[1] \in Digit

Number(s, p) ==
    Size(p) > 0 /\ Digits(s, p) /\ (Size(p) > 1 => s[p[1]] # "0")

(* Where the numbers end: before the first hyphen.                          *)
CoreEnd(s) ==
    IF \A k \in DOMAIN s : s[k] # "-" THEN Len(s)
    ELSE (CHOOSE k \in DOMAIN s : s[k] = "-" /\ \A j \in 1..(k - 1) : s[j] # "-") - 1

(* parseVersion() of releases.ts: three numbers, and after the first hyphen *)
(* identifiers; a number among them has no leading zero.                    *)
ParsedVersion(s) ==
    LET core == Parts(s, 1, CoreEnd(s))
        rest == Parts(s, CoreEnd(s) + 2, Len(s))
    IN /\ Cardinality(core) = 3 /\ \A p \in core : Number(s, p)
       /\ CoreEnd(s) < Len(s) =>
             \A p \in rest : Size(p) > 0 /\ (Digits(s, p) => Number(s, p))

-----------------------------------------------------------------------------
(* Passphrases: of a Latin letter, a Cyrillic one and an emoji.             *)

Count(s, c) == Cardinality({k \in DOMAIN s : s[k] = c})

(* A character is one UTF-16 unit, an emoji two; in UTF-8 they are of one,  *)
(* two and four bytes.                                                      *)
UnitsOf(s) == Len(s) + Count(s, "emoji")
BytesOf(s) == Len(s) + Count(s, "cyrillic") + 3 * Count(s, "emoji")

PanelPassphrase(s) == UnitsOf(s) \in MinPassphrase..MaxPassphrase
AgentPassphrase(s) == BytesOf(s) \in MinPassphrase..MaxPassphrase

-----------------------------------------------------------------------------
(* The requests of the control plane, with the kind of value each field     *)
(* has, and policy.Validate().                                              *)

Engine == {"xray", "hysteria", "amneziawg"}

Sent(action, payload) == [action |-> action, payload |-> payload]

(* diagnostics.ts and connection-diagnostics.ts.                            *)
PingRequests ==
    {Sent("network.ping", [address |-> "public", count |-> n]) : n \in {1, 30}}

LogRequests ==
    {Sent("logs.read", [engine |-> e, connectionId |-> "uuid",
                        since |-> "an hour ago", limit |-> 25]) : e \in Engine}

(* What the owner confirms: operations.ts.                                  *)
RestartRequests ==
    {Sent("service.restart", [service |-> s]) : s \in Engine \cup {"outpost", "nginx"}}

ServiceRequests ==
    {Sent(action, [service |-> s]) :
        action \in {"service.start", "service.stop"}, s \in Engine}

UpdateRequests ==
    {Sent("engine.update", [engine |-> e, version |-> "version",
                            checksum |-> "sha256"]) : e \in Engine}

OwnerRequests ==
    {Sent("nginx.reload", [none |-> "none"]),
     Sent("update.apply", [version |-> "version", operationId |-> "uuid",
                           bundle |-> "incoming archive of version",
                           signature |-> "incoming signature of version"]),
     Sent("backup.export", [output |-> "backups"]),
     Sent("backup.export", [output |-> "backups", passphrase |-> "passphrase"])}

(* setup.ts.                                                                *)
SetupRequests ==
    {Sent("setup.finalize", [domain |-> "domain", publicIp |-> "IPv4"]),
     Sent("backup.restore", [archive |-> "incoming age of uuid", restoreId |-> "uuid",
                             passphrase |-> "passphrase"]),
     Sent("backup.restore", [archive |-> "incoming tar of uuid", restoreId |-> "uuid"])}

(* The services themselves: traffic-collectors.ts, engine-runtime.ts and    *)
(* engines.ts.                                                              *)
TelemetryRequests == {Sent("telemetry.read", [engine |-> "amneziawg"])}

SyncRequests ==
    {Sent("config.sync", [engine |-> e, source |-> "runtime"]) : e \in Engine}

ApplyRequests ==
    {Sent("config.apply", [engine |-> e, source |-> "runtime", target |-> e,
                           restart |-> r]) : e \in Engine, r \in BOOLEAN}

UserRequests ==
    {Sent("xray.user.add", [source |-> "runtime", rendered |-> "runtime"]),
     Sent("xray.user.revoke", [email |-> "email", rendered |-> "runtime"])}

PanelRequests ==
    PingRequests \cup LogRequests \cup RestartRequests \cup ServiceRequests
    \cup UpdateRequests \cup OwnerRequests \cup SetupRequests \cup TelemetryRequests
    \cup SyncRequests \cup ApplyRequests \cup UserRequests

Validate(request) ==
    LET p       == request.payload
        has(f)  == f \in DOMAIN p
        is(f, v) == has(f) /\ p[f] = v
        engine  == has("engine") /\ p.engine \in Engine
        only(fields) == DOMAIN p = fields
    IN CASE request.action = "network.ping" ->
              is("address", "public") /\ p.count \in 1..30 /\ only({"address", "count"})
         [] request.action = "logs.read" ->
              /\ engine /\ is("connectionId", "uuid") /\ is("since", "an hour ago")
              /\ p.limit \in 1..100 /\ only({"engine", "connectionId", "since", "limit"})
         [] request.action = "telemetry.read" -> is("engine", "amneziawg") /\ only({"engine"})
         [] request.action = "service.restart" ->
              has("service") /\ p.service \in Engine \cup {"outpost", "nginx"}
         [] request.action \in {"service.start", "service.stop"} ->
              has("service") /\ p.service \in Engine
         [] request.action = "nginx.reload" -> TRUE
         [] request.action = "setup.finalize" -> is("domain", "domain") /\ is("publicIp", "IPv4")
         [] request.action = "engine.update" ->
              engine /\ is("version", "version") /\ is("checksum", "sha256")
         [] request.action = "update.apply" ->
              /\ is("version", "version") /\ is("operationId", "uuid")
              /\ is("bundle", "incoming archive of version")
              /\ is("signature", "incoming signature of version")
         [] request.action = "backup.export" ->
              is("output", "backups") /\ (has("passphrase") => is("passphrase", "passphrase"))
         [] request.action = "backup.restore" ->
              /\ is("restoreId", "uuid")
              /\ \/ is("archive", "incoming age of uuid") /\ is("passphrase", "passphrase")
                 \/ is("archive", "incoming tar of uuid") /\ ~ has("passphrase")
         [] request.action = "config.sync" -> engine /\ is("source", "runtime")
         [] request.action = "config.apply" ->
              /\ engine /\ is("source", "runtime") /\ is("target", p.engine)
              /\ has("restart") => p.restart \in BOOLEAN
         [] request.action = "xray.user.add" -> is("source", "runtime") /\ is("rendered", "runtime")
         [] request.action = "xray.user.revoke" -> is("email", "email") /\ is("rendered", "runtime")

-----------------------------------------------------------------------------
Alphabet ==
    [domain |-> {"a", "1", "-", "."}, version |-> {"a", "0", "1", "-", "."},
     passphrase |-> {"latin", "cyrillic", "emoji"}]

AdmissionInit == field \in DOMAIN Alphabet /\ text = <<>> /\ scan = NotScanned

Writes ==
    /\ Len(text) < MaxText
    /\ \E c \in Alphabet[field] :
          /\ text' = Append(text, c)
          /\ scan' = IF field = "domain" THEN Scan(scan, c) ELSE scan
    /\ UNCHANGED field

AdmissionNext == Writes

AdmissionSpec == AdmissionInit /\ [][AdmissionNext]_admissionVars

(* What the control plane accepts, the agent admits and its script accepts, *)
(* whatever the text, and every request is one the agent knows.  Three are  *)
(* refused after all: a domain of three characters, an application's        *)
(* version longer than the agent's limit, and a passphrase that is within   *)
(* the limit in characters but not in bytes.  The agent lets nothing        *)
(* through that its script would refuse (validDomain, parseVersion,         *)
(* safeVersion, Validate, finalize-domain).                                 *)
AdmittedAlike ==
    /\ field = "domain" /\ text # <<>> =>
          /\ PanelDomain(text) /\ Len(text) >= MinDomain => AgentDomain(text, scan)
          /\ AgentDomain(text, scan) => PanelDomain(text) /\ ScriptDomain(text)
    /\ field = "version" /\ ParsedVersion(text) /\ Len(text) <= MaxVersion =>
          SafeVersion(text)
    /\ field = "passphrase" /\ PanelPassphrase(text) =>
          AgentPassphrase(text) \/ BytesOf(text) > MaxPassphrase
    /\ field = "passphrase" /\ text = <<>> =>
          \A request \in PanelRequests : Validate(request)
=============================================================================

-------------------------- MODULE ConnectionMethods --------------------------
(***************************************************************************)
(* The connection methods of ConnectionMethodService; the listeners that   *)
(* renderEngine() makes of them and the ports runtimePorts() opens for     *)
(* those; and what the catalog and the client profiles offer of them.      *)
(*                                                                         *)
(* Every change is one that was applied: what a failed publication leaves  *)
(* is the subject of EngineConfig. Names are compared as the code does,    *)
(* without case, and a default's name is its protocol. Somebody has an     *)
(* active credential, without which no engine listens at all.              *)
(***************************************************************************)
EXTENDS Integers, FiniteSets, Sequences, TLC

CONSTANTS MethodName,    \* names the owner tries
          MethodPort,    \* ports the owner tries
          FirstExtras,   \* sets of optional engines there at the migration
          MaxMethodEdits \* bound: changes of methods and engines

VARIABLES
    methodSetting, \* setting connection_methods
    enginesHere,   \* EngineInventory.installed()
    methodEdits

methodVars == <<methodSetting, enginesHere, methodEdits>>

engineIds == <<"hysteria", "xray", "mihomo", "sing-box", "amneziawg">>
Engines == {engineIds[i] : i \in DOMAIN engineIds}
requiredEngineIds == {"hysteria", "xray"}

(* A name has at least one character.                                       *)
NoName == ""

ASSUME MethodsAssumption ==
    /\ NoName \notin MethodName /\ MethodPort \subseteq Nat
    /\ FirstExtras \subseteq SUBSET Engines /\ MaxMethodEdits \in Nat

engineCapabilities(e) ==
    CASE e = "hysteria"  -> {"hysteria2"}
      [] e = "xray"      -> {"xhttp", "grpc"}
      [] e = "mihomo"    -> {"hysteria2", "xhttp", "grpc", "anytls", "trusttunnel"}
      [] e = "sing-box"  -> {"hysteria2", "grpc", "anytls", "naive"}
      [] e = "amneziawg" -> {"amneziawg"}

(* The protocols engines.json gives an engine, in its order.                *)
DefaultProtocols(e) ==
    CASE e = "hysteria"  -> <<"hysteria2">>
      [] e = "xray"      -> <<"xhttp", "grpc">>
      [] e = "mihomo"    -> <<"anytls", "trusttunnel">>
      [] e = "sing-box"  -> <<"naive">>
      [] e = "amneziawg" -> <<"amneziawg">>

protocolPort ==
    [hysteria2 |-> 443, xhttp |-> 443, grpc |-> 443, anytls |-> 1443,
     trusttunnel |-> 2443, naive |-> 3443, amneziawg |-> 51820]

Protocols == DOMAIN protocolPort

Network(p) == IF p \in {"hysteria2", "amneziawg"} THEN "udp" ELSE "tcp"

(* The local APIs of the engines; AmneziaWG has none.                       *)
engineApi(e) ==
    CASE e = "hysteria" -> 9999
      [] e = "xray"     -> 10085
      [] e = "mihomo"   -> 9097
      [] e = "sing-box" -> 10086

WithApi == Engines \ {"amneziawg"}

reservedPorts == {8181, 8443, 10000, 10001} \cup {engineApi(e) : e \in WithApi}

(* Paths: of the managed edge, and one of the owner's. The first character *)
(* tells an XHTTP path from a gRPC service; other protocols have none.     *)
NoPath    == ""
XhttpPath == {"/edge", "/own"}
GrpcPath  == {"edge"}
paths == [p \in Protocols |-> CASE p = "xhttp" -> "/edge" [] p = "grpc" -> "edge" [] OTHER -> NoPath]

singletonEngine(e) == e \in {"hysteria", "amneziawg"}
managedEdge(e)     == e = "xray"

Defaults(e) == {DefaultProtocols(e)[k] : k \in DOMAIN DefaultProtocols(e)}

EngineIndex(e) == CHOOSE i \in 0..4 : engineIds[i + 1] = e

methodSettings(e, p) ==
    [port |-> IF managedEdge(e) THEN 443
              ELSE protocolPort[p] + (IF p \in Defaults(e) THEN 0
                                      ELSE 1000 * EngineIndex(e)),
     path |-> paths[p]]

(* n is 0 for the id of a default and the rest of a UUID.                   *)
MethodOf(e, p, n, name, on, settings) ==
    [engine |-> e, protocol |-> p, n |-> n, name |-> name, enabled |-> on,
     port |-> settings.port, path |-> settings.path]

FirstMethods(e, engines) ==
    IF e \in engines
    THEN [k \in DOMAIN DefaultProtocols(e) |->
             LET p == DefaultProtocols(e)[k]
             IN MethodOf(e, p, 0, p, TRUE, methodSettings(e, p))]
    ELSE <<>>

defaultMethods(engines) ==
    FirstMethods("hysteria", engines) \o FirstMethods("xray", engines)
    \o FirstMethods("mihomo", engines) \o FirstMethods("sing-box", engines)
    \o FirstMethods("amneziawg", engines)

-----------------------------------------------------------------------------
(* ConnectionMethodStore *)

list == [i \in DOMAIN methodSetting |->
            LET m == methodSetting[i] IN
            IF managedEdge(m.engine)
            THEN [m EXCEPT !.port = 443, !.path = paths[m.protocol]]
            ELSE m]

Elements == {list[i] : i \in DOMAIN list}

Occupied(port, p) ==
    \/ port \in reservedPorts
    \/ \E m \in Elements : m.port = port /\ Network(m.protocol) = Network(p)

(* state().defaults: the settings suggested for a method that is added.     *)
Suggested(e, p) ==
    LET settings == methodSettings(e, p)
        first == settings.port
    IN IF managedEdge(e) \/ singletonEngine(e) THEN settings
       ELSE [settings EXCEPT !.port =
                CHOOSE port \in first..(first + Len(list) + Cardinality(reservedPorts)) :
                    /\ ~Occupied(port, p)
                    /\ \A q \in first..(port - 1) : Occupied(q, p)]

-----------------------------------------------------------------------------
(* ConnectionMethodService *)

OnlyOne(m, peers) ==
    /\ singletonEngine(m.engine) => \A q \in peers : q.engine # m.engine
    /\ managedEdge(m.engine) =>
           \A q \in peers : <<q.engine, q.protocol>> # <<m.engine, m.protocol>>

(* Mutation of PortFree: the engines are looked at one by one.              *)
PortFreeInEngine(m, peers) ==
    \A q \in peers :
        m.enabled /\ q.enabled /\ q.engine = m.engine /\ q.port = m.port
        /\ Network(q.protocol) = Network(m.protocol)
            => managedEdge(q.engine) /\ managedEdge(m.engine)
PortFree(m, peers) ==
    \A q \in peers :
        m.enabled /\ q.enabled /\ q.port = m.port
        /\ Network(q.protocol) = Network(m.protocol)
            => managedEdge(q.engine) /\ managedEdge(m.engine)

PathFits(m) ==
    CASE m.protocol = "xhttp" -> m.path \in XhttpPath
      [] m.protocol = "grpc"  -> m.path \in GrpcPath
      [] OTHER                -> m.path = NoPath

(* validate(): peers are the other methods.                                 *)
Permitted(m, peers) ==
    /\ m.engine \in enginesHere
    /\ m.protocol \in engineCapabilities(m.engine)
    /\ m.name \notin {"PROXY", "DIRECT", "REJECT", "GLOBAL"}
    /\ \A q \in peers : q.name # m.name
    /\ OnlyOne(m, peers)
    /\ managedEdge(m.engine) =>
           [port |-> m.port, path |-> m.path] = methodSettings(m.engine, m.protocol)
    /\ ~managedEdge(m.engine) =>
           m.port >= 1024 \/ (m.engine = "hysteria" /\ m.port = 443)
    /\ m.port \notin reservedPorts
    /\ PathFits(m)
    /\ PortFree(m, peers)

Counted == methodEdits < MaxMethodEdits /\ methodEdits' = methodEdits + 1

Commit(next) == Counted /\ methodSetting' = next /\ UNCHANGED enginesHere

(* save() without and with an id.                                           *)
SaveNew(m) ==
    /\ Permitted(m, Elements)
    /\ Commit(Append(list, m))

SaveAgain(i, m) ==
    /\ Permitted(m, {list[k] : k \in DOMAIN list \ {i}})
    /\ Commit([list EXCEPT ![i] = m])

RemoveMethod(i) ==
    Commit([k \in 1..(Len(list) - 1) |-> list[IF k < i THEN k ELSE k + 1]])

(* reorder(): every method exactly once.                                    *)
ReorderMethods(places) ==
    /\ places \in [DOMAIN list -> DOMAIN list]
    /\ \A i, k \in DOMAIN list : i # k => places[i] # places[k]
    /\ LET next == [i \in DOMAIN list |-> list[places[i]]]
       IN next # list /\ Commit(next)

(* recordInstallation(); the methods stay as they are.                      *)
InstallsEngine(e) ==
    /\ e \notin enginesHere /\ enginesHere' = enginesHere \cup {e}
    /\ Counted /\ UNCHANGED methodSetting

(* reconcilePins() after a restore: the database knows an optional engine   *)
(* whose binary is not on this host.                                        *)
MissesEngine(e) ==
    /\ e \in enginesHere \ requiredEngineIds /\ enginesHere' = enginesHere \ {e}
    /\ Counted /\ UNCHANGED methodSetting

-----------------------------------------------------------------------------
(* What the engines are given *)

(* A selection of the list is the set of its places.                        *)
Selected(e) == {i \in DOMAIN list : LET m == list[i] IN m.engine = e /\ m.enabled}

First(places) == CHOOSE i \in places : \A k \in places : i <= k

Listener(at, p, port, path, local) ==
    [at |-> at, type |-> p, port |-> port, path |-> path, local |-> local]

methodListeners(e) ==
    {LET m == list[i] IN Listener(i, m.protocol, m.port, m.path, FALSE) : i \in Selected(e)}

(* Xray's template has two inbounds behind the managed edge.                *)
xrayInbounds ==
    {l \in {Listener(1, "xhttp", 10000, paths["xhttp"], TRUE),
            Listener(2, "grpc", 10001, paths["grpc"], TRUE)} :
        \E i \in Selected("xray") : list[i].protocol = l.type}

(* Hysteria and AmneziaWG have one listener, at the port of the first.      *)
renderEngine(e) ==
    CASE singletonEngine(e) ->
            LET i == First(Selected(e))
            IN IF Selected(e) = {} THEN {}
               ELSE {Listener(i, DefaultProtocols(e)[1], list[i].port, NoPath, FALSE)}
      [] managedEdge(e) -> xrayInbounds
      [] OTHER -> methodListeners(e)

(* The public ports of what was rendered: outpostctl opens these and the    *)
(* engine's chain in the firewall accepts nothing else.                     *)
runtimePorts(e) ==
    {<<l.port, Network(l.type)>> : l \in {x \in renderEngine(e) : ~x.local}}
    \cup (IF managedEdge(e) /\ renderEngine(e) # {} THEN {<<443, "tcp">>} ELSE {})

-----------------------------------------------------------------------------
(* What a client is offered *)

Profiles == {"mihomo", "mihomo-modern", "sing-box", "sing-box-modern",
             "xray-json", "links", "naive", "amneziawg"}

clientProfiles(profile) ==
    CASE profile \in {"mihomo", "links"} -> {"hysteria2", "xhttp", "grpc"}
      [] profile = "mihomo-modern" ->
            {"hysteria2", "xhttp", "grpc", "anytls", "trusttunnel", "amneziawg"}
      [] profile = "sing-box"        -> {"hysteria2", "grpc"}
      [] profile = "sing-box-modern" -> {"hysteria2", "grpc", "anytls", "naive"}
      [] profile = "xray-json"       -> {"xhttp", "grpc"}
      [] profile = "naive"           -> {"naive"}
      [] profile = "amneziawg"       -> {"amneziawg"}

(* An offer is a profile and the protocols its URL asks for.                *)
compatibleMethods(offer) ==
    {i \in DOMAIN list :
        LET m == list[i] IN
        /\ m.enabled /\ m.engine \in enginesHere
        /\ m.protocol \in clientProfiles(offer.profile) \cap offer.protocols}

(* What an outbound is called in its file: by Mihomo with the method's name, *)
(* by the others with a tag made of its id; a default keeps its old tag.     *)
Label(profile, m) ==
    IF profile \in {"mihomo", "mihomo-modern"} THEN <<m.name>>
    ELSE IF m.n = 0 THEN <<m.protocol, 0>> ELSE <<"method", m.n>>

(* NaiveProxy and AmneziaWG files hold one outbound.                        *)
Outbounds(offer) ==
    LET file == compatibleMethods(offer)
    IN [i \in {k \in file : offer.profile \in {"naive", "amneziawg"} => k = First(file)} |->
           LET m == list[i] IN
           [label |-> Label(offer.profile, m), protocol |-> m.protocol,
            port |-> m.port, path |-> m.path]]

(* The applications differ in their format and in what "modern" adds.       *)
applications ==
    {[format |-> "mihomo", modern |-> "mihomo-modern", adds |-> {"anytls", "trusttunnel"}],
     [format |-> "mihomo", modern |-> "mihomo-modern",
      adds |-> {"anytls", "trusttunnel", "amneziawg"}],
     [format |-> "sing-box", modern |-> "sing-box-modern", adds |-> {"anytls", "naive"}],
     [format |-> "links", modern |-> "links", adds |-> {}],
     [format |-> "xray-json", modern |-> "xray-json", adds |-> {}]}

ApplicationProfile(app, variant) ==
    IF variant = "modern"
    THEN [profile |-> app.modern, protocols |-> clientProfiles(app.format) \cup app.adds]
    ELSE [profile |-> app.format, protocols |-> Protocols]

Transports(offer) == {list[i].protocol : i \in compatibleMethods(offer)}

(* catalog(): the modern profile of an application, if it carries more.     *)
catalogProfile(app) ==
    LET plain  == ApplicationProfile(app, "plain")
        modern == ApplicationProfile(app, "modern")
    IN IF Cardinality(Transports(modern)) > Cardinality(Transports(plain))
       THEN modern ELSE plain

Offers == {catalogProfile(app) : app \in applications}
          \cup {[profile |-> p, protocols |-> Protocols] : p \in Profiles}

-----------------------------------------------------------------------------
MethodsInit ==
    /\ \E extras \in FirstExtras : enginesHere = requiredEngineIds \cup extras
    /\ methodSetting = defaultMethods(enginesHere)
    /\ methodEdits = 0

Settings == [port : MethodPort, path : XhttpPath \cup GrpcPath \cup {NoPath}]

Saves ==
    \E name \in MethodName, on \in BOOLEAN :
        \/ \E e \in Engines, p \in Protocols :
              \E settings \in Settings \cup {Suggested(e, p)} :
                  SaveNew(MethodOf(e, p, methodEdits + 1, name, on, settings))
        \/ \E i \in DOMAIN list :
              LET m == list[i] IN
              \E settings \in Settings \cup {[port |-> m.port, path |-> m.path]},
                 kept \in {name, m.name} :
                  SaveAgain(i, MethodOf(m.engine, m.protocol, m.n, kept, on, settings))

MethodsNext ==
    \/ methodEdits < MaxMethodEdits /\ Saves
    \/ \E i \in DOMAIN list : RemoveMethod(i)
    \/ /\ methodEdits < MaxMethodEdits
       /\ \E places \in Permutations(DOMAIN list) : ReorderMethods(places)
    \/ \E e \in Engines : InstallsEngine(e) \/ MissesEngine(e)

MethodsSpec == MethodsInit /\ [][MethodsNext]_methodVars

-----------------------------------------------------------------------------
(* An engine on this host answers a client that has this outbound: the      *)
(* engine speaks its protocol there, at the managed edge Nginx passes the   *)
(* path on, and the firewall lets the client through.                       *)
Answers(e, out) ==
    /\ \E l \in renderEngine(e) :
          /\ l.type = out.protocol /\ l.path = out.path
          /\ out.port = IF l.local THEN 443 ELSE l.port
    /\ <<out.port, Network(out.protocol)>> \in runtimePorts(e)

(* The sockets this host opens: the engines' listeners and APIs, the        *)
(* control plane, and Nginx.                                                *)
ListenerSockets(e) == {<<e, l.at, l.port, Network(l.type)>> : l \in renderEngine(e)}

Sockets ==
    (UNION {ListenerSockets(e) : e \in enginesHere})
    \cup {<<e, 0, engineApi(e), "tcp">> : e \in enginesHere \cap WithApi}
    \cup {<<"host", 1, 443, "tcp">>, <<"host", 2, 8181, "tcp">>, <<"host", 3, 8443, "tcp">>}

(* Whatever methods the owner saves, removes, disables and reorders, and    *)
(* whichever engines come and go: everything a client's file offers has a   *)
(* listener that speaks it on an open port, the outbounds of a file are     *)
(* told apart by name, what the catalog lists is what the file holds, and   *)
(* an application's entry carries all that any of its profiles could.  No   *)
(* two sockets share a port, so that every engine can start; and what the   *)
(* panel suggests for one more method is always accepted.                   *)
MethodsAreServed ==
    /\ \A offer \in Offers :
          LET file == Outbounds(offer) IN
          /\ \A i, k \in DOMAIN file : i # k => file[i].label # file[k].label
          /\ \A i \in DOMAIN file : /\ list[i].engine \in enginesHere
                                   /\ Answers(list[i].engine, file[i])
          /\ Transports(offer) = {file[i].protocol : i \in DOMAIN file}
    /\ \A app \in applications :
          Transports(ApplicationProfile(app, "plain")) \cup Transports(ApplicationProfile(app, "modern"))
              \subseteq Transports(catalogProfile(app))
    /\ \A s, t \in Sockets : s # t => <<s[3], s[4]>> # <<t[3], t[4]>>
    /\ \A e \in enginesHere \ (requiredEngineIds \cup {"amneziawg"}) : \A p \in engineCapabilities(e) :
          Permitted(MethodOf(e, p, MaxMethodEdits + 1, NoName, TRUE, Suggested(e, p)), Elements)
=============================================================================

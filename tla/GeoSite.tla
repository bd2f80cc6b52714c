-------------------------------- MODULE GeoSite --------------------------------
(***************************************************************************)
(* The GeoSite database and the categories read from it: geoSiteCodes(),   *)
(* parseGeoSiteDatabase() for all of it or for the categories asked for,   *)
(* and the cache that prepareGeoSites() adds them to.                      *)
(*                                                                         *)
(* The bytes of the protobuf message are left out.  A category is a base   *)
(* and perhaps an attribute; of a base's name only its beginning and its   *)
(* last part matter.                                                       *)
(***************************************************************************)
EXTENDS Naturals, FiniteSets, Functions

CONSTANTS Entry,     \* entries of the database: [type, value, attributes]
          SiteSize,   \* bound: entries of a site
          Asked       \* bound: categories the published rules name at once

ASSUME GeoSiteAssumption == {SiteSize, Asked} \subseteq Nat

VARIABLES
    database,   \* sites of the file: base |-> its entries
    sites       \* GeoSiteCache: category |-> its patterns

geoSiteVars == <<database, sites>>

lastPart ==
    [base \in {"geolocation-cn", "geolocation-!cn", "category-x", "category-x-cn"} |->
        CASE base = "category-x"      -> "x"
          [] base = "geolocation-!cn" -> "!cn"
          [] OTHER                    -> "cn"]

Base == DOMAIN lastPart
category == {"category-x", "category-x-cn"}   \* what starts with "category-"

Whole(base)        == [base |-> base, attribute |-> "none"]
Tagged(base, attr) == [base |-> base, attribute |-> attr]
China  == Whole("geolocation-cn")
Nation == Whole("cn")

Negates(a, b) == <<a, b>> \in {<<"cn", "!cn">>, <<"!cn", "cn">>}

-----------------------------------------------------------------------------
(* parseGeoSiteDatabase() *)

Pattern(matcher, value) == [matcher |-> matcher, value |-> value]

convertDomain(domain) ==
    CASE domain.type = "keyword" -> {Pattern("DOMAIN_KEYWORD", domain.value)}
      [] domain.type = "domain"  -> {Pattern("DOMAIN", domain.value),
                                     Pattern("SUFFIX", domain.value)}
      [] domain.type = "full"    -> {Pattern("DOMAIN", domain.value)}

Patterns(domains) == UNION {convertDomain(domain) : domain \in domains}

With(base, attr) == {domain \in database[base] : attr \in domain.attributes}

AttributesOf(base) == UNION {domain.attributes : domain \in database[base]}

CodesOf(bases) ==
    {Whole(base) : base \in bases}
    \cup UNION {{Tagged(base, a) : a \in AttributesOf(base)} : base \in bases}

Raw(bases) ==
    [code \in CodesOf(bases) |->
        Patterns(IF code.attribute = "none" THEN database[code.base]
                 ELSE With(code.base, code.attribute))]

(* filterTags(): a tag that repeats the name goes, one that negates it      *)
(* takes its patterns out of the base.                                      *)
Repeats(code) == code.attribute = lastPart[code.base]
Excludes(code) == Negates(lastPart[code.base], code.attribute)

filterCodeTags(codes) == {code \in codes : ~Repeats(code) /\ ~Excludes(code)}

filterTags(raw) ==
    [code \in filterCodeTags(DOMAIN raw) |->
        IF code.attribute # "none" THEN raw[code]
        ELSE raw[code] \ UNION {raw[other] : other \in
                {c \in DOMAIN raw : c.base = code.base /\ Excludes(c)}}]

(* mergeChineseCategories()                                                 *)
Chinese(code) ==
    /\ code.base \in category
    /\ IF code.attribute = "none" THEN lastPart[code.base] = "cn"
       ELSE code.attribute = "cn" /\ lastPart[code.base] \notin {"cn", "!cn"}

mergeChineseCategories(list) ==
    LET merged == UNION {list[code] : code \in
                     {c \in DOMAIN list : c = China \/ Chinese(c)}}
    IN IF merged = {} THEN list
       ELSE [code \in DOMAIN list \cup {China, Nation} |->
                CASE code = China  -> merged
                  [] code = Nation -> merged \cup {Pattern("SUFFIX", "cn")}
                  [] OTHER         -> list[code]]

(* A suffix makes the domain of the same name redundant.                    *)
compile(patterns) ==
    {p \in patterns : p.matcher = "DOMAIN" => Pattern("SUFFIX", p.value) \notin patterns}

Parsed(bases) ==
    LET list == mergeChineseCategories(filterTags(Raw(bases)))
    IN [code \in DOMAIN list |-> compile(list[code])]

(* Mutant of relevant: the sites that are merged into "cn" are not read.    *)
relevantAlone(base, requested) == \E code \in requested : code.base = base

relevant(base, requested) ==
    \/ \E code \in requested : code.base = base
    \/ requested \cap {China, Nation} # {} /\ (base = China.base \/ base \in category)

WholeDatabase == Parsed(DOMAIN database)

Selected(requested) ==
    LET list == Parsed({base \in DOMAIN database : relevant(base, requested)})
    IN Restrict(list, requested \cap DOMAIN list)

(* geoSiteCodes()                                                           *)
geoSiteCodes ==
    LET codes == filterCodeTags(CodesOf(DOMAIN database))
    IN codes \cup (IF China \in codes THEN {Nation} ELSE {})

-----------------------------------------------------------------------------
(* prepareGeoSites(): what is cached and still named stays, the rest of the *)
(* categories is read; a category without patterns is refused.              *)
PrepareGeoSites(requested) ==
    LET missing == requested \ DOMAIN sites
        loaded  == Selected(missing)
    IN /\ \A code \in missing : code \in DOMAIN loaded /\ loaded[code] # {}
       /\ sites' = [code \in requested |->
                       IF code \in missing THEN loaded[code] ELSE sites[code]]
       /\ UNCHANGED database

Site == {domains \in SUBSET Entry : domains # {} /\ Cardinality(domains) <= SiteSize}

GeoSiteInit ==
    /\ \E bases \in SUBSET Base : database \in [bases -> Site]
    /\ sites = <<>>

GeoSiteNext ==
    \E requested \in SUBSET geoSiteCodes :
        Cardinality(requested) <= Asked /\ PrepareGeoSites(requested)

GeoSiteSpec == GeoSiteInit /\ [][GeoSiteNext]_geoSiteVars

-----------------------------------------------------------------------------
(* However the rules that name them came and went, a cached category holds  *)
(* what it holds when the whole database is read; and every category the    *)
(* server offers can be read from it, save "cn" when nothing is left of it. *)
CategoriesAreExact ==
    LET all == WholeDatabase
    IN /\ \A code \in DOMAIN sites : code \in DOMAIN all /\ sites[code] = all[code]
       /\ \A code \in geoSiteCodes :
             code \in DOMAIN all \/ (code = Nation /\ all[China] = {})
=============================================================================

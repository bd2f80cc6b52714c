------------------------------- MODULE Releases -------------------------------
(***************************************************************************)
(* Application releases: ApplicationUpdateService looks for a newer        *)
(* release of the chosen channel, downloads and verifies its archive, and  *)
(* keeps what it knows in the setting application_update.                  *)
(*                                                                         *)
(* check() and prepare() each join a call in flight; between the two, the  *)
(* change of the channel, an update of the application and a restart, any  *)
(* order is possible.  An archive may be published anew under its version: *)
(* "edition" tells one from the other, its size may not.                   *)
(***************************************************************************)
EXTENDS Integers, Sequences, FiniteSets

CONSTANTS Version,      \* releases, as core and prerelease identifiers
          MaxEdition    \* bound: editions 1 .. MaxEdition of a release

(* An identifier of a prerelease is a number or a text; of the texts only   *)
(* their order is kept.  0 is no release.                                   *)
Identifier == [text : BOOLEAN, value : Nat]

ASSUME ReleasesAssumption ==
    /\ Version # {} /\ IsFiniteSet(Version)
    /\ \A v \in Version : v \in [core : Nat \ {0}, pre : Seq(Identifier)]
    /\ MaxEdition \in Nat

VARIABLES
    current,    \* config.version of the running process
    trial,      \* the version an update in progress goes back to, if it fails
    channel,    \* settings.system.updateChannel
    stored,     \* the setting application_update
    checking,   \* the check in flight: its channel, or None
    preparing,  \* the preparation in flight: where it awaits and what it read
    archives,   \* incoming/<archive> of each version: its edition, 0 for none
    signatures  \* incoming/<archive>.minisig of each version

releasesVars ==
    <<current, trial, channel, stored, checking, preparing, archives, signatures>>

Edition == 1..MaxEdition

-----------------------------------------------------------------------------
(* Versions: a core and the identifiers of a prerelease, numbers or texts.  *)

Number(n) == [text |-> FALSE, value |-> n]
Text(n)   == [text |-> TRUE, value |-> n]
Final(n)  == [core |-> n, pre |-> <<>>]
Pre(n, identifiers) == [core |-> n, pre |-> identifiers]

Sign(n, m) == IF n > m THEN 1 ELSE IF n = m THEN 0 ELSE -1

CompareIdentifier(a, b) ==
    IF a.text = b.text THEN Sign(a.value, b.value) ELSE IF a.text THEN 1 ELSE -1

(* The first identifier that differs decides, and a version whose           *)
(* identifiers have come to their end is the older one.                     *)
ComparePre(p, q) ==
    LET common == {i \in 1..Len(p) : i <= Len(q)}
        differ == {i \in common : p[i] # q[i]}
    IN  IF differ = {} THEN Sign(Len(p), Len(q))
        ELSE LET i == CHOOSE i \in differ : \A j \in differ : i <= j
             IN  CompareIdentifier(p[i], q[i])

compareVersions(a, b) ==
    IF a.core # b.core THEN Sign(a.core, b.core)
    ELSE IF a.pre = <<>> \/ b.pre = <<>>
    THEN IF a.pre = b.pre THEN 0 ELSE IF a.pre # <<>> THEN -1 ELSE 1
    ELSE ComparePre(a.pre, b.pre)

isPrerelease(v) == v.pre # <<>>

Oldest == CHOOSE v \in Version : \A w \in Version : compareVersions(w, v) >= 0

-----------------------------------------------------------------------------
NoVersion == Final(0)
Channels  == {"stable", "candidate"}

EmptyState(ch, version) ==
    [status |-> "idle", channel |-> ch, current |-> version, ready |-> FALSE,
     release |-> NoVersion]

emptyState(ch) == EmptyState(ch, current)

NoPreparation ==
    [at |-> "none", read |-> EmptyState("stable", Oldest), edition |-> 0]

(* state(): what another channel or another version of the application has  *)
(* stored is not shown.                                                     *)
OfThisVersion == stored.channel = channel /\ stored.current = current

StoredType ==
    [status : {"idle", "checking", "current", "available", "preparing", "ready", "failed"},
     channel : Channels, current : Version, ready : BOOLEAN,
     release : Version \cup {NoVersion}]

ReleasesTypeOK ==
    /\ current \in Version /\ trial \in Version \cup {NoVersion}
    /\ channel \in Channels
    /\ stored \in StoredType
    /\ checking \in Channels \cup {"none"}
    /\ preparing.at \in {"none", "waits", "checks", "cached", "archive", "signature"}
    /\ preparing.read \in StoredType /\ preparing.edition \in 0..MaxEdition
    /\ {archives, signatures} \subseteq [Version -> 0..MaxEdition]

-----------------------------------------------------------------------------
(* check() *)

CheckStarts ==
    /\ checking = "none"
    /\ checking' = channel
    /\ stored' = [emptyState(channel) EXCEPT !.status = "checking"]

Check ==
    /\ CheckStarts
    /\ UNCHANGED <<current, trial, channel, preparing, archives, signatures>>

(* refresh(): every six hours, but not over a preparation or a prepared one. *)
Refresh ==
    /\ preparing.at = "none"
    /\ OfThisVersion => stored.status # "preparing" /\ ~stored.ready
    /\ CheckStarts
    /\ UNCHANGED <<current, trial, channel, preparing, archives, signatures>>

(* parseRelease() and the filter of discover().                             *)
Offered(published, ch) ==
    {v \in published : /\ ch = "stable" => ~isPrerelease(v)
                       /\ compareVersions(v, current) > 0}

Newest(offered) ==
    CHOOSE v \in offered : \A w \in offered : compareVersions(v, w) >= 0

Found(published) ==
    LET offered == Offered(published, checking) IN
    IF offered = {} THEN [emptyState(checking) EXCEPT !.status = "current"]
    ELSE [emptyState(checking) EXCEPT !.status = "available", !.release = Newest(offered)]

(* The list of releases is there, or it could not be had; the state is that *)
(* of the channel the check began with.                                     *)
CheckEnds ==
    /\ checking # "none"
    /\ \/ \E published \in SUBSET Version : stored' = Found(published)
       \/ stored' = [emptyState(checking) EXCEPT !.status = "failed"]
    /\ checking' = "none"
    /\ UNCHANGED <<current, trial, channel, preparing, archives, signatures>>

-----------------------------------------------------------------------------
(* prepare() *)

Usable == OfThisVersion /\ stored.release # NoVersion

(* The state just read is kept over everything that is awaited.             *)
Begins ==
    IF stored.release # NoVersion /\ compareVersions(stored.release, current) > 0
    THEN /\ preparing' = [at |-> "cached", read |-> stored, edition |-> 0]
         /\ stored' = [stored EXCEPT !.status = "preparing", !.ready = FALSE]
    ELSE preparing' = NoPreparation /\ UNCHANGED stored

Prepare ==
    /\ preparing.at = "none"
    /\ \/ /\ checking # "none"
          /\ preparing' = [NoPreparation EXCEPT !.at = "waits"]
          /\ UNCHANGED <<stored, checking>>
       \/ /\ checking = "none" /\ Usable
          /\ Begins /\ UNCHANGED checking
       \/ /\ ~Usable /\ CheckStarts
          /\ preparing' = [NoPreparation EXCEPT !.at = "checks"]
    /\ UNCHANGED <<current, trial, channel, archives, signatures>>

(* The check that was awaited has ended; a state that cannot be used asks   *)
(* for another one, whose result is used whatever became of the channel.    *)
PrepareGoesOn ==
    /\ checking = "none"
    /\ \/ /\ preparing.at = "waits" /\ ~Usable
          /\ CheckStarts
          /\ preparing' = [preparing EXCEPT !.at = "checks"]
       \/ /\ preparing.at = "checks" \/ (preparing.at = "waits" /\ Usable)
          /\ Begins /\ UNCHANGED checking
    /\ UNCHANGED <<current, trial, channel, archives, signatures>>

Ready(p) == [p.read EXCEPT !.status = "ready", !.ready = TRUE]
FailedPrepare(p) == [p.read EXCEPT !.status = "failed", !.ready = FALSE]

PrepareEnds(state) ==
    /\ stored' = state
    /\ preparing' = NoPreparation

(* Mutant of Verified: the sizes are enough.                                *)
VerifiedBySize(edition, signature) == edition # 0 /\ signature # 0

(* minisign verifies the archive with its own signature only.               *)
Verified(edition, signature) == edition # 0 /\ edition = signature

(* cached(): the files of an earlier preparation, sizes and signature.      *)
CacheRead ==
    LET v == preparing.read.release IN
    /\ preparing.at = "cached"
    /\ \/ /\ Verified(archives[v], signatures[v])
          /\ PrepareEnds(Ready(preparing))
       \/ /\ preparing' = [preparing EXCEPT !.at = "archive"]
          /\ UNCHANGED stored
    /\ UNCHANGED <<current, trial, channel, checking, archives, signatures>>

ArchiveFetched ==
    /\ preparing.at = "archive"
    /\ \E e \in Edition :
           preparing' = [preparing EXCEPT !.at = "signature", !.edition = e]
    /\ UNCHANGED <<current, trial, channel, stored, checking, archives, signatures>>

(* The signature is there and fits: it is renamed into place, then the      *)
(* archive.                                                                 *)
SignatureFetched ==
    LET v == preparing.read.release IN
    /\ preparing.at = "signature"
    /\ \E s \in Edition :
           /\ Verified(preparing.edition, s)
           /\ archives' = [archives EXCEPT ![v] = preparing.edition]
           /\ signatures' = [signatures EXCEPT ![v] = s]
    /\ PrepareEnds(Ready(preparing))
    /\ UNCHANGED <<current, trial, channel, checking>>

(* A download fails, or the signature does not fit the archive.             *)
PrepareFails ==
    /\ preparing.at \in {"archive", "signature"}
    /\ PrepareEnds(FailedPrepare(preparing))
    /\ UNCHANGED <<current, trial, channel, checking, archives, signatures>>

-----------------------------------------------------------------------------
(* updateSettings(): another channel resets the state.                      *)
SetChannel ==
    \E ch \in Channels \ {channel} :
        /\ channel' = ch
        /\ stored' = emptyState(ch)
        /\ UNCHANGED <<current, trial, checking, preparing, archives, signatures>>

Restarted == checking' = "none" /\ preparing' = NoPreparation

(* The process ends, perhaps between the two renames.                       *)
ReleasesInterrupted ==
    /\ checking # "none" \/ preparing.at # "none"
    /\ Restarted
    /\ \/ UNCHANGED signatures
       \/ /\ preparing.at = "signature"
          /\ signatures' = [signatures EXCEPT ![preparing.read.release] = preparing.edition]
    /\ UNCHANGED <<current, trial, channel, stored, archives>>

(* apply-update starts the new version ...                                  *)
UpdateTried ==
    /\ trial = NoVersion /\ OfThisVersion /\ stored.ready
    /\ trial' = current /\ current' = stored.release
    /\ Restarted
    /\ UNCHANGED <<channel, stored, archives, signatures>>

(* ... and removes its files when it is ready, or goes back.                *)
UpdateKept ==
    /\ trial # NoVersion
    /\ trial' = NoVersion
    /\ archives' = [archives EXCEPT ![current] = 0]
    /\ signatures' = [signatures EXCEPT ![current] = 0]
    /\ UNCHANGED <<current, channel, stored, checking, preparing>>

UpdateRolledBack ==
    /\ trial # NoVersion
    /\ current' = trial /\ trial' = NoVersion
    /\ Restarted
    /\ UNCHANGED <<channel, stored, archives, signatures>>

-----------------------------------------------------------------------------
(* initializeChannel(): a prerelease is installed from the candidates.      *)
ReleasesInit ==
    /\ current = Oldest /\ trial = NoVersion
    /\ channel = IF isPrerelease(current) THEN "candidate" ELSE "stable"
    /\ stored = emptyState(channel)
    /\ checking = "none" /\ preparing = NoPreparation
    /\ archives = [v \in Version |-> 0] /\ signatures = [v \in Version |-> 0]

ReleasesNext ==
    \/ Check \/ Refresh \/ CheckEnds
    \/ Prepare \/ PrepareGoesOn \/ CacheRead
    \/ ArchiveFetched \/ SignatureFetched \/ PrepareFails
    \/ SetChannel \/ ReleasesInterrupted
    \/ UpdateTried \/ UpdateKept \/ UpdateRolledBack

ReleasesSpec == ReleasesInit /\ [][ReleasesNext]_releasesVars

-----------------------------------------------------------------------------
(* Properties. *)

(* The precedence of semantic versions: a text is above any number, an      *)
(* identifier above none, and a final release above its prereleases.        *)
Above(a, b) == (a.text /\ ~b.text) \/ (a.text = b.text /\ a.value > b.value)

NewerPre(p, q) ==
    \E i \in DOMAIN p :
        /\ \A j \in 1..(i - 1) : j <= Len(q) /\ p[j] = q[j]
        /\ i > Len(q) \/ Above(p[i], q[i])

Newer(v, w) ==
    \/ v.core > w.core
    \/ /\ v.core = w.core /\ w.pre # <<>>
       /\ v.pre = <<>> \/ NewerPre(v.pre, w.pre)

(* A release shown as ready lies in incoming as an archive and a signature  *)
(* that fit each other, whatever was checked, reset, published anew or cut  *)
(* by a restart since it was downloaded; and what is shown as available is  *)
(* newer than what runs and of the channel that is chosen, though the       *)
(* channel or the application changed while the releases were read.         *)
OfferIsSound ==
    /\ OfThisVersion /\ stored.ready =>
          LET edition == archives[stored.release] IN
          edition # 0 /\ signatures[stored.release] = edition
    /\ OfThisVersion /\ stored.release # NoVersion =>
          /\ Newer(stored.release, current)
          /\ channel = "stable" => ~isPrerelease(stored.release)
=============================================================================

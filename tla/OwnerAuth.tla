------------------------------ MODULE OwnerAuth ------------------------------
(***************************************************************************)
(* How an owner gets in: AuthService registers passkeys on the authority of*)
(* a first claim, a recovery link, an invitation or a session, and opens a *)
(* session for a passkey that proved itself.                               *)
(*                                                                         *)
(* The verification of an authenticator's response and the making of a     *)
(* challenge are asynchronous: a request reads, awaits, and writes in one  *)
(* SQLite transaction, and any other request may come in between.  The     *)
(* command `outpostctl bootstrap-reset` is another process on the same     *)
(* database, so its statements are steps of their own.                     *)
(*                                                                         *)
(* Tokens are the names of what they stand for, an expiry may fall at any  *)
(* moment, and whether a response is genuine is the authenticator's choice.*)
(* Passkey counters and API tokens are left out.                           *)
(***************************************************************************)
EXTENDS Naturals, FiniteSets

CONSTANTS Challenge,       \* challenges that may be stored
          Key,             \* passkeys that authenticators may create
          Session, Invite,
          MaxGrants,       \* bound: claims and recoveries issued together
          ChallengeLimit,  \* challengeLimitPerKind
          InviteLimit      \* open invitations allowed

ASSUME LimitAssumption ==
    /\ MaxGrants \in Nat
    /\ ChallengeLimit \in Nat \ {0}
    /\ InviteLimit \in Nat \ {0}

VARIABLES
    owners,     \* owners: named by the challenge that registered them
    grant,      \* settings setup_claim and owner_recovery: 0 if null or expired
    issued,     \* grants issued so far
    invite,     \* owner_invitations
    chal,       \* webauthn_challenges, with the authority in their context
    key,        \* passkeys, with the authority that registered them (history)
    session,    \* sessions
    flight,     \* requests awaiting a verification
    cli         \* bootstrap-reset: the grant it is about to issue

vars == <<owners, grant, issued, invite, chal, key, session, flight, cli>>

Grants == {"claim", "recovery"}

Warrant == [kind : Grants, no : 1..MaxGrants] \cup [kind : {"invite"}, no : Invite]
             \cup [kind : {"session"}, no : Session]
NoWarrant == [kind |-> "none", no |-> 0]
LoginWarrant == [kind |-> "login", no |-> 0]

Request == [of : Challenge, key : Key]

(* A row that exists has its context, its authority or its passkey.        *)
ChallengeRow == [state : {"unused"}, by : {NoWarrant}] \cup
                [state : {"asked", "stored", "gone"}, by : Warrant \cup {LoginWarrant}]
KeyRow == [state : {"new"}, by : {NoWarrant}] \cup
          [state : {"registered", "revoked"}, by : Warrant]
SessionRow == [state : {"unused"}, key : {{}}] \cup
              [state : {"live", "over"}, key : {{k} : k \in Key}]

TypeOK ==
    /\ owners \in SUBSET Challenge
    /\ grant \in [Grants -> 0..MaxGrants] /\ issued \in 0..MaxGrants
    /\ invite \in [Invite -> {"none", "open", "expired", "consumed", "revoked"}]
    /\ chal \in [Challenge -> ChallengeRow]
    /\ key \in [Key -> KeyRow]
    /\ session \in [Session -> SessionRow]
    /\ flight \in SUBSET Request
    /\ cli \in {"idle"} \cup Grants

-----------------------------------------------------------------------------
Registered == {k \in Key : key[k].state = "registered"}

Live(s) == session[s].state = "live"

(* verifyGrant(), verifyInvitation() and verifyRegistrationAuthority().    *)
Valid(w) ==
    \/ w.kind = "claim" /\ owners = {} /\ grant["claim"] = w.no
    \/ w.kind = "recovery" /\ owners # {} /\ grant["recovery"] = w.no
    \/ w.kind = "invite" /\ owners # {} /\ invite[w.no] = "open"
    \/ w.kind = "session" /\ owners # {} /\ Live(w.no)

Stored(login) ==
    {c \in Challenge : chal[c].state = "stored"
                         /\ (chal[c].by = LoginWarrant <=> login)}

OpenInvites == {i \in Invite : invite[i] = "open"}

-----------------------------------------------------------------------------
(* Grants and invitations.                                                 *)

Issue(g) ==
    /\ issued < MaxGrants
    /\ issued' = issued + 1
    /\ grant' = [grant EXCEPT ![g] = issued + 1]
    /\ UNCHANGED <<owners, invite, chal, key, flight>>

(* SetupService.finalize().                                                *)
IssueClaim == owners = {} /\ Issue("claim") /\ UNCHANGED <<session, cli>>

EndAllSessions(kept) ==
    session' = [s \in Session |-> IF Live(s) /\ s \notin kept
                                    THEN [session[s] EXCEPT !.state = "over"]
                                    ELSE session[s]]

(* bootstrap-reset reads whether there is an owner and ends the sessions,  *)
(* then issues a claim or a recovery.                                      *)
ResetBegins ==
    /\ cli = "idle"
    /\ cli' = IF owners = {} THEN "claim" ELSE "recovery"
    /\ IF owners = {} THEN UNCHANGED session ELSE EndAllSessions({})
    /\ UNCHANGED <<owners, grant, issued, invite, chal, key, flight>>

ResetIssues == cli # "idle" /\ Issue(cli) /\ cli' = "idle" /\ UNCHANGED session

(* The route checks the session before it awaits the body.                 *)
CreateInvitation(i) ==
    /\ owners # {} /\ invite[i] = "none"
    /\ Cardinality(OpenInvites) < InviteLimit
    /\ invite' = [invite EXCEPT ![i] = "open"]
    /\ UNCHANGED <<owners, grant, issued, chal, key, session, flight, cli>>

(* ownerOnly() routes: the request comes with a live session.              *)
RevokeInvitation(i) ==
    /\ \E s \in Session : Live(s)
    /\ invite[i] \in {"open", "expired"}
    /\ invite' = [invite EXCEPT ![i] = "revoked"]
    /\ UNCHANGED <<owners, grant, issued, chal, key, session, flight, cli>>

(* A grant lives an hour, an invitation a day, a challenge ten minutes.    *)
Expires ==
    \/ /\ \E g \in Grants : grant[g] # 0 /\ grant' = [grant EXCEPT ![g] = 0]
       /\ UNCHANGED <<invite, chal, session>>
    \/ /\ \E i \in OpenInvites : invite' = [invite EXCEPT ![i] = "expired"]
       /\ UNCHANGED <<grant, chal, session>>
    \/ /\ \E c \in Challenge : /\ chal[c].state = "stored"
                               /\ chal' = [chal EXCEPT ![c].state = "gone"]
       /\ UNCHANGED <<grant, invite, session>>
    \/ /\ \E s \in Session : Live(s) /\ session' = [session EXCEPT ![s].state = "over"]
       /\ UNCHANGED <<grant, invite, chal>>

Expiry == Expires /\ UNCHANGED <<owners, issued, key, flight, cli>>

-----------------------------------------------------------------------------
(* Challenges: the authority is checked, the options are generated, and    *)
(* the challenge is stored unless there are too many of its kind.          *)

Ask(c, w) ==
    /\ chal[c].state = "unused"
    /\ chal' = [chal EXCEPT ![c] = [state |-> "asked", by |-> w]]
    /\ UNCHANGED <<owners, grant, issued, invite, key, session, flight, cli>>

(* The route authenticates the session, then awaits the body: the session  *)
(* may be over when the options are made.                                  *)
RegistrationOptions(c) ==
    \E w \in Warrant :
      /\ Valid(w) \/ (w.kind = "session" /\ owners # {} /\ session[w.no].state = "over")
      /\ Ask(c, w)

AuthenticationOptions(c) == owners # {} /\ Ask(c, LoginWarrant)

StoreChallenge(c) ==
    /\ chal[c].state = "asked"
    /\ chal' = [chal EXCEPT ![c].state =
         IF Cardinality(Stored(chal[c].by = LoginWarrant)) < ChallengeLimit
           THEN "stored" ELSE "gone"]
    /\ UNCHANGED <<owners, grant, issued, invite, key, session, flight, cli>>

-----------------------------------------------------------------------------
(* Responses.  A challenge is consumed only when a response succeeds, so   *)
(* several responses to one challenge may be awaited at the same time.     *)

Await(c, k) ==
    /\ flight' = flight \cup {[of |-> c, key |-> k]}
    /\ UNCHANGED <<owners, grant, issued, invite, chal, key, session, cli>>

BeginRegistration(c, k) ==
    /\ chal[c].state = "stored" /\ chal[c].by # LoginWarrant
    /\ Valid(chal[c].by)
    /\ key[k].state = "new"
    /\ Await(c, k)

BeginAuthentication(c, k) ==
    /\ chal[c].state = "stored" /\ chal[c].by = LoginWarrant
    /\ k \in Registered
    /\ Await(c, k)

Open(s, k) ==
    /\ session[s].state = "unused"
    /\ session' = [session EXCEPT ![s] = [state |-> "live", key |-> {k}]]

(* Mutation of Recheck: the authority verified before the await is trusted.*)
RecheckNothing(w) == TRUE
Recheck(w) == Valid(w)

(* Mutation of Spend: an invitation is not marked as consumed.             *)
SpendGrantOnly(w) ==
    /\ grant' = IF w.kind \in Grants THEN [grant EXCEPT ![w.kind] = 0] ELSE grant
    /\ UNCHANGED invite
Spend(w) ==
    /\ grant' = IF w.kind \in Grants THEN [grant EXCEPT ![w.kind] = 0] ELSE grant
    /\ invite' = IF w.kind = "invite" THEN [invite EXCEPT ![w.no] = "consumed"]
                                      ELSE invite

(* The transaction of finishRegistration().                                *)
FinishRegistration(r, s) ==
    /\ r \in flight /\ chal[r.of].by # LoginWarrant
    /\ LET w == chal[r.of].by IN
         /\ Recheck(w)
         /\ key[r.key].state = "new"
         /\ owners' = IF w.kind = "claim" THEN owners \cup {r.of} ELSE owners
         /\ key' = [key EXCEPT ![r.key] = [state |-> "registered", by |-> w]]
         /\ Spend(w)
    /\ chal' = [chal EXCEPT ![r.of].state = "gone"]
    /\ Open(s, r.key)
    /\ flight' = flight \ {r}
    /\ UNCHANGED <<issued, cli>>

(* Mutation of StillThere: the row the login read is not looked for again. *)
StillThereAsRead(k) == key[k].state # "new"
StillThere(k) == k \in Registered

(* The transaction of finishAuthentication().                              *)
FinishAuthentication(r, s) ==
    /\ r \in flight /\ chal[r.of].by = LoginWarrant
    /\ StillThere(r.key)
    /\ chal' = [chal EXCEPT ![r.of].state = "gone"]
    /\ Open(s, r.key)
    /\ flight' = flight \ {r}
    /\ UNCHANGED <<owners, grant, issued, invite, key, cli>>

(* The response is not genuine, or the transaction throws and rolls back.  *)
ResponseFails(r) ==
    /\ r \in flight
    /\ flight' = flight \ {r}
    /\ UNCHANGED <<owners, grant, issued, invite, chal, key, session, cli>>

-----------------------------------------------------------------------------
(* Sessions and passkeys.                                                  *)

(* logout(), or revokeSession() of another session.                        *)
EndSession(s) ==
    /\ Live(s)
    /\ session' = [session EXCEPT ![s].state = "over"]
    /\ UNCHANGED <<owners, grant, issued, invite, chal, key, flight, cli>>

EndOtherSessions(s) ==
    /\ Live(s)
    /\ EndAllSessions({s})
    /\ UNCHANGED <<owners, grant, issued, invite, chal, key, flight, cli>>

(* Mutation of Spare: the last passkey may be revoked too.                 *)
SpareNone(k) == TRUE
Spare(k) == Registered \ {k} # {}

RevokePasskey(k) ==
    /\ \E s \in Session : Live(s)
    /\ k \in Registered /\ Spare(k)
    /\ key' = [key EXCEPT ![k].state = "revoked"]
    /\ EndAllSessions({s \in Session : session[s].key # {k}})
    /\ UNCHANGED <<owners, grant, issued, invite, chal, flight, cli>>

(* The control plane stops: what it awaited is lost, the tables are not.   *)
Restart ==
    /\ flight' = {}
    /\ chal' = [c \in Challenge |-> IF chal[c].state = "asked"
                                      THEN [chal[c] EXCEPT !.state = "gone"]
                                      ELSE chal[c]]
    /\ UNCHANGED <<owners, grant, issued, invite, key, session, cli>>

Next ==
    \/ IssueClaim \/ ResetBegins \/ ResetIssues \/ Expiry \/ Restart
    \/ \E i \in Invite : CreateInvitation(i) \/ RevokeInvitation(i)
    \/ \E c \in Challenge :
         \/ RegistrationOptions(c) \/ AuthenticationOptions(c) \/ StoreChallenge(c)
         \/ \E k \in Key : BeginRegistration(c, k) \/ BeginAuthentication(c, k)
    \/ \E r \in flight :
         \/ ResponseFails(r)
         \/ \E s \in Session : FinishRegistration(r, s) \/ FinishAuthentication(r, s)
    \/ \E s \in Session : EndSession(s) \/ EndOtherSessions(s)
    \/ \E k \in Key : RevokePasskey(k)

Init ==
    /\ owners = {} /\ issued = 0 /\ grant = [g \in Grants |-> 0]
    /\ invite = [i \in Invite |-> "none"]
    /\ chal = [c \in Challenge |-> [state |-> "unused", by |-> NoWarrant]]
    /\ key = [k \in Key |-> [state |-> "new", by |-> NoWarrant]]
    /\ session = [s \in Session |-> [state |-> "unused", key |-> {}]]
    /\ flight = {} /\ cli = "idle"

Spec == Init /\ [][Next]_vars

-----------------------------------------------------------------------------
(* Two browsers that both follow the first claim make one owner, however   *)
(* their registrations overlap.                                            *)
OneOwner == \A a, b \in owners : a = b

(* docs/SECURITY.md: revoking a passkey ends its sessions.  No login that  *)
(* was being verified at the time opens one afterwards.                    *)
SessionsHaveKeys == \A s \in Session : Live(s) => session[s].key \subseteq Registered

(* docs/SECURITY.md: a claim is spent on the owner it makes, a recovery    *)
(* link and an invitation on one passkey; an invitation that was revoked   *)
(* or expired while the response was being verified yields none.           *)
AuthoritySpentOnce ==
    \A k \in Key : key[k].state # "new" =>
        /\ key[k].by.kind = "invite" => invite[key[k].by.no] = "consumed"
        /\ key[k].by.kind \in Grants => grant[key[k].by.kind] # key[k].by.no
        /\ \A j \in Key \ {k} : key[j].by = key[k].by => key[k].by.kind = "session"

(* An owner always has a passkey to come back with, and before there is an *)
(* owner nobody has a passkey or a session.                                *)
OwnerCanReturn ==
    /\ owners # {} => Registered # {}
    /\ owners = {} => \A k \in Key : key[k].state = "new"
=============================================================================

--------------------------- MODULE OwnerAuth_proofs ---------------------------
(***************************************************************************)
(* Proofs about OwnerAuth, for any set of challenges, passkeys, sessions   *)
(* and invitations, and about Gateway, for any number of tokens.           *)
(*                                                                         *)
(* AuthoritySpentOnce needs that grants are numbered apart: a passkey that *)
(* was registered by a grant names one that was issued, so the next grant  *)
(* is another one.  OneOwner needs OwnerCanReturn's second half only       *)
(* through the recheck inside the transaction.                             *)
(*                                                                         *)
(* CallsAreAuthorised needs that no endpoint is tried before the one a     *)
(* request is for, that no token has a scope that implies others, and that *)
(* a request whose handler has not run yet was authorized with scopes that *)
(* cannot change while it waits.                                           *)
(***************************************************************************)
EXTENDS OwnerAuth, Gateway, SequenceTheorems, WellFoundedInduction, TLAPS

Numbered ==
    /\ \A k \in Key : key[k].by.kind \in Grants => key[k].by.no <= issued
    /\ \A g \in Grants : grant[g] <= issued
    /\ \A r \in flight : chal[r.of].state # "unused"

AuthInv == /\ TypeOK /\ OneOwner /\ SessionsHaveKeys /\ AuthoritySpentOnce
           /\ OwnerCanReturn /\ Numbered

(* What the row of a passkey can be.                                       *)
LEMMA KeyRows ==
    ASSUME AuthInv, NEW k \in Key
    PROVE  /\ key[k].state \in {"new", "registered", "revoked"}
           /\ key[k].state = "new" => key[k].by = NoWarrant
           /\ key[k].state # "new" => key[k].by \in Warrant
BY DEF AuthInv, TypeOK, KeyRow

(* A step that registers no passkey, opens no session and reopens neither  *)
(* an invitation nor a spent grant keeps the invariant.                    *)
LEMMA Frame ==
    ASSUME AuthInv, TypeOK', owners' = owners, key' = key, issued' >= issued,
           \A s \in Session : Live(s)' => Live(s) /\ session'[s].key = session[s].key,
           \A i \in Invite : invite[i] = "consumed" => invite'[i] = "consumed",
           \A g \in Grants : \/ grant'[g] = grant[g] \/ grant'[g] = 0
                             \/ grant'[g] > issued /\ grant'[g] <= issued',
           \A r \in flight' : chal'[r.of].state # "unused"
    PROVE  AuthInv'
<1>1. OneOwner' BY DEF AuthInv, OneOwner
<1>2. Registered' = Registered BY DEF Registered
<1>3. SessionsHaveKeys' BY <1>2 DEF AuthInv, SessionsHaveKeys
<1>4. ASSUME NEW k \in Key, key'[k].state # "new"
      PROVE  /\ key'[k].by.kind = "invite" => invite'[key'[k].by.no] = "consumed"
             /\ key'[k].by.kind \in Grants => grant'[key'[k].by.kind] # key'[k].by.no
             /\ \A j \in Key \ {k} : key'[j].by = key'[k].by => key'[k].by.kind = "session"
  <2>1. key[k].by \in Warrant BY <1>4, KeyRows
  <2>2. key[k].by.kind = "invite" => key[k].by.no \in Invite BY <2>1 DEF Warrant, Grants
  <2>3. key[k].by.kind \in Grants =>
          /\ grant[key[k].by.kind] # key[k].by.no
          /\ key[k].by.no \in 1..MaxGrants /\ key[k].by.no <= issued
    BY <1>4, <2>1 DEF AuthInv, AuthoritySpentOnce, Numbered, Warrant, Grants
  <2>4. issued \in Nat /\ MaxGrants \in Nat BY LimitAssumption DEF AuthInv, TypeOK
  <2>5. key[k].by.kind \in Grants => grant'[key[k].by.kind] # key[k].by.no
    BY <2>3, <2>4
  <2>6. QED BY <1>4, <2>2, <2>5 DEF AuthInv, AuthoritySpentOnce
<1>5. OwnerCanReturn' BY <1>2 DEF AuthInv, OwnerCanReturn
<1>6. Numbered'
  <2>1. ASSUME NEW k \in Key, key[k].by.kind \in Grants PROVE key[k].by.no <= issued'
    <3>1. key[k].by \in Warrant BY <2>1, KeyRows DEF NoWarrant, Grants
    <3>2. key[k].by.no \in Nat BY <2>1, <3>1, LimitAssumption DEF Warrant, Grants
    <3>3. key[k].by.no <= issued BY <2>1 DEF AuthInv, Numbered
    <3>4. issued \in Nat /\ issued' \in Nat BY LimitAssumption DEF AuthInv, TypeOK
    <3>5. QED BY <3>2, <3>3, <3>4
  <2>2. ASSUME NEW g \in Grants PROVE grant'[g] <= issued'
    <3>1. grant[g] <= issued BY DEF AuthInv, Numbered
    <3>2. grant[g] \in Nat /\ grant'[g] \in Nat /\ issued \in Nat /\ issued' \in Nat
      BY LimitAssumption DEF AuthInv, TypeOK
    <3>3. QED BY <3>1, <3>2
  <2>3. QED BY <2>1, <2>2 DEF Numbered
<1>7. QED BY <1>1, <1>3, <1>4, <1>5, <1>6 DEF AuthInv, AuthoritySpentOnce

(* Grants and invitations.                                                 *)
LEMMA IssueStep ==
    ASSUME AuthInv, NEW g \in Grants, Issue(g), cli' \in {"idle"} \cup Grants,
           session' = session
    PROVE  AuthInv'
<1>1. issued' = issued + 1 /\ issued \in Nat /\ issued' \in 0..MaxGrants
  BY LimitAssumption DEF Issue, AuthInv, TypeOK
<1>2. \A h \in Grants : grant'[h] = IF h = g THEN issued + 1 ELSE grant[h]
  BY DEF Issue, AuthInv, TypeOK
<1>3. TypeOK' BY <1>1 DEF Issue, AuthInv, TypeOK
<1>4. QED BY <1>1, <1>2, <1>3, Frame DEF Issue, Live, AuthInv, Numbered

(* Ending sessions keeps their rows well formed and opens none.            *)
LEMMA EndedSessions ==
    ASSUME AuthInv, NEW kept, EndAllSessions(kept)
    PROVE  /\ session' \in [Session -> SessionRow]
           /\ \A s \in Session : /\ session'[s].key = session[s].key
                                 /\ Live(s)' <=> Live(s) /\ s \in kept
<1>1. session \in [Session -> SessionRow] BY DEF AuthInv, TypeOK
<1>2. \A s \in Session : session'[s] = IF Live(s) /\ s \notin kept
                                         THEN [session[s] EXCEPT !.state = "over"]
                                         ELSE session[s]
  BY DEF EndAllSessions
<1>3. ASSUME NEW s \in Session
      PROVE  /\ session'[s] \in SessionRow /\ session'[s].key = session[s].key
             /\ Live(s)' <=> Live(s) /\ s \in kept
  <2>1. session[s] \in SessionRow BY <1>1
  <2>2. CASE Live(s) /\ s \notin kept
    BY <1>2, <2>1, <2>2 DEF SessionRow, Live
  <2>3. CASE ~(Live(s) /\ s \notin kept) BY <1>2, <2>1, <2>3 DEF Live
  <2>4. QED BY <2>2, <2>3
<1>4. session' = [s \in Session |-> session'[s]] BY DEF EndAllSessions
<1>5. QED BY <1>3, <1>4

(* bootstrap-reset, first half.                                            *)
LEMMA ResetBeginsStep == ASSUME AuthInv, ResetBegins PROVE AuthInv'
<1>1. /\ session' \in [Session -> SessionRow]
      /\ \A s \in Session : Live(s)' => Live(s) /\ session'[s].key = session[s].key
  <2>1. CASE EndAllSessions({}) BY <2>1, EndedSessions
  <2>2. CASE UNCHANGED session BY <2>2 DEF AuthInv, TypeOK, Live
  <2>3. QED BY <2>1, <2>2 DEF ResetBegins
<1>2. TypeOK' BY <1>1 DEF ResetBegins, AuthInv, TypeOK, Grants
<1>3. issued' >= issued BY LimitAssumption DEF ResetBegins, AuthInv, TypeOK
<1>4. QED BY <1>1, <1>2, <1>3, Frame DEF ResetBegins, AuthInv, Numbered

(* Invitations come and go; a consumed one stays consumed.                 *)
LEMMA InvitationStep ==
    ASSUME AuthInv, NEW i \in Invite, CreateInvitation(i) \/ RevokeInvitation(i)
    PROVE  AuthInv'
<1>1. TypeOK' BY DEF CreateInvitation, RevokeInvitation, AuthInv, TypeOK
<1>2. \A j \in Invite : invite[j] = "consumed" => invite'[j] = "consumed"
  BY DEF CreateInvitation, RevokeInvitation, AuthInv, TypeOK
<1>3. issued' >= issued
  BY LimitAssumption DEF CreateInvitation, RevokeInvitation, AuthInv, TypeOK
<1>4. QED BY <1>1, <1>2, <1>3, Frame
          DEF CreateInvitation, RevokeInvitation, Live, AuthInv, Numbered

(* A challenge that changes state keeps its context.                       *)
LEMMA ChallengeRows ==
    ASSUME AuthInv, NEW c \in Challenge, chal[c].state # "unused",
           NEW st \in {"stored", "gone"}
    PROVE  /\ [chal EXCEPT ![c].state = st] \in [Challenge -> ChallengeRow]
           /\ \A d \in Challenge : chal[d].state # "unused" =>
                 [chal EXCEPT ![c].state = st][d].state # "unused"
<1> DEFINE row == [chal[c] EXCEPT !.state = st]
<1>1. chal[c] \in ChallengeRow BY DEF AuthInv, TypeOK
<1>2. row \in ChallengeRow /\ row.state # "unused" BY <1>1 DEF ChallengeRow
<1>3. [chal EXCEPT ![c].state = st] = [chal EXCEPT ![c] = row] OBVIOUS
<1> HIDE DEF row
<1>4. QED BY <1>2, <1>3 DEF AuthInv, TypeOK

(* Grants, invitations, challenges and sessions expire.                    *)
LEMMA ExpiryStep == ASSUME AuthInv, Expiry PROVE AuthInv'
<1>1. issued' >= issued BY LimitAssumption DEF Expiry, AuthInv, TypeOK
<1>2. CASE /\ \E g \in Grants : grant[g] # 0 /\ grant' = [grant EXCEPT ![g] = 0]
           /\ UNCHANGED <<invite, chal, session>>
  <2>1. TypeOK' BY <1>2, LimitAssumption DEF Expiry, AuthInv, TypeOK
  <2>2. \A g \in Grants : grant'[g] = grant[g] \/ grant'[g] = 0
    BY <1>2 DEF AuthInv, TypeOK
  <2>3. QED BY <1>1, <1>2, <2>1, <2>2, Frame DEF Expiry, Live, AuthInv, Numbered
<1>3. CASE /\ \E i \in OpenInvites : invite' = [invite EXCEPT ![i] = "expired"]
           /\ UNCHANGED <<grant, chal, session>>
  <2>1. TypeOK' BY <1>3 DEF Expiry, AuthInv, TypeOK, OpenInvites
  <2>2. \A j \in Invite : invite[j] = "consumed" => invite'[j] = "consumed"
    BY <1>3 DEF OpenInvites, AuthInv, TypeOK
  <2>3. QED BY <1>1, <1>3, <2>1, <2>2, Frame DEF Expiry, Live, AuthInv, Numbered
<1>4. CASE /\ \E c \in Challenge : /\ chal[c].state = "stored"
                                   /\ chal' = [chal EXCEPT ![c].state = "gone"]
           /\ UNCHANGED <<grant, invite, session>>
  <2>1. PICK c \in Challenge : /\ chal[c].state = "stored"
                               /\ chal' = [chal EXCEPT ![c].state = "gone"]
    BY <1>4
  <2>2. /\ chal' \in [Challenge -> ChallengeRow]
        /\ \A d \in Challenge : chal[d].state # "unused" => chal'[d].state # "unused"
    BY <2>1, ChallengeRows
  <2>3. TypeOK' BY <1>4, <2>2 DEF Expiry, AuthInv, TypeOK
  <2>4. \A r \in flight' : chal'[r.of].state # "unused"
    BY <2>2 DEF Expiry, AuthInv, Numbered, TypeOK, Request
  <2>5. QED BY <1>1, <1>4, <2>3, <2>4, Frame DEF Expiry, Live
<1>5. CASE /\ \E s \in Session : /\ Live(s)
                                 /\ session' = [session EXCEPT ![s].state = "over"]
           /\ UNCHANGED <<grant, invite, chal>>
  <2>1. PICK s \in Session : Live(s) /\ session' = [session EXCEPT ![s].state = "over"]
    BY <1>5
  <2> DEFINE row == [session[s] EXCEPT !.state = "over"]
  <2>2. session[s] \in SessionRow BY DEF AuthInv, TypeOK
  <2>3. row \in SessionRow /\ row.state = "over" BY <2>1, <2>2 DEF SessionRow, Live
  <2>4. session' = [session EXCEPT ![s] = row] BY <2>1
  <2> HIDE DEF row
  <2>5. TypeOK' BY <1>5, <2>3, <2>4 DEF Expiry, AuthInv, TypeOK
  <2>6. \A t \in Session : Live(t)' => Live(t) /\ session'[t].key = session[t].key
    BY <2>3, <2>4 DEF Live, AuthInv, TypeOK
  <2>7. QED BY <1>1, <1>5, <2>5, <2>6, Frame DEF Expiry, AuthInv, Numbered
<1>6. QED BY <1>2, <1>3, <1>4, <1>5 DEF Expiry, Expires

(* A challenge is asked for with an authority, or for a login.             *)
LEMMA AskStep ==
    ASSUME AuthInv, NEW c \in Challenge, NEW w \in Warrant \cup {LoginWarrant}, Ask(c, w)
    PROVE  AuthInv'
<1> DEFINE row == [state |-> "asked", by |-> w]
<1>1. row \in ChallengeRow /\ row.state # "unused" BY DEF ChallengeRow
<1>2. chal' = [chal EXCEPT ![c] = row] BY DEF Ask
<1> HIDE DEF row
<1>3. TypeOK' BY <1>1, <1>2 DEF Ask, AuthInv, TypeOK
<1>4. \A r \in flight' : chal'[r.of].state # "unused"
  BY <1>1, <1>2 DEF Ask, AuthInv, Numbered, TypeOK, Request
<1>5. issued' >= issued BY LimitAssumption DEF Ask, AuthInv, TypeOK
<1>6. QED BY <1>3, <1>4, <1>5, Frame DEF Ask, Live

(* The challenge is stored, or refused because there are too many.         *)
LEMMA StoreStep == ASSUME AuthInv, NEW c \in Challenge, StoreChallenge(c) PROVE AuthInv'
<1>1. PICK st \in {"stored", "gone"} : chal' = [chal EXCEPT ![c].state = st]
  BY DEF StoreChallenge
<1>2. /\ chal' \in [Challenge -> ChallengeRow]
      /\ \A d \in Challenge : chal[d].state # "unused" => chal'[d].state # "unused"
  BY <1>1, ChallengeRows DEF StoreChallenge
<1>3. TypeOK' BY <1>2 DEF StoreChallenge, AuthInv, TypeOK
<1>4. \A r \in flight' : chal'[r.of].state # "unused"
  BY <1>2 DEF StoreChallenge, AuthInv, Numbered, TypeOK, Request
<1>5. issued' >= issued BY LimitAssumption DEF StoreChallenge, AuthInv, TypeOK
<1>6. QED BY <1>3, <1>4, <1>5, Frame DEF StoreChallenge, Live

(* A response starts to be verified, or is dropped.                        *)
LEMMA FlightStep ==
    ASSUME AuthInv,
           \/ \E c \in Challenge, k \in Key :
                BeginRegistration(c, k) \/ BeginAuthentication(c, k)
           \/ \E r \in flight : ResponseFails(r)
    PROVE  AuthInv'
<1>1. UNCHANGED <<owners, grant, issued, invite, chal, key, session, cli>>
  BY DEF BeginRegistration, BeginAuthentication, Await, ResponseFails
<1>2. \A r \in flight' : r \in Request /\ chal[r.of].state # "unused"
  BY DEF BeginRegistration, BeginAuthentication, Await, ResponseFails, Request,
         AuthInv, Numbered, TypeOK
<1>3. TypeOK' BY <1>1, <1>2 DEF AuthInv, TypeOK
<1>4. issued' >= issued BY <1>1, LimitAssumption DEF AuthInv, TypeOK
<1>5. QED BY <1>1, <1>2, <1>3, <1>4, Frame DEF Live

(* A registration succeeds.  The warrant was still valid inside the        *)
(* transaction, so no passkey has been registered by it if it is not a     *)
(* session.                                                                *)
LEMMA FinishRegistrationStep ==
    ASSUME AuthInv, NEW r \in flight, NEW s \in Session, FinishRegistration(r, s)
    PROVE  AuthInv'
<1>1. PICK c \in Challenge, k \in Key : r.of = c /\ r.key = k
  BY DEF AuthInv, TypeOK, Request
<1>2. chal[c] \in ChallengeRow /\ chal[c].state # "unused"
  BY <1>1 DEF AuthInv, TypeOK, Numbered
<1>3. PICK w \in Warrant : w = chal[c].by
  BY <1>1, <1>2 DEF FinishRegistration, ChallengeRow
<1>4. /\ Valid(w) /\ key[k].state = "new" /\ Spend(w)
      /\ owners' = (IF w.kind = "claim" THEN owners \cup {c} ELSE owners)
      /\ key' = [key EXCEPT ![k] = [state |-> "registered", by |-> w]]
      /\ chal' = [chal EXCEPT ![c].state = "gone"]
      /\ session[s].state = "unused"
      /\ session' = [session EXCEPT ![s] = [state |-> "live", key |-> {k}]]
      /\ flight' = flight \ {r} /\ issued' = issued /\ cli' = cli
  BY <1>1, <1>3 DEF FinishRegistration, Recheck, Open
<1>5. /\ w.kind \in {"claim", "recovery", "invite", "session"}
      /\ w.kind \in Grants => w.no \in 1..MaxGrants
      /\ w.kind = "invite" => w.no \in Invite
  BY DEF Warrant, Grants
<1>6. /\ \A g \in Grants : grant'[g] = IF g = w.kind THEN 0 ELSE grant[g]
      /\ \A i \in Invite : invite'[i] = IF w.kind = "invite" /\ i = w.no
                                          THEN "consumed" ELSE invite[i]
      /\ grant' \in [Grants -> 0..MaxGrants]
      /\ invite' \in [Invite -> {"none", "open", "expired", "consumed", "revoked"}]
  BY <1>4, <1>5, LimitAssumption DEF Spend, AuthInv, TypeOK
<1>7. /\ key'[k].state = "registered" /\ key'[k].by = w
      /\ \A j \in Key \ {k} : key'[j] = key[j]
      /\ key' \in [Key -> KeyRow]
  <2> DEFINE row == [state |-> "registered", by |-> w]
  <2>1. row \in KeyRow /\ row.state = "registered" /\ row.by = w BY DEF KeyRow
  <2>2. key' = [key EXCEPT ![k] = row] BY <1>4
  <2> HIDE DEF row
  <2>3. QED BY <2>1, <2>2 DEF AuthInv, TypeOK
<1>8. /\ Live(s)' /\ session'[s].key = {k}
      /\ \A t \in Session \ {s} : session'[t] = session[t]
      /\ session' \in [Session -> SessionRow]
  <2> DEFINE row == [state |-> "live", key |-> {k}]
  <2>1. row \in SessionRow /\ row.state = "live" /\ row.key = {k} BY DEF SessionRow
  <2>2. session' = [session EXCEPT ![s] = row] BY <1>4
  <2> HIDE DEF row
  <2>3. QED BY <2>1, <2>2 DEF AuthInv, TypeOK, Live
<1>9. /\ chal' \in [Challenge -> ChallengeRow]
      /\ \A d \in Challenge : chal[d].state # "unused" => chal'[d].state # "unused"
  BY <1>2, <1>4, ChallengeRows
<1>10. TypeOK' BY <1>4, <1>6, <1>7, <1>8, <1>9 DEF AuthInv, TypeOK
<1>11. OneOwner' BY <1>4 DEF AuthInv, OneOwner, Valid, Grants
<1>12. k \in Registered' /\ Registered \subseteq Registered'
  BY <1>4, <1>7 DEF Registered
<1>13. SessionsHaveKeys'
  <2>1. ASSUME NEW t \in Session, Live(t)' PROVE session'[t].key \subseteq Registered'
    <3>1. CASE t = s BY <3>1, <1>8, <1>12
    <3>2. CASE t # s BY <3>2, <2>1, <1>8, <1>12 DEF AuthInv, SessionsHaveKeys, Live
    <3>3. QED BY <3>1, <3>2
  <2>2. QED BY <2>1 DEF SessionsHaveKeys
<1>14. ASSUME NEW j \in Key, key[j].by = w PROVE w.kind = "session"
  <2>1. key[j].state # "new"
    BY <1>5, <1>14, KeyRows DEF NoWarrant
  <2>2. /\ w.kind = "invite" => invite[w.no] = "consumed"
        /\ w.kind \in Grants => grant[w.kind] # w.no
    BY <1>14, <2>1 DEF AuthInv, AuthoritySpentOnce
  <2>3. QED BY <1>4, <1>5, <2>2 DEF Valid, Grants
<1>15. ASSUME NEW j \in Key, key'[j].state # "new"
       PROVE  /\ key'[j].by.kind = "invite" => invite'[key'[j].by.no] = "consumed"
              /\ key'[j].by.kind \in Grants => grant'[key'[j].by.kind] # key'[j].by.no
              /\ \A m \in Key \ {j} : key'[m].by = key'[j].by => key'[j].by.kind = "session"
  <2>1. CASE j = k
    <3>1. key'[j].by.kind = "invite" => invite'[key'[j].by.no] = "consumed"
      BY <1>5, <1>6, <1>7, <2>1
    <3>2. key'[j].by.kind \in Grants => grant'[key'[j].by.kind] # key'[j].by.no
      BY <1>5, <1>6, <1>7, <2>1, LimitAssumption
    <3>3. QED BY <1>7, <1>14, <2>1, <3>1, <3>2
  <2>2. CASE j # k
    <3>1. key[j].state # "new" /\ key'[j] = key[j] BY <1>7, <1>15, <2>2
    <3>2. key[j].by \in Warrant BY <3>1, KeyRows
    <3>3. /\ key[j].by.kind = "invite" => key[j].by.no \in Invite
          /\ key[j].by.kind \in Grants => key[j].by.no \in 1..MaxGrants
      BY <3>2 DEF Warrant, Grants
    <3>4. /\ key[j].by.kind = "invite" => invite[key[j].by.no] = "consumed"
          /\ key[j].by.kind \in Grants => grant[key[j].by.kind] # key[j].by.no
          /\ \A m \in Key \ {j} : key[m].by = key[j].by => key[j].by.kind = "session"
      BY <3>1 DEF AuthInv, AuthoritySpentOnce
    <3>5. key[j].by.kind = "invite" => invite'[key[j].by.no] = "consumed"
      BY <1>6, <3>3, <3>4
    <3>6. key[j].by.kind \in Grants => grant'[key[j].by.kind] # key[j].by.no
      BY <1>6, <3>3, <3>4, LimitAssumption
    <3>7. \A m \in Key \ {j} : key'[m].by = key[j].by => key[j].by.kind = "session"
      BY <1>7, <1>14, <3>4
    <3>8. QED BY <3>1, <3>5, <3>6, <3>7
  <2>3. QED BY <2>1, <2>2
<1>16. OwnerCanReturn'
  <2>1. owners' # {} BY <1>4, <1>5 DEF Valid
  <2>2. QED BY <1>12, <2>1 DEF OwnerCanReturn
<1>17. Numbered'
  <2>1. issued \in Nat /\ \A g \in Grants : grant[g] <= issued
    BY LimitAssumption DEF AuthInv, TypeOK, Numbered
  <2>2. w.kind \in Grants => w.no <= issued
    BY <1>4, <2>1 DEF Valid, Grants
  <2>3. \A j \in Key : key'[j].by.kind \in Grants => key'[j].by.no <= issued'
    BY <1>4, <1>7, <2>2 DEF AuthInv, Numbered
  <2>4. \A g \in Grants : grant'[g] <= issued' BY <1>4, <1>6, <2>1
  <2>5. \A q \in flight' : chal'[q.of].state # "unused"
    BY <1>4, <1>9 DEF AuthInv, TypeOK, Numbered, Request
  <2>6. QED BY <2>3, <2>4, <2>5 DEF Numbered
<1>18. QED BY <1>10, <1>11, <1>13, <1>15, <1>16, <1>17 DEF AuthInv, AuthoritySpentOnce

(* A login succeeds: its passkey is still registered in the transaction.   *)
LEMMA FinishAuthenticationStep ==
    ASSUME AuthInv, NEW r \in flight, NEW s \in Session, FinishAuthentication(r, s)
    PROVE  AuthInv'
<1>1. PICK c \in Challenge, k \in Key : r.of = c /\ r.key = k
  BY DEF AuthInv, TypeOK, Request
<1>2. chal[c].state # "unused" BY <1>1 DEF AuthInv, Numbered
<1>3. /\ k \in Registered
      /\ chal' = [chal EXCEPT ![c].state = "gone"]
      /\ session' = [session EXCEPT ![s] = [state |-> "live", key |-> {k}]]
      /\ flight' = flight \ {r}
      /\ UNCHANGED <<owners, grant, issued, invite, key, cli>>
  BY <1>1 DEF FinishAuthentication, StillThere, Open
<1>4. /\ session'[s].key = {k}
      /\ \A t \in Session \ {s} : session'[t] = session[t]
      /\ session' \in [Session -> SessionRow]
  <2> DEFINE row == [state |-> "live", key |-> {k}]
  <2>1. row \in SessionRow /\ row.key = {k} BY DEF SessionRow
  <2>2. session' = [session EXCEPT ![s] = row] BY <1>3
  <2> HIDE DEF row
  <2>3. QED BY <2>1, <2>2 DEF AuthInv, TypeOK
<1>5. /\ chal' \in [Challenge -> ChallengeRow]
      /\ \A d \in Challenge : chal[d].state # "unused" => chal'[d].state # "unused"
  BY <1>2, <1>3, ChallengeRows
<1>6. TypeOK' BY <1>3, <1>4, <1>5 DEF AuthInv, TypeOK
<1>7. Registered' = Registered BY <1>3 DEF Registered
<1>8. SessionsHaveKeys'
  <2>1. ASSUME NEW t \in Session, Live(t)' PROVE session'[t].key \subseteq Registered'
    <3>1. CASE t = s BY <3>1, <1>3, <1>4, <1>7
    <3>2. CASE t # s BY <3>2, <2>1, <1>4, <1>7 DEF AuthInv, SessionsHaveKeys, Live
    <3>3. QED BY <3>1, <3>2
  <2>2. QED BY <2>1 DEF SessionsHaveKeys
<1>9. OneOwner' /\ AuthoritySpentOnce'
  BY <1>3 DEF AuthInv, OneOwner, AuthoritySpentOnce
<1>10. OwnerCanReturn' BY <1>3, <1>7 DEF AuthInv, OwnerCanReturn
<1>11. Numbered'
  BY <1>3, <1>5 DEF AuthInv, TypeOK, Numbered, Request
<1>12. QED BY <1>6, <1>8, <1>9, <1>10, <1>11 DEF AuthInv

(* Logging out, one session or all the others.                             *)
LEMMA EndSessionStep ==
    ASSUME AuthInv, NEW s \in Session, EndSession(s) \/ EndOtherSessions(s)
    PROVE  AuthInv'
<1>1. UNCHANGED <<owners, grant, issued, invite, chal, key, flight, cli>>
  BY DEF EndSession, EndOtherSessions
<1>2. /\ session' \in [Session -> SessionRow]
      /\ \A t \in Session : Live(t)' => Live(t) /\ session'[t].key = session[t].key
  <2>1. CASE EndSession(s)
    <3> DEFINE row == [session[s] EXCEPT !.state = "over"]
    <3>1. session[s] \in SessionRow BY DEF AuthInv, TypeOK
    <3>2. row \in SessionRow /\ row.state = "over"
      BY <2>1, <3>1 DEF EndSession, SessionRow, Live
    <3>3. session' = [session EXCEPT ![s] = row] BY <2>1 DEF EndSession
    <3> HIDE DEF row
    <3>4. QED BY <3>2, <3>3 DEF Live, AuthInv, TypeOK
  <2>2. CASE EndOtherSessions(s) BY <2>2, EndedSessions DEF EndOtherSessions
  <2>3. QED BY <2>1, <2>2
<1>3. TypeOK' BY <1>1, <1>2 DEF AuthInv, TypeOK
<1>4. issued' >= issued BY <1>1, LimitAssumption DEF AuthInv, TypeOK
<1>5. QED BY <1>1, <1>2, <1>3, <1>4, Frame DEF AuthInv, Numbered

(* A passkey is revoked: its sessions end with it and another one is left. *)
LEMMA RevokePasskeyStep ==
    ASSUME AuthInv, NEW k \in Key, RevokePasskey(k)
    PROVE  AuthInv'
<1>1. /\ UNCHANGED <<owners, grant, issued, invite, chal, flight, cli>>
      /\ k \in Registered /\ Registered \ {k} # {}
      /\ key' = [key EXCEPT ![k].state = "revoked"]
  BY DEF RevokePasskey, Spare
<1>2. /\ session' \in [Session -> SessionRow]
      /\ \A s \in Session : /\ session'[s].key = session[s].key
                            /\ Live(s)' <=> Live(s) /\ session[s].key # {k}
  BY EndedSessions DEF RevokePasskey
<1>3. /\ key'[k].state = "revoked" /\ key'[k].by = key[k].by
      /\ \A j \in Key \ {k} : key'[j] = key[j]
      /\ key' \in [Key -> KeyRow]
  <2> DEFINE row == [key[k] EXCEPT !.state = "revoked"]
  <2>1. key[k] \in KeyRow BY DEF AuthInv, TypeOK
  <2>2. row \in KeyRow /\ row.state = "revoked" /\ row.by = key[k].by
    BY <1>1, <2>1 DEF KeyRow, Registered
  <2>3. key' = [key EXCEPT ![k] = row] BY <1>1
  <2> HIDE DEF row
  <2>4. QED BY <2>2, <2>3 DEF AuthInv, TypeOK
<1>4. TypeOK' BY <1>1, <1>2, <1>3 DEF AuthInv, TypeOK
<1>5. Registered' = Registered \ {k} BY <1>3 DEF Registered
<1>6. SessionsHaveKeys'
  <2>1. ASSUME NEW s \in Session, Live(s)' PROVE session'[s].key \subseteq Registered'
    <3>1. Live(s) /\ session[s].key # {k} /\ session'[s].key = session[s].key
      BY <1>2, <2>1
    <3>2. session[s].key \subseteq Registered
      BY <3>1 DEF AuthInv, SessionsHaveKeys
    <3>3. session[s] \in SessionRow BY DEF AuthInv, TypeOK
    <3>4. PICK j \in Key : session[s].key = {j} BY <3>1, <3>3 DEF SessionRow, Live
    <3>5. QED BY <1>5, <3>1, <3>2, <3>4
  <2>2. QED BY <2>1 DEF SessionsHaveKeys
<1>7. /\ \A j \in Key : key'[j].by = key[j].by
      /\ \A j \in Key : key'[j].state # "new" => key[j].state # "new"
  BY <1>1, <1>3 DEF Registered
<1>8. AuthoritySpentOnce' BY <1>1, <1>7 DEF AuthInv, AuthoritySpentOnce
<1>9. OwnerCanReturn'
  <2>1. owners # {} BY <1>1 DEF AuthInv, OwnerCanReturn, Registered
  <2>2. QED BY <1>1, <1>5, <2>1 DEF OwnerCanReturn
<1>10. OneOwner' /\ Numbered' BY <1>1, <1>7 DEF AuthInv, OneOwner, Numbered
<1>11. QED BY <1>4, <1>6, <1>8, <1>9, <1>10 DEF AuthInv

(* A restart forgets what was being verified and what was being asked.     *)
LEMMA RestartStep == ASSUME AuthInv, Restart PROVE AuthInv'
<1>1. ASSUME NEW c \in Challenge PROVE chal'[c] \in ChallengeRow
  <2>1. chal[c] \in ChallengeRow BY DEF AuthInv, TypeOK
  <2>2. CASE chal[c].state = "asked"
    <3>1. chal'[c] = [chal[c] EXCEPT !.state = "gone"] BY <2>2 DEF Restart
    <3>2. QED BY <2>1, <2>2, <3>1 DEF ChallengeRow
  <2>3. CASE chal[c].state # "asked" BY <2>1, <2>3 DEF Restart
  <2>4. QED BY <2>2, <2>3
<1>2. chal' \in [Challenge -> ChallengeRow]
  <2>1. chal' = [c \in Challenge |-> chal'[c]] BY DEF Restart
  <2>2. QED BY <1>1, <2>1
<1>3. TypeOK' BY <1>2 DEF Restart, AuthInv, TypeOK
<1>4. issued' >= issued BY LimitAssumption DEF Restart, AuthInv, TypeOK
<1>5. QED BY <1>3, <1>4, Frame DEF Restart, Live

(* Before the first claim there is nothing to be consistent about.         *)
LEMMA InitAuth == Init => AuthInv
<1> SUFFICES ASSUME Init PROVE AuthInv OBVIOUS
<1>1. [state |-> "unused", by |-> NoWarrant] \in ChallengeRow
  BY DEF ChallengeRow
<1>2. [state |-> "new", by |-> NoWarrant] \in KeyRow BY DEF KeyRow
<1>3. [state |-> "unused", key |-> {}] \in SessionRow BY DEF SessionRow
<1>4. TypeOK BY <1>1, <1>2, <1>3, LimitAssumption DEF Init, TypeOK
<1>5. \A k \in Key : key[k].state = "new" /\ key[k].by.kind = "none"
  BY DEF Init, NoWarrant
<1>6. \A s \in Session : ~Live(s) BY DEF Init, Live
<1>7. Numbered BY <1>5 DEF Numbered, Init, Grants
<1>8. QED BY <1>4, <1>5, <1>6, <1>7
          DEF Init, AuthInv, OneOwner, SessionsHaveKeys, AuthoritySpentOnce,
              OwnerCanReturn, Registered

(* Every step keeps the invariant.                                         *)
LEMMA NextAuth == AuthInv /\ [Next]_vars => AuthInv'
<1> SUFFICES ASSUME AuthInv, [Next]_vars PROVE AuthInv' OBVIOUS
<1>1. CASE IssueClaim BY <1>1, IssueStep DEF IssueClaim, Grants, AuthInv, TypeOK
<1>2. CASE ResetBegins BY <1>2, ResetBeginsStep
<1>3. CASE ResetIssues BY <1>3, IssueStep DEF ResetIssues, AuthInv, TypeOK
<1>4. CASE Expiry BY <1>4, ExpiryStep
<1>5. CASE Restart BY <1>5, RestartStep
<1>6. CASE \E i \in Invite : CreateInvitation(i) \/ RevokeInvitation(i)
  BY <1>6, InvitationStep
<1>7. CASE \E c \in Challenge : RegistrationOptions(c) \/ AuthenticationOptions(c)
  BY <1>7, AskStep DEF RegistrationOptions, AuthenticationOptions
<1>8. CASE \E c \in Challenge : StoreChallenge(c) BY <1>8, StoreStep
<1>9. CASE \/ \E c \in Challenge, k \in Key :
                BeginRegistration(c, k) \/ BeginAuthentication(c, k)
           \/ \E r \in flight : ResponseFails(r)
  BY <1>9, FlightStep
<1>10. CASE \E r \in flight, s \in Session :
              FinishRegistration(r, s) \/ FinishAuthentication(r, s)
  BY <1>10, FinishRegistrationStep, FinishAuthenticationStep
<1>11. CASE \E s \in Session : EndSession(s) \/ EndOtherSessions(s)
  BY <1>11, EndSessionStep
<1>12. CASE \E k \in Key : RevokePasskey(k) BY <1>12, RevokePasskeyStep
<1>13. CASE UNCHANGED vars
  BY <1>13 DEF vars, AuthInv, TypeOK, OneOwner, SessionsHaveKeys, AuthoritySpentOnce,
               OwnerCanReturn, Numbered, Registered, Live
<1>14. QED
  BY <1>1, <1>2, <1>3, <1>4, <1>5, <1>6, <1>7, <1>8, <1>9, <1>10, <1>11, <1>12, <1>13
     DEF Next

(* Rows have the fields their state says they have: a session that exists  *)
(* names its passkey, a passkey the authority that registered it.          *)
THEOREM AuthTypeCorrect == Spec => []TypeOK
<1>1. AuthInv => TypeOK BY DEF AuthInv
<1>2. QED BY <1>1, InitAuth, NextAuth, PTL DEF Spec

(* However many browsers hold the first claim or a recovery link while     *)
(* bootstrap-reset runs beside them, there is at most one owner.           *)
THEOREM SingleOwner == Spec => []OneOwner
<1>1. AuthInv => OneOwner BY DEF AuthInv
<1>2. QED BY <1>1, InitAuth, NextAuth, PTL DEF Spec

(* A session that is alive was opened with a passkey that is registered,   *)
(* although the passkey may be revoked while a login with it is verified.  *)
THEOREM SessionsBacked == Spec => []SessionsHaveKeys
<1>1. AuthInv => SessionsHaveKeys BY DEF AuthInv
<1>2. QED BY <1>1, InitAuth, NextAuth, PTL DEF Spec

(* A grant or an invitation yields at most one passkey, whatever expires,  *)
(* is revoked or is used while registrations under it are verified.        *)
THEOREM AuthCorrect == Spec => []AuthoritySpentOnce
<1>1. AuthInv => AuthoritySpentOnce BY DEF AuthInv
<1>2. QED BY <1>1, InitAuth, NextAuth, PTL DEF Spec

(* An owner always has a passkey to return with: the last one cannot be    *)
(* revoked by any order of requests from different sessions.               *)
THEOREM OwnerKept == Spec => []OwnerCanReturn
<1>1. AuthInv => OwnerCanReturn BY DEF AuthInv
<1>2. QED BY <1>1, InitAuth, NextAuth, PTL DEF Spec

-----------------------------------------------------------------------------
(* Gateway: the table of endpoints                                          *)

(* What a list holds, and the endpoints of a table of their methods, paths *)
(* and kinds of access.                                                    *)
Held(list) == {list[i] : i \in DOMAIN list}
EndpointsOf(table) == {Endpoint(t[1], t[2], t[3]) : t \in table}

(* The endpoints as sets of rows: the order of registerRoutes() matters    *)
(* for one pair of them only, and what the sets say the provers can        *)
(* compare row by row.                                                     *)
AuthTable ==
    {<<"GET", <<"auth", "state">>, "public">>,
     <<"GET", <<"setup">>, "public">>,
     <<"POST", <<"setup", "domain">>, "public">>,
     <<"POST", <<"setup", "restore">>, "public">>,
     <<"POST", <<"auth", "register", "options">>, "public">>,
     <<"POST", <<"auth", "register", "verify">>, "public">>,
     <<"POST", <<"auth", "login", "options">>, "public">>,
     <<"POST", <<"auth", "login", "verify">>, "public">>,
     <<"POST", <<"auth", "logout">>, "session">>,
     <<"GET", <<"security">>, "owner">>,
     <<"POST", <<"invitations">>, "owner">>,
     <<"DELETE", <<"invitations", ":">>, "owner">>,
     <<"DELETE", <<"passkeys", ":">>, "owner">>,
     <<"DELETE", <<"sessions">>, "owner">>,
     <<"DELETE", <<"sessions", ":">>, "owner">>,
     <<"GET", <<"me">>, "session">>, <<"PATCH", <<"me">>, "session">>,
     <<"GET", <<"status">>, "session">>, <<"GET", <<"dashboard">>, "owner">>,
     <<"GET", <<"dashboard", "events">>, "owner">>}

ConnectionTable ==
    {<<"GET", <<"connections">>, "session">>,
     <<"GET", <<"connections", ":", "diagnostics">>, "session">>,
     <<"POST", <<"connections">>, "session">>,
     <<"GET", <<"connections", ":">>, "session">>,
     <<"PATCH", <<"connections", ":">>, "session">>,
     <<"DELETE", <<"connections", ":">>, "owner">>,
     <<"GET", <<"connections", ":", "subscription">>, "session">>,
     <<"POST", <<"connections", ":", "retry">>, "session">>,
     <<"POST", <<"connections", ":", "rotate">>, "owner">>,
     <<"POST", <<"connections", ":", "suspend">>, "owner">>,
     <<"POST", <<"connections", ":", "resume">>, "owner">>}

RouteTable ==
    {<<"GET", <<"routes">>, "session">>,
     <<"GET", <<"routes", "revisions">>, "session">>,
     <<"GET", <<"routes", "preview">>, "session">>,
     <<"POST", <<"routes">>, "session">>,
     <<"PATCH", <<"routes", ":">>, "session">>,
     <<"DELETE", <<"routes", ":">>, "session">>,
     <<"POST", <<"routes", "reorder">>, "session">>,
     <<"POST", <<"routes", "publish">>, "session">>,
     <<"POST", <<"routes", "discard">>, "session">>,
     <<"POST", <<"routes", "rollback", ":">>, "session">>,
     <<"GET", <<"rulesets">>, "owner">>,
     <<"POST", <<"rulesets", "refresh">>, "owner">>}

SystemTable ==
    {<<"GET", <<"traffic">>, "session">>,
     <<"GET", <<"system", "metrics">>, "session">>,
     <<"GET", <<"system">>, "session">>,
     <<"GET", <<"system", "events">>, "session">>,
     <<"GET", <<"engines">>, "session">>,
     <<"POST", <<"engines", "check">>, "session">>,
     <<"POST", <<"engines", ":", "check">>, "session">>,
     <<"GET", <<"methods">>, "session">>,
     <<"POST", <<"methods">>, "session">>,
     <<"POST", <<"methods", "reorder">>, "session">>,
     <<"PATCH", <<"methods", ":">>, "session">>,
     <<"DELETE", <<"methods", ":">>, "session">>,
     <<"GET", <<"settings">>, "session">>,
     <<"PATCH", <<"settings">>, "session">>,
     <<"POST", <<"updates", "check">>, "owner">>,
     <<"POST", <<"updates", "prepare">>, "owner">>,
     <<"GET", <<"engines", "configurations">>, "session">>,
     <<"POST", <<"engines", "configurations", "preview">>, "session">>,
     <<"POST", <<"engines", "configurations", "apply">>, "session">>,
     <<"POST", <<"engines", "configurations", ":", "rollback", ":">>, "session">>}

OperationTable ==
    {<<"GET", <<"operations">>, "session">>,
     <<"GET", <<"operations", "events">>, "session">>,
     <<"GET", <<"operations", ":">>, "session">>,
     <<"POST", <<"diagnostics">>, "session">>,
     <<"GET", <<"diagnostics", ":">>, "session">>,
     <<"POST", <<"diagnostics", ":", "cancel">>, "session">>,
     <<"POST", <<"diagnostics", ":", "claim">>, "connections:secret">>,
     <<"POST", <<"diagnostics", ":", "report">>, "session">>,
     <<"GET", <<"backups", ":">>, "session">>,
     <<"POST", <<"operations", "preview">>, "connections:rotate">>,
     <<"POST", <<"operations", "confirm">>, "connections:rotate">>,
     <<"POST", <<"tokens">>, "session">>, <<"GET", <<"tokens">>, "session">>,
     <<"DELETE", <<"tokens", ":">>, "session">>}

(* What lists of the lengths of the groups of endpoints hold.              *)
LEMMA Held11 ==
    \A a1, a2, a3, a4, a5, a6, a7, a8, a9, a10, a11 :
        Held(<<a1, a2, a3, a4, a5, a6, a7, a8, a9, a10, a11>>)
          = {a1, a2, a3, a4, a5, a6, a7, a8, a9, a10, a11}
    BY DEF Held

LEMMA Held12 ==
    \A a1, a2, a3, a4, a5, a6, a7, a8, a9, a10, a11, a12 :
        Held(<<a1, a2, a3, a4, a5, a6, a7, a8, a9, a10, a11, a12>>)
          = {a1, a2, a3, a4, a5, a6, a7, a8, a9, a10, a11, a12}
    BY DEF Held

LEMMA Held14 ==
    \A a1, a2, a3, a4, a5, a6, a7, a8, a9, a10, a11, a12, a13, a14 :
        Held(<<a1, a2, a3, a4, a5, a6, a7, a8, a9, a10, a11, a12, a13, a14>>)
          = {a1, a2, a3, a4, a5, a6, a7, a8, a9, a10, a11, a12, a13, a14}
    BY DEF Held

LEMMA Held20 ==
    \A a1, a2, a3, a4, a5, a6, a7, a8, a9, a10,
       a11, a12, a13, a14, a15, a16, a17, a18, a19, a20 :
        Held(<<a1, a2, a3, a4, a5, a6, a7, a8, a9, a10,
               a11, a12, a13, a14, a15, a16, a17, a18, a19, a20>>)
          = {a1, a2, a3, a4, a5, a6, a7, a8, a9, a10,
             a11, a12, a13, a14, a15, a16, a17, a18, a19, a20}
    BY DEF Held

(* A segment p meets a segment q of which a sample is taken, and a path    *)
(* the path of another endpoint of which a sample is taken.                *)
Near(a, b) == a = ":" \/ a = b \/ (b = ":" /\ a = "x")
Alike(p, q) ==
    /\ Len(p) = Len(q)
    /\ 1 <= Len(q) => Near(p[1], q[1])
    /\ 2 <= Len(q) => Near(p[2], q[2])
    /\ 3 <= Len(q) => Near(p[3], q[3])
    /\ 4 <= Len(q) => Near(p[4], q[4])
    /\ 5 <= Len(q) => Near(p[5], q[5])

(* Each group of endpoints holds the rows of its table, and no request for *)
(* one of its endpoints fits another one, but for the stream of            *)
(* operations, which also fits the path of a single operation.             *)
LEMMA AuthRows == Held(AuthRoutes) = EndpointsOf(AuthTable)
<1>1. \A t \in AuthTable : Endpoint(t[1], t[2], t[3]) \in Held(AuthRoutes)
  BY Held20, SMTT(60) DEF AuthTable, AuthRoutes, Public, SignedIn, OwnerOnly
<1>2. \A e \in Held(AuthRoutes) : \E t \in AuthTable : e = Endpoint(t[1], t[2], t[3])
  BY Held20, SMTT(60) DEF AuthTable, AuthRoutes, Public, SignedIn, OwnerOnly
<1> QED BY <1>1, <1>2 DEF EndpointsOf

LEMMA AuthApart ==
    \A r, s \in AuthTable :
        r[1] = s[1] /\ Alike(r[2], s[2]) => r = s
BY SMTT(60) DEF AuthTable, Alike, Near

LEMMA ConnectionRows == Held(ConnectionRoutes) = EndpointsOf(ConnectionTable)
<1>1. \A t \in ConnectionTable : Endpoint(t[1], t[2], t[3]) \in Held(ConnectionRoutes)
  BY Held11, SMTT(60) DEF ConnectionTable, ConnectionRoutes, Public, SignedIn, OwnerOnly
<1>2. \A e \in Held(ConnectionRoutes) : \E t \in ConnectionTable : e = Endpoint(t[1], t[2], t[3])
  BY Held11, SMTT(60) DEF ConnectionTable, ConnectionRoutes, Public, SignedIn, OwnerOnly
<1> QED BY <1>1, <1>2 DEF EndpointsOf

LEMMA ConnectionApart ==
    \A r, s \in ConnectionTable :
        r[1] = s[1] /\ Alike(r[2], s[2]) => r = s
BY SMTT(60) DEF ConnectionTable, Alike, Near

LEMMA RouteRows == Held(RouteRoutes) = EndpointsOf(RouteTable)
<1>1. \A t \in RouteTable : Endpoint(t[1], t[2], t[3]) \in Held(RouteRoutes)
  BY Held12, SMTT(60) DEF RouteTable, RouteRoutes, Public, SignedIn, OwnerOnly
<1>2. \A e \in Held(RouteRoutes) : \E t \in RouteTable : e = Endpoint(t[1], t[2], t[3])
  BY Held12, SMTT(60) DEF RouteTable, RouteRoutes, Public, SignedIn, OwnerOnly
<1> QED BY <1>1, <1>2 DEF EndpointsOf

LEMMA RouteApart ==
    \A r, s \in RouteTable :
        r[1] = s[1] /\ Alike(r[2], s[2]) => r = s
BY SMTT(60) DEF RouteTable, Alike, Near

LEMMA SystemRows == Held(SystemRoutes) = EndpointsOf(SystemTable)
<1>1. \A t \in SystemTable : Endpoint(t[1], t[2], t[3]) \in Held(SystemRoutes)
  BY Held20, SMTT(60) DEF SystemTable, SystemRoutes, Public, SignedIn, OwnerOnly
<1>2. \A e \in Held(SystemRoutes) : \E t \in SystemTable : e = Endpoint(t[1], t[2], t[3])
  BY Held20, SMTT(60) DEF SystemTable, SystemRoutes, Public, SignedIn, OwnerOnly
<1> QED BY <1>1, <1>2 DEF EndpointsOf

LEMMA SystemApart ==
    \A r, s \in SystemTable :
        r[1] = s[1] /\ Alike(r[2], s[2]) => r = s
BY SMTT(60) DEF SystemTable, Alike, Near

LEMMA OperationRows == Held(OperationRoutes) = EndpointsOf(OperationTable)
<1>1. \A t \in OperationTable : Endpoint(t[1], t[2], t[3]) \in Held(OperationRoutes)
  BY Held14, SMTT(60) DEF OperationTable, OperationRoutes, Public, SignedIn, OwnerOnly
<1>2. \A e \in Held(OperationRoutes) : \E t \in OperationTable : e = Endpoint(t[1], t[2], t[3])
  BY Held14, SMTT(60) DEF OperationTable, OperationRoutes, Public, SignedIn, OwnerOnly
<1> QED BY <1>1, <1>2 DEF EndpointsOf

LEMMA OperationApart ==
    \A r, s \in OperationTable :
        r[1] = s[1] /\ Alike(r[2], s[2]) =>
           \/ r = s
           \/ r[2] = <<"operations", ":">> /\ s[2] = <<"operations", "events">>
BY SMTT(60) DEF OperationTable, Alike, Near

Table == AuthTable \cup ConnectionTable \cup RouteTable \cup SystemTable
         \cup OperationTable

Row == STRING \X Seq(STRING) \X STRING

(* Two lists joined hold what either holds.                                *)
LEMMA HeldJoined ==
    ASSUME NEW T, NEW s \in Seq(T), NEW t \in Seq(T)
    PROVE  /\ s \o t \in Seq(T)
           /\ Held(s \o t) = Held(s) \cup Held(t)
<1>1. /\ s \o t \in Seq(T) /\ Len(s \o t) = Len(s) + Len(t)
      /\ \A i \in 1..Len(s) : (s \o t)[i] = s[i]
      /\ \A i \in 1..Len(t) : (s \o t)[Len(s) + i] = t[i]
      OBVIOUS
<1>2. Held(s \o t) \subseteq Held(s) \cup Held(t) BY <1>1 DEF Held
<1>3. Held(s) \subseteq Held(s \o t) BY <1>1 DEF Held
<1>4. Held(t) \subseteq Held(s \o t)
  <2>1. ASSUME NEW i \in 1..Len(t) PROVE t[i] \in Held(s \o t)
    <3>1. Len(s) + i \in DOMAIN (s \o t) BY <1>1
    <3> QED BY <1>1, <3>1 DEF Held
  <2>2. DOMAIN t = 1..Len(t) OBVIOUS
  <2> QED BY <2>1, <2>2 DEF Held
<1> QED BY <1>1, <1>2, <1>3, <1>4

(* The groups are lists of what they hold.                                 *)
LEMMA Listed ==
    /\ AuthRoutes \in Seq(Held(AuthRoutes))
    /\ ConnectionRoutes \in Seq(Held(ConnectionRoutes))
    /\ RouteRoutes \in Seq(Held(RouteRoutes))
    /\ SystemRoutes \in Seq(Held(SystemRoutes))
    /\ OperationRoutes \in Seq(Held(OperationRoutes))
<1>1. \A n \in Nat : \A list : list = [i \in 1..n |-> list[i]] => list \in Seq(Held(list))
  <2> SUFFICES ASSUME NEW n \in Nat, NEW list, list = [i \in 1..n |-> list[i]]
               PROVE  list \in Seq(Held(list))
      OBVIOUS
  <2>1. DOMAIN list = 1..n OBVIOUS
  <2>2. \A i \in 1..n : list[i] \in Held(list) BY <2>1 DEF Held
  <2>3. [i \in 1..n |-> list[i]] \in [1..n -> Held(list)] BY <2>2
  <2> QED BY <2>3
<1>2. AuthRoutes = [i \in 1..20 |-> AuthRoutes[i]]
  BY DEF AuthRoutes
<1>3. ConnectionRoutes = [i \in 1..11 |-> ConnectionRoutes[i]]
  BY DEF ConnectionRoutes
<1>4. RouteRoutes = [i \in 1..12 |-> RouteRoutes[i]]
  BY DEF RouteRoutes
<1>5. SystemRoutes = [i \in 1..20 |-> SystemRoutes[i]]
  BY DEF SystemRoutes
<1>6. OperationRoutes = [i \in 1..14 |-> OperationRoutes[i]]
  BY DEF OperationRoutes
<1> QED BY <1>1, <1>2, <1>3, <1>4, <1>5, <1>6

(* The first segments of the paths keep the groups apart.                  *)
LEMMA Heads ==
    /\ \A t \in AuthTable : /\ 1 <= Len(t[2])
          /\ t[2][1] \in {"auth", "setup", "security", "invitations",
                   "passkeys", "sessions", "me", "status", "dashboard"}
    /\ \A t \in ConnectionTable : 1 <= Len(t[2]) /\ t[2][1] \in {"connections"}
    /\ \A t \in RouteTable : 1 <= Len(t[2]) /\ t[2][1] \in {"routes", "rulesets"}
    /\ \A t \in SystemTable : /\ 1 <= Len(t[2])
          /\ t[2][1] \in {"traffic", "system", "engines", "methods", "settings", "updates"}
    /\ \A t \in OperationTable : /\ 1 <= Len(t[2])
          /\ t[2][1] \in {"operations", "diagnostics", "backups", "tokens"}
<1>1. \A t \in AuthTable : /\ 1 <= Len(t[2])
          /\ t[2][1] \in {"auth", "setup", "security", "invitations",
                   "passkeys", "sessions", "me", "status", "dashboard"}
  BY SMTT(60) DEF AuthTable
<1>2. \A t \in ConnectionTable : 1 <= Len(t[2]) /\ t[2][1] \in {"connections"}
  BY SMTT(60) DEF ConnectionTable
<1>3. \A t \in RouteTable : 1 <= Len(t[2]) /\ t[2][1] \in {"routes", "rulesets"}
  BY SMTT(60) DEF RouteTable
<1>4. \A t \in SystemTable : /\ 1 <= Len(t[2])
          /\ t[2][1] \in {"traffic", "system", "engines", "methods", "settings", "updates"}
  BY SMTT(60) DEF SystemTable
<1>5. \A t \in OperationTable : /\ 1 <= Len(t[2])
          /\ t[2][1] \in {"operations", "diagnostics", "backups", "tokens"}
  BY SMTT(60) DEF OperationTable
<1> QED BY <1>1, <1>2, <1>3, <1>4, <1>5

(* Paths, their samples, and what fits a sample of a path.                 *)
IsPath(p) == Len(p) \in Nat /\ DOMAIN p = 1..Len(p)

LEMMA Typed == \A t \in Table : IsPath(t[2])
<1>1. \A t \in AuthTable : IsPath(t[2])
  BY SMTT(60) DEF AuthTable, IsPath
<1>2. \A t \in ConnectionTable : IsPath(t[2])
  BY SMTT(60) DEF ConnectionTable, IsPath
<1>3. \A t \in RouteTable : IsPath(t[2])
  BY SMTT(60) DEF RouteTable, IsPath
<1>4. \A t \in SystemTable : IsPath(t[2])
  BY SMTT(60) DEF SystemTable, IsPath
<1>5. \A t \in OperationTable : IsPath(t[2])
  BY SMTT(60) DEF OperationTable, IsPath
<1> QED BY <1>1, <1>2, <1>3, <1>4, <1>5 DEF Table

LEMMA Sampled ==
    ASSUME NEW q, IsPath(q)
    PROVE  /\ Len(Sample(q)) = Len(q) /\ DOMAIN Sample(q) = 1..Len(q)
           /\ \A k \in 1..Len(q) : Sample(q)[k] = IF q[k] = ":" THEN "x" ELSE q[k]
<1>1. Sample(q) = [k \in 1..Len(q) |-> IF q[k] = ":" THEN "x" ELSE q[k]]
  BY DEF Sample, IsPath
<1> QED BY <1>1 DEF IsPath

LEMMA FitsAlike ==
    ASSUME NEW p, NEW q, IsPath(q), Fits(p, Sample(q))
    PROVE  Alike(p, q)
<1>1. /\ Len(p) = Len(q)
      /\ \A k \in 1..Len(q) : p[k] \in {":", Sample(q)[k]}
  BY Sampled DEF Fits
<1>2. \A k \in 1..Len(q) : Near(p[k], q[k])
  BY <1>1, Sampled DEF Near
<1> QED BY <1>1, <1>2 DEF Alike, IsPath

LEMMA FitsItself ==
    ASSUME NEW q, IsPath(q)
    PROVE  Fits(q, Sample(q))
BY Sampled DEF Fits

(* The one pair of rows whose order matters.                               *)
Shadowed(r, s) ==
    r[2] = <<"operations", ":">> /\ s[2] = <<"operations", "events">>

(* No other endpoint has the method and fits a sample of the path of an    *)
(* endpoint, but for that pair.                                            *)
LEMMA Apart ==
    ASSUME NEW r \in Table, NEW s \in Table, r[1] = s[1], Alike(r[2], s[2])
    PROVE  r = s \/ Shadowed(r, s)
<1>1. Near(r[2][1], s[2][1])
  BY Heads DEF Alike, Table
<1>2. CASE r \in AuthTable
  <2>1. s \in AuthTable BY <1>1, <1>2, Heads DEF Near, Table
  <2> QED BY <1>2, <2>1, AuthApart
<1>3. CASE r \in ConnectionTable
  <2>1. s \in ConnectionTable BY <1>1, <1>3, Heads DEF Near, Table
  <2> QED BY <1>3, <2>1, ConnectionApart
<1>4. CASE r \in RouteTable
  <2>1. s \in RouteTable BY <1>1, <1>4, Heads DEF Near, Table
  <2> QED BY <1>4, <2>1, RouteApart
<1>5. CASE r \in SystemTable
  <2>1. s \in SystemTable BY <1>1, <1>5, Heads DEF Near, Table
  <2> QED BY <1>5, <2>1, SystemApart
<1>6. CASE r \in OperationTable
  <2>1. s \in OperationTable BY <1>1, <1>6, Heads DEF Near, Table
  <2> QED BY <1>6, <2>1, OperationApart DEF Shadowed
<1> QED BY <1>2, <1>3, <1>4, <1>5, <1>6 DEF Table

(* The fields of an endpoint.                                              *)
LEMMA Fields ==
    \A m, p, a : /\ Endpoint(m, p, a).method = m /\ Endpoint(m, p, a).path = p
                 /\ Endpoint(m, p, a).access = a
BY DEF Endpoint

(* The endpoints that are tried before those of operations.                *)
Before == AuthRoutes \o ConnectionRoutes \o RouteRoutes \o SystemRoutes

(* The groups, joined in this order, hold the rows of their tables.        *)
LEMMA BeforeRows ==
    /\ Before \in Seq(Held(Before))
    /\ Held(Before) = EndpointsOf(AuthTable \cup ConnectionTable \cup RouteTable
                                  \cup SystemTable)
<1> DEFINE T == UNION {Held(AuthRoutes), Held(ConnectionRoutes), Held(RouteRoutes),
                       Held(SystemRoutes)}
           B == AuthRoutes \o ConnectionRoutes
           C == B \o RouteRoutes
           D == C \o SystemRoutes
<1>1. /\ AuthRoutes \in Seq(T) /\ ConnectionRoutes \in Seq(T)
      /\ RouteRoutes \in Seq(T) /\ SystemRoutes \in Seq(T)
  BY Listed
<1> HIDE DEF T
<1>2. B \in Seq(T) /\ Held(B) = Held(AuthRoutes) \cup Held(ConnectionRoutes)
  BY <1>1, HeldJoined
<1> HIDE DEF B
<1>3. C \in Seq(T) /\ Held(C) = Held(B) \cup Held(RouteRoutes)
  BY <1>1, <1>2, HeldJoined
<1> HIDE DEF C
<1>4. D \in Seq(T) /\ Held(D) = Held(C) \cup Held(SystemRoutes)
  BY <1>1, <1>3, HeldJoined
<1>5. D = Before BY DEF D, C, B, Before
<1> HIDE DEF D
<1>6. Before \in Seq(Held(Before))
  BY <1>4, <1>5 DEF Held
<1>7. Held(Before) = EndpointsOf(AuthTable) \cup EndpointsOf(ConnectionTable)
                     \cup EndpointsOf(RouteTable) \cup EndpointsOf(SystemTable)
  BY <1>2, <1>3, <1>4, <1>5, AuthRows, ConnectionRows, RouteRows, SystemRows
<1> QED BY <1>6, <1>7 DEF EndpointsOf

(* A list of members of a set is one of members of a larger set, and where *)
(* the members of two lists are when they are joined.                      *)
LEMMA Wider ==
    ASSUME NEW S, NEW T, NEW list \in Seq(S), S \subseteq T
    PROVE  list \in Seq(T)
OBVIOUS

LEMMA Joined ==
    ASSUME NEW T, NEW q \in Seq(T), NEW a \in Seq(T), NEW s, s = q \o a
    PROVE  /\ Len(s) = Len(q) + Len(a)
           /\ \A i \in 1..Len(q) : s[i] = q[i]
           /\ \A i \in 1..Len(a) : s[Len(q) + i] = a[i]
OBVIOUS

(* All endpoints together hold the rows of the table; the last fourteen    *)
(* are those of operations.                                                *)
LEMMA RegistryRows ==
    /\ Registry \in Seq(EndpointsOf(Table))
    /\ Held(Registry) = EndpointsOf(Table)
    /\ Len(Registry) = Len(Before) + 14
    /\ \A i \in 1..Len(Before) : Registry[i] = Before[i]
    /\ \A i \in 1..14 : Registry[Len(Before) + i] = OperationRoutes[i]
<1> DEFINE T == Held(Before) \cup Held(OperationRoutes)
<1>1. Before \in Seq(T) /\ OperationRoutes \in Seq(T)
  <2>1. Before \in Seq(Held(Before)) /\ OperationRoutes \in Seq(Held(OperationRoutes))
    BY Listed, BeforeRows
  <2>2. Held(Before) \subseteq T /\ Held(OperationRoutes) \subseteq T OBVIOUS
  <2> HIDE DEF T
  <2> QED BY <2>1, <2>2, Wider
<1>2. T = EndpointsOf(Table)
  BY BeforeRows, OperationRows DEF EndpointsOf, Table
<1>3. Registry = Before \o OperationRoutes BY DEF Registry, Before
<1>4. Len(OperationRoutes) = 14 BY DEF OperationRoutes
<1> HIDE DEF T
<1>5. Registry \in Seq(T) /\ Held(Registry) = Held(Before) \cup Held(OperationRoutes)
  BY <1>1, <1>3, HeldJoined
<1>6. /\ Len(Registry) = Len(Before) + 14
      /\ \A i \in 1..Len(Before) : Registry[i] = Before[i]
      /\ \A i \in 1..14 : Registry[Len(Before) + i] = OperationRoutes[i]
  <2>1. /\ Len(Registry) = Len(Before) + Len(OperationRoutes)
        /\ \A i \in 1..Len(Before) : Registry[i] = Before[i]
        /\ \A i \in 1..Len(OperationRoutes) :
              Registry[Len(Before) + i] = OperationRoutes[i]
    BY <1>1, <1>3, Joined
  <2> QED BY <1>4, <2>1
<1>7. Held(Registry) = EndpointsOf(Table)
  BY BeforeRows, OperationRows, <1>5 DEF EndpointsOf, Table
<1>8. Registry \in Seq(EndpointsOf(Table)) BY <1>2, <1>5
<1>9. \A i \in 1..14 : Registry[Len(Before) + i] = OperationRoutes[i] BY <1>6
<1>10. \A i \in 1..Len(Before) : Registry[i] = Before[i] BY <1>6
<1>11. Len(Registry) = Len(Before) + 14 BY <1>6
<1> QED BY <1>7, <1>8, <1>9, <1>10, <1>11

(* The stream of operations comes before any single operation.             *)
LEMMA EventsFirst ==
    \E i \in DOMAIN Registry :
        /\ Registry[i] = SignedIn("GET", <<"operations", "events">>)
        /\ \A j \in 1..i : Registry[j].path # <<"operations", ":">>
<1>1. /\ OperationRoutes[1] = SignedIn("GET", <<"operations">>)
      /\ OperationRoutes[2] = SignedIn("GET", <<"operations", "events">>)
  BY DEF OperationRoutes
<1>2. /\ OperationRoutes[1].path # <<"operations", ":">>
      /\ OperationRoutes[2].path # <<"operations", ":">>
  BY <1>1, Fields DEF SignedIn
<1>3. \A e \in Held(Before) : e.path[1] # "operations"
  <2>1. \A e \in Held(Before) : \E t \in AuthTable \cup ConnectionTable \cup RouteTable
                                  \cup SystemTable : e.path = t[2]
    BY BeforeRows, Fields DEF EndpointsOf
  <2>2. \A t \in AuthTable \cup ConnectionTable \cup RouteTable \cup SystemTable :
           t[2][1] # "operations"
    BY Heads
  <2> QED BY <2>1, <2>2
<1>4. \A j \in 1..Len(Before) : Registry[j].path # <<"operations", ":">>
  <2>1. <<"operations", ":">>[1] = "operations" OBVIOUS
  <2>2. \A j \in 1..Len(Before) : Registry[j] \in Held(Before)
    <3>1. DOMAIN Before = 1..Len(Before) BY BeforeRows
    <3>2. \A j \in 1..Len(Before) : Before[j] \in Held(Before) BY <3>1 DEF Held
    <3> QED BY <3>2, RegistryRows
  <2> QED BY <1>3, <2>1, <2>2
<1> DEFINE n == Len(Before)
<1>5. n \in Nat BY BeforeRows
<1>6. n + 2 \in DOMAIN Registry BY <1>5, RegistryRows
<1>7. Registry[n + 1] = OperationRoutes[1] /\ Registry[n + 2] = OperationRoutes[2]
  BY RegistryRows
<1> HIDE DEF n
<1>8. \A j \in 1..(n + 2) : j \in 1..n \/ j = n + 1 \/ j = n + 2 BY <1>5
<1>9. \A j \in 1..(n + 2) : Registry[j].path # <<"operations", ":">>
  BY <1>2, <1>4, <1>7, <1>8 DEF n
<1> QED BY <1>1, <1>6, <1>7, <1>9

(* And it is only read.                                                    *)
LEMMA EventsRead ==
    \A t \in Table : t[2] = <<"operations", "events">> => t[1] = "GET"
<1>1. \A t \in OperationTable : t[2] = <<"operations", "events">> => t[1] = "GET"
  BY SMTT(60) DEF OperationTable
<1>2. <<"operations", "events">>[1] = "operations" OBVIOUS
<1>3. \A t \in Table : t \in OperationTable \/ t[2][1] # "operations"
  BY Heads DEF Table
<1> QED BY <1>1, <1>2, <1>3

(* A set of numbers that is not empty has a least one.                     *)
LEMMA LeastOf ==
    ASSUME NEW S, S \subseteq Nat, S # {}
    PROVE  \E k \in S : \A j \in S : k <= j
<1> DEFINE L == OpToRel(<, Nat)
<1>1. PICK k \in S : \A j \in S : ~ (<<j, k>> \in L)
  BY NatLessThanWellFounded, WFMin
<1>2. \A j \in S : k <= j
  <2> TAKE j \in S
  <2>1. ~ (<<j, k>> \in L)
    <3> HIDE DEF L
    <3> QED BY <1>1
  <2>2. ~ (j < k) BY <2>1 DEF OpToRel
  <2> QED BY <2>2
<1> QED BY <1>2

(* Every endpoint is a row of the table.                                   *)
LEMMA RowAt ==
    ASSUME NEW i \in DOMAIN Registry
    PROVE  \E r \in Table : Registry[i] = Endpoint(r[1], r[2], r[3])
<1>1. Registry[i] \in Held(Registry) BY DEF Held
<1>2. Held(Registry) = EndpointsOf(Table) BY RegistryRows
<1> QED BY <1>1, <1>2 DEF EndpointsOf

(* No endpoint is hidden: a request that samples its path finds it.        *)
LEMMA EndpointFound ==
    ASSUME NEW t \in Table
    PROVE  /\ EndpointOf(t[1], Sample(t[2])) \in DOMAIN Registry
           /\ Registry[EndpointOf(t[1], Sample(t[2]))] = Endpoint(t[1], t[2], t[3])
<1> DEFINE fitting == {i \in DOMAIN Registry :
                          Registry[i].method = t[1] /\ Fits(Registry[i].path, Sample(t[2]))}
           f == EndpointOf(t[1], Sample(t[2]))
<1>1. PICK i \in DOMAIN Registry : Registry[i] = Endpoint(t[1], t[2], t[3])
  BY RegistryRows DEF Held, EndpointsOf
<1>2. i \in fitting
  BY <1>1, Fields, Typed, FitsItself
<1>3. fitting \subseteq Nat
  <2>1. DOMAIN Registry = 1..Len(Registry) BY RegistryRows
  <2> QED BY <2>1
<1>4. \E k \in fitting : \A j \in fitting : k <= j
  <2> HIDE DEF fitting
  <2> QED BY <1>2, <1>3, LeastOf
<1>5. f = CHOOSE k \in fitting : \A j \in fitting : k <= j
  BY <1>2 DEF EndpointOf
<1>6. f \in fitting /\ \A j \in fitting : f <= j
  <2> HIDE DEF fitting, f
  <2> QED BY <1>4, <1>5
<1> HIDE DEF f
<1>7. f \in DOMAIN Registry /\ Registry[f].method = t[1] /\ Fits(Registry[f].path, Sample(t[2]))
  BY <1>6
<1>8. PICK r \in Table : Registry[f] = Endpoint(r[1], r[2], r[3])
  BY <1>7, RowAt
<1>9. r[1] = t[1] /\ Alike(r[2], t[2])
  BY <1>7, <1>8, Fields, Typed, FitsAlike
<1>10. ~ Shadowed(r, t)
  <2> SUFFICES ASSUME Shadowed(r, t) PROVE FALSE OBVIOUS
  <2>1. r[2] = <<"operations", ":">> /\ t[2] = <<"operations", "events">>
    BY DEF Shadowed
  <2>2. PICK e \in DOMAIN Registry :
           /\ Registry[e] = SignedIn("GET", <<"operations", "events">>)
           /\ \A j \in 1..e : Registry[j].path # <<"operations", ":">>
    BY EventsFirst
  <2>3. PICK q \in Table : Registry[e] = Endpoint(q[1], q[2], q[3])
    BY <2>2, RowAt
  <2>4. q[2] = t[2] BY <2>1, <2>2, <2>3, Fields DEF SignedIn
  <2>5. \A a \in Table : a[2] = <<"operations", "events">> => a[1] = "GET"
    BY EventsRead
  <2>6. q[1] = "GET" /\ t[1] = "GET" BY <2>1, <2>4, <2>5
  <2>7. e \in fitting
    BY <2>2, <2>3, <2>4, <2>6, Fields, Typed, FitsItself
  <2>8. f <= e BY <1>6, <2>7
  <2>9. f \in 1..e BY <1>7, <2>8, RegistryRows
  <2> QED BY <2>1, <2>2, <2>9, <1>8, Fields
<1>11. r = t BY <1>9, <1>10, Apart
<1> QED BY <1>7, <1>8, <1>11 DEF f

-----------------------------------------------------------------------------
(* Gateway: the tools and what they need                                    *)

(* What the tools send: method, path of the endpoint, path, action, the    *)
(* access of the endpoint, and the scope that is documented.               *)
ToolTable ==
    {<<"settings_get", "GET", <<"settings">>, <<"settings">>,
       "none", "session", <<"settings", "read">>>>,
     <<"settings_update", "PATCH", <<"settings">>, <<"settings">>,
       "none", "session", <<"settings", "write">>>>,
     <<"outpost_status", "GET", <<"status">>, <<"status">>,
       "none", "session", <<"status", "read">>>>,
     <<"traffic_get", "GET", <<"traffic">>, <<"traffic">>,
       "none", "session", <<"traffic", "read">>>>,
     <<"system_metrics_get", "GET", <<"system", "metrics">>,
       <<"system", "metrics">>, "none", "session", <<"system", "read">>>>,
     <<"connection_diagnostics_get", "GET", <<"connections", ":", "diagnostics">>,
       <<"connections", "x", "diagnostics">>, "none", "session", <<"connections", "read">>>>,
     <<"events_get", "GET", <<"system", "events">>, <<"system", "events">>,
       "none", "session", <<"system", "read">>>>,
     <<"operations_get", "GET", <<"operations">>, <<"operations">>,
       "none", "session", <<"operations", "read">>>>,
     <<"operations_get", "GET", <<"operations", ":">>, <<"operations", "x">>,
       "none", "session", <<"operations", "read">>>>,
     <<"diagnostic_run", "POST", <<"diagnostics">>, <<"diagnostics">>,
       "none", "session", <<"diagnostics", "run">>>>,
     <<"diagnostic_get", "GET", <<"diagnostics", ":">>, <<"diagnostics", "x">>,
       "none", "session", <<"diagnostics", "read">>>>,
     <<"diagnostic_cancel", "POST", <<"diagnostics", ":", "cancel">>,
       <<"diagnostics", "x", "cancel">>, "none", "session", <<"diagnostics", "run">>>>,
     <<"connections_list", "GET", <<"connections">>, <<"connections">>,
       "none", "session", <<"connections", "read">>>>,
     <<"connection_create", "POST", <<"connections">>, <<"connections">>,
       "none", "session", <<"connections", "write">>>>,
     <<"connection_subscription", "GET", <<"connections", ":", "subscription">>,
       <<"connections", "x", "subscription">>, "none", "session", <<"connections", "secret">>>>,
     <<"connection_rotate", "POST", <<"operations", "preview">>,
       <<"operations", "preview">>, "connection.rotate", "connections:rotate", <<"operations", "write">>>>,
     <<"routes_get", "GET", <<"routes">>, <<"routes">>,
       "none", "session", <<"routes", "read">>>>,
     <<"route_add", "POST", <<"routes">>, <<"routes">>,
       "none", "session", <<"routes", "write">>>>,
     <<"routes_publish", "POST", <<"routes", "publish">>,
       <<"routes", "publish">>, "none", "session", <<"routes", "write">>>>,
     <<"operation_preview", "POST", <<"operations", "preview">>,
       <<"operations", "preview">>, "service.restart", "connections:rotate", <<"operations", "write">>>>,
     <<"operation_preview", "POST", <<"operations", "preview">>,
       <<"operations", "preview">>, "connection.rotate", "connections:rotate", <<"operations", "write">>>>,
     <<"operation_confirm", "POST", <<"operations", "confirm">>,
       <<"operations", "confirm">>, "service.restart", "connections:rotate", <<"operations", "write">>>>,
     <<"operation_confirm", "POST", <<"operations", "confirm">>,
       <<"operations", "confirm">>, "connection.rotate", "connections:rotate", <<"operations", "write">>>>,
     <<"engines_get", "GET", <<"engines">>, <<"engines">>,
       "none", "session", <<"engines", "read">>>>,
     <<"engines_check", "POST", <<"engines", "check">>, <<"engines", "check">>,
       "none", "session", <<"engines", "write">>>>,
     <<"engines_check", "POST", <<"engines", ":", "check">>,
       <<"engines", "x", "check">>, "none", "session", <<"engines", "write">>>>,
     <<"methods_get", "GET", <<"methods">>, <<"methods">>,
       "none", "session", <<"engines", "read">>>>,
     <<"method_create", "POST", <<"methods">>, <<"methods">>,
       "none", "session", <<"engines", "write">>>>,
     <<"method_update", "PATCH", <<"methods", ":">>, <<"methods", "x">>,
       "none", "session", <<"engines", "write">>>>,
     <<"method_delete", "DELETE", <<"methods", ":">>, <<"methods", "x">>,
       "none", "session", <<"engines", "write">>>>,
     <<"methods_reorder", "POST", <<"methods", "reorder">>,
       <<"methods", "reorder">>, "none", "session", <<"engines", "write">>>>}

(* What a tool sends is a sample of a row of the table of endpoints.       *)
LEMMA ToolRows ==
    \A u \in ToolTable : <<u[2], u[3], u[6]>> \in Table
<1>1. \A u \in ToolTable :
         <<u[2], u[3], u[6]>> \in AuthTable \cup ConnectionTable \cup RouteTable
                              \cup SystemTable \cup OperationTable
  BY SMTT(60) DEF ToolTable, AuthTable, ConnectionTable, RouteTable, SystemTable, OperationTable
<1> QED BY <1>1 DEF Table

(* Every tool is in the table.                                             *)
LEMMA ToolsListed ==
    \A what \in Tools : \E u \in ToolTable : what = Tool(u[1], u[2], u[4], u[5])
BY SMTT(60) DEF Tools, SystemTools, ConnectionTools, EngineTools, Get, Post, ToolTable

(* Samples of the paths the tools send.                                    *)
LEMMA SampleOf ==
    \A a, b, c :
        /\ Sample(<<a>>) = <<IF a = ":" THEN "x" ELSE a>>
        /\ Sample(<<a, b>>) = <<IF a = ":" THEN "x" ELSE a, IF b = ":" THEN "x" ELSE b>>
        /\ Sample(<<a, b, c>>) = <<IF a = ":" THEN "x" ELSE a, IF b = ":" THEN "x" ELSE b,
                                   IF c = ":" THEN "x" ELSE c>>
BY DEF Sample

LEMMA ToolsSampled == \A u \in ToolTable : Sample(u[3]) = u[4]
BY SampleOf, SMTT(60) DEF ToolTable

(* The fields of what is sent.                                             *)
LEMMA ToolFields ==
    \A n, m, p, a : /\ Tool(n, m, p, a).tool = n /\ Tool(n, m, p, a).method = m
                    /\ Tool(n, m, p, a).path = p /\ Tool(n, m, p, a).action = a
BY DEF Tool

(* What authorized() asks of a token that has no scope of everything.      *)
Needed(method, path) ==
    IF Special(path) = {} THEN {Required(method, path)} ELSE Special(path)

(* A token can be given neither a scope of everything, nor one to read or  *)
(* to write everything, nor one to create tokens.                          *)
LEMMA NeverGiven ==
    /\ AllScopes \notin allowedApiScopes /\ ReadScopes \notin allowedApiScopes
    /\ WriteScopes \notin allowedApiScopes
    /\ <<"tokens", "write">> \notin allowedApiScopes
<1>1. \A p \in allowedApiScopes : \E a, k : p = <<a, k>> /\ a # "tokens"
  BY DEF allowedApiScopes, manageScopes, readScopes, Reads
<1>2. \A a, k : /\ <<a, k>> # <<"*">> /\ <<a, k>> # <<"read">> /\ <<a, k>> # <<"write">>
                /\ <<a, k>> = <<"tokens", "write">> => a = "tokens"
  OBVIOUS
<1> QED BY <1>1, <1>2 DEF AllScopes, ReadScopes, WriteScopes

(* So a token is authorized exactly by the scopes that are needed.         *)
LEMMA AuthorizedNeeds ==
    ASSUME NEW scopes \in SUBSET allowedApiScopes, NEW method, NEW path
    PROVE  authorized(method, path, scopes) <=> Needed(method, path) \subseteq scopes
BY NeverGiven DEF authorized, Needed

(* The scope a tool needs for its path; with the rotation of a connection  *)
(* the handler asks for another one.                                       *)
LEMMA ToolsNeed == \A u \in ToolTable : Needed(u[2], u[4]) = {u[7]}
<1>1. \A u \in ToolTable :
        Special(u[4]) = IF u[1] = "connection_subscription" THEN {u[7]} ELSE {}
  BY SMTT(60) DEF ToolTable, Special
<1>2. \A u \in ToolTable :
        u[1] # "connection_subscription" => Required(u[2], u[4]) = u[7]
  BY SMTT(60) DEF ToolTable, Required
<1> QED BY <1>1, <1>2 DEF Needed

LEMMA ToolsDocumented ==
    \A u \in ToolTable :
        Needs(Tool(u[1], u[2], u[4], u[5]))
          = {u[7]} \cup (IF u[5] = "connection.rotate"
                         THEN {<<"connections", "rotate">>} ELSE {})
BY SMTT(60) DEF ToolTable, Needs, Documented, Undocumented, Tool

LEMMA ToolsGuarded ==
    \A u \in ToolTable :
        /\ u[6] \in {"session", "connections:rotate"}
        /\ u[5] = "connection.rotate" => u[6] = "connections:rotate"
        /\ u[3][1] # "tokens" /\ u[1] # "none"
BY SMTT(60) DEF ToolTable

(* A tool finds its endpoint, which is about no token, and the token is    *)
(* authorized and the handler allows it exactly with the scopes that are   *)
(* documented, and the one that is not.                                    *)
LEMMA ToolServed ==
    ASSUME NEW what \in Tools, NEW scopes \in SUBSET allowedApiScopes
    PROVE  LET endpoint == Registry[EndpointOf(what.method, what.path)]
           IN /\ Sample(endpoint.path) = what.path
              /\ endpoint.access # "public" /\ what.tool # "none"
              /\ endpoint.path[1] # "tokens"
              /\ EndpointOf(what.method, what.path) \in DOMAIN Registry
              /\ (/\ authorized(what.method, what.path, scopes)
                  /\ HandlerAllows(endpoint, what.action, scopes))
                   <=> (Needs(what) \subseteq scopes)
<1>1. PICK u \in ToolTable : what = Tool(u[1], u[2], u[4], u[5])
  BY ToolsListed
<1>2. /\ what.tool = u[1] /\ what.method = u[2] /\ what.path = u[4]
      /\ what.action = u[5]
  BY <1>1, ToolFields
<1>3. u[4] = Sample(u[3]) BY ToolsSampled
<1> DEFINE f == EndpointOf(what.method, what.path)
<1>4. f \in DOMAIN Registry /\ Registry[f] = Endpoint(u[2], u[3], u[6])
  <2> DEFINE t == <<u[2], u[3], u[6]>>
  <2>1. t \in Table BY ToolRows
  <2>2. t[1] = u[2] /\ t[2] = u[3] /\ t[3] = u[6] OBVIOUS
  <2> HIDE DEF t
  <2> QED BY <2>1, <2>2, <1>2, <1>3, EndpointFound
<1> HIDE DEF f
<1>5. Registry[f].path = u[3] /\ Registry[f].access = u[6]
  BY <1>4, Fields
<1>6. Needed(what.method, what.path) = {u[7]} BY <1>2, ToolsNeed
<1>7. authorized(what.method, what.path, scopes) <=> u[7] \in scopes
  BY <1>6, AuthorizedNeeds
<1>8. HandlerAllows(Registry[f], what.action, scopes)
        <=> (u[5] = "connection.rotate" => <<"connections", "rotate">> \in scopes)
  BY <1>2, <1>5, ToolsGuarded, NeverGiven DEF HandlerAllows, HasApiScope
<1>9. Needs(what) = {u[7]} \cup (IF u[5] = "connection.rotate"
                                      THEN {<<"connections", "rotate">>} ELSE {})
  BY <1>1, ToolsDocumented
<1>10. u[6] # "public" /\ u[1] # "none" /\ u[3][1] # "tokens" BY ToolsGuarded
<1> QED BY <1>2, <1>3, <1>4, <1>5, <1>7, <1>8, <1>9, <1>10 DEF f

(* The endpoint a request finds.                                           *)
EndpointFor(what) == Registry[EndpointOf(what.method, what.path)]

(* Tokens are created for the callers who are authenticated only.          *)
LEMMA TokensGuarded ==
    \A t \in Table : t[2] = <<"tokens">> => t[3] = "session"
<1>1. \A t \in OperationTable : t[2] = <<"tokens">> => t[3] = "session"
  BY SMTT(60) DEF OperationTable
<1>2. <<"tokens">>[1] = "tokens" OBVIOUS
<1>3. \A t \in Table : t \in OperationTable \/ t[2][1] # "tokens"
  BY Heads DEF Table
<1> QED BY <1>1, <1>2, <1>3

(* A request for an endpoint finds that endpoint.                          *)
LEMMA DirectServed ==
    ASSUME NEW what \in Direct
    PROVE  /\ EndpointOf(what.method, what.path) \in DOMAIN Registry
           /\ Sample(EndpointFor(what).path) = what.path
           /\ what.tool = "none"
           /\ EndpointFor(what).path = <<"tokens">> =>
                 /\ EndpointFor(what).access = "session"
                 /\ what.path = <<"tokens">>
<1>1. PICK i \in DOMAIN Registry :
         what = Tool("none", Registry[i].method, Sample(Registry[i].path), "none")
  BY DEF Direct
<1>2. PICK t \in Table : Registry[i] = Endpoint(t[1], t[2], t[3])
  BY RowAt
<1>3. what.method = t[1] /\ what.path = Sample(t[2]) /\ what.tool = "none"
  BY <1>1, <1>2, Fields, ToolFields
<1>4. /\ EndpointOf(what.method, what.path) \in DOMAIN Registry
      /\ EndpointFor(what) = Endpoint(t[1], t[2], t[3])
  BY <1>3, EndpointFound DEF EndpointFor
<1>5. EndpointFor(what).path = t[2] /\ EndpointFor(what).access = t[3]
  BY <1>4, Fields
<1>6. t[2] = <<"tokens">> => t[3] = "session" BY TokensGuarded
<1>7. Sample(<<"tokens">>) = <<"tokens">> BY SampleOf
<1> QED BY <1>3, <1>4, <1>5, <1>6, <1>7

(* No token authorizes its holder to create tokens.                        *)
LEMMA TokensNeedSession ==
    ASSUME NEW scopes \in SUBSET allowedApiScopes
    PROVE  ~ authorized("POST", <<"tokens">>, scopes)
<1>1. Special(<<"tokens">>) = {} BY DEF Special
<1>2. Required("POST", <<"tokens">>) = <<"tokens", "write">> BY DEF Required
<1> QED BY <1>1, <1>2, AuthorizedNeeds, NeverGiven DEF Needed

-----------------------------------------------------------------------------
(* Gateway: requests and tokens                                             *)

(* The types of requests and tokens.                                       *)
What  == Tools \cup Direct
Token == [scopes : SUBSET allowedApiScopes, by : {OwnerSession}, revoked : BOOLEAN,
          waiting : SUBSET {"any", "token"}]
Call  == [what : What, caller : Int,
          state : {"sent", "mcp", "refused", "routed", "missing", "done", "invalid"}]

(* What an answer to a tool says of the scopes of its token.               *)
Answers(c) ==
    /\ c.state = "done" => Needs(c.what) \subseteq Scopes(c.caller)
    /\ c.state = "refused" =>
          ~ (Needs(c.what) \subseteq Scopes(c.caller)) \/ ~ ValidCaller(c.caller)

(* A request that was let pass was authenticated before its token was      *)
(* revoked.                                                                *)
InTime(n, c) ==
    c.state \in {"routed", "done"} /\ EndpointFor(c.what).access # "public"
      /\ c.caller > 0 => n \notin apiTokens[c.caller].waiting

(* A request that waits for its handler has been authorized, which is what *)
(* the answer rests on although the body is read meanwhile.                *)
CallFits(c) ==
    /\ c.caller \in Anonymous..Len(apiTokens)
    /\ c.what.tool # "none" => c.caller # OwnerSession /\ Answers(c)
    /\ c.state = "routed" =>
          \/ c.caller = OwnerSession \/ EndpointFor(c.what).access = "public"
          \/ c.caller > 0 /\ authorized(c.what.method, c.what.path, Scopes(c.caller))

(* The inductive invariant.                                                *)
GatewayInv ==
    /\ apiTokens \in Seq(Token)
    /\ calls \in [{"any", "token"} -> {IdleCall} \cup Call]
    /\ \A n \in {"any", "token"} :
          calls[n] \in Call => CallFits(calls[n]) /\ InTime(n, calls[n])
    /\ \A k \in DOMAIN apiTokens : ~ apiTokens[k].revoked => apiTokens[k].waiting = {}

(* A request is not an idle one.                                           *)
LEMMA CallFields ==
    \A c : c \in Call => /\ c.what \in What /\ c.caller \in Int /\ c.state # "idle"
BY DEF Call

(* It holds at first, and means what is to be shown.                       *)
LEMMA GatewayStarts == GatewayInit => GatewayInv
<1>1. IdleCall \notin Call BY CallFields DEF IdleCall
<1>2. <<>> \in Seq(Token) OBVIOUS
<1> QED BY <1>1, <1>2 DEF GatewayInit, GatewayInv

LEMMA GatewayMeaning == GatewayInv => CallsAreAuthorised
<1> SUFFICES ASSUME GatewayInv PROVE CallsAreAuthorised OBVIOUS
<1>1. \A id \in DOMAIN apiTokens : apiTokens[id].by = OwnerSession
  <2>1. \A id \in DOMAIN apiTokens : apiTokens[id] \in Token BY DEF GatewayInv
  <2> QED BY <2>1 DEF Token
<1>2. ASSUME NEW n \in DOMAIN calls, calls[n].state # "idle"
      PROVE  /\ calls[n].what.tool # "none" => Answers(calls[n])
             /\ InTime(n, calls[n])
             /\ Sample(EndpointFor(calls[n].what).path) = calls[n].what.path
  <2>1. n \in {"any", "token"} BY DEF GatewayInv
  <2>2. calls[n] \in Call BY <1>2, <2>1 DEF GatewayInv, IdleCall
  <2>3. CallFits(calls[n]) /\ InTime(n, calls[n]) BY <2>1, <2>2 DEF GatewayInv
  <2>4. calls[n].what \in What BY <2>2, CallFields
  <2>5. {} \in SUBSET allowedApiScopes OBVIOUS
  <2>6. Sample(EndpointFor(calls[n].what).path) = calls[n].what.path
    BY <2>4, <2>5, DirectServed, ToolServed DEF What, EndpointFor
  <2> QED BY <2>3, <2>6 DEF CallFits
<1> QED BY <1>1, <1>2 DEF CallsAreAuthorised, Answers, InTime, EndpointFor

(* What a token that exists is.                                            *)
LEMMA TokenAt ==
    ASSUME GatewayInv, NEW k \in 1..Len(apiTokens)
    PROVE  /\ apiTokens[k] \in Token /\ apiTokens[k].scopes \in SUBSET allowedApiScopes
           /\ apiTokens[k].by = OwnerSession
<1>1. apiTokens[k] \in Token BY DEF GatewayInv
<1> QED BY <1>1 DEF Token

(* What every step leaves of the tokens: they keep their scopes, one that  *)
(* is revoked stays so, and only requests that are not yet authenticated   *)
(* are found waiting when it is.                                           *)
TokensKeep ==
    /\ apiTokens' \in Seq(Token)
    /\ Len(apiTokens) <= Len(apiTokens')
    /\ \A k \in 1..Len(apiTokens) :
          /\ apiTokens'[k].scopes = apiTokens[k].scopes
          /\ apiTokens[k].revoked => apiTokens'[k].revoked
          /\ apiTokens'[k].waiting \subseteq apiTokens[k].waiting \cup Unauthenticated
    /\ \A k \in DOMAIN apiTokens' : ~ apiTokens'[k].revoked => apiTokens'[k].waiting = {}

(* A request keeps its meaning when the tokens change in that way.         *)
LEMMA CallersKeep ==
    ASSUME GatewayInv, TokensKeep, NEW c \in Call, CallFits(c)
    PROVE  CallFits(c)'
<1> DEFINE k == c.caller
<1>1. k \in Int /\ Anonymous <= k /\ k <= Len(apiTokens) /\ Len(apiTokens) \in Nat
  BY DEF CallFits, GatewayInv
<1>2. Len(apiTokens') \in Nat /\ k <= Len(apiTokens') BY <1>1 DEF TokensKeep
<1>3. k > 0 => /\ apiTokens'[k].scopes = apiTokens[k].scopes
               /\ apiTokens[k].revoked => apiTokens'[k].revoked
  BY <1>1 DEF TokensKeep
<1>4. Scopes(c.caller)' = Scopes(c.caller) BY <1>3 DEF Scopes
<1>5. ValidCaller(c.caller)' => ValidCaller(c.caller) BY <1>3 DEF ValidCaller
<1>6. Anonymous <= k /\ k \in Anonymous..Len(apiTokens') BY <1>1, <1>2 DEF Anonymous
<1> QED BY <1>4, <1>5, <1>6 DEF CallFits, Answers, EndpointFor

(* A request that was let pass in time was so, whatever is revoked now.    *)
LEMMA InTimeKeeps ==
    ASSUME GatewayInv, TokensKeep, NEW n \in {"any", "token"}, NEW c \in Call,
           c = calls[n]
    PROVE  InTime(n, c)'
<1> SUFFICES ASSUME c.state \in {"routed", "done"}, EndpointFor(c.what).access # "public",
                    c.caller > 0
             PROVE  n \notin apiTokens'[c.caller].waiting
  BY DEF InTime, EndpointFor
<1>1. CallFits(c) /\ InTime(n, c) BY DEF GatewayInv
<1>2. n \notin apiTokens[c.caller].waiting BY <1>1 DEF InTime
<1>3. n \notin Unauthenticated BY DEF Unauthenticated
<1>4. c.caller \in 1..Len(apiTokens)
  <2>1. c.caller \in Int /\ Len(apiTokens) \in Nat /\ c.caller <= Len(apiTokens)
    BY <1>1 DEF CallFits, GatewayInv, Anonymous
  <2> QED BY <2>1
<1> QED BY <1>2, <1>3, <1>4 DEF TokensKeep

(* They may of course not change at all.                                   *)
LEMMA TokensStay ==
    ASSUME GatewayInv, UNCHANGED apiTokens
    PROVE  TokensKeep
BY DEF GatewayInv, TokensKeep

(* A step that changes one request keeps the invariant when the request it *)
(* leaves fits.                                                            *)
LEMMA StepTo ==
    ASSUME GatewayInv, TokensKeep, NEW n \in {"any", "token"},
           NEW c \in {IdleCall} \cup Call, calls' = [calls EXCEPT ![n] = c],
           c \in Call => CallFits(c)' /\ InTime(n, c)'
    PROVE  GatewayInv'
<1>1. apiTokens' \in Seq(Token) BY DEF TokensKeep
<1>2. calls' \in [{"any", "token"} -> {IdleCall} \cup Call] BY DEF GatewayInv
<1>3. ASSUME NEW m \in {"any", "token"}, calls'[m] \in Call
      PROVE  CallFits(calls[m])' /\ InTime(m, calls[m])'
  <2>1. CASE m = n
    <3>1. calls'[m] = c BY <2>1 DEF GatewayInv
    <3>2. CallFits(c)' /\ InTime(n, c)' BY <3>1, <1>3
    <3> QED BY <2>1, <3>1, <3>2 DEF CallFits, InTime, Answers, EndpointFor
  <2>2. CASE m # n
    <3>1. calls'[m] = calls[m] BY <2>2 DEF GatewayInv
    <3>2. PICK d \in Call : d = calls[m] BY <3>1, <1>3
    <3>3. CallFits(d) BY <3>2 DEF GatewayInv
    <3>4. CallFits(d)' BY <3>3, CallersKeep
    <3>5. InTime(m, d)' BY <3>2, InTimeKeeps
    <3> QED BY <3>1, <3>2, <3>4, <3>5 DEF CallFits, InTime, Answers, EndpointFor
  <2> QED BY <2>1, <2>2
<1>4. \A k \in DOMAIN apiTokens' : ~ apiTokens'[k].revoked => apiTokens'[k].waiting = {}
  BY DEF TokensKeep
<1> QED BY <1>1, <1>2, <1>3, <1>4 DEF GatewayInv

(* A request that is under way.                                            *)
LEMMA CallOf ==
    ASSUME GatewayInv, NEW n \in DOMAIN calls, calls[n].state # "idle"
    PROVE  n \in {"any", "token"} /\ calls[n] \in Call /\ CallFits(calls[n])
BY DEF GatewayInv, IdleCall

(* The same for a step that only moves a request on.                       *)
LEMMA BecomesOf ==
    ASSUME GatewayInv, TokensKeep, NEW n \in DOMAIN calls, calls[n].state # "idle",
           NEW s \in {"sent", "mcp", "refused", "routed", "missing", "done", "invalid"},
           Becomes(n, s),
           \A c, d \in Call :
              /\ c = calls[n] /\ CallFits(c)' /\ InTime(n, c)'
              /\ d.what = c.what /\ d.caller = c.caller /\ d.state = s
              => CallFits(d)' /\ InTime(n, d)'
    PROVE  GatewayInv'
<1>1. n \in {"any", "token"} /\ calls[n] \in Call /\ CallFits(calls[n]) BY CallOf
<1>2. PICK c \in Call : c = calls[n] BY <1>1
<1>3. CallFits(c)' /\ InTime(n, c)' BY <1>1, <1>2, CallersKeep, InTimeKeeps
<1>4. PICK d : d = [c EXCEPT !.state = s] OBVIOUS
<1>5. d \in Call /\ d.what = c.what /\ d.caller = c.caller /\ d.state = s
  BY <1>4 DEF Call
<1>6. CallFits(d)' /\ InTime(n, d)' BY <1>2, <1>3, <1>5
<1>7. calls' = [calls EXCEPT ![n] = d] BY <1>2, <1>4 DEF Becomes
<1> QED BY <1>1, <1>5, <1>6, <1>7, StepTo

(* The scopes of a caller are some of those a token can be given.          *)
LEMMA ScopesGiven ==
    ASSUME GatewayInv, NEW k \in Anonymous..Len(apiTokens)
    PROVE  Scopes(k) \in SUBSET allowedApiScopes
<1>1. k \in Int /\ Len(apiTokens) \in Nat /\ k <= Len(apiTokens)
  BY DEF GatewayInv, Anonymous
<1>2. CASE k > 0
  <2>1. k \in 1..Len(apiTokens) BY <1>1, <1>2
  <2> QED BY <2>1, <1>2, TokenAt DEF Scopes
<1>3. CASE ~ (k > 0) BY <1>3 DEF Scopes
<1> QED BY <1>2, <1>3

(* What a request that is under way finds, whoever sent it.                *)
LEMMA WhatServed ==
    ASSUME GatewayInv, NEW c \in Call, CallFits(c)
    PROVE  /\ Scopes(c.caller) \in SUBSET allowedApiScopes
           /\ EndpointOf(c.what.method, c.what.path) \in Nat \ {0}
           /\ c.what.tool # "none" =>
                 /\ c.what \in Tools /\ EndpointFor(c.what).access # "public"
                 /\ Head(EndpointFor(c.what).path) = EndpointFor(c.what).path[1]
                 /\ EndpointFor(c.what).path[1] # "tokens"
                 /\ (/\ authorized(c.what.method, c.what.path, Scopes(c.caller))
                     /\ HandlerAllows(EndpointFor(c.what), c.what.action, Scopes(c.caller)))
                      <=> (Needs(c.what) \subseteq Scopes(c.caller))
           /\ EndpointFor(c.what).path = <<"tokens">> =>
                 /\ c.what.tool = "none" /\ EndpointFor(c.what).access = "session"
                 /\ c.what.path = <<"tokens">>
<1>1. Scopes(c.caller) \in SUBSET allowedApiScopes
  BY ScopesGiven DEF CallFits
<1>2. DOMAIN Registry \subseteq Nat \ {0}
  <2>1. DOMAIN Registry = 1..Len(Registry) BY RegistryRows
  <2> QED BY <2>1
<1>3. CASE c.what \in Direct BY <1>1, <1>2, <1>3, DirectServed
<1>4. CASE c.what \in Tools
  <2>1. /\ EndpointOf(c.what.method, c.what.path) \in DOMAIN Registry
        /\ EndpointFor(c.what).path[1] # "tokens"
        /\ EndpointFor(c.what).access # "public"
        /\ (/\ authorized(c.what.method, c.what.path, Scopes(c.caller))
            /\ HandlerAllows(EndpointFor(c.what), c.what.action, Scopes(c.caller)))
              <=> (Needs(c.what) \subseteq Scopes(c.caller))
    BY <1>1, <1>4, ToolServed DEF EndpointFor
  <2>2. Head(EndpointFor(c.what).path) = EndpointFor(c.what).path[1] OBVIOUS
  <2>3. <<"tokens">>[1] = "tokens" OBVIOUS
  <2>4. EndpointFor(c.what).path # <<"tokens">> BY <2>1, <2>3
  <2> QED BY <1>1, <1>2, <1>4, <2>1, <2>2, <2>4
<1>5. c.what \in Tools \cup Direct BY CallFields DEF What
<1> QED BY <1>3, <1>4, <1>5

(* Requests arrive: a tool is refused at once only when its token is       *)
(* revoked or missing.                                                     *)
LEMMA ArrivesStep ==
    ASSUME GatewayInv, NEW n \in {"any", "token"}, NEW what \in What,
           NEW k \in Anonymous..Len(apiTokens), Arrives(n, what, k)
    PROVE  GatewayInv'
<1>1. TokensKeep BY TokensStay DEF Arrives
<1> DEFINE c == [what |-> what, caller |-> k,
                 state |-> IF what.tool = "none" THEN "sent"
                           ELSE IF ValidCaller(k) THEN "mcp" ELSE "refused"]
<1>2. PICK d : d = c OBVIOUS
<1>3. d.what = what /\ d.caller = k /\ d.state # "routed" /\ d.state # "done"
  BY <1>2
<1>4. d.state = "refused" => ~ ValidCaller(k) BY <1>2
<1>5. d \in Call
  <2>1. k \in Int BY DEF Anonymous
  <2> QED BY <1>2, <2>1 DEF Call
<1>6. calls' = [calls EXCEPT ![n] = d] BY <1>2 DEF Arrives
<1>7. CallFits(d)
  BY <1>3, <1>4 DEF CallFits, Answers, Arrives
<1>8. CallFits(d)' BY <1>1, <1>5, <1>7, CallersKeep
<1>9. InTime(n, d)' BY <1>3 DEF InTime
<1> QED BY <1>1, <1>5, <1>6, <1>8, <1>9, StepTo

LEMMA ArrivalSteps == GatewayInv /\ (Arrive \/ ArriveMeanwhile) => GatewayInv'
<1> SUFFICES ASSUME GatewayInv, Arrive \/ ArriveMeanwhile PROVE GatewayInv'
  OBVIOUS
<1>1. CASE Arrive
  <2>1. PICK what \in Tools \cup Direct, k \in Anonymous..Len(apiTokens) :
           Arrives("any", what, k)
    BY <1>1 DEF Arrive
  <2> QED BY <2>1, ArrivesStep DEF What
<1>2. CASE ArriveMeanwhile
  <2>1. PICK what \in Direct : Arrives("token", what, OwnerSession)
    BY <1>2 DEF ArriveMeanwhile
  <2>2. OwnerSession \in Anonymous..Len(apiTokens)
    <3>1. Len(apiTokens) \in Nat BY DEF GatewayInv
    <3> QED BY <3>1 DEF OwnerSession, Anonymous
  <2> QED BY <2>1, <2>2, ArrivesStep DEF What
<1> QED BY <1>1, <1>2

(* The answer has been sent, and the body of a tool has been read.         *)
LEMMA AnsweredStep ==
    ASSUME GatewayInv, NEW n \in DOMAIN calls, Answered(n)
    PROVE  GatewayInv'
<1>1. n \in {"any", "token"} BY DEF GatewayInv
<1>2. TokensKeep BY TokensStay DEF Answered
<1>3. calls' = [calls EXCEPT ![n] = IdleCall] BY DEF Answered
<1>4. IdleCall \notin Call BY CallFields DEF IdleCall
<1> QED BY <1>1, <1>2, <1>3, <1>4, StepTo

LEMMA DispatchStep ==
    ASSUME GatewayInv, NEW n \in DOMAIN calls, Dispatch(n)
    PROVE  GatewayInv'
<1>1. TokensKeep BY TokensStay DEF Dispatch
<1>2. calls[n].state # "idle" /\ Becomes(n, "sent") BY DEF Dispatch
<1>3. ASSUME NEW c \in Call, NEW d \in Call, CallFits(c)',
             d.what = c.what, d.caller = c.caller, d.state = "sent"
      PROVE  CallFits(d)' /\ InTime(n, d)'
  BY <1>3 DEF CallFits, Answers, InTime
<1> QED BY <1>1, <1>2, <1>3, BecomesOf

(* fetch() refuses a tool only for a scope it lacks or a revoked token,    *)
(* and lets no tool pass that is not authorized.                           *)
LEMMA RouteStep ==
    ASSUME GatewayInv, NEW n \in DOMAIN calls, Route(n)
    PROVE  GatewayInv'
<1>1. TokensKeep /\ UNCHANGED apiTokens BY TokensStay DEF Route
<1>2. calls[n].state # "idle" BY DEF Route
<1>3. PICK c \in Call : c = calls[n] BY <1>2, CallOf
<1>4. CallFits(c) BY <1>2, <1>3, CallOf
<1> DEFINE granted == /\ ValidCaller(c.caller)
                      /\ \/ c.caller = OwnerSession
                         \/ authorized(c.what.method, c.what.path, Scopes(c.caller))
           goes == \/ EndpointFor(c.what).access = "public"
                   \/ granted
<1>5. Becomes(n, IF goes THEN "routed" ELSE "refused")
  <2> DEFINE f == EndpointOf(calls[n].what.method, calls[n].what.path)
             open == Registry[f].access = "public"
             let == /\ ValidCaller(calls[n].caller)
                    /\ \/ calls[n].caller = OwnerSession
                       \/ authorized(calls[n].what.method, calls[n].what.path,
                                     Scopes(calls[n].caller))
  <2>1. f \in Nat \ {0} BY <1>3, <1>4, WhatServed
  <2>2. Becomes(n, CASE f = 0 -> "missing"
                     [] f > 0 /\ Registry[f].access = "public" -> "routed"
                     [] f > 0 /\ Registry[f].access # "public" ->
                          IF let THEN "routed" ELSE "refused")
    BY DEF Route, Authenticated
  <2>3. goes <=> open \/ let BY <1>3 DEF EndpointFor
  <2> HIDE DEF f, let, goes
  <2>4. CASE goes
    <3>1. (CASE f = 0 -> "missing"
                     [] f > 0 /\ Registry[f].access = "public" -> "routed"
                     [] f > 0 /\ Registry[f].access # "public" ->
                          IF let THEN "routed" ELSE "refused") = "routed"
      BY <2>1, <2>3, <2>4
    <3> QED BY <2>2, <2>4, <3>1
  <2>5. CASE ~ goes
    <3>1. (CASE f = 0 -> "missing"
                     [] f > 0 /\ Registry[f].access = "public" -> "routed"
                     [] f > 0 /\ Registry[f].access # "public" ->
                          IF let THEN "routed" ELSE "refused") = "refused"
      BY <2>1, <2>3, <2>5
    <3> QED BY <2>2, <2>5, <3>1
  <2> QED BY <2>4, <2>5
<1>6. PICK s \in {"routed", "refused"} :
         Becomes(n, s) /\ s = IF goes THEN "routed" ELSE "refused"
  BY <1>5
<1>7. ASSUME NEW d \in Call, CallFits(c)',
             d.what = c.what, d.caller = c.caller, d.state = s
      PROVE  CallFits(d)' /\ InTime(n, d)'
  <2>1. c.caller \in Anonymous..Len(apiTokens') BY <1>7 DEF CallFits
  <2>2. c.what.tool # "none" => c.caller # OwnerSession BY <1>7 DEF CallFits
  <2>3. /\ Scopes(c.caller)' = Scopes(c.caller)
        /\ ValidCaller(c.caller)' <=> ValidCaller(c.caller)
    BY <1>1 DEF Scopes, ValidCaller
  <2>4. c.what.tool # "none" => Answers(d)'
    <3> SUFFICES ASSUME c.what.tool # "none" PROVE Answers(d)' OBVIOUS
    <3>1. EndpointFor(c.what).access # "public" /\ c.caller # OwnerSession
      BY <1>4, <2>2, WhatServed
    <3>2. d.state # "done" BY <1>6, <1>7
    <3>3. d.state = "refused" => ~ granted BY <1>6, <1>7
    <3>4. ~ granted => \/ ~ ValidCaller(c.caller)
                       \/ ~ (Needs(c.what) \subseteq Scopes(c.caller))
      BY <1>4, WhatServed
    <3> QED BY <2>3, <3>2, <3>3, <3>4, <1>7 DEF Answers
  <2>5. d.state = "routed" =>
          \/ c.caller = OwnerSession \/ EndpointFor(c.what).access = "public"
          \/ c.caller > 0 /\ authorized(c.what.method, c.what.path, Scopes(c.caller))
    BY <1>6, <1>7 DEF ValidCaller
  <2>6. InTime(n, d)'
    <3> SUFFICES ASSUME d.state \in {"routed", "done"},
                        EndpointFor(c.what).access # "public", c.caller > 0
                 PROVE  n \notin apiTokens[c.caller].waiting
      BY <1>1, <1>7 DEF InTime, EndpointFor
    <3>1. ValidCaller(c.caller) BY <1>6, <1>7
    <3>2. c.caller \in DOMAIN apiTokens
      <4>1. /\ c.caller \in Int /\ Len(apiTokens) \in Nat /\ c.caller <= Len(apiTokens)
            /\ apiTokens \in Seq(Token)
        BY <1>4 DEF CallFits, GatewayInv, Anonymous
      <4> QED BY <4>1
    <3>3. ~ apiTokens[c.caller].revoked BY <3>1 DEF ValidCaller, OwnerSession
    <3> QED BY <3>2, <3>3 DEF GatewayInv
  <2>7. CallFits(d)'
    BY <1>7, <2>1, <2>2, <2>3, <2>4, <2>5 DEF CallFits, EndpointFor
  <2> QED BY <2>6, <2>7
<1> QED BY <1>1, <1>2, <1>3, <1>6, <1>7, BecomesOf

(* A handler that ends keeps the invariant when its answer fits.           *)
LEMMA HandlerEnds ==
    ASSUME GatewayInv, TokensKeep, NEW n \in DOMAIN calls, calls[n].state = "routed",
           NEW s \in {"refused", "done", "invalid"}, Becomes(n, s),
           calls[n].what.tool # "none" =>
              LET enough == Needs(calls[n].what) \subseteq Scopes(calls[n].caller)
              IN (s = "done" => enough) /\ (s = "refused" => ~ enough)
    PROVE  GatewayInv'
<1>1. calls[n].state # "idle" OBVIOUS
<1>2. PICK c \in Call : c = calls[n] BY <1>1, CallOf
<1>3. CallFits(c) BY <1>1, <1>2, CallOf
<1>4. c.caller \in Int /\ Len(apiTokens) \in Nat /\ c.caller <= Len(apiTokens)
  BY <1>3 DEF CallFits, GatewayInv, Anonymous
<1>5. Scopes(c.caller)' = Scopes(c.caller) BY <1>4 DEF Scopes, TokensKeep
<1>6. ASSUME NEW d \in Call, CallFits(c)', InTime(n, c)',
             d.what = c.what, d.caller = c.caller, d.state = s
      PROVE  CallFits(d)' /\ InTime(n, d)'
  <2>1. d.state # "routed" BY <1>6
  <2>2. d.what.tool # "none" => Answers(d)' BY <1>2, <1>5, <1>6 DEF Answers
  <2>3. CallFits(d)' BY <1>6, <2>1, <2>2 DEF CallFits
  <2>4. c.state = "routed" BY <1>2
  <2>5. InTime(n, d)' BY <1>6, <2>4 DEF InTime, EndpointFor
  <2> QED BY <2>3, <2>5
<1> QED BY <1>1, <1>2, <1>6, BecomesOf

(* The handler: it allows a tool exactly with the documented scopes, and   *)
(* tokens are created by a session.                                        *)
LEMMA HandleStep ==
    ASSUME GatewayInv, NEW n \in DOMAIN calls, Handle(n)
    PROVE  GatewayInv'
<1>1. calls[n].state = "routed" BY DEF Handle
<1>2. PICK c \in Call : c = calls[n] BY <1>1, CallOf
<1>3. CallFits(c) /\ c.state = "routed" BY <1>1, <1>2, CallOf
<1> DEFINE endpoint == EndpointFor(c.what)
           allows   == \/ c.caller = OwnerSession \/ endpoint.access = "public"
                       \/ HandlerAllows(endpoint, c.what.action, Scopes(c.caller))
<1>4. endpoint = Registry[EndpointOf(calls[n].what.method, calls[n].what.path)]
  BY <1>2 DEF EndpointFor
<1>5. c.what.tool # "none" =>
        /\ c.caller # OwnerSession /\ endpoint.access # "public"
        /\ Head(endpoint.path) # "tokens" /\ endpoint.path # <<"tokens">>
        /\ allows <=> (Needs(c.what) \subseteq Scopes(c.caller))
  <2> SUFFICES ASSUME c.what.tool # "none"
               PROVE  /\ c.caller # OwnerSession /\ endpoint.access # "public"
                      /\ Head(endpoint.path) # "tokens" /\ endpoint.path # <<"tokens">>
                      /\ allows <=> (Needs(c.what) \subseteq Scopes(c.caller))
    OBVIOUS
  <2>1. c.caller # OwnerSession BY <1>3 DEF CallFits
  <2>2. /\ endpoint.access # "public" /\ Head(endpoint.path) # "tokens"
        /\ endpoint.path # <<"tokens">>
        /\ (/\ authorized(c.what.method, c.what.path, Scopes(c.caller))
            /\ HandlerAllows(endpoint, c.what.action, Scopes(c.caller)))
              <=> (Needs(c.what) \subseteq Scopes(c.caller))
    BY <1>3, WhatServed
  <2>3. authorized(c.what.method, c.what.path, Scopes(c.caller))
    BY <1>3, <2>1, <2>2 DEF CallFits
  <2> QED BY <2>1, <2>2, <2>3
<1> DEFINE path  == Registry[EndpointOf(calls[n].what.method, calls[n].what.path)].path
           lets  == \/ calls[n].caller = OwnerSession
                    \/ Registry[EndpointOf(calls[n].what.method, calls[n].what.path)].access
                          = "public"
                    \/ HandlerAllows(
                          Registry[EndpointOf(calls[n].what.method, calls[n].what.path)],
                          calls[n].what.action, Scopes(calls[n].caller))
           created == \E scopes \in {readScopes, allowedApiScopes,
                               {<<"operations", "write">>, <<"connections", "write">>},
                               {<<"tokens", "write">>}, {AllScopes}} :
                   IF scopes \subseteq allowedApiScopes /\ Len(apiTokens) < MaxTokens
                   THEN /\ apiTokens' = Append(apiTokens,
                              [scopes |-> scopes, by |-> calls[n].caller, revoked |-> FALSE,
                               waiting |-> {}])
                        /\ Becomes(n, "done")
                   ELSE Becomes(n, "invalid") /\ UNCHANGED apiTokens
           ended == \/ /\ \A id \in DOMAIN apiTokens : apiTokens[id].revoked
                       /\ Becomes(n, "invalid") /\ UNCHANGED apiTokens
                    \/ \E id \in DOMAIN apiTokens :
                      /\ ~ apiTokens[id].revoked
                      /\ apiTokens' = [apiTokens EXCEPT ![id].revoked = TRUE,
                                                       ![id].waiting = Unauthenticated]
                      /\ Becomes(n, "done")
<1>6. \/ ~ lets /\ Becomes(n, "refused") /\ UNCHANGED apiTokens
      \/ lets /\ path = <<"tokens">> /\ calls[n].what.method = "POST" /\ created
      \/ lets /\ path = <<"tokens", ":">> /\ ended
      \/ lets /\ Becomes(n, "done") /\ UNCHANGED apiTokens
  <2> HIDE DEF allows
  <2> QED BY Zenon DEF Handle
<1> DEFINE enough == Needs(calls[n].what) \subseteq Scopes(calls[n].caller)
<1>7. calls[n].what.tool # "none" =>
         (lets <=> enough) /\ path # <<"tokens">> /\ path[1] # "tokens"
  BY <1>2, <1>4, <1>5
<1>8. CASE ~ lets /\ Becomes(n, "refused") /\ UNCHANGED apiTokens
  <2>1. TokensKeep BY <1>8, TokensStay
  <2> HIDE DEF lets, path
  <2> QED BY <1>1, <1>7, <1>8, <2>1, HandlerEnds
<1>9. CASE lets /\ Becomes(n, "done") /\ UNCHANGED apiTokens
  <2>1. TokensKeep BY <1>9, TokensStay
  <2> HIDE DEF lets, path
  <2> QED BY <1>1, <1>7, <1>9, <2>1, HandlerEnds
<1>10. CASE lets /\ path = <<"tokens">> /\ calls[n].what.method = "POST" /\ created
  <2>1. calls[n].what.tool = "none" BY <1>7, <1>10
  <2>2. PICK scopes : IF scopes \subseteq allowedApiScopes /\ Len(apiTokens) < MaxTokens
                   THEN /\ apiTokens' = Append(apiTokens,
                              [scopes |-> scopes, by |-> calls[n].caller, revoked |-> FALSE,
                               waiting |-> {}])
                        /\ Becomes(n, "done")
                   ELSE Becomes(n, "invalid") /\ UNCHANGED apiTokens
    BY <1>10
  <2>3. CASE Becomes(n, "invalid") /\ UNCHANGED apiTokens
    <3>1. TokensKeep BY <2>3, TokensStay
    <3> QED BY <1>1, <2>1, <2>3, <3>1, HandlerEnds
  <2>4. CASE /\ scopes \subseteq allowedApiScopes /\ Becomes(n, "done")
             /\ apiTokens' = Append(apiTokens,
                      [scopes |-> scopes, by |-> calls[n].caller, revoked |-> FALSE,
                       waiting |-> {}])
    <3>1. c.caller = OwnerSession
      <4>1. EndpointFor(c.what).path = <<"tokens">> BY <1>2, <1>10 DEF EndpointFor
      <4>2. /\ Scopes(c.caller) \in SUBSET allowedApiScopes
            /\ EndpointFor(c.what).access = "session" /\ c.what.path = <<"tokens">>
        BY <1>3, <4>1, WhatServed
      <4>3. ~ authorized("POST", <<"tokens">>, Scopes(c.caller))
        BY <4>2, TokensNeedSession
      <4> QED BY <1>2, <1>3, <1>10, <4>2, <4>3 DEF CallFits
    <3>2. PICK t : t = [scopes |-> scopes, by |-> calls[n].caller, revoked |-> FALSE,
                        waiting |-> {}]
      OBVIOUS
    <3>3. t \in Token /\ t.waiting = {}
      <4>1. calls[n].caller = OwnerSession BY <1>2, <3>1
      <4>2. scopes \in SUBSET allowedApiScopes BY <2>4
      <4>3. {} \in SUBSET {"any", "token"} OBVIOUS
      <4> QED BY <3>2, <4>1, <4>2, <4>3 DEF Token
    <3>4. TokensKeep
      <4>1. apiTokens \in Seq(Token) BY DEF GatewayInv
      <4>2. apiTokens' = Append(apiTokens, t) BY <2>4, <3>2
      <4>3. \A k \in DOMAIN apiTokens : ~ apiTokens[k].revoked => apiTokens[k].waiting = {}
        BY DEF GatewayInv
      <4> QED BY <3>3, <4>1, <4>2, <4>3 DEF TokensKeep
    <3> QED BY <1>1, <2>1, <2>4, <3>4, HandlerEnds
  <2> QED BY <2>2, <2>3, <2>4
<1>11. CASE lets /\ path = <<"tokens", ":">> /\ ended
  <2>1. calls[n].what.tool = "none"
    <3>1. <<"tokens", ":">>[1] = "tokens" OBVIOUS
    <3> QED BY <1>7, <1>11, <3>1
  <2>2. CASE Becomes(n, "invalid") /\ UNCHANGED apiTokens
    <3>1. TokensKeep BY <2>2, TokensStay
    <3> QED BY <1>1, <2>1, <2>2, <3>1, HandlerEnds
  <2>3. ASSUME NEW id \in DOMAIN apiTokens, Becomes(n, "done"),
               apiTokens' = [apiTokens EXCEPT ![id].revoked = TRUE,
                                              ![id].waiting = Unauthenticated]
        PROVE  GatewayInv'
    <3>1. apiTokens \in Seq(Token) BY DEF GatewayInv
    <3>2. apiTokens[id] \in Token BY <3>1
    <3>3. PICK t : t = [apiTokens[id] EXCEPT !.revoked = TRUE,
                                             !.waiting = Unauthenticated]
      OBVIOUS
    <3>4. Unauthenticated \subseteq {"any", "token"} BY DEF Unauthenticated, GatewayInv
    <3>5. /\ t \in Token /\ t.scopes = apiTokens[id].scopes /\ t.revoked
          /\ t.waiting = Unauthenticated
      BY <3>2, <3>3, <3>4 DEF Token
    <3>6. apiTokens' = [apiTokens EXCEPT ![id] = t] BY <2>3, <3>3
    <3>7. \A k \in DOMAIN apiTokens : ~ apiTokens[k].revoked => apiTokens[k].waiting = {}
      BY DEF GatewayInv
    <3>8. TokensKeep BY <3>1, <3>5, <3>6, <3>7 DEF TokensKeep
    <3> QED BY <1>1, <2>1, <2>3, <3>8, HandlerEnds
  <2> QED BY <1>11, <2>2, <2>3
<1> HIDE DEF lets, path, created, ended
<1> QED BY <1>6, <1>8, <1>9, <1>10, <1>11

(* Every step keeps the invariant.                                         *)
LEMMA GatewayStep == GatewayInv /\ [GatewayNext]_gatewayVars => GatewayInv'
<1> SUFFICES ASSUME GatewayInv, [GatewayNext]_gatewayVars PROVE GatewayInv'
  OBVIOUS
<1>1. CASE Arrive \/ ArriveMeanwhile BY <1>1, ArrivalSteps
<1>2. ASSUME NEW n \in DOMAIN calls, Dispatch(n) \/ Route(n) \/ Handle(n) \/ Answered(n)
      PROVE  GatewayInv'
  BY <1>2, DispatchStep, RouteStep, HandleStep, AnsweredStep
<1>3. CASE UNCHANGED gatewayVars
  BY <1>3 DEF gatewayVars, GatewayInv, CallFits, InTime, Answers, Scopes, ValidCaller,
              EndpointFor
<1> QED BY <1>1, <1>2, <1>3 DEF GatewayNext

(* However requests and revocations interleave, a tool of the MCP server   *)
(* is served only with the permissions its documentation names - and, for  *)
(* the preview of a rotation, the one it does not name - and with them is  *)
(* refused only when its token is revoked; what a token has not been let   *)
(* pass for by fetch() when it is revoked is not served; no endpoint is    *)
(* hidden behind an earlier one; every token was created by a session      *)
(* (http.ts, mcp.ts, mcp-tools.ts).                                        *)
THEOREM CallsAuthorised == GatewaySpec => []CallsAreAuthorised
<1>1. GatewaySpec => []GatewayInv
  BY GatewayStarts, GatewayStep, PTL DEF GatewaySpec
<1> QED BY <1>1, GatewayMeaning, PTL
=============================================================================

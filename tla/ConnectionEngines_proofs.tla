---------------------- MODULE ConnectionEngines_proofs ----------------------
(***************************************************************************)
(* Proofs about the engines of ConnectionSync, for any connections and any *)
(* bounds: what a completed job says of a connection is what every engine  *)
(* does, across late runs, crashes, lost answers and restarts of Xray.     *)
(*                                                                         *)
(* ServedWhenSettled and CutOffWhenSettled are not inductive.  A request   *)
(* of another connection carries a snapshot of this one, so the snapshot   *)
(* on its way must already say what a later completion will promise        *)
(* (AskedFor), and what Xray has done before the optional engine answers   *)
(* must be known half way (HolderAsked).  A hot update touches one user,   *)
(* so Xray must never serve two generations beside each other (Newest); a  *)
(* late run must not undo what a later job promised (RunFits).  Of Xray    *)
(* nothing is said while it runs on something else than its file because   *)
(* a script was killed: its file stands for it (Known).                    *)
(*                                                                         *)
(* What the panel shows of a connection and what its link gives a device   *)
(* (Delivery) follow from the same invariant and one for the link's rows,  *)
(* LinkInv.  What the files offer (ConnectionMethods) has an invariant of  *)
(* its own, MethodsInv: the list, and every two of its methods, are as     *)
(* validate() wants a new one, the methods of the migration included.      *)
(***************************************************************************)
EXTENDS ConnectionSync_proofs, ConnectionOffers, FiniteSetTheorems, NaturalsInduction,
        WellFoundedInduction

(* The state of a connection's newest credential.                          *)
NewestIs(c, state) ==
    conn[c].generation \in Gen /\ cred[c][conn[c].generation] = state

(* A set of users holds exactly these generations of a connection.         *)
Exactly(c, users, gens) == \A g \in Gen : <<c, g>> \in users <=> g \in gens

(* Never two of them, none unknown to the database, and no old one beside  *)
(* an active newest credential.                                            *)
Newest(c, users) ==
    /\ \A g \in Gen : <<c, g>> \in users =>
          g <= conn[c].generation /\ (NewestIs(c, "active") => g = conn[c].generation)
    /\ \A g, h \in Gen : <<c, g>> \in users /\ <<c, h>> \in users => g = h

Opening == {"activate", "rotate", "resume"}

(* The connections every engine has to serve: what opened them is complete,*)
(* or is a rotation that a crash left open after its completion.           *)
Opened(c) == \/ job[c].status = "completed" /\ job[c].kind \in Opening
             \/ job[c].kind = "rotate" /\ Serving(c)

(* And those no engine may serve.                                          *)
Cut(c) == \/ job[c].status = "completed" /\ job[c].kind = "suspend" /\ conn[c].suspended
          \/ conn[c].status = "archived" /\ (conn[c].activated \/ conn[c].generation > 1)

(* What a connection's rows say of its job and of each other.              *)
RowsFit(c) ==
    /\ job[c].kind = "activate" => conn[c].generation = 1
    /\ job[c].kind = "rotate" =>
          conn[c].generation > 1 /\ (NewestIs(c, "pending") \/ Serving(c))
    /\ job[c].kind \in {"suspend", "resume"} =>
          conn[c].status = "active" /\ ~NewestIs(c, "pending")
    /\ job[c].kind = "revoke" /\ job[c].status = "completed" => conn[c].status = "archived"
    /\ conn[c].suspended => job[c].kind \in {"suspend", "resume", "revoke"}
    /\ conn[c].status # "archived" /\ (conn[c].activated \/ conn[c].generation > 1)
          => ActiveGens(c) # {}
    /\ Opened(c) => Serving(c)

(* A run, however late, is of a kind its connection's newest job allows.   *)
RunFits(r) ==
    r.conn \in Conn =>
        /\ r.kind = "activate" => r.gen = 1
        /\ r.kind = "rotate" => r.gen > 1
        /\ r.kind \in {"suspend", "resume"} => ~NewestIs(r.conn, "pending")
        /\ job[r.conn].kind = "rotate" => r.kind = "rotate"

(* What Xray serves as far as it is known: a killed script leaves its file.*)
Known == IF "xray" \in missed THEN file ELSE live

(* What engines with file f, users l in memory while u, and optional users *)
(* o may hold of connection c.  Only a rotation must find in memory what   *)
(* the file has: it alone may be answered because the file is the same.    *)
Fits(c, f, l, u, o) ==
    /\ Newest(c, f) /\ (u => Newest(c, l))
    /\ NewestIs(c, "pending") /\ conn[c].generation > 1
       /\ u /\ <<c, conn[c].generation>> \in f
          => <<c, conn[c].generation>> \in l
    /\ Opened(c) => /\ Exactly(c, f, {conn[c].generation})
                    /\ Exactly(c, o, {conn[c].generation})
                    /\ u => Exactly(c, l, {conn[c].generation})
    /\ Cut(c) => /\ Exactly(c, f, {}) /\ Exactly(c, o, {})
                 /\ u => Exactly(c, l, {})

EnginesFit(c) == Fits(c, file, Known, up, opt)

(* The snapshot on its way to an engine, about a connection other than its *)
(* run's: no request can have made it false.                               *)
AskedFor(c, users) ==
    /\ Newest(c, users)
    /\ NewestIs(c, "pending") => <<c, conn[c].generation>> \notin users
    /\ Opened(c) => Exactly(c, users, {conn[c].generation})
    /\ Cut(c) => Exactly(c, users, {})

AskedGens(r) == IF Adds(r) THEN {r.gen} ELSE {}

(* About its own, Xray has already done what the optional engine is asked. *)
HolderAsked(r) ==
    /\ Exactly(r.conn, call.users, AskedGens(r))
    /\ r.kind # "revoke" => call.gen = r.gen
    /\ call.stage = "optional" =>
          /\ Exactly(r.conn, file, AskedGens(r))
          /\ up => \A g \in Gen : <<r.conn, g>> \in Known => g \in AskedGens(r)
          /\ up /\ (r.kind = "rotate" => job[r.conn].kind = "rotate")
                => Exactly(r.conn, Known, AskedGens(r))

CallFits ==
    call # NoCall =>
        /\ \A c \in Conn \ {Holder.conn} : AskedFor(c, call.users)
        /\ Holder.conn \in Conn => HolderAsked(Holder)

EInv == /\ \A c \in Conn : RowsFit(c) /\ EnginesFit(c)
        /\ \A i \in DOMAIN queue : RunFits(queue[i])
        /\ CallFits

-----------------------------------------------------------------------------
(* The holder and its connection.                                          *)

(* A run of a connection is about its newest generation, its job runs, and *)
(* a completion that already promised something of the connection promised *)
(* what this run does too.                                                 *)
LEMMA HolderRow ==
    ASSUME IInv, EInv, queue # <<>>, Holder.conn \in Conn
    PROVE  /\ Holder \in Run /\ RunAgrees(Holder) /\ RunFits(Holder)
           /\ Holder.kind \in OwnerKinds
           /\ Holder.gen = conn[Holder.conn].generation /\ Holder.gen \in Gen
           /\ job[Holder.conn].status = "running"
           /\ Opened(Holder.conn) => Holder.kind = "rotate"
           /\ Cut(Holder.conn) => Holder.kind = "revoke"
           /\ Holder.kind \in {"activate", "resume"} =>
                conn[Holder.conn].generation = 1 \/ NewestIs(Holder.conn, "active")
           /\ Holder.kind = "rotate" => conn[Holder.conn].generation > 1
<1>1. Holder = queue[1] /\ 1 \in DOMAIN queue
  <2>1. queue \in Seq(Run) BY DEF IInv, TypeOK
  <2>2. Len(queue) \in Nat /\ DOMAIN queue = 1..Len(queue) BY <2>1, LenProperties
  <2>3. Len(queue) # 0 BY <2>1, EmptySeq
  <2>4. QED BY <2>2, <2>3, HolderFacts
<1>2. Holder \in Run /\ RunAgrees(Holder) BY HolderFacts
<1>3. RunFits(Holder) BY <1>1 DEF EInv
<1>4. Holder.kind \in OwnerKinds
  BY <1>2, ConnAssumption DEF Run, Kinds, RunAgrees
<1>5. /\ Holder.gen = conn[Holder.conn].generation
      /\ job[Holder.conn].status = "running"
      /\ conn[Holder.conn].status = "archived" => Holder.kind = "revoke"
  BY <1>2 DEF RunAgrees
<1>6. RowsAgree(Holder.conn) /\ conn[Holder.conn] \in Connection
      /\ (conn[Holder.conn].status # "absent" => conn[Holder.conn].generation \in Gen)
  BY GenerationFacts
<1>7. conn[Holder.conn].status # "absent" BY <1>5, <1>6 DEF RowsAgree
<1>8. Opened(Holder.conn) => Holder.kind = "rotate"
  BY <1>3, <1>5 DEF Opened, RunFits
<1>9. Cut(Holder.conn) => Holder.kind = "revoke" BY <1>5 DEF Cut
<1>10. ASSUME Holder.kind \in {"activate", "resume"}
       PROVE  conn[Holder.conn].generation = 1 \/ NewestIs(Holder.conn, "active")
  <2>1. CASE Holder.kind = "activate" BY <2>1, <1>3, <1>5 DEF RunFits
  <2>2. CASE Holder.kind = "resume"
    <3>1. ~NewestIs(Holder.conn, "pending") BY <2>2, <1>3 DEF RunFits
    <3>2. conn[Holder.conn].status # "archived" BY <2>2, <1>5
    <3>3. cred[Holder.conn][conn[Holder.conn].generation] \in
             {"none", "pending", "active", "revoked"}
      BY <1>6, <1>7 DEF IInv, TypeOK
    <3>4. QED BY <3>1, <3>2, <3>3, <1>6, <1>7 DEF RowsAgree, NewestIs, Gen, Connection
  <2>3. QED BY <1>10, <2>1, <2>2
<1>11. Holder.kind = "rotate" => conn[Holder.conn].generation > 1
  BY <1>3, <1>5 DEF RunFits
<1>12. QED BY <1>2, <1>3, <1>4, <1>5, <1>6, <1>7, <1>8, <1>9, <1>10, <1>11

(* What the snapshot of a run that adds or leaves out its own connection   *)
(* may hold of it.                                                         *)
LEMMA AskedIsNewest ==
    ASSUME IInv, EInv, queue # <<>>, Holder.conn \in Conn, NEW users,
           \A g \in Gen : <<Holder.conn, g>> \in users => g \in AskedGens(Holder)
    PROVE  Newest(Holder.conn, users)
<1>1. Holder.gen = conn[Holder.conn].generation /\ Holder.gen \in Gen BY HolderRow
<1>2. \A g \in Gen : g \in AskedGens(Holder) => g = conn[Holder.conn].generation
  BY <1>1 DEF AskedGens
<1>3. QED BY <1>1, <1>2 DEF Newest, Gen

-----------------------------------------------------------------------------
(* The agent.                                                              *)

(* What an answer of Xray's says of what it is known to serve.             *)
LEMMA XrayAnswers ==
    ASSUME up, XrayApplied(Holder, call.gen, call.users)
    PROVE  \/ Known' = call.users
           \/ HotAdd(Holder) /\ Known' = Known \cup {<<Holder.conn, call.gen>>}
           \/ /\ HotRemove(Holder) /\ <<Holder.conn, call.gen>> \in Known
              /\ Known' = Known \ {<<Holder.conn, call.gen>>}
           \/ /\ ~HotAdd(Holder) /\ ~HotRemove(Holder)
              /\ call.users = file /\ Known' = Known
<1>1. file' = call.users BY DEF XrayApplied
<1>2. CASE missed' = missed /\ "xray" \in missed BY <1>1, <1>2 DEF Known
<1>3. CASE missed' = missed /\ "xray" \notin missed
  BY <1>3 DEF XrayApplied, Known
<1>4. CASE live' = call.users /\ InStep("xray") BY <1>4 DEF Known, InStep
<1>5. QED BY <1>2, <1>3, <1>4 DEF XrayApplied

(* What a request may leave of the users: the same; those of the file, old *)
(* or new; none, for Xray is down; or, of a hot update, the new file and   *)
(* the old memory.                                                         *)
LEMMA AgentEffects ==
    ASSUME AgentOutcome
    PROVE  \/ /\ file' = file /\ Known' = Known /\ up' = up
              /\ opt' = opt \/ (call # NoCall /\ opt' = call.users)
           \/ /\ call # NoCall /\ opt' = opt /\ file' \in {file, call.users}
              /\ Known' = file' \/ up' = FALSE
              /\ up' => up
           \/ /\ call # NoCall /\ opt' = opt /\ file' = call.users
              /\ HotAdd(Holder) \/ HotRemove(Holder)
              /\ Known' = Known /\ up' = up
           \/ call # NoCall /\ XrayApplied(Holder, call.gen, call.users)
<1>1. CASE UNCHANGED engines BY <1>1 DEF engines, Known
<1>2. CASE call.stage = "optional"
           /\ \/ OptionalApplied(call.users) \/ OptionalRefused(call.users)
              \/ OptionalKilled(call.users)
  <2>1. /\ file' = file /\ live' = live /\ up' = up
        /\ opt' = opt \/ opt' = call.users
        /\ "xray" \in missed' <=> "xray" \in missed
    BY <1>2 DEF OptionalApplied, OptionalRefused, OptionalKilled, InStep, Missed
  <2>2. call # NoCall BY <1>2 DEF NoCall
  <2>3. QED BY <2>1, <2>2 DEF Known
<1>3. CASE call.stage = "xray" /\ XrayRefused(Holder, call.users)
  <2>1. call # NoCall BY <1>3 DEF NoCall
  <2>2. QED BY <1>3, <2>1 DEF XrayRefused, InStep, Known
<1>4. CASE call.stage = "xray" /\ XrayKilled(Holder, call.users)
  <2>1. call # NoCall BY <1>4 DEF NoCall
  <2>2. CASE /\ HotAdd(Holder) \/ HotRemove(Holder)
             /\ file' = call.users /\ UNCHANGED <<live, up, missed, opt>>
    BY <2>1, <2>2 DEF Known
  <2>3. CASE /\ file' \in {file, call.users} /\ opt' = opt /\ up
             /\ (up' = up /\ Missed("xray")) \/ up' = FALSE
    BY <2>1, <2>3 DEF Known, Missed
  <2>4. QED BY <1>4, <2>2, <2>3 DEF XrayKilled
<1>5. CASE call.stage = "xray" /\ XrayApplied(Holder, call.gen, call.users)
  <2>1. call # NoCall BY <1>5 DEF NoCall
  <2>2. QED BY <1>5, <2>1
<1>6. QED BY <1>1, <1>2, <1>3, <1>4, <1>5 DEF AgentOutcome

(* A request leaves another connection's users as its snapshot has them or *)
(* as they were.                                                           *)
LEMMA AgentFitsOthers ==
    ASSUME IInv, EInv, call # NoCall, AgentOutcome,
           NEW c \in Conn, c # Holder.conn
    PROVE  Fits(c, file', Known', up', opt')
<1>1. AskedFor(c, call.users) /\ EnginesFit(c) BY DEF EInv, CallFits
<1>2. CASE /\ file' = file /\ Known' = Known /\ up' = up
           /\ opt' = opt \/ opt' = call.users
  BY <1>1, <1>2 DEF EnginesFit, Fits, AskedFor
<1>3. CASE /\ opt' = opt /\ file' \in {file, call.users}
           /\ Known' = file' \/ up' = FALSE
  BY <1>1, <1>3 DEF EnginesFit, Fits, AskedFor
<1>4. CASE opt' = opt /\ file' = call.users /\ Known' = Known /\ up' = up
  BY <1>1, <1>4 DEF EnginesFit, Fits, AskedFor
<1>5. CASE XrayApplied(Holder, call.gen, call.users)
  <2>1. file' = call.users /\ up' = up /\ opt' = opt BY <1>5 DEF XrayApplied
  <2>2. CASE Known' = call.users
    BY <2>1, <2>2, <1>1 DEF EnginesFit, Fits, AskedFor
  <2>3. CASE \A g \in Gen : <<c, g>> \in Known' <=> <<c, g>> \in Known
    <3>1. up => Newest(c, Known') BY <2>3, <1>1 DEF EnginesFit, Fits, Newest
    <3>2. /\ Opened(c) /\ up => Exactly(c, Known', {conn[c].generation})
          /\ Cut(c) /\ up => Exactly(c, Known', {})
      BY <2>3, <1>1 DEF EnginesFit, Fits, Exactly
    <3>3. QED BY <2>1, <3>1, <3>2, <1>1 DEF EnginesFit, Fits, AskedFor
  <2>4. CASE ~up
    BY <2>1, <2>4, <1>1 DEF EnginesFit, Fits, AskedFor
  <2>5. ASSUME up
        PROVE  \/ Known' = call.users
               \/ \A g \in Gen : <<c, g>> \in Known' <=> <<c, g>> \in Known
    BY <1>5, <2>5, XrayAnswers
  <2>6. QED BY <2>2, <2>3, <2>4, <2>5
<1>6. QED BY <1>2, <1>3, <1>4, <1>5, AgentEffects

(* What Xray serves of the holder's own connection after its request.      *)
LEMMA XrayServesHolder ==
    ASSUME IInv, EInv, call # NoCall, Holder.conn \in Conn, up,
           XrayApplied(Holder, call.gen, call.users)
    PROVE  \/ Known' = call.users
           \/ /\ HotAdd(Holder) /\ Exactly(Holder.conn, Known', {Holder.gen})
           \/ /\ HotRemove(Holder)
              /\ Known' \subseteq Known /\ Exactly(Holder.conn, Known', {})
           \/ /\ Holder.kind = "rotate" /\ call.users = file /\ Known' = Known
<1> DEFINE c == Holder.conn
<1>1. queue # <<>> BY DEF IInv, QueueMatchesOutbox
<1>2. /\ Holder.gen = conn[c].generation /\ Holder.gen \in Gen
      /\ Holder.kind \in OwnerKinds
      /\ Holder.kind \in {"activate", "resume"} =>
           conn[c].generation = 1 \/ NewestIs(c, "active")
  BY <1>1, HolderRow
<1>3. Newest(c, Known) BY DEF EInv, EnginesFit, Fits
<1>4. HolderAsked(Holder) BY DEF EInv, CallFits
<1>5. CASE Known' = call.users BY <1>5
<1>6. CASE HotAdd(Holder) /\ Known' = Known \cup {<<c, call.gen>>}
  <2>1. call.gen = Holder.gen BY <1>4, <1>6 DEF HolderAsked, HotAdd
  <2>2. ASSUME NEW g \in Gen, <<c, g>> \in Known PROVE g = Holder.gen
    BY <1>2, <1>3, <1>6, <2>2 DEF Newest, HotAdd, Gen
  <2>3. Exactly(c, Known', {Holder.gen}) BY <1>6, <2>1, <2>2 DEF Exactly
  <2>4. QED BY <1>6, <2>3
<1>7. CASE /\ HotRemove(Holder) /\ <<c, call.gen>> \in Known
           /\ Known' = Known \ {<<c, call.gen>>}
  <2>1. call.gen \in Gen BY <1>2 DEF IInv, QueueMatchesOutbox, OwnerKinds
  <2>2. Exactly(c, Known', {}) BY <1>3, <1>7, <2>1 DEF Newest, Exactly
  <2>3. QED BY <1>7, <2>2
<1>8. CASE /\ ~HotAdd(Holder) /\ ~HotRemove(Holder) /\ call.users = file /\ Known' = Known
  BY <1>2, <1>8 DEF HotAdd, HotRemove, OwnerKinds
<1>9. QED BY <1>5, <1>6, <1>7, <1>8, XrayAnswers

(* A request leaves the holder's own connection as the run asked or as it  *)
(* was.                                                                    *)
LEMMA AgentFitsHolder ==
    ASSUME IInv, EInv, call # NoCall, AgentOutcome, Holder.conn \in Conn
    PROVE  Fits(Holder.conn, file', Known', up', opt')
<1> DEFINE c == Holder.conn
<1>1. queue # <<>> BY DEF IInv, QueueMatchesOutbox
<1>2. /\ Holder.gen = conn[c].generation /\ Holder.gen \in Gen
      /\ Opened(c) => Holder.kind = "rotate"
      /\ Cut(c) => Holder.kind = "revoke"
      /\ Holder.kind \in {"activate", "resume"} =>
           conn[c].generation = 1 \/ NewestIs(c, "active")
  BY <1>1, HolderRow
<1>3. EnginesFit(c) BY DEF EInv
<1>4. Exactly(c, call.users, AskedGens(Holder)) BY DEF EInv, CallFits, HolderAsked
<1>5. Newest(c, call.users) BY <1>1, <1>4, AskedIsNewest DEF Exactly
<1>6. /\ Opened(c) => Exactly(c, call.users, {conn[c].generation})
      /\ Cut(c) => Exactly(c, call.users, {})
  BY <1>2, <1>4 DEF AskedGens, Adds
<1>7. CASE /\ file' = file /\ Known' = Known /\ up' = up
           /\ opt' = opt \/ opt' = call.users
  BY <1>3, <1>6, <1>7 DEF EnginesFit, Fits
<1>8. CASE /\ opt' = opt /\ file' \in {file, call.users}
           /\ Known' = file' \/ up' = FALSE
  BY <1>3, <1>5, <1>6, <1>8 DEF EnginesFit, Fits
<1>9. CASE /\ opt' = opt /\ file' = call.users
           /\ HotAdd(Holder) \/ HotRemove(Holder)
           /\ Known' = Known /\ up' = up
  <2>1. ~Opened(c) BY <1>2, <1>9 DEF HotAdd, HotRemove
  <2>2. <<c, conn[c].generation>> \in call.users => Holder.kind \in {"activate", "resume"}
    BY <1>2, <1>4, <1>9 DEF Exactly, AskedGens, Adds, HotAdd, HotRemove
  <2>3. ~(/\ NewestIs(c, "pending") /\ conn[c].generation > 1
          /\ <<c, conn[c].generation>> \in call.users)
    BY <1>2, <2>2 DEF NewestIs
  <2>4. QED BY <1>3, <1>5, <1>6, <1>9, <2>1, <2>3 DEF EnginesFit, Fits
<1>10. CASE XrayApplied(Holder, call.gen, call.users)
  <2>1. file' = call.users /\ up' = up /\ opt' = opt BY <1>10 DEF XrayApplied
  <2>2. CASE ~up BY <2>1, <2>2, <1>3, <1>5, <1>6 DEF EnginesFit, Fits
  <2>3. CASE up
    <3>1. CASE Known' = call.users
      BY <2>1, <3>1, <1>3, <1>5, <1>6 DEF EnginesFit, Fits
    <3>2. CASE HotAdd(Holder) /\ Exactly(c, Known', {Holder.gen})
      <4>1. Newest(c, Known')
        BY <3>2, <1>1, AskedIsNewest DEF Exactly, AskedGens, Adds, HotAdd
      <4>2. ~Opened(c) /\ ~Cut(c) BY <3>2, <1>2 DEF HotAdd
      <4>3. <<c, conn[c].generation>> \in Known' BY <3>2, <1>2 DEF Exactly
      <4>4. QED BY <2>1, <4>1, <4>2, <4>3, <1>3, <1>5 DEF EnginesFit, Fits
    <3>3. CASE HotRemove(Holder) /\ Known' \subseteq Known /\ Exactly(c, Known', {})
      <4>1. Newest(c, Known') BY <3>3 DEF Exactly, Newest
      <4>2. ~Opened(c) BY <3>3, <1>2 DEF HotRemove
      <4>3. <<c, conn[c].generation>> \notin call.users
        BY <3>3, <1>2, <1>4 DEF Exactly, AskedGens, Adds, HotRemove
      <4>4. QED BY <2>1, <3>3, <4>1, <4>2, <4>3, <1>3, <1>5, <1>6 DEF EnginesFit, Fits
    <3>4. CASE call.users = file /\ Known' = Known
      BY <2>1, <3>4, <1>3 DEF EnginesFit, Fits
    <3>5. QED BY <2>3, <3>1, <3>2, <3>3, <3>4, <1>10, XrayServesHolder
  <2>4. QED BY <2>2, <2>3
<1>11. QED BY <1>7, <1>8, <1>9, <1>10, AgentEffects

LEMMA AgentFits ==
    ASSUME IInv, EInv, AgentOutcome, NEW c \in Conn
    PROVE  Fits(c, file', Known', up', opt')
<1>1. CASE call = NoCall
  BY <1>1, AgentEffects DEF EInv, EnginesFit
<1>2. CASE call # NoCall BY <1>2, AgentFitsOthers, AgentFitsHolder
<1>3. QED BY <1>1, <1>2

-----------------------------------------------------------------------------
(* The rows.                                                               *)

(* A connection's rows keep what was promised of the engines and promise   *)
(* nothing new: its generation is the same or a new one, still pending.    *)
RowMoves(c) ==
    /\ \/ /\ conn'[c].generation = conn[c].generation
          /\ NewestIs(c, "active")' => NewestIs(c, "active")
          /\ NewestIs(c, "pending")' => NewestIs(c, "pending")
       \/ /\ conn'[c].generation = conn[c].generation + 1
          /\ NewestIs(c, "pending")'
    /\ Opened(c)' => Opened(c) /\ conn'[c].generation = conn[c].generation
    /\ Cut(c)' => Cut(c)

LEMMA EnginesMoved ==
    ASSUME NEW c \in Conn, conn[c].generation \in Nat, RowMoves(c),
           Fits(c, file', Known', up', opt')
    PROVE  EnginesFit(c)'
<1>1. CASE conn'[c].generation = conn[c].generation
  BY <1>1 DEF RowMoves, EnginesFit, Fits, Newest, Exactly, NewestIs
<1>2. CASE /\ conn'[c].generation = conn[c].generation + 1
           /\ NewestIs(c, "pending")'
  <2>1. ~NewestIs(c, "active")' BY <1>2 DEF NewestIs
  <2>2. ~Opened(c)' BY <1>2 DEF RowMoves
  <2>3. \A g \in Gen : g <= conn[c].generation =>
            g <= conn'[c].generation /\ g # conn'[c].generation
    BY <1>2 DEF Gen
  <2>4. <<c, conn'[c].generation>> \notin file'
    <3>1. conn'[c].generation \in Gen BY <1>2 DEF NewestIs
    <3>2. QED BY <3>1, <2>3 DEF Fits, Newest
  <2>5. Newest(c, file)' /\ (up' => Newest(c, Known)')
    BY <2>1, <2>3 DEF Fits, Newest
  <2>6. Cut(c)' => /\ Exactly(c, file', {}) /\ Exactly(c, opt', {})
                   /\ up' => Exactly(c, Known', {})
    BY DEF RowMoves, Fits
  <2>7. QED BY <2>2, <2>4, <2>5, <2>6 DEF EnginesFit, Fits, Exactly
<1>3. QED BY <1>1, <1>2 DEF RowMoves

LEMMA AskedMoved ==
    ASSUME NEW c \in Conn, conn[c].generation \in Nat, RowMoves(c),
           call' = call, AskedFor(c, call.users)
    PROVE  AskedFor(c, call.users)'
<1>1. CASE conn'[c].generation = conn[c].generation
  BY <1>1 DEF RowMoves, AskedFor, Newest, Exactly, NewestIs
<1>2. CASE /\ conn'[c].generation = conn[c].generation + 1
           /\ NewestIs(c, "pending")'
  <2>1. ~NewestIs(c, "active")' BY <1>2 DEF NewestIs
  <2>2. ~Opened(c)' BY <1>2 DEF RowMoves
  <2>3. \A g \in Gen : g <= conn[c].generation =>
            g <= conn'[c].generation /\ g # conn'[c].generation
    BY <1>2 DEF Gen
  <2>4. <<c, conn'[c].generation>> \notin call.users
    <3>1. conn'[c].generation \in Gen BY <1>2 DEF NewestIs
    <3>2. QED BY <3>1, <2>3 DEF AskedFor, Newest
  <2>5. Newest(c, call.users)' BY <2>1, <2>3 DEF AskedFor, Newest
  <2>6. Cut(c)' => Exactly(c, call.users, {}) BY DEF RowMoves, AskedFor
  <2>7. QED BY <2>2, <2>4, <2>5, <2>6 DEF AskedFor, Exactly
<1>3. QED BY <1>1, <1>2 DEF RowMoves

(* A connection whose rows are not touched, but for a job that fails, is   *)
(* claimed or is recovered.                                                *)
Quiet(c) ==
    /\ conn'[c] = conn[c] /\ cred'[c] = cred[c]
    /\ job'[c].kind = job[c].kind
    /\ job'[c].status = "completed" => job[c].status = "completed"

LEMMA QuietFits ==
    ASSUME NEW c \in Conn, RowsFit(c), Quiet(c)
    PROVE  RowsFit(c)' /\ RowMoves(c)
<1>1. /\ NewestIs(c, "active")' <=> NewestIs(c, "active")
      /\ NewestIs(c, "pending")' <=> NewestIs(c, "pending")
  BY DEF Quiet, NewestIs
<1>2. Serving(c)' <=> Serving(c) BY DEF Quiet, Serving
<1>3. ActiveGens(c)' = ActiveGens(c) BY DEF Quiet, ActiveGens
<1>4. Opened(c)' => Opened(c) BY <1>2 DEF Quiet, Opened
<1>5. Cut(c)' => Cut(c) BY DEF Quiet, Cut
<1>6. QED BY <1>1, <1>2, <1>3, <1>4, <1>5 DEF Quiet, RowsFit, RowMoves

(* What is known of a connection's newest credential.                      *)
LEMMA NewestState ==
    ASSUME IInv, NEW c \in Conn
    PROVE  /\ conn[c].generation \in Nat
           /\ conn[c].status = "active" => NewestIs(c, "active") /\ ~NewestIs(c, "pending")
           /\ Serving(c) => conn[c].status = "active" /\ conn[c].generation \in Gen
           /\ conn[c].status \notin {"absent", "archived"} =>
                NewestIs(c, "active") \/ NewestIs(c, "pending")
           /\ job[c].status \in OpenStates \cup {"completed"}
<1>1. /\ conn[c].status # "absent" => conn[c].generation \in Gen
      /\ conn[c].status = "active" =>
           \A g \in Gen : cred[c][g] = "active" <=> g = conn[c].generation
      /\ RowsAgree(c)
      /\ conn[c] \in Connection /\ conn[c].generation \in 0..MaxGen
      /\ job[c] \in Job
  BY GenerationFacts
<1>2. conn[c].generation \in Nat BY <1>1, BoundAssumption
<1>3. conn[c].status = "active" => NewestIs(c, "active") /\ ~NewestIs(c, "pending")
  BY <1>1 DEF NewestIs
<1>4. Serving(c) => conn[c].status = "active" /\ conn[c].generation \in Gen
  BY <1>1 DEF Serving
<1>5. ASSUME conn[c].status \notin {"absent", "archived"}
      PROVE  NewestIs(c, "active") \/ NewestIs(c, "pending")
  <2>1. conn[c].generation \in Gen BY <1>1, <1>5
  <2>2. cred[c][conn[c].generation] \in {"none", "pending", "active", "revoked"}
    BY <2>1 DEF IInv, TypeOK
  <2>3. cred[c][conn[c].generation] # "none" /\ cred[c][conn[c].generation] # "revoked"
    BY <1>1, <1>2, <1>5, <2>1 DEF RowsAgree
  <2>4. QED BY <2>1, <2>2, <2>3 DEF NewestIs
<1>6. job[c].status \in OpenStates \cup {"completed"} BY <1>1 DEF Job
<1>7. QED BY <1>2, <1>3, <1>4, <1>5, <1>6

-----------------------------------------------------------------------------
(* The steps the actions share.                                            *)

(* The request on its way and the engines stay as they are.                *)
LEMMA CallKept ==
    ASSUME IInv, EInv, UNCHANGED <<call, engines>>,
           queue # <<>> => Head(queue') = Head(queue),
           \A c \in Conn : RowMoves(c),
           \A c \in Conn : job[c].status = "running" /\ job'[c].kind = "rotate"
                             => job[c].kind = "rotate"
    PROVE  (\A c \in Conn : EnginesFit(c)') /\ CallFits'
<1>1. ASSUME NEW c \in Conn PROVE EnginesFit(c)'
  <2>1. conn[c].generation \in Nat BY NewestState
  <2>2. Fits(c, file', Known', up', opt') BY DEF EInv, EnginesFit, engines, Known
  <2>3. QED BY <2>1, <2>2, EnginesMoved
<1>2. CASE call = NoCall BY <1>1, <1>2 DEF CallFits, NoCall
<1>3. CASE call # NoCall
  <2>1. queue # <<>> BY <1>3 DEF IInv, QueueMatchesOutbox
  <2>2. Holder' = Holder BY <2>1 DEF Holder
  <2>3. ASSUME NEW c \in Conn \ {Holder.conn} PROVE AskedFor(c, call.users)'
    <3>1. AskedFor(c, call.users) BY <1>3 DEF EInv, CallFits
    <3>2. conn[c].generation \in Nat BY NewestState
    <3>3. QED BY <3>1, <3>2, AskedMoved
  <2>4. ASSUME Holder.conn \in Conn PROVE HolderAsked(Holder)'
    <3>1. HolderAsked(Holder) BY <1>3, <2>4 DEF EInv, CallFits
    <3>2. job[Holder.conn].status = "running" BY <2>1, <2>4, HolderRow
    <3>3. job'[Holder.conn].kind = "rotate" => job[Holder.conn].kind = "rotate"
      BY <2>4, <3>2
    <3>4. call' = call /\ file' = file /\ Known' = Known /\ up' = up BY DEF engines, Known
    <3>5. (Holder.kind = "rotate" => job'[Holder.conn].kind = "rotate") =>
            (Holder.kind = "rotate" => job[Holder.conn].kind = "rotate")
      BY <3>3
    <3>6. QED BY <2>2, <3>1, <3>4, <3>5 DEF HolderAsked, Exactly, AskedGens, Adds
  <2>5. QED BY <1>1, <2>2, <2>3, <2>4 DEF CallFits
<1>4. QED BY <1>2, <1>3

(* The request is over, one way or another.                                *)
LEMMA CallEnded ==
    ASSUME IInv, EInv, AgentOutcome, call' = NoCall, \A c \in Conn : RowMoves(c)
    PROVE  (\A c \in Conn : EnginesFit(c)') /\ CallFits'
<1>1. ASSUME NEW c \in Conn PROVE EnginesFit(c)'
  <2>1. conn[c].generation \in Nat BY NewestState
  <2>2. Fits(c, file', Known', up', opt') BY AgentFits
  <2>3. QED BY <2>1, <2>2, EnginesMoved
<1>2. CallFits' BY DEF CallFits
<1>3. QED BY <1>1, <1>2

(* A run that stays in the queue fits rows that did not turn against it.   *)
RunFitsNext(r) ==
    \A c \in Conn : r.conn = c =>
        /\ r.kind = "activate" => r.gen = 1
        /\ r.kind = "rotate" => r.gen > 1
        /\ r.kind \in {"suspend", "resume"} => ~NewestIs(c, "pending")'
        /\ job'[c].kind = "rotate" => r.kind = "rotate"

LEMMA RunKept ==
    ASSUME IInv, EInv, NEW i \in DOMAIN queue,
           \A c \in Conn : job[c].status = "running" =>
             /\ NewestIs(c, "pending")' => NewestIs(c, "pending")
             /\ job'[c].kind = "rotate" => job[c].kind = "rotate"
    PROVE  RunFitsNext(queue[i])
BY DEF IInv, QueueMatchesOutbox, RunAgrees, EInv, RunFits, RunFitsNext

LEMMA RunsFit ==
    ASSUME \A i \in DOMAIN queue' : RunFitsNext(queue'[i])
    PROVE  (\A i \in DOMAIN queue : RunFits(queue[i]))'
BY DEF RunFits, RunFitsNext, NewestIs

(* Nothing but a job's status changes.                                     *)
LEMMA QuietRuns ==
    ASSUME \A c \in Conn : Quiet(c)
    PROVE  \A c \in Conn : /\ NewestIs(c, "pending")' => NewestIs(c, "pending")
                           /\ job'[c].kind = "rotate" => job[c].kind = "rotate"
BY DEF Quiet, NewestIs

(* A crash leaves the jobs it finds as they are, or failed.                *)
LEMMA RecoveredJobs ==
    ASSUME NEW jobs \in [Conn -> Job], job' = Recovered(jobs), NEW c \in Conn
    PROVE  /\ job'[c].kind = jobs[c].kind
           /\ job'[c].status = "completed" => jobs[c].status = "completed"
<1>1. jobs[c] \in Job OBVIOUS
<1>2. job'[c] = IF jobs[c].status = "running"
                  THEN [jobs[c] EXCEPT !.status = "failed", !.due = TRUE]
                  ELSE jobs[c]
  BY DEF Recovered
<1>3. QED BY <1>1, <1>2 DEF Job

(* A step that leaves the rows alone, but for jobs that are claimed.       *)
LEMMA ClaimFits ==
    ASSUME IInv, EInv, NEW c \in Conn, NEW by \in {"request", "drain"},
           Claimable(c), Claim(c, job[c], by), UNCHANGED <<db, call, engines>>
    PROVE  EInv'
<1>1. /\ conn' = conn /\ cred' = cred /\ UNCHANGED <<call, engines>>
      /\ job[c] \in Job /\ job[c].kind # "none"
  <2>1. RowsAgree(c) /\ job[c] \in Job BY GenerationFacts
  <2>2. job[c].kind # "none" BY <2>1 DEF Claimable, RowsAgree
  <2>3. QED BY <2>1, <2>2 DEF db
<1>2. /\ \A d \in Conn \ {c} : job'[d] = job[d]
      /\ job'[c].kind = job[c].kind /\ job'[c].gen = job[c].gen
      /\ job'[c].status = "running"
      /\ queue # <<>> => Head(queue') = Head(queue)
      /\ DOMAIN queue' = 1..(Len(queue) + 1)
      /\ DOMAIN queue = 1..Len(queue) /\ Len(queue) \in Nat
      /\ \A i \in DOMAIN queue : queue'[i] = queue[i]
      /\ queue'[Len(queue) + 1] = [conn |-> c, id |-> job[c].id, kind |-> job[c].kind,
                                   gen |-> job[c].gen, by |-> by]
  BY <1>1, ClaimFacts
<1>3. \A d \in Conn : Quiet(d) BY <1>1, <1>2 DEF Quiet
<1>4. \A d \in Conn : RowsFit(d)' /\ RowMoves(d) BY <1>3, QuietFits DEF EInv
<1>5. \A d \in Conn : /\ NewestIs(d, "pending")' => NewestIs(d, "pending")
                      /\ job'[d].kind = "rotate" => job[d].kind = "rotate"
  BY <1>3, QuietRuns
<1>6. (\A d \in Conn : EnginesFit(d)') /\ CallFits' BY <1>1, <1>2, <1>4, <1>5, CallKept
<1>7. ASSUME NEW i \in DOMAIN queue' PROVE RunFitsNext(queue'[i])
  <2>1. CASE i \in DOMAIN queue BY <2>1, <1>2, <1>5, RunKept
  <2>2. CASE i = Len(queue) + 1
    <3>1. RowsFit(c) /\ RowsAgree(c) BY GenerationFacts DEF EInv
    <3>2. /\ job[c].kind = "activate" => job[c].gen = 1
          /\ job[c].kind = "rotate" => job[c].gen > 1
      BY <3>1 DEF RowsFit, RowsAgree
    <3>3. job[c].kind \in {"suspend", "resume"} => ~NewestIs(c, "pending")'
      BY <3>1, <1>5 DEF RowsFit
    <3>4. QED BY <2>2, <3>2, <3>3, <1>2 DEF RunFitsNext
  <2>3. QED BY <1>2, <2>1, <2>2
<1>8. QED BY <1>4, <1>6, <1>7, RunsFit DEF EInv

(* A request that submits a new job for connection c.                      *)
LEMMA SubmitFits ==
    ASSUME IInv, EInv, NEW c \in Conn, NEW kind \in OwnerKinds, NEW g \in Gen,
           Submit(c, kind, g),
           \A d \in Conn \ {c} : conn'[d] = conn[d] /\ cred'[d] = cred[d],
           /\ job'[c].kind = kind /\ job'[c].status # "completed"
              => RowsFit(c)' /\ RowMoves(c),
           job[c].status = "running" =>
              kind # "rotate" /\ (NewestIs(c, "pending")' => NewestIs(c, "pending")),
           kind = "activate" => g = 1,
           kind = "rotate" => g > 1,
           kind \in {"suspend", "resume"} => ~NewestIs(c, "pending")'
    PROVE  EInv'
<1> DEFINE j == NewJob(c, kind, g)
<1>1. j \in Job /\ j.kind = kind /\ j.gen = g /\ j.status = "pending" /\ kind # "none"
  BY BoundAssumption DEF NewJob, Job, OpenStates, Submit, IInv, TypeOK, OwnerKinds, Gen
<1> HIDE DEF j
<1>2. ASSUME \A d \in Conn \ {c} : /\ job'[d].kind = job[d].kind
                                   /\ job'[d].status = "completed" =>
                                        job[d].status = "completed",
             job'[c].kind = kind, job'[c].status # "completed"
      PROVE  /\ \A d \in Conn : RowsFit(d)' /\ RowMoves(d)
             /\ \A d \in Conn : job[d].status = "running" =>
                  /\ NewestIs(d, "pending")' => NewestIs(d, "pending")
                  /\ job'[d].kind = "rotate" => job[d].kind = "rotate"
  <2>1. \A d \in Conn \ {c} : Quiet(d) BY <1>2 DEF Quiet
  <2>2. \A d \in Conn \ {c} : RowsFit(d)' /\ RowMoves(d) BY <2>1, QuietFits DEF EInv
  <2>3. RowsFit(c)' /\ RowMoves(c) BY <1>2
  <2>4. \A d \in Conn \ {c} : NewestIs(d, "pending")' => NewestIs(d, "pending")
    BY <2>1 DEF Quiet, NewestIs
  <2>5. QED BY <1>2, <2>2, <2>3, <2>4
<1>3. CASE /\ Claim(c, j, "request")
           /\ UNCHANGED <<call, todo, engines, faults>>
  <2>1. "request" \in {"request", "drain"} OBVIOUS
  <2>2. /\ \A d \in Conn \ {c} : job'[d] = job[d]
        /\ job'[c].kind = j.kind /\ job'[c].status = "running"
        /\ queue # <<>> => Head(queue') = Head(queue)
        /\ DOMAIN queue' = 1..(Len(queue) + 1)
        /\ DOMAIN queue = 1..Len(queue) /\ Len(queue) \in Nat
        /\ \A i \in DOMAIN queue : queue'[i] = queue[i]
        /\ queue'[Len(queue) + 1] = [conn |-> c, id |-> j.id, kind |-> j.kind,
                                     gen |-> j.gen, by |-> "request"]
    BY <1>1, <1>3, <2>1, ClaimFacts
  <2>3. /\ \A d \in Conn : RowsFit(d)' /\ RowMoves(d)
        /\ \A d \in Conn : job[d].status = "running" =>
             /\ NewestIs(d, "pending")' => NewestIs(d, "pending")
             /\ job'[d].kind = "rotate" => job[d].kind = "rotate"
    BY <1>1, <1>2, <2>2
  <2>4. (\A d \in Conn : EnginesFit(d)') /\ CallFits' BY <1>3, <2>2, <2>3, CallKept
  <2>5. ASSUME NEW i \in DOMAIN queue' PROVE RunFitsNext(queue'[i])
    <3>1. CASE i \in DOMAIN queue BY <3>1, <2>2, <2>3, RunKept
    <3>2. CASE i = Len(queue) + 1 BY <3>2, <1>1, <2>2 DEF RunFitsNext
    <3>3. QED BY <2>2, <3>1, <3>2
  <2>6. QED BY <2>3, <2>4, <2>5, RunsFit DEF EInv
<1>4. CASE Dies([job EXCEPT ![c] = j])
  <2> DEFINE jobs == [job EXCEPT ![c] = j]
  <2>1. /\ jobs \in [Conn -> Job] /\ jobs[c] = j
        /\ \A d \in Conn \ {c} : jobs[d] = job[d]
    BY <1>1 DEF IInv, TypeOK
  <2> HIDE DEF jobs
  <2>2. job' = Recovered(jobs) /\ queue' = <<>> /\ call' = NoCall /\ AgentOutcome
    BY <1>4 DEF Dies, jobs
  <2>3. \A d \in Conn : /\ job'[d].kind = jobs[d].kind
                        /\ job'[d].status = "completed" => jobs[d].status = "completed"
    BY <2>1, <2>2, RecoveredJobs
  <2>4. \A d \in Conn : RowsFit(d)' /\ RowMoves(d) BY <1>1, <1>2, <2>1, <2>3
  <2>5. (\A d \in Conn : EnginesFit(d)') /\ CallFits' BY <2>2, <2>4, CallEnded
  <2>6. QED BY <2>2, <2>4, <2>5 DEF EInv
<1>5. QED BY <1>3, <1>4 DEF Submit, j

-----------------------------------------------------------------------------
(* The owner's requests.                                                   *)

LEMMA CreateFits == ASSUME IInv, EInv, NEW c \in Conn, Create(c) PROVE EInv'
<1> DEFINE k == [conn[c] EXCEPT !.status = "provisioning", !.generation = 1]
<1>1. /\ conn[c].status = "absent" /\ conn[c].generation = 0
      /\ conn[c].archived = FALSE /\ job[c].status = "completed" /\ job[c].kind = "none"
      /\ conn[c] \in Connection /\ 1 \in Gen
  BY GenerationFacts, BoundAssumption DEF Create, RowsAgree, Connection, Gen
<1>2. /\ k.status = "provisioning" /\ k.generation = 1
      /\ k.suspended = conn[c].suspended /\ k.archived = FALSE
      /\ k.activated = conn[c].activated
  BY <1>1 DEF Connection
<1> HIDE DEF k
<1>3. /\ conn' = [conn EXCEPT ![c] = k]
      /\ cred' = [cred EXCEPT ![c][1] = "pending"]
      /\ Submit(c, "activate", 1)
  BY DEF Create, k
<1>4. /\ conn'[c] = k /\ \A d \in Conn \ {c} : conn'[d] = conn[d] /\ cred'[d] = cred[d]
      /\ cred'[c][1] = "pending"
  BY <1>1, <1>3 DEF IInv, TypeOK
<1>5. NewestIs(c, "pending")' /\ ~Serving(c)'
  BY <1>1, <1>2, <1>4 DEF NewestIs, Serving
<1>6. conn[c].suspended = FALSE /\ conn[c].activated = FALSE
  <2>1. RowsFit(c) /\ RowsAgree(c) BY GenerationFacts DEF EInv
  <2>2. ActiveGens(c) = {} BY <2>1, <1>1 DEF ActiveGens, RowsAgree, Gen
  <2>3. QED BY <2>1, <2>2, <1>1 DEF RowsFit, Connection
<1>7. ASSUME job'[c].kind = "activate", job'[c].status # "completed"
      PROVE  RowsFit(c)' /\ RowMoves(c)
  <2>1. ~Opened(c)' /\ ~Cut(c)' BY <1>2, <1>4, <1>7 DEF Opened, Cut
  <2>2. RowsFit(c)' BY <1>2, <1>4, <1>6, <1>7, <2>1 DEF RowsFit
  <2>3. QED BY <1>1, <1>2, <1>4, <1>5, <2>1, <2>2 DEF RowMoves
<1>8. QED BY <1>1, <1>3, <1>4, <1>7, SubmitFits DEF OwnerKinds

LEMMA RotateFits == ASSUME IInv, EInv, NEW c \in Conn, Rotate(c) PROVE EInv'
<1> DEFINE g == conn[c].generation + 1
           k == [conn[c] EXCEPT !.status = "rotating", !.generation = g,
                                !.activated = FALSE]
<1>1. /\ Serving(c) /\ job[c].status # "running" /\ conn[c].generation < MaxGen
      /\ RowsAgree(c) /\ conn[c] \in Connection /\ conn[c].generation \in Gen
      /\ conn[c].suspended = FALSE /\ conn[c].status = "active"
      /\ \A h \in Gen : cred[c][h] = "active" <=> h = conn[c].generation
  BY GenerationFacts DEF Rotate, Serving, Open, OpenStates, Connection
<1>2. g \in Gen /\ g # conn[c].generation /\ g > 1 BY <1>1, BoundAssumption DEF Gen
<1>3. /\ k.status = "rotating" /\ k.generation = g /\ k.suspended = FALSE
      /\ k.archived = conn[c].archived /\ k.activated = FALSE
  BY <1>1 DEF Connection
<1>4. /\ conn' = [conn EXCEPT ![c] = k]
      /\ cred' = [cred EXCEPT ![c][g] = "pending"]
      /\ Submit(c, "rotate", g)
  BY DEF Rotate
<1> HIDE DEF k, g
<1>5. /\ conn'[c] = k /\ \A d \in Conn \ {c} : conn'[d] = conn[d] /\ cred'[d] = cred[d]
      /\ cred'[c][g] = "pending"
      /\ cred'[c][conn[c].generation] = "active"
  BY <1>1, <1>2, <1>4 DEF IInv, TypeOK
<1>6. NewestIs(c, "pending")' /\ ~Serving(c)'
  BY <1>2, <1>3, <1>5 DEF NewestIs, Serving
<1>7. ActiveGens(c)' # {} BY <1>1, <1>5 DEF ActiveGens
<1>8. ASSUME job'[c].kind = "rotate", job'[c].status # "completed"
      PROVE  RowsFit(c)' /\ RowMoves(c)
  <2>1. ~Opened(c)' /\ ~Cut(c)' BY <1>3, <1>5, <1>6, <1>8 DEF Opened, Cut
  <2>2. RowsFit(c)' BY <1>2, <1>3, <1>5, <1>6, <1>7, <1>8, <2>1 DEF RowsFit
  <2>3. conn'[c].generation = conn[c].generation + 1 BY <1>3, <1>5 DEF g
  <2>4. QED BY <1>6, <2>1, <2>2, <2>3 DEF RowMoves
<1>9. QED BY <1>1, <1>2, <1>4, <1>5, <1>8, SubmitFits DEF OwnerKinds

(* Suspend, Resume and Archive: a new job closes or reopens the connection *)
(* that keeps its generation and its credentials.                          *)
LEMMA CloseOrReopenFits ==
    ASSUME IInv, EInv, NEW c \in Conn, NEW kind \in {"suspend", "resume", "revoke"},
           NEW k \in Connection,
           conn' = [conn EXCEPT ![c] = k], cred' = cred,
           Submit(c, kind, conn[c].generation),
           conn[c].status # "absent", ~conn[c].archived,
           k.generation = conn[c].generation, k.activated = conn[c].activated,
           IF kind = "revoke" THEN k.status = "archiving"
                              ELSE k.status = "active" /\ conn[c].status = "active"
    PROVE  EInv'
<1>1. /\ RowsFit(c) /\ RowsAgree(c) /\ conn[c].generation \in Gen
      /\ conn[c].status # "archived"
  BY GenerationFacts DEF EInv, RowsAgree
<1>2. conn'[c] = k /\ \A d \in Conn \ {c} : conn'[d] = conn[d] /\ cred'[d] = cred[d]
  BY DEF IInv, TypeOK
<1>3. /\ NewestIs(c, "pending")' <=> NewestIs(c, "pending")
      /\ NewestIs(c, "active")' <=> NewestIs(c, "active")
      /\ ActiveGens(c)' = ActiveGens(c)
  BY <1>2 DEF NewestIs, ActiveGens
<1>4. kind # "revoke" => ~NewestIs(c, "pending") BY NewestState
<1>5. ASSUME job'[c].kind = kind, job'[c].status # "completed"
      PROVE  RowsFit(c)' /\ RowMoves(c)
  <2>1. ~Opened(c)' /\ ~Cut(c)' BY <1>2, <1>5 DEF Opened, Cut
  <2>2. RowsFit(c)' BY <1>1, <1>2, <1>3, <1>4, <1>5, <2>1 DEF RowsFit
  <2>3. QED BY <1>2, <1>3, <2>1, <2>2 DEF RowMoves
<1>6. kind \in OwnerKinds /\ kind # "rotate" /\ kind # "activate" BY DEF OwnerKinds
<1>7. QED BY <1>1, <1>2, <1>3, <1>4, <1>5, <1>6, SubmitFits

LEMMA RunNowFits == ASSUME IInv, EInv, NEW c \in Conn, RunNow(c) PROVE EInv'
<1>1. Claimable(c) /\ Claim(c, job[c], "request") /\ UNCHANGED <<db, call, engines>>
  BY DEF RunNow
<1>2. QED BY <1>1, ClaimFits

LEMMA SuspendFits == ASSUME IInv, EInv, NEW c \in Conn, Suspend(c) PROVE EInv'
<1> DEFINE k == [conn[c] EXCEPT !.suspended = TRUE]
<1>1. /\ k \in Connection /\ k.generation = conn[c].generation
      /\ k.activated = conn[c].activated /\ k.status = conn[c].status
  BY GenerationFacts DEF Connection
<1>2. CASE /\ conn' = [conn EXCEPT ![c].suspended = TRUE] /\ UNCHANGED cred
           /\ Submit(c, "suspend", conn[c].generation)
  <2>1. conn' = [conn EXCEPT ![c] = k] BY <1>2
  <2>2. conn[c].status = "active" /\ ~conn[c].archived BY DEF Suspend
  <2> HIDE DEF k
  <2>3. QED BY <1>1, <1>2, <2>1, <2>2, CloseOrReopenFits
<1>3. CASE RunNow(c) BY <1>3, RunNowFits
<1>4. QED BY <1>2, <1>3 DEF Suspend

LEMMA ResumeFits == ASSUME IInv, EInv, NEW c \in Conn, Resume(c) PROVE EInv'
<1>1. CASE UNCHANGED db /\ Submit(c, "resume", conn[c].generation)
  <2>1. /\ conn[c] \in Connection /\ conn' = [conn EXCEPT ![c] = conn[c]]
        /\ cred' = cred
    BY <1>1, GenerationFacts DEF db, IInv, TypeOK
  <2>2. conn[c].status = "active" /\ ~conn[c].archived BY DEF Resume
  <2>3. QED BY <1>1, <2>1, <2>2, CloseOrReopenFits
<1>2. CASE RunNow(c) BY <1>2, RunNowFits
<1>3. QED BY <1>1, <1>2 DEF Resume

LEMMA ArchiveFits == ASSUME IInv, EInv, NEW c \in Conn, Archive(c) PROVE EInv'
<1> DEFINE k == [conn[c] EXCEPT !.status = "archiving", !.archived = TRUE]
<1>1. /\ k \in Connection /\ k.generation = conn[c].generation
      /\ k.activated = conn[c].activated /\ k.status = "archiving"
  BY GenerationFacts DEF Connection
<1>2. /\ conn' = [conn EXCEPT ![c] = k] /\ cred' = cred
      /\ Submit(c, "revoke", conn[c].generation)
      /\ conn[c].status # "absent" /\ ~conn[c].archived
  BY DEF Archive
<1> HIDE DEF k
<1>3. QED BY <1>1, <1>2, CloseOrReopenFits

-----------------------------------------------------------------------------
(* Steps that leave the rows alone.                                        *)

LEMMA BackoffFits == ASSUME IInv, EInv, NEW c \in Conn, BackoffElapses(c) PROVE EInv'
<1>1. /\ conn' = conn /\ cred' = cred /\ queue' = queue /\ UNCHANGED <<call, engines>>
      /\ job' = [job EXCEPT ![c].due = TRUE]
  BY DEF BackoffElapses, db
<1>2. \A d \in Conn : /\ job'[d].kind = job[d].kind /\ job'[d].status = job[d].status
  BY <1>1 DEF IInv, TypeOK, Job
<1>3. \A d \in Conn : Quiet(d) BY <1>1, <1>2 DEF Quiet
<1>4. \A d \in Conn : RowsFit(d)' /\ RowMoves(d) BY <1>3, QuietFits DEF EInv
<1>5. \A d \in Conn : /\ NewestIs(d, "pending")' => NewestIs(d, "pending")
                      /\ job'[d].kind = "rotate" => job[d].kind = "rotate"
  BY <1>3, QuietRuns
<1>6. (\A d \in Conn : EnginesFit(d)') /\ CallFits' BY <1>1, <1>4, <1>5, CallKept
<1>7. \A i \in DOMAIN queue' : RunFitsNext(queue'[i]) BY <1>1, <1>5, RunKept
<1>8. QED BY <1>4, <1>6, <1>7, RunsFit DEF EInv

LEMMA DrainNextFits == ASSUME IInv, EInv, NEW c \in Conn, DrainNext(c) PROVE EInv'
<1>1. CASE c \in DueConns
  <2>1. Claimable(c) /\ Claim(c, job[c], "drain") /\ UNCHANGED <<db, call, engines>>
    BY <1>1 DEF DrainNext, DueConns
  <2>2. QED BY <2>1, ClaimFits
<1>2. CASE c \notin DueConns
  <2>1. UNCHANGED <<conn, cred, job, queue, call, file, live, up, opt, missed>>
    BY <1>2 DEF DrainNext, db, engines
  <2>2. QED BY <2>1 DEF EInv, Known, RowsFit, EnginesFit, Fits, Newest, Exactly, NewestIs,
          Opened, Cut, Serving, ActiveGens, RunFits, CallFits, AskedFor, HolderAsked,
          Holder, AskedGens, Adds
<1>3. QED BY <1>1, <1>2

(* A drain that starts, and nothing.                                       *)
LEMMA IdleFits == ASSUME IInv, EInv, DrainStart \/ UNCHANGED vars PROVE EInv'
<1>1. UNCHANGED <<conn, cred, job, queue, call, file, live, up, opt, missed>>
  BY DEF DrainStart, vars, db, engines
<1>2. QED BY <1>1 DEF EInv, Known, RowsFit, EnginesFit, Fits, Newest, Exactly, NewestIs,
        Opened, Cut, Serving, ActiveGens, RunFits, CallFits, AskedFor, HolderAsked,
        Holder, AskedGens, Adds

(* A reconcile task queues for the lock: no connection's run.              *)
LEMMA ReconcileFits == ASSUME IInv, EInv, Reconcile PROVE EInv'
<1> DEFINE r == [conn |-> NoConn, id |-> 0, kind |-> "reconcile",
                 gen |-> 0, by |-> "request"]
<1>1. /\ UNCHANGED <<conn, cred, job, call, engines>>
      /\ queue' = Append(queue, r)
  BY DEF Reconcile, db
<1>2. r \in Run BY BoundAssumption DEF Run, Kinds
<1>3. queue \in Seq(Run) /\ Len(queue) \in Nat /\ DOMAIN queue = 1..Len(queue)
  BY LenProperties DEF IInv, TypeOK
<1>4. /\ queue' \in Seq(Run) /\ Len(queue') = Len(queue) + 1
      /\ \A i \in 1..Len(queue) : queue'[i] = queue[i]
      /\ queue'[Len(queue) + 1] = r
  BY <1>1, <1>2, <1>3, AppendProperties
<1>5. DOMAIN queue' = 1..(Len(queue) + 1) BY <1>4, LenProperties
<1>6. queue # <<>> => Head(queue') = Head(queue)
  <2> SUFFICES ASSUME queue # <<>> PROVE Head(queue') = Head(queue) OBVIOUS
  <2>1. Len(queue) # 0 BY <1>3, EmptySeq
  <2>2. 1 \in 1..Len(queue) BY <1>3, <2>1
  <2>3. QED BY <1>4, <2>2
<1>7. \A d \in Conn : Quiet(d) BY <1>1 DEF Quiet
<1>8. \A d \in Conn : RowsFit(d)' /\ RowMoves(d) BY <1>7, QuietFits DEF EInv
<1>9. \A d \in Conn : /\ NewestIs(d, "pending")' => NewestIs(d, "pending")
                      /\ job'[d].kind = "rotate" => job[d].kind = "rotate"
  BY <1>7, QuietRuns
<1>10. (\A d \in Conn : EnginesFit(d)') /\ CallFits'
  BY <1>1, <1>6, <1>8, <1>9, CallKept
<1>11. ASSUME NEW i \in DOMAIN queue' PROVE RunFitsNext(queue'[i])
  <2>1. CASE i \in DOMAIN queue BY <2>1, <1>3, <1>4, <1>9, RunKept
  <2>2. CASE i = Len(queue) + 1 BY <2>2, <1>4, ConnAssumption DEF RunFitsNext
  <2>3. QED BY <1>3, <1>5, <2>1, <2>2
<1>12. QED BY <1>8, <1>10, <1>11, RunsFit DEF EInv

(* Xray loads the installed file, which holds what it has to serve; the    *)
(* optional engine's memory is not spoken of.                              *)
LEMMA RestartFits ==
    ASSUME IInv, EInv, XrayRestarts \/ OptionalRestarts
    PROVE  EInv'
<1>1. /\ UNCHANGED <<conn, cred, job, queue, call, file, opt>>
      /\ (Known' = file /\ up' = TRUE) \/ UNCHANGED <<Known, up>>
  BY DEF XrayRestarts, OptionalRestarts, db, InStep, Known
<1>2. ASSUME NEW c \in Conn PROVE EnginesFit(c)'
  <2>1. Fits(c, file, file, TRUE, opt)
    BY DEF EInv, EnginesFit, Fits
  <2>2. Fits(c, file, Known, up, opt) BY DEF EInv, EnginesFit
  <2>3. Fits(c, file', Known', up', opt') BY <1>1, <2>1, <2>2
  <2>4. QED BY <1>1, <2>3 DEF EnginesFit, Fits, Newest, Exactly, NewestIs, Opened,
          Cut, Serving
<1>3. ASSUME NEW c \in Conn PROVE RowsFit(c)'
  BY <1>1 DEF EInv, RowsFit, NewestIs, Opened, Serving, ActiveGens
<1>4. (\A i \in DOMAIN queue : RunFits(queue[i]))'
  BY <1>1 DEF EInv, RunFits, NewestIs
<1>5. CallFits'
  <2> SUFFICES ASSUME call # NoCall
               PROVE  /\ \A c \in Conn \ {Holder.conn} : AskedFor(c, call.users)'
                      /\ Holder.conn \in Conn => HolderAsked(Holder)'
    BY <1>1 DEF CallFits, Holder, NoCall
  <2>1. \A c \in Conn \ {Holder.conn} : AskedFor(c, call.users)'
    BY <1>1 DEF EInv, CallFits, AskedFor, Newest, Exactly, NewestIs, Opened, Cut, Serving
  <2>2. Holder.conn \in Conn => HolderAsked(Holder)'
    BY <1>1 DEF EInv, CallFits, HolderAsked, Exactly, AskedGens, Adds, Holder
  <2>3. QED BY <2>1, <2>2
<1>6. QED BY <1>2, <1>3, <1>4, <1>5 DEF EInv

-----------------------------------------------------------------------------
(* The lock holder.                                                        *)

(* A run that ends without a completion, whatever the agent did.           *)
LEMMA FailFits ==
    ASSUME IInv, EInv, queue # <<>>, AgentOutcome, UNCHANGED db,
           job' = Closed(Holder, "failed"), queue' = Tail(queue), call' = NoCall
    PROVE  EInv'
<1>1. conn' = conn /\ cred' = cred BY DEF db
<1>2. \A c \in Conn : /\ job'[c].kind = job[c].kind
                      /\ job[c].status # "running" => job'[c] = job[c]
                      /\ ~(c = Holder.conn /\ job[c].id = Holder.id) => job'[c] = job[c]
                      /\ c = Holder.conn /\ job[c].id = Holder.id =>
                           job'[c].status = "failed"
  BY ClosedFacts
<1>3. \A c \in Conn : Quiet(c) BY <1>1, <1>2 DEF Quiet
<1>4. \A d \in Conn : RowsFit(d)' /\ RowMoves(d) BY <1>3, QuietFits DEF EInv
<1>5. \A d \in Conn : /\ NewestIs(d, "pending")' => NewestIs(d, "pending")
                      /\ job'[d].kind = "rotate" => job[d].kind = "rotate"
  BY <1>3, QuietRuns
<1>6. (\A d \in Conn : EnginesFit(d)') /\ CallFits' BY <1>4, CallEnded
<1>7. ASSUME NEW i \in DOMAIN queue' PROVE RunFitsNext(queue'[i])
  <2>1. i + 1 \in DOMAIN queue /\ queue'[i] = queue[i + 1] BY HolderFacts
  <2>2. QED BY <2>1, <1>5, RunKept
<1>8. QED BY <1>4, <1>6, <1>7, RunsFit DEF EInv

(* What a completion does to the rows of the holder's connection, and what *)
(* it promises: no more than the run has asked of the engines.             *)
LEMMA CompletionRow ==
    ASSUME IInv, EInv, queue # <<>>, CompleteDb(Holder), NEW c \in Conn, c = Holder.conn,
           job'[c].kind = job[c].kind,
           job'[c].status = "completed" =>
              Holder.id = job[c].id /\ ~Throws(Holder)
    PROVE  /\ RowsFit(c)'
           /\ conn'[c].generation = conn[c].generation
           /\ ~NewestIs(c, "pending")'
           /\ Opened(c)' =>
                /\ Adds(Holder)
                /\ Holder.kind = "rotate" => job[c].kind = "rotate"
           /\ Cut(c)' => ~Adds(Holder)
           /\ Holder.kind = "revoke" /\ ActiveGens(c) = {}
                => RowMoves(c)
<1>1. /\ RunAgrees(Holder) /\ RunFits(Holder) /\ Holder.kind \in OwnerKinds
      /\ Holder.gen = conn[c].generation /\ Holder.gen \in Gen
      /\ job[c].status = "running"
  BY HolderRow
<1>2. RowsFit(c) /\ RowsAgree(c) /\ conn[c] \in Connection
  BY GenerationFacts DEF EInv
<1>3. Holder.id = job[c].id => Holder.kind = job[c].kind BY <1>1 DEF RunAgrees
<1>4. conn[c].status \notin {"absent"} /\ (conn[c].status = "archived" => Holder.kind = "revoke")
  BY <1>1, <1>2 DEF RunAgrees, RowsAgree
<1>5. CASE Holder.kind \in {"activate", "rotate"}
  <2>1. CompleteActivation(c, Holder.gen) BY <1>5 DEF CompleteDb, Throws
  <2>2. /\ conn' = [conn EXCEPT ![c].status = "active", ![c].activated = TRUE]
        /\ cred'[c] = [h \in Gen |->
                  IF h # Holder.gen /\ cred[c][h] = "active" THEN "revoked"
                  ELSE IF h = Holder.gen /\ cred[c][h] = "pending" THEN "active"
                  ELSE cred[c][h]]
    BY <2>1 DEF CompleteActivation, IInv, TypeOK
  <2>3. /\ conn'[c].status = "active" /\ conn'[c].activated = TRUE
        /\ conn'[c].generation = conn[c].generation
        /\ conn'[c].suspended = conn[c].suspended
        /\ conn'[c].archived = conn[c].archived
    BY <1>2, <2>2 DEF Connection, IInv, TypeOK
  <2>4. NewestIs(c, "active") \/ NewestIs(c, "pending")
    BY <1>4, <1>5, NewestState
  <2>5. NewestIs(c, "active")' /\ ~NewestIs(c, "pending")'
    <3>1. cred[c][Holder.gen] \in {"active", "pending"} BY <1>1, <2>4 DEF NewestIs
    <3>2. cred'[c][Holder.gen] = "active" BY <1>1, <2>2, <3>1
    <3>3. conn'[c].generation = Holder.gen BY <1>1, <2>3
    <3>4. QED BY <1>1, <3>2, <3>3 DEF NewestIs
  <2>6. ActiveGens(c)' # {} BY <2>5 DEF ActiveGens, NewestIs
  <2>7. job[c].kind \in {"activate", "rotate"} => Serving(c)'
    BY <1>2, <2>3 DEF RowsFit, RowsAgree, Serving
  <2>8. Opened(c)' => /\ Serving(c)'
                      /\ Holder.kind = "rotate" => job[c].kind = "rotate"
    BY <1>1, <1>3, <1>5, <2>7 DEF Opened, RunFits
  <2>9. ~Cut(c)' BY <1>3, <1>5, <2>3 DEF Cut
  <2>10. ~(job'[c].kind = "revoke" /\ job'[c].status = "completed") BY <1>3, <1>5
  <2>11. RowsFit(c)'
    BY <1>2, <2>3, <2>5, <2>6, <2>7, <2>8, <2>10 DEF RowsFit
  <2>12. QED BY <1>5, <2>3, <2>5, <2>8, <2>9, <2>11 DEF Adds
<1>6. CASE Holder.kind = "resume" /\ ~Throws(Holder)
  <2>1. CompleteResume(c) BY <1>6 DEF CompleteDb
  <2>2. /\ conn'[c].status = conn[c].status /\ conn'[c].activated = conn[c].activated
        /\ conn'[c].generation = conn[c].generation
        /\ conn'[c].suspended = FALSE /\ conn'[c].archived = conn[c].archived
        /\ cred' = cred
    BY <1>2, <2>1 DEF CompleteResume, Connection, IInv, TypeOK
  <2>3. ~NewestIs(c, "pending") /\ job[c].kind # "rotate"
    BY <1>1, <1>6 DEF RunFits
  <2>4. ~NewestIs(c, "pending")' /\ ActiveGens(c)' = ActiveGens(c)
    BY <2>2, <2>3 DEF NewestIs, ActiveGens
  <2>5. Opened(c)' => Serving(c)'
    BY <1>2, <1>3, <1>6, <2>2, <2>3 DEF Opened, RowsFit, Serving, Throws
  <2>6. ~Cut(c)' BY <1>4, <1>6, <2>2 DEF Cut
  <2>7. ~(job'[c].kind = "revoke" /\ job'[c].status = "completed") BY <1>3, <1>6
  <2>8. RowsFit(c)' BY <1>2, <2>2, <2>3, <2>4, <2>5, <2>7 DEF RowsFit
  <2>9. QED BY <1>6, <2>2, <2>4, <2>6, <2>8 DEF Adds
<1>7. CASE Holder.kind = "revoke"
  <2>1. CompleteArchive(c) BY <1>7 DEF CompleteDb, Throws
  <2>2. /\ conn'[c].status = "archived" /\ conn'[c].activated = conn[c].activated
        /\ conn'[c].generation = conn[c].generation
    BY <1>2, <2>1 DEF CompleteArchive, Connection, IInv, TypeOK
  <2>3. cred'[c] = [h \in Gen |-> IF cred[c][h] = "none" THEN "none" ELSE "revoked"]
    BY <2>1 DEF CompleteArchive, IInv, TypeOK
  <2>4. ~NewestIs(c, "pending")' /\ ~NewestIs(c, "active")'
    BY <2>3 DEF NewestIs
  <2>5. job[c].kind = "revoke" BY <1>1, <1>3, <1>7 DEF RunAgrees
  <2>6. ~Opened(c)' BY <2>5 DEF Opened, Opening
  <2>7. RowsFit(c)'
    <3>1. conn'[c].suspended => job'[c].kind \in {"suspend", "resume", "revoke"} BY <2>5
    <3>2. QED BY <2>2, <2>4, <2>5, <2>6, <3>1 DEF RowsFit
  <2>8. ActiveGens(c) = {} /\ Cut(c)' => Cut(c)
    BY <1>2, <2>2, <2>5 DEF Cut, RowsFit
  <2>9. QED BY <1>7, <2>2, <2>4, <2>6, <2>7, <2>8 DEF Adds, RowMoves
<1>8. CASE Holder.kind = "suspend" \/ (Throws(Holder) /\ Holder.kind = "resume")
  <2>1. conn' = conn /\ cred' = cred BY <1>8 DEF CompleteDb, db
  <2>2. ~NewestIs(c, "pending") /\ job[c].kind # "rotate"
    BY <1>1, <1>8 DEF RunFits, Throws
  <2>3. ~NewestIs(c, "pending")' /\ ActiveGens(c)' = ActiveGens(c)
    BY <2>1, <2>2 DEF NewestIs, ActiveGens
  <2>4. ~Opened(c)' BY <1>3, <1>8, <2>2 DEF Opened, Opening
  <2>5. Cut(c)' => Holder.kind = "suspend" BY <1>3, <1>4, <1>8, <2>1 DEF Cut
  <2>6. ~(job'[c].kind = "revoke" /\ job'[c].status = "completed") BY <1>3, <1>8
  <2>7. RowsFit(c)' BY <1>2, <2>1, <2>2, <2>3, <2>4, <2>6 DEF RowsFit
  <2>8. QED BY <1>8, <2>1, <2>3, <2>4, <2>5, <2>7 DEF Adds
<1>9. QED BY <1>1, <1>5, <1>6, <1>7, <1>8 DEF OwnerKinds, Throws

(* How a run comes to its completion: a reconcile task with what the agent *)
(* did, any other with the optional engine's answer or without a request.  *)
Settles ==
    \/ Holder.conn = NoConn /\ AgentOutcome
    \/ call.stage = "optional" /\ OptionalApplied(call.users)
    \/ call = NoCall /\ CallGens(Holder) = {} /\ UNCHANGED engines

(* What its end does to the jobs: only its own may be completed.           *)
JobsEnd ==
    \A c \in Conn : /\ job'[c].kind = job[c].kind
                    /\ job'[c].status = "completed" =>
                         \/ job[c].status = "completed"
                         \/ /\ c = Holder.conn /\ Holder.id = job[c].id
                            /\ ~Throws(Holder)

(* A completion with the engines as the run's last request left them, or,  *)
(* when nothing was active, as they are.                                   *)
LEMMA CompletionFits ==
    ASSUME IInv, EInv, queue # <<>>, CompleteDb(Holder), Settles, JobsEnd,
           call' = NoCall, queue' \in {<<>>, Tail(queue)}
    PROVE  EInv'
<1>1. AgentOutcome BY DEF Settles, AgentOutcome
<1>2. Holder \in Run /\ RunAgrees(Holder) BY HolderFacts
<1>3. ASSUME NEW c \in Conn, c # Holder.conn PROVE Quiet(c)
  <2>1. CASE Holder.conn = NoConn
    <3>1. Holder.kind = "reconcile" BY <1>2, <2>1 DEF RunAgrees
    <3>2. conn' = conn /\ cred' = cred BY <3>1 DEF CompleteDb, Throws, db
    <3>3. QED BY <1>3, <3>2 DEF Quiet, JobsEnd
  <2>2. CASE Holder.conn # NoConn
    <3>1. conn'[c] = conn[c] /\ cred'[c] = cred[c] BY <1>3, CompletionRows
    <3>2. QED BY <1>3, <3>1 DEF Quiet, JobsEnd
  <2>3. QED BY <2>1, <2>2
<1>4. ASSUME NEW c \in Conn
      PROVE  RowsFit(c)' /\ EnginesFit(c)' /\ (NewestIs(c, "pending")' => NewestIs(c, "pending"))
  <2>1. conn[c].generation \in Nat BY NewestState
  <2>2. Fits(c, file', Known', up', opt') BY <1>1, AgentFits
  <2>3. CASE c # Holder.conn
    <3>1. Quiet(c) BY <1>3, <2>3
    <3>2. RowsFit(c)' /\ RowMoves(c) BY <3>1, QuietFits DEF EInv
    <3>3. QED BY <2>1, <2>2, <3>1, <3>2, EnginesMoved DEF Quiet, NewestIs
  <2>4. CASE c = Holder.conn
    <3>1. /\ RunFits(Holder) /\ Holder.gen = conn[c].generation /\ Holder.gen \in Gen
          /\ Holder.kind \in OwnerKinds /\ job[c].status = "running"
      BY <2>4, HolderRow
    <3>2. /\ RowsFit(c)'
          /\ conn'[c].generation = conn[c].generation
          /\ ~NewestIs(c, "pending")'
          /\ Opened(c)' => /\ Adds(Holder)
                           /\ Holder.kind = "rotate" => job[c].kind = "rotate"
          /\ Cut(c)' => ~Adds(Holder)
          /\ Holder.kind = "revoke" /\ ActiveGens(c) = {} => RowMoves(c)
      BY <2>4, <3>1, CompletionRow DEF JobsEnd
    <3>3. CASE call = NoCall /\ CallGens(Holder) = {} /\ UNCHANGED engines
      <4>1. Holder.kind = "revoke" /\ ActiveGens(c) = {}
        BY <2>4, <3>3 DEF CallGens
      <4>2. EnginesFit(c)' BY <2>1, <2>2, <3>2, <4>1, EnginesMoved
      <4>3. QED BY <3>2, <4>2
    <3>4. CASE call.stage = "optional" /\ OptionalApplied(call.users)
      <4>1. call # NoCall BY <3>4 DEF NoCall
      <4>2. HolderAsked(Holder) BY <2>4, <4>1 DEF EInv, CallFits
      <4>3. UNCHANGED <<file, Known, up>> /\ opt' = call.users
        BY <3>4 DEF OptionalApplied, InStep, Known
      <4>4. /\ Exactly(c, opt', AskedGens(Holder)) /\ Exactly(c, file', AskedGens(Holder))
            /\ up' => \A g \in Gen : <<c, g>> \in Known' => g \in AskedGens(Holder)
            /\ up' /\ (Holder.kind = "rotate" => job[c].kind = "rotate")
                 => Exactly(c, Known', AskedGens(Holder))
        BY <2>4, <3>4, <4>2, <4>3 DEF HolderAsked, Exactly
      <4>5. /\ Newest(c, file)' /\ (up' => Newest(c, Known)')
        <5>1. \A g \in Gen : g \in AskedGens(Holder) => g = conn'[c].generation
          BY <3>1, <3>2 DEF AskedGens
        <5>2. conn'[c].generation \in Nat BY <2>1, <3>2
        <5>3. QED BY <4>4, <5>1, <5>2 DEF Newest, Exactly
      <4>6. Opened(c)' => /\ AskedGens(Holder) = {conn'[c].generation}
                          /\ up' => Exactly(c, Known', AskedGens(Holder))
        BY <3>1, <3>2, <4>4 DEF AskedGens
      <4>7. Cut(c)' => /\ AskedGens(Holder) = {}
                       /\ up' => Exactly(c, Known', {})
        BY <3>2, <4>4 DEF AskedGens, Exactly
      <4>8. EnginesFit(c)'
        BY <3>2, <4>4, <4>5, <4>6, <4>7 DEF EnginesFit, Fits, Exactly
      <4>9. QED BY <3>2, <4>8
    <3>5. QED BY <2>4, <3>3, <3>4, ConnAssumption DEF Settles
  <2>5. QED BY <2>3, <2>4
<1>5. CallFits' BY DEF CallFits
<1>6. ASSUME NEW i \in DOMAIN queue' PROVE RunFitsNext(queue'[i])
  <2>1. queue' # <<>> BY <1>6
  <2>2. i + 1 \in DOMAIN queue /\ queue'[i] = queue[i + 1] BY <2>1, HolderFacts
  <2>3. QED BY <2>2, <1>4, RunKept DEF JobsEnd
<1>7. QED BY <1>4, <1>5, <1>6, RunsFit DEF EInv

(* Every snapshot has the connections that are to be served, at their      *)
(* newest generation, and of its own connection what the run asks.         *)
LEMMA SnapshotFits ==
    ASSUME IInv, EInv, queue # <<>>
    PROVE  /\ \A c \in Conn \ {Holder.conn} : AskedFor(c, Snapshot(Holder))
           /\ Holder.conn \in Conn =>
                Exactly(Holder.conn, Snapshot(Holder), AskedGens(Holder))
<1>1. ASSUME NEW c \in Conn \ {Holder.conn} PROVE AskedFor(c, Snapshot(Holder))
  <2>1. ASSUME NEW g \in Gen
        PROVE  <<c, g>> \in Snapshot(Holder) <=> Serving(c) /\ g = conn[c].generation
    BY DEF Snapshot, Others
  <2>2. /\ conn[c].generation \in Nat
        /\ Serving(c) => /\ conn[c].generation \in Gen /\ ~NewestIs(c, "pending")
    BY NewestState
  <2>3. Opened(c) => Serving(c) BY DEF EInv, RowsFit
  <2>4. Cut(c) => ~Serving(c) BY DEF Cut, Serving
  <2>5. Newest(c, Snapshot(Holder)) BY <2>1, <2>2 DEF Newest
  <2>6. NewestIs(c, "pending") => <<c, conn[c].generation>> \notin Snapshot(Holder)
    BY <2>1, <2>2 DEF NewestIs
  <2>7. QED BY <2>1, <2>3, <2>4, <2>5, <2>6 DEF AskedFor, Exactly
<1>2. ASSUME Holder.conn \in Conn
      PROVE  Exactly(Holder.conn, Snapshot(Holder), AskedGens(Holder))
  BY <1>2 DEF Exactly, Snapshot, Others, AskedGens
<1>3. QED BY <1>1, <1>2

(* A snapshot is sent while the rows and the queue stand.                  *)
LEMMA SentFits ==
    ASSUME IInv, EInv, queue # <<>>, UNCHANGED <<db, job, queue>>,
           call'.users = Snapshot(Holder),
           \A c \in Conn : EnginesFit(c)',
           Holder.conn \in Conn => HolderAsked(Holder)'
    PROVE  EInv'
<1>1. conn' = conn /\ cred' = cred /\ job' = job /\ queue' = queue BY DEF db
<1>2. Holder' = Holder BY <1>1 DEF Holder
<1>3. ASSUME NEW c \in Conn PROVE RowsFit(c)'
  BY <1>1 DEF EInv, RowsFit, NewestIs, Opened, Serving, ActiveGens
<1>4. (\A i \in DOMAIN queue : RunFits(queue[i]))'
  BY <1>1 DEF EInv, RunFits, NewestIs
<1>5. ASSUME NEW c \in Conn \ {Holder.conn} PROVE AskedFor(c, call.users)'
  <2>1. AskedFor(c, Snapshot(Holder)) BY SnapshotFits
  <2>2. QED BY <1>1, <2>1
        DEF AskedFor, Newest, Exactly, NewestIs, Opened, Cut, Serving
<1>6. CallFits' BY <1>2, <1>5 DEF CallFits
<1>7. QED BY <1>3, <1>4, <1>6 DEF EInv

(* The completion of a run in the queue's own terms.                       *)
LEMMA CompleteJobs ==
    ASSUME IInv, queue # <<>>, Complete
    PROVE  CompleteDb(Holder) /\ JobsEnd /\ call' = NoCall /\ queue' \in {<<>>, Tail(queue)}
<1>1. CASE Throws(Holder)
  <2>1. job' = Closed(Holder, "failed") BY <1>1 DEF Complete
  <2>2. QED BY <2>1, ClosedFacts DEF Complete, Release, JobsEnd
<1>2. CASE ~Throws(Holder)
  <2>1. job' = Closed(Holder, "completed") BY <1>2 DEF Complete
  <2>2. QED BY <1>2, <2>1, ClosedFacts DEF Complete, Release, JobsEnd
<1>3. QED BY <1>1, <1>2

LEMMA BeginFits == ASSUME IInv, EInv, Begin PROVE EInv'
<1>1. queue # <<>> /\ call = NoCall BY DEF Begin
<1>2. Holder \in Run /\ RunAgrees(Holder) BY <1>1, HolderFacts
<1>3. CASE CallGens(Holder) = {}
  <2>1. Complete /\ UNCHANGED engines BY <1>3 DEF Begin
  <2>2. Settles BY <1>1, <1>3, <2>1 DEF Settles
  <2>3. QED BY <1>1, <2>1, <2>2, CompleteJobs, CompletionFits
<1>4. CASE CallGens(Holder) # {}
  <2>1. PICK g \in CallGens(Holder) :
          IF Renders(Holder, g)
            THEN /\ \E stage \in IF Holder.kind = "reconcile"
                                   THEN {"xray", "optional"} ELSE {"xray"} :
                      call' = [stage |-> stage, gen |-> g, users |-> Snapshot(Holder)]
                 /\ UNCHANGED <<db, job, queue, todo, engines, faults>>
            ELSE Fail /\ UNCHANGED engines
    BY <1>4, Zenon DEF Begin
  <2>2. CASE Renders(Holder, g)
    <3>1. PICK stage \in IF Holder.kind = "reconcile"
                           THEN {"xray", "optional"} ELSE {"xray"} :
            call' = [stage |-> stage, gen |-> g, users |-> Snapshot(Holder)]
      BY <2>1, <2>2
    <3>2. UNCHANGED <<db, job, queue, engines>> BY <2>1, <2>2
    <3>3. ASSUME NEW c \in Conn PROVE EnginesFit(c)'
      BY <3>2 DEF EInv, EnginesFit, Fits, Newest, Exactly, NewestIs, Opened, Cut,
           Serving, Known, db, engines
    <3>4. ASSUME Holder.conn \in Conn PROVE HolderAsked(Holder)'
      <4>1. Holder.kind # "reconcile" BY <1>2, <3>4, ConnAssumption DEF RunAgrees
      <4>2. call'.stage = "xray" /\ call'.gen = g /\ call'.users = Snapshot(Holder)
        BY <3>1, <4>1
      <4>3. Holder.kind # "revoke" => g = Holder.gen BY DEF CallGens
      <4>4. Exactly(Holder.conn, Snapshot(Holder), AskedGens(Holder))
        BY <1>1, <3>4, SnapshotFits
      <4>5. Holder' = Holder BY <3>2 DEF Holder
      <4>6. QED BY <4>2, <4>3, <4>4, <4>5 DEF HolderAsked, Exactly, AskedGens, Adds
    <3>5. call'.users = Snapshot(Holder) BY <3>1
    <3>6. QED BY <1>1, <3>2, <3>3, <3>4, <3>5, SentFits
  <2>3. CASE ~Renders(Holder, g)
    <3>1. Fail /\ UNCHANGED engines BY <2>1, <2>3
    <3>2. AgentOutcome BY <3>1 DEF AgentOutcome
    <3>3. QED BY <1>1, <3>1, <3>2, FailFits DEF Fail, Release
  <2>4. QED BY <2>2, <2>3
<1>5. QED BY <1>3, <1>4

(* Xray has done what the run asked: all of its file, and of what it       *)
(* serves as much as a completion of this run may promise.                 *)
LEMMA XrayHasDone ==
    ASSUME IInv, EInv, call # NoCall, Holder.conn \in Conn,
           XrayApplied(Holder, call.gen, call.users)
    PROVE  /\ Exactly(Holder.conn, file', AskedGens(Holder))
           /\ up' => \A g \in Gen : <<Holder.conn, g>> \in Known' => g \in AskedGens(Holder)
           /\ up' /\ (Holder.kind = "rotate" => job[Holder.conn].kind = "rotate")
                => Exactly(Holder.conn, Known', AskedGens(Holder))
<1> DEFINE c == Holder.conn
<1>1. queue # <<>> BY DEF IInv, QueueMatchesOutbox
<1>2. /\ Holder.gen = conn[c].generation /\ Holder.gen \in Gen
      /\ Holder.kind = "rotate" => conn[c].generation > 1
      /\ RowsFit(c) /\ EnginesFit(c)
  BY <1>1, HolderRow DEF EInv
<1>3. Exactly(c, call.users, AskedGens(Holder)) BY DEF EInv, CallFits, HolderAsked
<1>4. file' = call.users /\ up' = up BY DEF XrayApplied
<1>5. Exactly(c, file', AskedGens(Holder)) BY <1>3, <1>4 DEF Exactly
<1>6. ASSUME up
      PROVE  /\ \A g \in Gen : <<c, g>> \in Known' => g \in AskedGens(Holder)
             /\ (Holder.kind = "rotate" => job[c].kind = "rotate")
                  => Exactly(c, Known', AskedGens(Holder))
  <2>1. CASE Known' = call.users BY <2>1, <1>3 DEF Exactly
  <2>2. CASE HotAdd(Holder) /\ Exactly(c, Known', {Holder.gen})
    BY <2>2 DEF HotAdd, AskedGens, Adds, Exactly
  <2>3. CASE HotRemove(Holder) /\ Exactly(c, Known', {})
    BY <2>3 DEF HotRemove, AskedGens, Adds, Exactly
  <2>4. CASE Holder.kind = "rotate" /\ call.users = file /\ Known' = Known
    <3>1. AskedGens(Holder) = {conn[c].generation} BY <2>4, <1>2 DEF AskedGens, Adds
    <3>2. Newest(c, Known) BY <1>2, <1>6 DEF EnginesFit, Fits
    <3>3. <<c, conn[c].generation>> \in file
      BY <1>2, <1>3, <2>4, <3>1 DEF Exactly
    <3>4. CASE NewestIs(c, "pending")
      <4>1. <<c, conn[c].generation>> \in Known
        BY <1>2, <1>6, <2>4, <3>3, <3>4 DEF EnginesFit, Fits
      <4>2. QED BY <1>2, <2>4, <3>1, <3>2, <4>1 DEF Newest, Exactly
    <3>5. CASE ~NewestIs(c, "pending")
      <4>1. NewestIs(c, "active")
        <5>1. RunAgrees(Holder) BY <1>1, HolderFacts
        <5>2. conn[c].status \notin {"absent", "archived"}
          <6>1. job[c].status = "running" /\ RowsAgree(c)
            BY <1>1, HolderRow, GenerationFacts
          <6>2. QED BY <5>1, <6>1, <2>4 DEF RunAgrees, RowsAgree
        <5>3. QED BY <3>5, <5>2, NewestState
      <4>2. \A g \in Gen : <<c, g>> \in Known => g = conn[c].generation
        BY <3>2, <4>1 DEF Newest
      <4>3. job[c].kind = "rotate" => Opened(c)
        BY <1>2, <3>5 DEF RowsFit, Opened
      <4>4. job[c].kind = "rotate" => Exactly(c, Known, {conn[c].generation})
        BY <1>2, <1>6, <4>3 DEF EnginesFit, Fits
      <4>5. QED BY <2>4, <3>1, <4>2, <4>4 DEF Exactly
    <3>6. QED BY <3>4, <3>5
  <2>5. QED BY <1>6, <2>1, <2>2, <2>3, <2>4, XrayServesHolder
<1>7. QED BY <1>4, <1>5, <1>6

LEMMA XrayRepliesFits == ASSUME IInv, EInv, XrayReplies PROVE EInv'
<1>1. call.stage = "xray" /\ XrayApplied(Holder, call.gen, call.users) BY DEF XrayReplies
<1>2. call # NoCall /\ queue # <<>> BY <1>1 DEF NoCall, IInv, QueueMatchesOutbox
<1>3. AgentOutcome BY <1>1 DEF AgentOutcome
<1>4. Holder \in Run /\ RunAgrees(Holder) BY <1>2, HolderFacts
<1>5. CASE Holder.kind = "reconcile"
  <2>1. Complete /\ Holder.conn = NoConn BY <1>4, <1>5 DEF XrayReplies, RunAgrees
  <2>2. Settles BY <1>3, <2>1 DEF Settles
  <2>3. QED BY <1>2, <2>1, <2>2, CompleteJobs, CompletionFits
<1>6. CASE Holder.kind # "reconcile" /\ Renders(Holder, call.gen)
  <2>1. /\ call' = [call EXCEPT !.stage = "optional", !.users = Snapshot(Holder)]
        /\ UNCHANGED <<db, job, queue>>
    BY <1>6 DEF XrayReplies
  <2>2. /\ call'.stage = "optional" /\ call'.users = Snapshot(Holder)
        /\ call'.gen = call.gen
    <3>1. call \in Call BY DEF IInv, TypeOK
    <3>2. QED BY <1>2, <2>1, <3>1 DEF Call
  <2>3. ASSUME NEW c \in Conn PROVE EnginesFit(c)'
    <3>1. Fits(c, file', Known', up', opt') BY <1>3, AgentFits
    <3>2. conn' = conn /\ cred' = cred /\ job' = job BY <2>1 DEF db
    <3>3. Quiet(c) BY <3>2 DEF Quiet
    <3>4. RowMoves(c) BY <3>3, QuietFits DEF EInv
    <3>5. QED BY <3>1, <3>4, EnginesMoved, NewestState
  <2>4. ASSUME Holder.conn \in Conn PROVE HolderAsked(Holder)'
    <3>1. HolderAsked(Holder) BY <1>2, <2>4 DEF EInv, CallFits
    <3>2. Exactly(Holder.conn, Snapshot(Holder), AskedGens(Holder))
      BY <1>2, <2>4, SnapshotFits
    <3>3. /\ Exactly(Holder.conn, file', AskedGens(Holder))
          /\ up' => \A g \in Gen : <<Holder.conn, g>> \in Known' => g \in AskedGens(Holder)
          /\ up' /\ (Holder.kind = "rotate" => job[Holder.conn].kind = "rotate")
               => Exactly(Holder.conn, Known', AskedGens(Holder))
      BY <1>1, <1>2, <2>4, XrayHasDone
    <3>4. Holder' = Holder /\ job' = job BY <2>1 DEF Holder
    <3>5. QED BY <2>2, <3>1, <3>2, <3>3, <3>4 DEF HolderAsked, Exactly, AskedGens, Adds
  <2>5. QED BY <1>2, <2>1, <2>2, <2>3, <2>4, SentFits
<1>7. CASE Holder.kind # "reconcile" /\ ~Renders(Holder, call.gen)
  <2>1. Fail BY <1>7 DEF XrayReplies
  <2>2. QED BY <1>2, <1>3, <2>1, FailFits DEF Fail, Release
<1>8. QED BY <1>5, <1>6, <1>7

LEMMA OptionalRepliesFits == ASSUME IInv, EInv, OptionalReplies PROVE EInv'
<1>1. /\ call.stage = "optional" /\ OptionalApplied(call.users) /\ Complete
  BY DEF OptionalReplies
<1>2. queue # <<>> BY <1>1 DEF NoCall, IInv, QueueMatchesOutbox
<1>3. Settles BY <1>1 DEF Settles
<1>4. QED BY <1>1, <1>2, <1>3, CompleteJobs, CompletionFits

LEMMA EngineFailsFits == ASSUME IInv, EInv, EngineFails PROVE EInv'
<1>1. queue # <<>> BY DEF EngineFails, IInv, QueueMatchesOutbox
<1>2. QED BY <1>1, FailFits DEF EngineFails

LEMMA CrashFits == ASSUME IInv, EInv, Crash PROVE EInv'
<1>1. /\ job' = Recovered(job) /\ queue' = <<>> /\ call' = NoCall /\ AgentOutcome
      /\ conn' = conn /\ cred' = cred
  BY DEF Crash, Dies, db
<1>2. job \in [Conn -> Job] BY DEF IInv, TypeOK
<1>3. \A c \in Conn : Quiet(c) BY <1>1, <1>2, RecoveredJobs DEF Quiet
<1>4. \A c \in Conn : RowsFit(c)' /\ RowMoves(c) BY <1>3, QuietFits DEF EInv
<1>5. (\A c \in Conn : EnginesFit(c)') /\ CallFits' BY <1>1, <1>4, CallEnded
<1>6. QED BY <1>1, <1>4, <1>5 DEF EInv

LEMMA CrashInCompletionFits == ASSUME IInv, EInv, CrashInCompletion PROVE EInv'
<1>1. queue # <<>> /\ CompleteDb(Holder) /\ call' = NoCall /\ job' = Recovered(job)
  BY DEF CrashInCompletion
<1>2. Settles BY Zenon DEF CrashInCompletion, Settles
<1>3. job \in [Conn -> Job] BY DEF IInv, TypeOK
<1>4. JobsEnd BY <1>1, <1>3, RecoveredJobs DEF JobsEnd
<1>5. queue' \in {<<>>, Tail(queue)} BY Zenon DEF CrashInCompletion
<1>6. QED BY <1>1, <1>2, <1>4, <1>5, CompletionFits, Zenon

-----------------------------------------------------------------------------
(* The theorems.                                                           *)

LEMMA InitFits == Init => EInv
<1> SUFFICES ASSUME Init PROVE EInv OBVIOUS
<1>1. ASSUME NEW c \in Conn PROVE RowsFit(c) /\ EnginesFit(c)
  <2>1. /\ conn[c].status = "absent" /\ conn[c].generation = 0
        /\ conn[c].suspended = FALSE /\ conn[c].activated = FALSE
        /\ job[c].kind = "none" /\ file = {} /\ Known = {} /\ opt = {}
    BY DEF Init, NoJob, Known
  <2>2. ~Opened(c) /\ ~Cut(c) BY <2>1 DEF Opened, Cut, Opening, Serving
  <2>3. RowsFit(c) BY <2>1, <2>2 DEF RowsFit
  <2>4. EnginesFit(c) BY <2>1, <2>2 DEF EnginesFit, Fits, Newest
  <2>5. QED BY <2>3, <2>4
<1>2. \A i \in DOMAIN queue : RunFits(queue[i]) BY DEF Init
<1>3. CallFits BY DEF Init, CallFits
<1>4. QED BY <1>1, <1>2, <1>3 DEF EInv

(* Every step, and every stutter, preserves what is known of the engines.  *)
LEMMA NextFits == IInv /\ EInv /\ [Next]_vars => EInv'
<1> SUFFICES ASSUME IInv, EInv, [Next]_vars PROVE EInv' OBVIOUS
<1>1. ASSUME NEW c \in Conn,
             \/ Create(c) \/ Rotate(c) \/ Suspend(c) \/ Resume(c) \/ Archive(c)
             \/ Retry(c) \/ BackoffElapses(c) \/ DrainNext(c)
      PROVE  EInv'
  BY <1>1, CreateFits, RotateFits, SuspendFits, ResumeFits, ArchiveFits,
     RunNowFits, BackoffFits, DrainNextFits DEF Retry
<1>2. ASSUME \/ Reconcile \/ DrainStart \/ Begin \/ XrayReplies \/ OptionalReplies
             \/ EngineFails \/ Crash \/ CrashInCompletion
             \/ XrayRestarts \/ OptionalRestarts \/ UNCHANGED vars
      PROVE  EInv'
  BY <1>2, ReconcileFits, IdleFits, BeginFits, XrayRepliesFits, OptionalRepliesFits,
     EngineFailsFits, CrashFits, CrashInCompletionFits, RestartFits
<1>3. QED BY <1>1, <1>2 DEF Next

(* The optional engine serves its file, unless a killed script left it on  *)
(* an older one.                                                           *)
OptionalInStep == "optional" \notin missed => optLive = opt

(* What a step may do to the engines.                                      *)
LEMMA EngineSteps ==
    ASSUME Next
    PROVE  UNCHANGED engines \/ AgentOutcome \/ XrayRestarts \/ OptionalRestarts
<1>1. ASSUME NEW c \in Conn, NEW kind, NEW g, Submit(c, kind, g)
      PROVE  UNCHANGED engines \/ AgentOutcome
  BY <1>1 DEF Submit, Dies
<1>2. ASSUME NEW c \in Conn,
             \/ Create(c) \/ Rotate(c) \/ Suspend(c) \/ Resume(c) \/ Archive(c)
             \/ Retry(c) \/ BackoffElapses(c) \/ DrainNext(c)
      PROVE  UNCHANGED engines \/ AgentOutcome
  BY <1>1, <1>2
  DEF Create, Rotate, Suspend, Resume, Archive, Retry, RunNow, BackoffElapses, DrainNext
<1>3. ASSUME Reconcile \/ DrainStart \/ Begin
      PROVE  UNCHANGED engines
  BY <1>3 DEF Reconcile, DrainStart, Begin
<1>4. ASSUME XrayReplies \/ OptionalReplies \/ EngineFails \/ Crash \/ CrashInCompletion
      PROVE  AgentOutcome
  BY <1>4 DEF XrayReplies, OptionalReplies, EngineFails, Crash, Dies, CrashInCompletion,
              AgentOutcome
<1>5. QED BY <1>2, <1>3, <1>4 DEF Next

LEMMA OptionalStep == OptionalInStep /\ [Next]_vars => OptionalInStep'
<1> SUFFICES ASSUME OptionalInStep, [Next]_vars PROVE OptionalInStep' OBVIOUS
<1>1. CASE UNCHANGED engines BY <1>1 DEF engines, OptionalInStep
<1>2. CASE UNCHANGED vars BY <1>2 DEF vars, OptionalInStep
<1>3. CASE AgentOutcome
  <2>1. CASE OptionalApplied(call.users)
    BY <2>1 DEF OptionalApplied, InStep, OptionalInStep
  <2>2. CASE OptionalRefused(call.users) \/ OptionalKilled(call.users)
    BY <2>2 DEF OptionalRefused, OptionalKilled, InStep, Missed, OptionalInStep
  <2>3. CASE \/ XrayApplied(Holder, call.gen, call.users)
             \/ XrayRefused(Holder, call.users) \/ XrayKilled(Holder, call.users)
    <3>1. /\ optLive' = optLive /\ opt' = opt
          /\ "optional" \in missed' <=> "optional" \in missed
      BY <2>3 DEF XrayApplied, XrayRefused, XrayKilled, InStep, Missed
    <3>2. QED BY <3>1 DEF OptionalInStep
  <2>4. QED BY <1>1, <1>3, <2>1, <2>2, <2>3 DEF AgentOutcome
<1>4. CASE XrayRestarts \/ OptionalRestarts
  BY <1>4 DEF XrayRestarts, OptionalRestarts, InStep, OptionalInStep
<1>5. QED BY <1>1, <1>2, <1>3, <1>4, EngineSteps

LEMMA EnginesInvariant == Spec => [](IInv /\ EInv /\ OptionalInStep)
<1>1. Init => IInv /\ EInv BY InitStep, InitFits
<1>2. Init => OptionalInStep BY DEF Init, OptionalInStep
<1>3. (IInv /\ EInv) /\ [Next]_vars => (IInv /\ EInv)' BY NextStep, NextFits
<1>4. QED BY <1>1, <1>2, <1>3, OptionalStep, PTL DEF Spec

(* Whatever an engine is held to have is what it is known to have.         *)
LEMMA HeldIsKnown ==
    ASSUME OptionalInStep, NEW users \in Held
    PROVE  users \in {file, opt} \cup (IF up THEN {Known} ELSE {})
BY DEF OptionalInStep, Held, Known

(* For any connections, generations, jobs and faults: once the job that    *)
(* opens a connection is completed, the installed files hold its newest    *)
(* generation and no other, and so do the running engines, but for one a   *)
(* killed script left on an older file: retries that find the file in      *)
(* place, late runs, rollbacks and restarts included.                      *)
THEOREM ServedSettled == Spec => []ServedWhenSettled
<1>1. ASSUME IInv, EInv, OptionalInStep, NEW c \in Conn,
             Settled(c, {"activate", "rotate", "resume"}),
             NEW users \in Held
      PROVE  {g \in Gen : <<c, g>> \in users} = {conn[c].generation}
  <2>1. Opened(c) BY <1>1 DEF Settled, Opened, Opening
  <2>2. users \in {file, opt} \cup (IF up THEN {Known} ELSE {}) BY <1>1, HeldIsKnown
  <2>3. Exactly(c, users, {conn[c].generation})
    BY <1>1, <2>1, <2>2 DEF EInv, EnginesFit, Fits
  <2>4. conn[c].generation \in Gen
    <3>1. Serving(c) BY <1>1, <2>1 DEF EInv, RowsFit
    <3>2. QED BY <1>1, <3>1, NewestState
  <2>5. QED BY <2>3, <2>4 DEF Exactly
<1>2. IInv /\ EInv /\ OptionalInStep => ServedWhenSettled BY <1>1 DEF ServedWhenSettled
<1>3. QED BY <1>2, EnginesInvariant, PTL

(* And once the job that closes it is completed, none of them holds any    *)
(* generation, unless a run that the suspension cancelled reopened it or   *)
(* the archived connection never had an active credential.                 *)
THEOREM CutOffSettled == Spec => []CutOffWhenSettled
<1>1. ASSUME IInv, EInv, OptionalInStep, NEW c \in Conn,
             \/ Settled(c, {"suspend"}) /\ conn[c].suspended
             \/ Settled(c, {"revoke"}) /\ (conn[c].activated \/ conn[c].generation > 1),
             NEW users \in Held, NEW g \in Gen
      PROVE  <<c, g>> \notin users
  <2>1. Cut(c) BY <1>1 DEF Settled, Cut, EInv, RowsFit
  <2>2. users \in {file, opt} \cup (IF up THEN {Known} ELSE {}) BY <1>1, HeldIsKnown
  <2>3. QED BY <1>1, <2>1, <2>2 DEF EInv, EnginesFit, Fits, Exactly
<1>2. IInv /\ EInv /\ OptionalInStep => CutOffWhenSettled BY <1>1 DEF CutOffWhenSettled
<1>3. QED BY <1>2, EnginesInvariant, PTL

-----------------------------------------------------------------------------
(* What the owner is shown, and what a device gets by its link.            *)

(* What the rows of a link agree on with the connection it opens.          *)
LinkFits(c) ==
    /\ conn[c].status # "absent" /\ ~conn[c].archived => hash[c] = conn[c].generation
    /\ held[c] <= conn[c].generation
    /\ used[c] /\ ~raced[c] => held[c] = conn[c].generation
    /\ held[c] # 0 /\ held[c] = conn[c].generation => used[c]

RequestFits ==
    request # NoRequest =>
        /\ request.conn \in Conn /\ request.gen \in Nat
        /\ request.gen <= conn[request.conn].generation

LinkInv ==
    /\ hash \in [Conn -> Nat] /\ held \in [Conn -> Nat]
    /\ used \in [Conn -> BOOLEAN] /\ raced \in [Conn -> BOOLEAN]
    /\ \A c \in Conn : LinkFits(c)
    /\ RequestFits

(* Nothing a link depends on changes.                                      *)
Kept(c) ==
    /\ conn'[c].generation = conn[c].generation
    /\ conn'[c].archived = conn[c].archived
    /\ conn'[c].status = "absent" <=> conn[c].status = "absent"

LEMMA CompletionKeeps ==
    ASSUME IInv, queue # <<>>, CompleteDb(Holder), NEW c \in Conn
    PROVE  Kept(c)
<1>1. Holder \in Run /\ RunAgrees(Holder) BY HolderFacts
<1>2. /\ conn[c] \in Connection /\ RowsAgree(c) /\ conn \in [Conn -> Connection]
  BY GenerationFacts DEF IInv, TypeOK
<1>3. CASE conn'[c] = conn[c] BY <1>3 DEF Kept
<1>4. CASE c = Holder.conn
  <2>1. conn[c].status # "absent"
    BY <1>1, <1>2, <1>4 DEF RunAgrees, RowsAgree
  <2>2. \/ conn' = [conn EXCEPT ![c].status = "active", ![c].activated = TRUE]
        \/ conn' = [conn EXCEPT ![c].suspended = FALSE]
        \/ conn' = [conn EXCEPT ![c].status = "archived"]
        \/ conn' = conn
    BY <1>4 DEF CompleteDb, CompleteActivation, CompleteResume, CompleteArchive, db
  <2>3. QED BY <1>2, <2>1, <2>2 DEF Kept, Connection
<1>5. QED BY <1>3, <1>4, CompletionRows

(* The steps of the outbox and of a crash.                                 *)
LEMMA OutboxKeeps ==
    ASSUME IInv, OutboxStep \/ Crash \/ CrashInCompletion, NEW c \in Conn
    PROVE  Kept(c)
<1>1. ASSUME NEW d \in Conn, BackoffElapses(d) \/ DrainNext(d)
      PROVE  UNCHANGED db
  BY <1>1 DEF BackoffElapses, DrainNext
<1>2. ASSUME Reconcile \/ DrainStart \/ EngineFails \/ Crash \/ XrayRestarts
             \/ OptionalRestarts
      PROVE  UNCHANGED db
  BY <1>2 DEF Reconcile, DrainStart, EngineFails, Crash, XrayRestarts, OptionalRestarts
<1>3. ASSUME Begin \/ XrayReplies \/ OptionalReplies \/ CrashInCompletion
      PROVE  UNCHANGED db \/ (queue # <<>> /\ CompleteDb(Holder))
  <2>1. call # NoCall => queue # <<>> BY DEF IInv, QueueMatchesOutbox
  <2>2. CASE Begin BY <2>2 DEF Begin, Complete, Fail
  <2>3. CASE XrayReplies
    BY <2>1, <2>3 DEF XrayReplies, Complete, Fail, NoCall
  <2>4. CASE OptionalReplies
    BY <2>1, <2>4 DEF OptionalReplies, Complete, NoCall
  <2>5. CASE CrashInCompletion BY <2>5 DEF CrashInCompletion
  <2>6. QED BY <1>3, <2>2, <2>3, <2>4, <2>5
<1>4. CASE UNCHANGED db BY <1>4 DEF db, Kept
<1>5. UNCHANGED db \/ (queue # <<>> /\ CompleteDb(Holder))
  BY <1>1, <1>2, <1>3 DEF OutboxStep
<1>6. QED BY <1>4, <1>5, CompletionKeeps

LEMMA KeptFits ==
    ASSUME LinkInv, \A c \in Conn : Kept(c), UNCHANGED <<hash, used, held, raced>>,
           request' \in {request, NoRequest}
    PROVE  LinkInv'
<1>1. \A c \in Conn : LinkFits(c)' BY DEF LinkInv, LinkFits, Kept
<1>2. RequestFits' BY DEF LinkInv, RequestFits, Kept
<1> QED BY <1>1, <1>2 DEF LinkInv

LEMMA Requested ==
    ASSUME IInv, LinkInv, request' \in {request, NoRequest},
           \A c \in Conn : /\ conn'[c].generation \in Nat
                            /\ conn'[c].generation >= conn[c].generation
    PROVE  RequestFits'
<1>1. CASE request' = NoRequest BY <1>1 DEF RequestFits
<1>2. CASE request' = request /\ request # NoRequest
  <2>1. /\ request.conn \in Conn /\ request.gen \in Nat
        /\ request.gen <= conn[request.conn].generation
    BY <1>2 DEF LinkInv, RequestFits
  <2>2. /\ conn[request.conn].generation \in Nat /\ conn'[request.conn].generation \in Nat
        /\ conn'[request.conn].generation >= conn[request.conn].generation
    BY <2>1, NewestState
  <2> QED BY <1>2, <2>1, <2>2 DEF RequestFits
<1> QED BY <1>1, <1>2

(* The owner's requests write the row of one connection.                   *)
LEMMA OwnerRows ==
    ASSUME IInv, NEW c \in Conn
    PROVE  /\ Create(c) => /\ \A d \in Conn \ {c} : conn'[d] = conn[d]
                           /\ conn[c].generation = 0 /\ conn'[c].generation = 1
           /\ Rotate(c) => /\ \A d \in Conn \ {c} : conn'[d] = conn[d]
                           /\ conn'[c].generation = conn[c].generation + 1
           /\ Archive(c) => /\ \A d \in Conn \ {c} : conn'[d] = conn[d]
                            /\ conn'[c].generation = conn[c].generation
                            /\ conn'[c].archived
           /\ Suspend(c) \/ Resume(c) \/ Retry(c) => \A d \in Conn : Kept(d)
<1>1. conn[c] \in Connection /\ RowsAgree(c) /\ conn \in [Conn -> Connection]
  BY GenerationFacts DEF IInv, TypeOK
<1>2. ASSUME Create(c)
      PROVE  /\ \A d \in Conn \ {c} : conn'[d] = conn[d]
             /\ conn[c].generation = 0 /\ conn'[c].generation = 1
  BY <1>1, <1>2 DEF Create, RowsAgree, Connection
<1>3. ASSUME Rotate(c)
      PROVE  /\ \A d \in Conn \ {c} : conn'[d] = conn[d]
             /\ conn'[c].generation = conn[c].generation + 1
  <2> DEFINE k == [conn[c] EXCEPT !.status = "rotating",
                                  !.generation = conn[c].generation + 1,
                                  !.activated = FALSE]
  <2>1. conn' = [conn EXCEPT ![c] = k] BY <1>3 DEF Rotate
  <2>2. k.generation = conn[c].generation + 1 BY <1>1 DEF Connection
  <2> HIDE DEF k
  <2> QED BY <1>1, <2>1, <2>2
<1>4. ASSUME Archive(c)
      PROVE  /\ \A d \in Conn \ {c} : conn'[d] = conn[d]
             /\ conn'[c].generation = conn[c].generation /\ conn'[c].archived
  BY <1>1, <1>4 DEF Archive, Connection
<1>5. ASSUME Suspend(c) \/ Resume(c) \/ Retry(c), NEW d \in Conn PROVE Kept(d)
  <2>1. conn' = conn \/ conn' = [conn EXCEPT ![c].suspended = TRUE]
    BY <1>5 DEF Suspend, Resume, Retry, RunNow, db
  <2> QED BY <1>1, <2>1 DEF Kept, Connection
<1> QED BY <1>2, <1>3, <1>4, <1>5

LEMMA OwnerFits == ASSUME IInv, LinkInv, OwnerStep PROVE LinkInv'
<1>1. request' \in {request, NoRequest} /\ UNCHANGED <<link, held>>
  BY DEF OwnerStep, Survives
<1>2. PICK c \in Conn :
        \/ (Create(c) \/ Rotate(c)) /\ NewToken(c)
        \/ Archive(c) /\ NoToken(c)
        \/ (Suspend(c) \/ Resume(c) \/ Retry(c)) /\ UNCHANGED <<hash, used, raced>>
  BY DEF OwnerStep
<1>3. \A d \in Conn : conn[d].generation \in Nat BY NewestState
<1>4. CASE (Create(c) \/ Rotate(c)) /\ NewToken(c)
  <2>1. /\ \A d \in Conn \ {c} : conn'[d] = conn[d]
        /\ conn'[c].generation = conn[c].generation + 1
    BY <1>4, OwnerRows
  <2>2. conn'[c].generation \in Nat BY <1>3, <2>1
  <2>3. /\ hash' = [hash EXCEPT ![c] = conn'[c].generation]
        /\ used' = [used EXCEPT ![c] = FALSE] /\ raced' = [raced EXCEPT ![c] = FALSE]
    BY <1>4 DEF NewToken
  <2>4. RequestFits'
    <3>1. \A d \in Conn : conn'[d].generation \in Nat /\ conn'[d].generation >= conn[d].generation
      BY <1>3, <2>1
    <3> QED BY <1>1, <3>1, Requested
  <2>5. ASSUME NEW d \in Conn PROVE LinkFits(d)'
    <3>1. LinkFits(d) /\ held[d] \in Nat BY DEF LinkInv
    <3>2. CASE d = c BY <1>1, <1>3, <2>1, <2>3, <3>1, <3>2 DEF LinkInv, LinkFits
    <3>3. CASE d # c BY <1>1, <2>1, <2>3, <3>1, <3>3 DEF LinkInv, LinkFits
    <3> QED BY <3>2, <3>3
  <2> QED BY <1>1, <2>2, <2>3, <2>4, <2>5 DEF LinkInv
<1>5. CASE Archive(c) /\ NoToken(c)
  <2>1. /\ \A d \in Conn \ {c} : conn'[d] = conn[d]
        /\ conn'[c].generation = conn[c].generation /\ conn'[c].archived
    BY <1>5, OwnerRows
  <2>2. hash' = [hash EXCEPT ![c] = 0] /\ UNCHANGED <<used, raced>>
    BY <1>5 DEF NoToken
  <2>3. RequestFits'
    <3>1. \A d \in Conn : conn'[d].generation \in Nat /\ conn'[d].generation >= conn[d].generation
      BY <1>3, <2>1
    <3> QED BY <1>1, <3>1, Requested
  <2>4. ASSUME NEW d \in Conn PROVE LinkFits(d)'
    <3>1. LinkFits(d) BY DEF LinkInv
    <3>2. CASE d = c BY <1>1, <2>1, <2>2, <3>1, <3>2 DEF LinkFits
    <3>3. CASE d # c BY <1>1, <2>1, <2>2, <3>1, <3>3 DEF LinkInv, LinkFits
    <3> QED BY <3>2, <3>3
  <2> QED BY <1>1, <2>2, <2>3, <2>4 DEF LinkInv
<1>6. CASE (Suspend(c) \/ Resume(c) \/ Retry(c)) /\ UNCHANGED <<hash, used, raced>>
  BY <1>1, <1>6, OwnerRows, KeptFits
<1> QED BY <1>2, <1>4, <1>5, <1>6

(* Links given and followed, beside the lifecycle.                         *)
LEMMA AccessFits ==
    ASSUME IInv, LinkInv, UNCHANGED vars,
           Answer \/ \E c \in Conn : GiveLink(c) \/ Ask(c)
    PROVE  LinkInv'
<1>1. conn' = conn BY DEF vars
<1>2. \A d \in Conn : conn[d].generation \in Nat BY NewestState
<1>3. ASSUME NEW c \in Conn, GiveLink(c) PROVE LinkInv'
  <2>1. /\ hash' = [hash EXCEPT ![c] = conn[c].generation]
        /\ UNCHANGED <<used, held, request, raced>>
    BY <1>3 DEF GiveLink
  <2>2. RequestFits' BY <1>1, <2>1 DEF LinkInv, RequestFits
  <2>3. \A d \in Conn : LinkFits(d)' BY <1>1, <2>1 DEF LinkInv, LinkFits
  <2> QED BY <1>2, <2>1, <2>2, <2>3 DEF LinkInv
<1>4. ASSUME NEW c \in Conn, Ask(c) PROVE LinkInv'
  <2>1. PICK what \in Asked, head \in BOOLEAN, same \in BOOLEAN :
          request' = [conn |-> c, gen |-> conn[c].generation,
                      what |-> what, head |-> head, same |-> same]
    BY <1>4 DEF Ask
  <2>2. UNCHANGED <<hash, used, held, raced>> BY <1>4 DEF Ask
  <2>3. request'.conn = c /\ request'.gen = conn[c].generation BY <2>1
  <2>4. RequestFits' BY <1>1, <1>2, <2>3 DEF RequestFits
  <2>5. \A d \in Conn : LinkFits(d)' BY <1>1, <2>2 DEF LinkInv, LinkFits
  <2> QED BY <2>2, <2>4, <2>5 DEF LinkInv
<1>5. ASSUME Answer PROVE LinkInv'
  <2>1. request # NoRequest /\ request' = NoRequest /\ UNCHANGED <<hash, link>>
    BY <1>5 DEF Answer
  <2>2. PICK c \in Conn : c = request.conn BY <2>1 DEF LinkInv, RequestFits
  <2>3. request.gen \in Nat /\ request.gen <= conn[c].generation
    BY <2>1, <2>2 DEF LinkInv, RequestFits
  <2>4. RequestFits' BY <2>1 DEF RequestFits
  <2>5. CASE UNCHANGED <<used, held, raced>>
    <3>1. \A d \in Conn : LinkFits(d)' BY <1>1, <2>1, <2>5 DEF LinkInv, LinkFits
    <3> QED BY <2>1, <2>4, <2>5, <3>1 DEF LinkInv
  <2>6. CASE /\ used' = [used EXCEPT ![c] = TRUE]
             /\ held' = [held EXCEPT ![c] = request.gen]
             /\ raced' = [raced EXCEPT ![c] = @ \/ request.gen # conn[c].generation]
    <3>1. used' \in [Conn -> BOOLEAN] /\ held' \in [Conn -> Nat]
      BY <2>3, <2>6 DEF LinkInv
    <3>2. raced' \in [Conn -> BOOLEAN]
      BY <2>6 DEF LinkInv
    <3>3. /\ used'[c] = TRUE /\ held'[c] = request.gen
          /\ ~raced'[c] => request.gen = conn[c].generation
      BY <2>6 DEF LinkInv
    <3>4. LinkFits(c)'
      BY <1>1, <2>1, <2>3, <3>3 DEF LinkInv, LinkFits
    <3>5. ASSUME NEW d \in Conn \ {c} PROVE LinkFits(d)'
      <4>1. used'[d] = used[d] /\ held'[d] = held[d] /\ raced'[d] = raced[d]
        BY <2>6 DEF LinkInv
      <4> QED BY <1>1, <2>1, <4>1 DEF LinkInv, LinkFits
    <3> QED BY <2>1, <2>4, <3>1, <3>2, <3>4, <3>5 DEF LinkInv
  <2> QED BY <1>5, <2>2, <2>5, <2>6 DEF Answer
<1> QED BY <1>3, <1>4, <1>5

LEMMA DeliveryInits == ASSUME DeliveryInit PROVE LinkInv
<1>1. /\ hash = [c \in Conn |-> 0] /\ used = [c \in Conn |-> FALSE]
      /\ held = [c \in Conn |-> 0] /\ raced = [c \in Conn |-> FALSE]
      /\ request = NoRequest
  BY DEF DeliveryInit
<1>2. \A c \in Conn : conn[c].status = "absent" /\ conn[c].generation = 0
  BY DEF DeliveryInit, Init
<1>3. \A c \in Conn : LinkFits(c) BY <1>1, <1>2 DEF LinkFits
<1> QED BY <1>1, <1>3 DEF LinkInv, RequestFits

(* A step of the delivery is one of the outbox or leaves it alone.         *)
LEMMA DeliverySteps == DeliveryNext \/ UNCHANGED <<vars, deliveryVars>> => [Next]_vars
BY DEF DeliveryNext, OwnerStep, OutboxStep, ProcessDies, Next

LEMMA DeliveryFits ==
    ASSUME IInv, LinkInv, DeliveryNext \/ UNCHANGED <<vars, deliveryVars>>
    PROVE  LinkInv'
<1>1. CASE OwnerStep BY <1>1, OwnerFits
<1>2. CASE OutboxStep
  <2>1. UNCHANGED deliveryVars BY <1>2 DEF OutboxStep
  <2>2. \A c \in Conn : Kept(c) BY <1>2, OutboxKeeps
  <2> QED BY <2>1, <2>2, KeptFits DEF deliveryVars
<1>3. CASE ProcessDies
  <2>1. request' = NoRequest /\ UNCHANGED <<hash, used, link, held, raced>>
    BY <1>3 DEF ProcessDies
  <2>2. \A c \in Conn : Kept(c) BY <1>3, OutboxKeeps DEF ProcessDies
  <2> QED BY <2>1, <2>2, KeptFits
<1>4. CASE (Answer \/ \E c \in Conn : GiveLink(c) \/ Ask(c)) /\ UNCHANGED vars
  BY <1>4, AccessFits
<1>5. CASE UNCHANGED <<vars, deliveryVars>>
  <2>1. \A c \in Conn : Kept(c) BY <1>5 DEF vars, Kept
  <2> QED BY <1>5, <2>1, KeptFits DEF deliveryVars
<1> QED BY <1>1, <1>2, <1>3, <1>4, <1>5 DEF DeliveryNext

(* What a connection in one of its states has for a job.                   *)
LEMMA JobsOfStates ==
    ASSUME IInv, EInv, NEW c \in Conn, conn[c].status # "absent",
           conn[c].archived => conn[c].status # "active"
    PROVE  /\ conn[c].status \notin {"active", "archived"} => Open(c)
           /\ conn[c].status = "active" /\ conn[c].suspended =>
                 job[c].kind \in {"suspend", "resume"}
<1>1. RowsFit(c) /\ RowsAgree(c) /\ job[c] \in Job BY GenerationFacts DEF EInv
<1>2. job[c].kind \in {"activate", "rotate", "revoke", "suspend", "resume", "none"}
  BY <1>1 DEF Job, OwnerKinds
<1>3. ASSUME conn[c].status \notin {"active", "archived"} PROVE Open(c)
  <2>1. SUFFICES ASSUME job[c].status = "completed" PROVE FALSE
    BY <1>1 DEF Open, Job
  <2>2. job[c].kind # "none" BY <1>1 DEF RowsAgree
  <2>3. job[c].kind \notin Opening BY <1>1, <1>3, <2>1 DEF RowsFit, Opened, Serving
  <2>4. job[c].kind \notin {"suspend", "resume"} BY <1>1, <1>3 DEF RowsFit
  <2>5. job[c].kind # "revoke" BY <1>1, <1>3, <2>1 DEF RowsFit
  <2> QED BY <1>2, <2>2, <2>3, <2>4, <2>5 DEF Opening
<1>4. ASSUME conn[c].status = "active", conn[c].suspended
      PROVE  job[c].kind \in {"suspend", "resume"}
  BY <1>1, <1>4 DEF RowsFit, RowsAgree
<1> QED BY <1>3, <1>4

LEMMA ShownFollows == ASSUME IInv, EInv, LinkInv PROVE ShownIsSo
<1> SUFFICES ASSUME NEW c \in Conn, conn[c].status # "absent",
                    conn[c].archived => conn[c].status # "active"
             PROVE  /\ Shown(c) = "ready" => /\ bySubscriptionToken(c, conn[c].generation)
                                             /\ Readable(c, conn[c].generation)
                    /\ Shown(c) \in InProgress => job[c].status \in {"pending", "running"}
                    /\ Shown(c) \in Retrying => Failed(c)
                    /\ Shown(c) = "suspended" => ~Open(c)
    BY DEF ShownIsSo
<1>1. conn[c] \in Connection /\ job[c] \in Job /\ LinkFits(c)
  BY GenerationFacts DEF LinkInv
<1>2. conn[c].status \in {"provisioning", "active", "rotating", "archiving", "archived"}
  BY <1>1 DEF Connection
<1>3. job[c].status \in {"pending", "running", "failed", "completed"}
  BY <1>1 DEF Job, OpenStates
<1>4. /\ conn[c].status \notin {"active", "archived"} => Open(c)
      /\ conn[c].status = "active" /\ conn[c].suspended =>
            job[c].kind \in {"suspend", "resume"}
  BY JobsOfStates
<1>5. CASE conn[c].status = "active" /\ ~conn[c].suspended
  <2>1. Shown(c) = "ready" BY <1>5 DEF Shown
  <2>2. Serving(c) BY <1>5 DEF Serving
  <2>3. bySubscriptionToken(c, conn[c].generation)
    BY <1>1, <1>5, <2>2 DEF LinkFits, bySubscriptionToken
  <2>4. Readable(c, conn[c].generation) BY <1>5, NewestState DEF NewestIs, Readable
  <2> QED BY <2>1, <2>3, <2>4 DEF InProgress, Retrying
<1>6. CASE conn[c].status = "active" /\ conn[c].suspended
  <2>1. job[c].kind \in {"suspend", "resume"} BY <1>4, <1>6
  <2>2. Shown(c) = SuspendedState(c) BY <1>6 DEF Shown
  <2>3. CASE job[c].status = "completed"
    <3>1. Shown(c) = "suspended"
      BY <2>2, <2>3 DEF SuspendedState, Changing
    <3> QED BY <2>3, <3>1 DEF InProgress, Retrying, Open, OpenStates
  <2>4. CASE job[c].status = "failed"
    <3>1. Shown(c) \in {"resume_retry", "suspension_retry"}
      BY <2>1, <2>2, <2>4 DEF SuspendedState, Changing, Failed
    <3> QED BY <2>4, <3>1 DEF InProgress, Retrying, Failed
  <2>5. CASE job[c].status \in {"pending", "running"}
    <3>1. Shown(c) \in {"resuming", "suspending"}
      BY <2>1, <2>2, <2>5 DEF SuspendedState, Changing, Failed
    <3> QED BY <2>5, <3>1 DEF InProgress, Retrying
  <2> QED BY <1>3, <2>3, <2>4, <2>5
<1>7. CASE conn[c].status = "archived"
  <2>1. Shown(c) = "archived" BY <1>7 DEF Shown
  <2> QED BY <2>1 DEF InProgress, Retrying
<1>8. CASE conn[c].status \notin {"active", "archived"}
  <2>1. Open(c) BY <1>4, <1>8
  <2>2. CASE job[c].status = "failed"
    <3>1. Shown(c) \in {"rotation_retry", "archive_retry", "retrying"}
      BY <1>8, <2>2 DEF Shown, Failed
    <3> QED BY <2>2, <3>1 DEF InProgress, Retrying, Failed
  <2>3. CASE job[c].status \in {"pending", "running"}
    <3>1. Shown(c) \in {"rotating", "archiving", "provisioning"}
      BY <1>8, <2>3 DEF Shown, Failed
    <3> QED BY <2>3, <3>1 DEF InProgress, Retrying
  <2> QED BY <2>1, <2>2, <2>3 DEF Open, OpenStates
<1> QED BY <1>2, <1>5, <1>6, <1>7, <1>8

(* For any connections, links, requests, jobs and faults: what the panel   *)
(* shows of a connection is so, a link it calls ready opens and its        *)
(* profile can be rendered, and a connection counts as used once and only  *)
(* once a device has the profile of its newest generation.                 *)
THEOREM LinksServed == DeliverySpec => []LinksAreServed
<1>1. DeliveryInit => Init BY DEF DeliveryInit
<1>2. DeliveryInit => IInv /\ EInv /\ LinkInv BY <1>1, InitStep, InitFits, DeliveryInits
<1>3. (IInv /\ EInv /\ LinkInv) /\ [DeliveryNext]_<<vars, deliveryVars>>
        => (IInv /\ EInv /\ LinkInv)'
  BY DeliverySteps, NextStep, NextFits, DeliveryFits
<1>4. IInv /\ EInv /\ LinkInv => LinksAreServed
  BY ShownFollows DEF LinksAreServed, UseIsReal, LinkInv, LinkFits
<1>5. QED BY <1>2, <1>3, <1>4, PTL DEF DeliverySpec

-----------------------------------------------------------------------------
(* The methods.                                                            *)

PathType == XhttpPath \cup GrpcPath \cup {NoPath}

MethodRecord ==
    [engine : Engines, protocol : Protocols, n : Nat,
     name : MethodName \cup Protocols, enabled : BOOLEAN, port : Nat, path : PathType]

(* What validate() lets through of one method.                             *)
MethodFits(m) ==
    /\ m.protocol \in engineCapabilities(m.engine)
    /\ managedEdge(m.engine) => m.port = 443 /\ m.path = paths[m.protocol]
    /\ ~managedEdge(m.engine) =>
           m.port >= 1024 \/ (m.engine = "hysteria" /\ m.port = 443)
    /\ m.port \notin reservedPorts
    /\ PathFits(m)

(* Two methods share no name, no id, no place of which there is one, and   *)
(* no port.                                                                *)
Clash(m, q) ==
    /\ m.enabled /\ q.enabled /\ q.port = m.port
    /\ Network(q.protocol) = Network(m.protocol)

Apart(m, q) ==
    /\ q.name # m.name
    /\ m.n = q.n => m.n = 0 /\ m.protocol # q.protocol
    /\ singletonEngine(m.engine) => q.engine # m.engine
    /\ managedEdge(m.engine) => <<q.engine, q.protocol>> # <<m.engine, m.protocol>>
    /\ Clash(m, q) => managedEdge(q.engine) /\ managedEdge(m.engine)

ListFits(ms, edits) ==
    /\ ms \in Seq(MethodRecord)
    /\ \A i \in DOMAIN ms : MethodFits(ms[i]) /\ ms[i].n <= edits
    /\ \A i, k \in DOMAIN ms : i # k => Apart(ms[i], ms[k])

MethodsInv ==
    /\ methodEdits \in Nat
    /\ requiredEngineIds \subseteq enginesHere /\ enginesHere \subseteq Engines
    /\ ListFits(methodSetting, methodEdits)

-----------------------------------------------------------------------------
(* The tables.                                                             *)

LEMMA EngineNames ==
    Engines = {"hysteria", "xray", "mihomo", "sing-box", "amneziawg"}
BY DEF Engines, engineIds

LEMMA ProtocolNames ==
    Protocols = {"hysteria2", "xhttp", "grpc", "anytls", "trusttunnel", "naive", "amneziawg"}
BY DEF Protocols, protocolPort

LEMMA CapabilitiesTyped ==
    \A e \in Engines : engineCapabilities(e) \subseteq Protocols
BY EngineNames, ProtocolNames DEF engineCapabilities

LEMMA DefaultsAre ==
    /\ Defaults("hysteria") = {"hysteria2"}
    /\ Defaults("xray") = {"xhttp", "grpc"}
    /\ Defaults("mihomo") = {"anytls", "trusttunnel"}
    /\ Defaults("sing-box") = {"naive"}
    /\ Defaults("amneziawg") = {"amneziawg"}
BY DEF Defaults, DefaultProtocols

LEMMA EngineIndexIs ==
    /\ EngineIndex("hysteria") = 0 /\ EngineIndex("xray") = 1
    /\ EngineIndex("mihomo") = 2 /\ EngineIndex("sing-box") = 3
    /\ EngineIndex("amneziawg") = 4
<1>1. \A i \in 0..4 : i = 0 \/ i = 1 \/ i = 2 \/ i = 3 \/ i = 4 OBVIOUS
<1>2. /\ engineIds[0 + 1] = "hysteria" /\ engineIds[1 + 1] = "xray"
      /\ engineIds[2 + 1] = "mihomo" /\ engineIds[3 + 1] = "sing-box"
      /\ engineIds[4 + 1] = "amneziawg"
  BY DEF engineIds
<1>3. ASSUME NEW e, NEW k \in 0..4, engineIds[k + 1] = e,
             \A i \in 0..4 : engineIds[i + 1] = e => i = k
      PROVE  EngineIndex(e) = k
  BY <1>3 DEF EngineIndex
<1>4. EngineIndex("hysteria") = 0 BY <1>1, <1>2, <1>3
<1>5. EngineIndex("xray") = 1 BY <1>1, <1>2, <1>3
<1>6. EngineIndex("mihomo") = 2 BY <1>1, <1>2, <1>3
<1>7. EngineIndex("sing-box") = 3 BY <1>1, <1>2, <1>3
<1>8. EngineIndex("amneziawg") = 4 BY <1>1, <1>2, <1>3
<1> QED BY <1>4, <1>5, <1>6, <1>7, <1>8

LEMMA PortsAre ==
    /\ protocolPort["hysteria2"] = 443 /\ protocolPort["xhttp"] = 443
    /\ protocolPort["grpc"] = 443 /\ protocolPort["anytls"] = 1443
    /\ protocolPort["trusttunnel"] = 2443 /\ protocolPort["naive"] = 3443
    /\ protocolPort["amneziawg"] = 51820
BY DEF protocolPort

LEMMA PathsAre ==
    /\ paths["hysteria2"] = NoPath /\ paths["xhttp"] = "/edge"
    /\ paths["grpc"] = "edge" /\ paths["anytls"] = NoPath
    /\ paths["trusttunnel"] = NoPath /\ paths["naive"] = NoPath
    /\ paths["amneziawg"] = NoPath
BY ProtocolNames DEF paths

LEMMA ReservedAre ==
    reservedPorts = {8181, 8443, 10000, 10001, 9999, 10085, 9097, 10086}
<1>1. WithApi = {"hysteria", "xray", "mihomo", "sing-box"}
  BY EngineNames DEF WithApi
<1>2. /\ engineApi("hysteria") = 9999 /\ engineApi("xray") = 10085
      /\ engineApi("mihomo") = 9097 /\ engineApi("sing-box") = 10086
  BY DEF engineApi
<1>3. {engineApi(e) : e \in WithApi} = {9999, 10085, 9097, 10086}
  BY <1>1, <1>2
<1> QED BY <1>3 DEF reservedPorts

LEMMA SettingsAre ==
    ASSUME NEW e \in Engines, NEW p \in Protocols
    PROVE  /\ methodSettings(e, p) = [port |-> methodSettings(e, p).port, path |-> paths[p]]
           /\ methodSettings(e, p).port \in Nat
           /\ paths[p] \in PathType
           /\ managedEdge(e) => methodSettings(e, p).port = 443
<1>1. protocolPort[p] \in Nat BY PortsAre, ProtocolNames
<1>2. EngineIndex(e) \in Nat BY EngineIndexIs, EngineNames
<1>3. methodSettings(e, p).port \in Nat BY <1>1, <1>2 DEF methodSettings
<1>4. paths[p] \in PathType BY PathsAre, ProtocolNames DEF PathType, XhttpPath, GrpcPath
<1> QED BY <1>3, <1>4 DEF methodSettings

(* The engines for which the panel suggests a port start above 1023.        *)
LEMMA SuggestedFromAbove ==
    ASSUME NEW e \in {"mihomo", "sing-box"}, NEW p \in engineCapabilities(e)
    PROVE  methodSettings(e, p).port >= 1024
<1>1. e \in Engines /\ p \in Protocols BY EngineNames, CapabilitiesTyped
<1>2. methodSettings(e, p).port =
          protocolPort[p] + (IF p \in Defaults(e) THEN 0 ELSE 1000 * EngineIndex(e))
  BY DEF methodSettings, managedEdge
<1>3. CASE e = "mihomo"
  <2>1. p \in {"hysteria2", "xhttp", "grpc", "anytls", "trusttunnel"}
    BY <1>3 DEF engineCapabilities
  <2> QED BY <1>2, <1>3, <2>1, PortsAre, DefaultsAre, EngineIndexIs
<1>4. CASE e = "sing-box"
  <2>1. p \in {"hysteria2", "grpc", "anytls", "naive"}
    BY <1>4 DEF engineCapabilities
  <2> QED BY <1>2, <1>4, <2>1, PortsAre, DefaultsAre, EngineIndexIs
<1> QED BY <1>3, <1>4

-----------------------------------------------------------------------------
(* The list.                                                               *)

LEMMA ApartSymmetric ==
    ASSUME NEW m, NEW q, Apart(m, q)
    PROVE  Apart(q, m)
BY DEF Apart, Clash

LEMMA FitsDomain ==
    ASSUME NEW ms, NEW edits, ListFits(ms, edits)
    PROVE  /\ Len(ms) \in Nat /\ DOMAIN ms = 1..Len(ms)
           /\ \A i \in DOMAIN ms : ms[i] \in MethodRecord
BY LenProperties, ElementOfSeq DEF ListFits

LEMMA SameRecord ==
    ASSUME NEW m \in MethodRecord, m.port = 443, NEW path, m.path = path
    PROVE  [m EXCEPT !.port = 443, !.path = path] = m
<1>1. [m EXCEPT !.port = 443] = m BY DEF MethodRecord
<1>2. [m EXCEPT !.path = path] = m BY DEF MethodRecord
<1>3. [m EXCEPT !.port = 443, !.path = path] = [[m EXCEPT !.port = 443] EXCEPT !.path = path]
  OBVIOUS
<1> QED BY <1>1, <1>2, <1>3

LEMMA ListIsStored ==
    ASSUME MethodsInv
    PROVE  list = methodSetting
<1>1. \A i \in DOMAIN methodSetting :
         methodSetting[i] \in MethodRecord /\ MethodFits(methodSetting[i])
  BY FitsDomain DEF MethodsInv, ListFits
<1>2. ASSUME NEW i \in DOMAIN methodSetting, managedEdge(methodSetting[i].engine)
      PROVE  [methodSetting[i] EXCEPT !.port = 443,
                    !.path = paths[methodSetting[i].protocol]] = methodSetting[i]
  <2>1. /\ methodSetting[i] \in MethodRecord /\ methodSetting[i].port = 443
        /\ methodSetting[i].path = paths[methodSetting[i].protocol]
    BY <1>1, <1>2 DEF MethodFits
  <2>2. PICK m : m = methodSetting[i] OBVIOUS
  <2>3. PICK path : path = paths[m.protocol] OBVIOUS
  <2>4. m \in MethodRecord /\ m.port = 443 /\ m.path = path BY <2>1, <2>2, <2>3
  <2>5. [m EXCEPT !.port = 443, !.path = path] = m BY <2>4, SameRecord, Zenon
  <2> QED BY <2>2, <2>3, <2>5
<1>3. methodSetting = [i \in DOMAIN methodSetting |-> methodSetting[i]]
  <2>1. methodSetting \in [1..Len(methodSetting) -> MethodRecord]
    BY LenProperties DEF MethodsInv, ListFits
  <2> QED BY <2>1
<1>4. \A i \in DOMAIN methodSetting : list[i] = methodSetting[i]
  BY <1>2 DEF list
<1>5. list = [i \in DOMAIN methodSetting |-> list[i]] BY DEF list
<1> QED BY <1>3, <1>4, <1>5

(* One method more, or another in its place.                               *)
LEMMA AppendFits ==
    ASSUME NEW ms, NEW edits \in Nat, ListFits(ms, edits),
           NEW m \in MethodRecord, MethodFits(m), m.n = edits + 1,
           \A i \in DOMAIN ms : Apart(m, ms[i])
    PROVE  ListFits(Append(ms, m), edits + 1)
<1> DEFINE next == Append(ms, m)
<1>1. Len(ms) \in Nat /\ DOMAIN ms = 1..Len(ms) BY FitsDomain
<1>2. /\ next \in Seq(MethodRecord) /\ Len(next) = Len(ms) + 1
      /\ \A i \in 1..Len(ms) : next[i] = ms[i]
      /\ next[Len(ms) + 1] = m
  BY AppendProperties DEF ListFits
<1>3. DOMAIN next = 1..(Len(ms) + 1) BY <1>2, LenProperties
<1> HIDE DEF next
<1>4. \A i \in DOMAIN ms : MethodFits(ms[i]) /\ ms[i].n <= edits /\ ms[i].n \in Nat
  BY FitsDomain DEF ListFits, MethodRecord
<1>5. ASSUME NEW i \in DOMAIN next PROVE MethodFits(next[i]) /\ next[i].n <= edits + 1
  <2>1. CASE i \in DOMAIN ms BY <1>1, <1>2, <1>4, <2>1
  <2>2. CASE i = Len(ms) + 1 BY <1>2, <2>2
  <2> QED BY <1>1, <1>3, <2>1, <2>2
<1>6. ASSUME NEW i \in DOMAIN next, NEW k \in DOMAIN next, i # k
      PROVE  Apart(next[i], next[k])
  <2>1. CASE i \in DOMAIN ms /\ k \in DOMAIN ms
    BY <1>1, <1>2, <1>6, <2>1 DEF ListFits
  <2>2. CASE i = Len(ms) + 1 /\ k \in DOMAIN ms BY <1>1, <1>2, <2>2
  <2>3. CASE i \in DOMAIN ms /\ k = Len(ms) + 1 BY <1>1, <1>2, <2>3, ApartSymmetric
  <2> QED BY <1>1, <1>3, <1>6, <2>1, <2>2, <2>3
<1>7. ListFits(next, edits + 1) BY <1>2, <1>5, <1>6 DEF ListFits
<1> QED BY <1>7 DEF next

LEMMA ReplaceFits ==
    ASSUME NEW ms, NEW edits \in Nat, ListFits(ms, edits), NEW j \in DOMAIN ms,
           NEW m \in MethodRecord, MethodFits(m), m.n = ms[j].n,
           \A i \in DOMAIN ms \ {j} : Apart(m, ms[i])
    PROVE  ListFits([ms EXCEPT ![j] = m], edits + 1)
<1> DEFINE next == [ms EXCEPT ![j] = m]
<1>1. Len(ms) \in Nat /\ DOMAIN ms = 1..Len(ms) BY FitsDomain
<1>2. next \in Seq(MethodRecord) BY <1>1, ExceptSeq DEF ListFits
<1>3. DOMAIN next = DOMAIN ms OBVIOUS
<1>4. next[j] = m /\ \A i \in DOMAIN ms \ {j} : next[i] = ms[i] OBVIOUS
<1> HIDE DEF next
<1>5. \A i \in DOMAIN ms : MethodFits(ms[i]) /\ ms[i].n <= edits /\ ms[i].n \in Nat
  BY FitsDomain DEF ListFits, MethodRecord
<1>6. ASSUME NEW i \in DOMAIN next PROVE MethodFits(next[i]) /\ next[i].n <= edits + 1
  BY <1>3, <1>4, <1>5
<1>7. ASSUME NEW i \in DOMAIN next, NEW k \in DOMAIN next, i # k
      PROVE  Apart(next[i], next[k])
  <2>1. CASE i = j BY <1>3, <1>4, <1>7, <2>1
  <2>2. CASE k = j BY <1>3, <1>4, <1>7, <2>2, ApartSymmetric
  <2>3. CASE i # j /\ k # j BY <1>3, <1>4, <1>7, <2>3 DEF ListFits
  <2> QED BY <2>1, <2>2, <2>3
<1>8. ListFits(next, edits + 1) BY <1>2, <1>6, <1>7 DEF ListFits
<1> QED BY <1>8 DEF next

LEMMA PlacesFit ==
    ASSUME NEW ms, NEW edits \in Nat, ListFits(ms, edits),
           NEW len \in Nat, NEW next,
           next = [i \in 1..len |-> next[i]],
           NEW f \in [1..len -> DOMAIN ms],
           \A i, k \in 1..len : i # k => f[i] # f[k],
           \A i \in 1..len : next[i] = ms[f[i]]
    PROVE  ListFits(next, edits + 1)
<1>1. \A i \in DOMAIN ms : /\ ms[i] \in MethodRecord /\ ms[i].n \in Nat
                           /\ MethodFits(ms[i]) /\ ms[i].n <= edits
  BY FitsDomain DEF ListFits, MethodRecord
<1>2. \A i \in 1..len : f[i] \in DOMAIN ms OBVIOUS
<1>3. DOMAIN next = 1..len OBVIOUS
<1>4. next \in [1..len -> MethodRecord] BY <1>1, <1>2
<1>5. next \in Seq(MethodRecord) BY <1>4
<1>6. \A i \in 1..len : MethodFits(next[i]) /\ next[i].n <= edits + 1
  BY <1>1, <1>2
<1>7. \A i, k \in 1..len : i # k => Apart(next[i], next[k])
  BY <1>2 DEF ListFits
<1> QED BY <1>3, <1>5, <1>6, <1>7 DEF ListFits

-----------------------------------------------------------------------------
(* The port that is suggested.                                             *)

(* Of n + 1 ports in a row one is not among n others, and there is a first. *)
LEMMA FirstFree ==
    ASSUME NEW S, IsFiniteSet(S), NEW n \in Nat, Cardinality(S) <= n, NEW first \in Nat
    PROVE  \E port \in first..(first + n) :
              port \notin S /\ \A q \in first..(port - 1) : q \in S
<1> DEFINE Free == {port \in first..(first + n) : port \notin S}
           L == OpToRel(<, Nat)
<1>1. Free # {}
  <2>1. IsFiniteSet(first..(first + n)) /\ Cardinality(first..(first + n)) = n + 1
    BY FS_Interval
  <2>2. SUFFICES ASSUME Free = {} PROVE FALSE OBVIOUS
  <2>3. first..(first + n) \in SUBSET S BY <2>2
  <2>4. Cardinality(first..(first + n)) <= Cardinality(S) BY <2>3, FS_Subset
  <2>5. Cardinality(S) \in Nat BY FS_CardinalityType
  <2> QED BY <2>1, <2>4, <2>5
<1>2. Free \subseteq Nat OBVIOUS
<1>3. PICK port \in Free : \A q \in Free : ~ (<<q, port>> \in L)
  <2> HIDE DEF Free
  <2> QED BY <1>1, <1>2, NatLessThanWellFounded, WFMin
<1>4. ASSUME NEW q \in first..(port - 1) PROVE q \in S
  <2>1. q \in Nat /\ port \in Nat /\ q < port /\ q \in first..(first + n) BY <1>2
  <2>2. <<q, port>> \in L BY <2>1 DEF OpToRel
  <2>3. q \notin Free
    <3> HIDE DEF L, Free
    <3> QED BY <1>3, <2>2
  <2> QED BY <2>1, <2>3
<1> QED BY <1>4

(* The reserved ports are finitely many.                                   *)
LEMMA ReservedFinite == IsFiniteSet(reservedPorts) /\ Cardinality(reservedPorts) \in Nat
<1>1. reservedPorts \in SUBSET Nat BY ReservedAre
<1>2. \A port \in reservedPorts : port <= 10086 BY ReservedAre
<1>3. 10086 \in Nat OBVIOUS
<1>4. IsFiniteSet(reservedPorts) BY <1>1, <1>2, <1>3, FS_BoundedSetOfNaturals
<1> QED BY <1>4, FS_CardinalityType

(* So many ports are taken at most.                                        *)
LEMMA OccupiedBounded ==
    ASSUME MethodsInv, NEW p
    PROVE  \E S : /\ IsFiniteSet(S) /\ Len(list) + Cardinality(reservedPorts) \in Nat
                  /\ Cardinality(S) <= Len(list) + Cardinality(reservedPorts)
                  /\ \A port : Occupied(port, p) <=> port \in S
<1> DEFINE Ports == {methodSetting[i].port : i \in DOMAIN methodSetting}
           B == reservedPorts \cup Ports
           S == {port \in B : Occupied(port, p)}
           f == [i \in DOMAIN methodSetting |-> methodSetting[i].port]
<1>1. list = methodSetting BY ListIsStored
<1>2. Len(methodSetting) \in Nat /\ DOMAIN methodSetting = 1..Len(methodSetting)
  BY FitsDomain DEF MethodsInv
<1>3. IsFiniteSet(DOMAIN methodSetting) /\ Cardinality(DOMAIN methodSetting) = Len(methodSetting)
  <2>1. PICK n \in Nat : n = Len(methodSetting) BY <1>2
  <2>2. 1 \in Int /\ n \in Int BY <2>1
  <2>3. IsFiniteSet(1..n) /\ Cardinality(1..n) = n BY <2>2, FS_Interval
  <2> QED BY <1>2, <2>1, <2>3
<1>4. f \in Surjection(DOMAIN methodSetting, Ports) BY DEF Surjection
<1>5. IsFiniteSet(Ports) /\ Cardinality(Ports) <= Len(methodSetting)
  <2> HIDE DEF f, Ports
  <2> QED BY <1>3, <1>4, FS_Surjection
<1>6. IsFiniteSet(B) /\ Cardinality(B) = Cardinality(reservedPorts) + Cardinality(Ports)
                                         - Cardinality(reservedPorts \cap Ports)
  <2> HIDE DEF Ports
  <2> QED BY <1>5, ReservedFinite, FS_Union
<1>7. /\ Cardinality(Ports) \in Nat /\ Cardinality(reservedPorts) \in Nat
      /\ Cardinality(reservedPorts \cap Ports) \in Nat
  <2>1. IsFiniteSet(reservedPorts \cap Ports)
    BY ReservedFinite, FS_Subset
  <2> HIDE DEF Ports
  <2> QED BY <1>5, <2>1, ReservedFinite, FS_CardinalityType
<1>8. Cardinality(B) <= Len(methodSetting) + Cardinality(reservedPorts)
  <2> HIDE DEF B, Ports
  <2> QED BY <1>2, <1>5, <1>6, <1>7
<1>9. IsFiniteSet(S) /\ Cardinality(S) <= Cardinality(B)
  <2>1. S \in SUBSET B OBVIOUS
  <2> HIDE DEF B, S
  <2> QED BY <1>6, <2>1, FS_Subset
<1>10. Cardinality(S) \in Nat /\ Cardinality(B) \in Nat
  <2> HIDE DEF B, S
  <2> QED BY <1>6, <1>9, FS_CardinalityType
<1>11. Cardinality(S) <= Len(list) + Cardinality(reservedPorts)
  <2> HIDE DEF B, S
  <2> QED BY <1>1, <1>2, <1>7, <1>8, <1>9, <1>10
<1>12. \A port : Occupied(port, p) <=> port \in S
  BY <1>1 DEF Occupied, Elements
<1>13. Len(list) + Cardinality(reservedPorts) \in Nat BY <1>1, <1>2, <1>7
<1> QED
  <2> HIDE DEF S
  <2> QED BY <1>9, <1>11, <1>12, <1>13

(* A suggested port is free on its network, or is the fixed one.           *)
LEMMA SuggestedFree ==
    ASSUME MethodsInv, NEW e \in Engines, NEW p \in Protocols
    PROVE  /\ Suggested(e, p).port \in Nat /\ Suggested(e, p).path = paths[p]
           /\ ~ managedEdge(e) /\ ~ singletonEngine(e) =>
                 /\ Suggested(e, p).port >= methodSettings(e, p).port
                 /\ ~ Occupied(Suggested(e, p).port, p)
<1> DEFINE first == methodSettings(e, p).port
           n == Len(list) + Cardinality(reservedPorts)
           Found(port) == /\ ~ Occupied(port, p)
                          /\ \A q \in first..(port - 1) : Occupied(q, p)
           chosen == CHOOSE port \in first..(first + n) : Found(port)
<1>1. /\ methodSettings(e, p) = [port |-> first, path |-> paths[p]]
      /\ first \in Nat
  BY SettingsAre
<1>2. CASE managedEdge(e) \/ singletonEngine(e)
  <2>1. Suggested(e, p) = methodSettings(e, p) BY <1>2 DEF Suggested
  <2> QED BY <1>1, <1>2, <2>1
<1>3. CASE ~ (managedEdge(e) \/ singletonEngine(e))
  <2>1. PICK S : /\ IsFiniteSet(S) /\ n \in Nat /\ Cardinality(S) <= n
                 /\ \A port : Occupied(port, p) <=> port \in S
    BY OccupiedBounded
  <2>2. \E port \in first..(first + n) : Found(port)
    <3>1. \E port \in first..(first + n) :
             port \notin S /\ \A q \in first..(port - 1) : q \in S
      <4> HIDE DEF first, n
      <4> QED BY <1>1, <2>1, FirstFree
    <3> QED BY <2>1, <3>1
  <2>3. chosen \in first..(first + n) /\ Found(chosen)
    <3> HIDE DEF first, n, Found
    <3> QED BY <2>2
  <2>4. first + Len(list) + Cardinality(reservedPorts) = first + n
    <3>1. Len(list) \in Nat BY ListIsStored, FitsDomain DEF MethodsInv
    <3> QED BY <1>1, <3>1, ReservedFinite
  <2>5. Suggested(e, p) = [methodSettings(e, p) EXCEPT !.port = chosen]
    BY <1>3, <2>4 DEF Suggested
  <2>6. Suggested(e, p) = [port |-> chosen, path |-> paths[p]]
    <3> HIDE DEF chosen, first
    <3> QED BY <1>1, <2>5
  <2>7. chosen \in Nat /\ chosen >= first /\ ~ Occupied(chosen, p)
    <3>1. n \in Nat BY <2>1
    <3> HIDE DEF first, chosen, n
    <3> QED BY <1>1, <2>3, <3>1
  <2> HIDE DEF chosen
  <2> QED BY <2>6, <2>7
<1> QED BY <1>2, <1>3

-----------------------------------------------------------------------------
(* What is permitted fits in the list.                                     *)

(* validate() lets nothing through that would not fit.                      *)
LEMMA PermittedFits ==
    ASSUME NEW m \in MethodRecord, NEW peers, Permitted(m, peers)
    PROVE  /\ MethodFits(m)
           /\ \A q \in peers :
                 (m.n = q.n => m.n = 0 /\ m.protocol # q.protocol) => Apart(m, q)
<1>1. m.engine \in Engines /\ m.protocol \in Protocols BY DEF MethodRecord
<1>2. managedEdge(m.engine) => m.port = 443 /\ m.path = paths[m.protocol]
  <2>1. managedEdge(m.engine) =>
           [port |-> m.port, path |-> m.path] = methodSettings(m.engine, m.protocol)
    BY DEF Permitted
  <2>2. PICK settings : settings = methodSettings(m.engine, m.protocol) OBVIOUS
  <2>3. /\ managedEdge(m.engine) => settings.port = 443
        /\ settings = [port |-> settings.port, path |-> paths[m.protocol]]
    BY <1>1, <2>2, SettingsAre
  <2> QED BY <2>1, <2>2, <2>3
<1>3. MethodFits(m) BY <1>2 DEF MethodFits, Permitted
<1>4. ASSUME NEW q \in peers, m.n = q.n => m.n = 0 /\ m.protocol # q.protocol
      PROVE  Apart(m, q)
  BY <1>4 DEF Apart, Clash, Permitted, OnlyOne, PortFree
<1> QED BY <1>3, <1>4

LEMMA MethodTyped ==
    ASSUME NEW e \in Engines, NEW p \in Protocols, NEW n \in Nat,
           NEW name \in MethodName \cup Protocols, NEW on \in BOOLEAN, NEW settings,
           settings.port \in Nat, settings.path \in PathType
    PROVE  /\ MethodOf(e, p, n, name, on, settings) \in MethodRecord
           /\ MethodOf(e, p, n, name, on, settings).engine = e
           /\ MethodOf(e, p, n, name, on, settings).n = n
           /\ MethodOf(e, p, n, name, on, settings).protocol = p
BY DEF MethodOf, MethodRecord

LEMMA SettingsTyped ==
    ASSUME NEW settings \in Settings
    PROVE  settings.port \in Nat /\ settings.path \in PathType
BY MethodsAssumption DEF Settings, PathType

(* save(), without an id and with one.                                      *)
LEMMA SaveNewKeeps ==
    ASSUME MethodsInv, NEW m \in MethodRecord, m.n = methodEdits + 1, SaveNew(m)
    PROVE  MethodsInv'
<1>1. list = methodSetting BY ListIsStored
<1>2. /\ methodEdits \in Nat /\ ListFits(methodSetting, methodEdits) BY DEF MethodsInv
<1>3. Permitted(m, Elements) /\ methodSetting' = Append(methodSetting, m)
      /\ methodEdits' = methodEdits + 1 /\ enginesHere' = enginesHere
  BY <1>1 DEF SaveNew, Commit, Counted
<1>4. MethodFits(m) BY <1>3, PermittedFits
<1>5. ASSUME NEW i \in DOMAIN methodSetting PROVE Apart(m, methodSetting[i])
  <2>1. methodSetting[i] \in Elements BY <1>1 DEF Elements
  <2>2. methodSetting[i].n # m.n
    <3>1. methodSetting[i].n \in Nat BY <1>2, FitsDomain DEF MethodRecord
    <3>2. methodSetting[i].n <= methodEdits BY <1>2 DEF ListFits
    <3> QED BY <1>2, <3>1, <3>2
  <2> QED BY <1>3, <2>1, <2>2, PermittedFits
<1>6. ListFits(methodSetting', methodEdits')
  <2>1. ListFits(Append(methodSetting, m), methodEdits + 1)
    BY <1>2, <1>4, <1>5, AppendFits
  <2> QED BY <1>3, <2>1
<1> QED BY <1>2, <1>3, <1>6 DEF MethodsInv

LEMMA SaveAgainKeeps ==
    ASSUME MethodsInv, NEW i \in DOMAIN list, NEW m \in MethodRecord,
           m.n = list[i].n, m.protocol = list[i].protocol, SaveAgain(i, m)
    PROVE  MethodsInv'
<1>1. list = methodSetting BY ListIsStored
<1>2. /\ methodEdits \in Nat /\ ListFits(methodSetting, methodEdits) BY DEF MethodsInv
<1>3. /\ Permitted(m, {list[k] : k \in DOMAIN list \ {i}})
      /\ methodSetting' = [methodSetting EXCEPT ![i] = m]
      /\ methodEdits' = methodEdits + 1 /\ enginesHere' = enginesHere
  BY <1>1 DEF SaveAgain, Commit, Counted
<1>4. MethodFits(m) BY <1>3, PermittedFits
<1>5. ASSUME NEW k \in DOMAIN methodSetting \ {i} PROVE Apart(m, methodSetting[k])
  <2>1. methodSetting[k] \in {list[j] : j \in DOMAIN list \ {i}} BY <1>1
  <2>2. m.n = methodSetting[k].n => m.n = 0 /\ m.protocol # methodSetting[k].protocol
    <3>1. Apart(methodSetting[i], methodSetting[k]) BY <1>1, <1>2 DEF ListFits
    <3> QED BY <1>1, <3>1 DEF Apart
  <2> QED BY <1>3, <2>1, <2>2, PermittedFits
<1>6. ListFits(methodSetting', methodEdits')
  <2>1. ListFits([methodSetting EXCEPT ![i] = m], methodEdits + 1)
    BY <1>1, <1>2, <1>4, <1>5, ReplaceFits
  <2> QED BY <1>3, <2>1
<1> QED BY <1>2, <1>3, <1>6 DEF MethodsInv

LEMMA SavesKeep ==
    ASSUME MethodsInv, Saves
    PROVE  MethodsInv'
<1>1. PICK name \in MethodName, on \in BOOLEAN :
        \/ \E e \in Engines, p \in Protocols :
              \E settings \in Settings \cup {Suggested(e, p)} :
                  SaveNew(MethodOf(e, p, methodEdits + 1, name, on, settings))
        \/ \E i \in DOMAIN list :
              \E settings \in Settings \cup {[port |-> list[i].port, path |-> list[i].path]},
                 kept \in {name, list[i].name} :
                  SaveAgain(i, MethodOf(list[i].engine, list[i].protocol, list[i].n,
                                        kept, on, settings))
  BY DEF Saves
<1>2. CASE \E e \in Engines, p \in Protocols :
              \E settings \in Settings \cup {Suggested(e, p)} :
                  SaveNew(MethodOf(e, p, methodEdits + 1, name, on, settings))
  <2>1. PICK e \in Engines, p \in Protocols :
              \E settings \in Settings \cup {Suggested(e, p)} :
                  SaveNew(MethodOf(e, p, methodEdits + 1, name, on, settings))
    BY <1>2
  <2>2. PICK settings \in Settings \cup {Suggested(e, p)} :
            SaveNew(MethodOf(e, p, methodEdits + 1, name, on, settings))
    BY <2>1
  <2>3. settings.port \in Nat /\ settings.path \in PathType
    <3>1. CASE settings \in Settings BY <3>1, SettingsTyped
    <3>2. CASE settings = Suggested(e, p) BY <3>2, SuggestedFree, SettingsAre
    <3> QED BY <3>1, <3>2
  <2>4. methodEdits + 1 \in Nat /\ name \in MethodName \cup Protocols BY DEF MethodsInv
  <2>5. PICK m : m = MethodOf(e, p, methodEdits + 1, name, on, settings) OBVIOUS
  <2>6. m \in MethodRecord /\ m.n = methodEdits + 1 BY <2>3, <2>4, <2>5, MethodTyped
  <2> QED BY <2>2, <2>5, <2>6, SaveNewKeeps
<1>3. CASE \E i \in DOMAIN list :
              \E settings \in Settings \cup {[port |-> list[i].port, path |-> list[i].path]},
                 kept \in {name, list[i].name} :
                  SaveAgain(i, MethodOf(list[i].engine, list[i].protocol, list[i].n,
                                        kept, on, settings))
  <2>1. PICK i \in DOMAIN list :
              \E settings \in Settings \cup {[port |-> list[i].port, path |-> list[i].path]},
                 kept \in {name, list[i].name} :
                  SaveAgain(i, MethodOf(list[i].engine, list[i].protocol, list[i].n,
                                        kept, on, settings))
    BY <1>3
  <2>2. PICK settings \in Settings \cup {[port |-> list[i].port, path |-> list[i].path]},
             kept \in {name, list[i].name} :
            SaveAgain(i, MethodOf(list[i].engine, list[i].protocol, list[i].n, kept, on, settings))
    BY <2>1
  <2>3. list[i] \in MethodRecord BY ListIsStored, FitsDomain DEF MethodsInv
  <2>4. settings.port \in Nat /\ settings.path \in PathType
    <3>1. CASE settings \in Settings BY <3>1, SettingsTyped
    <3>2. CASE settings = [port |-> list[i].port, path |-> list[i].path]
      BY <2>3, <3>2 DEF MethodRecord
    <3> QED BY <3>1, <3>2
  <2>5. /\ list[i].engine \in Engines /\ list[i].protocol \in Protocols /\ list[i].n \in Nat
        /\ kept \in MethodName \cup Protocols
    BY <2>3 DEF MethodRecord
  <2>6. PICK m : m = MethodOf(list[i].engine, list[i].protocol, list[i].n, kept, on, settings)
    OBVIOUS
  <2>7. m \in MethodRecord /\ m.n = list[i].n /\ m.protocol = list[i].protocol
    BY <2>4, <2>5, <2>6, MethodTyped
  <2> QED BY <2>2, <2>6, <2>7, SaveAgainKeeps
<1> QED BY <1>1, <1>2, <1>3

LEMMA RemoveKeeps ==
    ASSUME MethodsInv, NEW j \in DOMAIN list, RemoveMethod(j)
    PROVE  MethodsInv'
<1> DEFINE len == Len(methodSetting) - 1
           f == [i \in 1..len |-> IF i < j THEN i ELSE i + 1]
           next == [i \in 1..len |-> methodSetting[IF i < j THEN i ELSE i + 1]]
<1>1. list = methodSetting BY ListIsStored
<1>2. methodEdits \in Nat /\ ListFits(methodSetting, methodEdits) BY DEF MethodsInv
<1>3. /\ Len(methodSetting) \in Nat /\ DOMAIN methodSetting = 1..Len(methodSetting)
  BY <1>2, FitsDomain
<1>4. len \in Nat /\ j \in 1..(len + 1) BY <1>1, <1>3
<1>5. /\ methodSetting' = next
      /\ methodEdits' = methodEdits + 1 /\ enginesHere' = enginesHere
  BY <1>1 DEF RemoveMethod, Commit, Counted
<1>6. f \in [1..len -> DOMAIN methodSetting] BY <1>3, <1>4
<1>7. \A i, k \in 1..len : i # k => f[i] # f[k] BY <1>4
<1>8. next = [i \in 1..len |-> next[i]] /\ \A i \in 1..len : next[i] = methodSetting[f[i]]
  OBVIOUS
<1>9. ListFits(next, methodEdits + 1)
  <2> HIDE DEF next, f, len
  <2> QED BY <1>2, <1>4, <1>6, <1>7, <1>8, PlacesFit, SMTT(60)
<1> HIDE DEF next
<1> QED BY <1>2, <1>5, <1>9 DEF MethodsInv

LEMMA ReorderKeeps ==
    ASSUME MethodsInv, NEW f, ReorderMethods(f)
    PROVE  MethodsInv'
<1> DEFINE len == Len(methodSetting)
           next == [i \in DOMAIN methodSetting |-> methodSetting[f[i]]]
<1>1. list = methodSetting BY ListIsStored
<1>2. methodEdits \in Nat /\ ListFits(methodSetting, methodEdits) BY DEF MethodsInv
<1>3. len \in Nat /\ DOMAIN methodSetting = 1..len BY <1>2, FitsDomain
<1>4. /\ methodSetting' = next
      /\ methodEdits' = methodEdits + 1 /\ enginesHere' = enginesHere
  BY <1>1 DEF ReorderMethods, Commit, Counted
<1>7. /\ f \in [1..len -> DOMAIN methodSetting]
      /\ \A i, k \in 1..len : i # k => f[i] # f[k]
  <2> HIDE DEF len
  <2> QED BY <1>1, <1>3 DEF ReorderMethods
<1>8. next = [i \in 1..len |-> next[i]] /\ \A i \in 1..len : next[i] = methodSetting[f[i]]
  <2> HIDE DEF len
  <2> QED BY <1>3
<1>9. ListFits(next, methodEdits + 1)
  <2> HIDE DEF next, len
  <2> QED BY <1>2, <1>3, <1>7, <1>8, PlacesFit, SMTT(60)
<1> HIDE DEF next
<1> QED BY <1>2, <1>4, <1>9 DEF MethodsInv

LEMMA EnginesKeep ==
    ASSUME MethodsInv, NEW e \in Engines, InstallsEngine(e) \/ MissesEngine(e)
    PROVE  MethodsInv'
<1>1. methodSetting' = methodSetting /\ methodEdits' = methodEdits + 1 /\ methodEdits \in Nat
  BY DEF InstallsEngine, MissesEngine, Counted, MethodsInv
<1>2. requiredEngineIds \subseteq enginesHere' /\ enginesHere' \subseteq Engines
  BY DEF InstallsEngine, MissesEngine, MethodsInv
<1>3. ListFits(methodSetting, methodEdits + 1)
  <2>1. \A i \in DOMAIN methodSetting : methodSetting[i].n \in Nat
    BY FitsDomain DEF MethodsInv, MethodRecord
  <2> QED BY <1>1, <2>1 DEF MethodsInv, ListFits
<1> QED BY <1>1, <1>2, <1>3 DEF MethodsInv

-----------------------------------------------------------------------------
(* The methods of the migration.                                           *)

Default(e, p) == MethodOf(e, p, 0, p, TRUE, methodSettings(e, p))

DefaultMethod(m) == \E e \in Engines : \E p \in Defaults(e) : m = Default(e, p)

DefaultList(ms, ps) ==
    /\ ms \in Seq(MethodRecord)
    /\ \A i \in DOMAIN ms : DefaultMethod(ms[i]) /\ ms[i].protocol \in ps
    /\ \A i, k \in DOMAIN ms : i # k => ms[i].protocol # ms[k].protocol

DefaultRow(m) ==
    \/ m.engine = "hysteria" /\ m.protocol = "hysteria2" /\ m.port = 443 /\ m.path = NoPath
    \/ m.engine = "xray" /\ m.protocol = "xhttp" /\ m.port = 443 /\ m.path = "/edge"
    \/ m.engine = "xray" /\ m.protocol = "grpc" /\ m.port = 443 /\ m.path = "edge"
    \/ m.engine = "mihomo" /\ m.protocol = "anytls" /\ m.port = 1443 /\ m.path = NoPath
    \/ m.engine = "mihomo" /\ m.protocol = "trusttunnel" /\ m.port = 2443 /\ m.path = NoPath
    \/ m.engine = "sing-box" /\ m.protocol = "naive" /\ m.port = 3443 /\ m.path = NoPath
    \/ m.engine = "amneziawg" /\ m.protocol = "amneziawg" /\ m.port = 51820 /\ m.path = NoPath

(* The table of engines.json, with the settings it gives.                   *)
LEMMA DefaultRows ==
    ASSUME NEW m, DefaultMethod(m)
    PROVE  /\ m \in MethodRecord /\ m.n = 0 /\ m.name = m.protocol
           /\ DefaultRow(m)
<1>1. PICK e \in Engines : \E p \in Defaults(e) : m = Default(e, p) BY DEF DefaultMethod
<1>2. PICK p \in Defaults(e) : m = Default(e, p) BY <1>1
<1>3. p \in Protocols BY EngineNames, DefaultsAre, ProtocolNames
<1>4. PICK settings : settings = methodSettings(e, p) OBVIOUS
<1>5. /\ settings.port \in Nat /\ settings.path \in PathType /\ settings.path = paths[p]
      /\ settings.port = IF managedEdge(e) THEN 443 ELSE protocolPort[p] + 0
  <2>1. settings.port \in Nat /\ settings.path \in PathType /\ settings.path = paths[p]
    BY <1>3, <1>4, SettingsAre
  <2>2. settings.port = IF managedEdge(e) THEN 443 ELSE protocolPort[p] + 0
    BY <1>4 DEF methodSettings
  <2> QED BY <2>1, <2>2
<1>6. m = MethodOf(e, p, 0, p, TRUE, settings) BY <1>2, <1>4 DEF Default
<1>7. /\ m.engine = e /\ m.protocol = p /\ m.n = 0 /\ m.name = p
      /\ m.port = settings.port /\ m.path = settings.path
  BY <1>6 DEF MethodOf
<1>8. m \in MethodRecord BY <1>3, <1>5, <1>6, MethodTyped
<1>9. \/ e = "hysteria" /\ p = "hysteria2"
      \/ e = "xray" /\ p \in {"xhttp", "grpc"}
      \/ e = "mihomo" /\ p \in {"anytls", "trusttunnel"}
      \/ e = "sing-box" /\ p = "naive"
      \/ e = "amneziawg" /\ p = "amneziawg"
  BY EngineNames, DefaultsAre
<1>10. /\ m.engine = e /\ m.protocol = p /\ m.path = paths[p]
       /\ m.port = IF e = "xray" THEN 443 ELSE protocolPort[p] + 0
  BY <1>5, <1>7 DEF managedEdge
<1> QED BY <1>7, <1>8, <1>9, <1>10, PortsAre, PathsAre DEF DefaultRow

(* They fit, alone and beside each other: their protocols differ.           *)
LEMMA DefaultFits ==
    ASSUME NEW m, DefaultMethod(m)
    PROVE  MethodFits(m)
<1>1. DefaultRow(m) BY DefaultRows
<1>2. m.protocol \in engineCapabilities(m.engine)
  BY <1>1 DEF DefaultRow, engineCapabilities
<1>3. managedEdge(m.engine) => m.port = 443 /\ m.path = paths[m.protocol]
  BY <1>1, PathsAre DEF DefaultRow, managedEdge
<1>4. ~managedEdge(m.engine) => m.port >= 1024 \/ (m.engine = "hysteria" /\ m.port = 443)
  BY <1>1 DEF DefaultRow, managedEdge
<1>5. m.port \notin reservedPorts BY <1>1, ReservedAre DEF DefaultRow
<1>6. PathFits(m) BY <1>1 DEF DefaultRow, PathFits, XhttpPath, GrpcPath
<1> QED BY <1>2, <1>3, <1>4, <1>5, <1>6 DEF MethodFits

LEMMA DefaultsApart ==
    ASSUME NEW m, NEW q, DefaultMethod(m), DefaultMethod(q), m.protocol # q.protocol
    PROVE  Apart(m, q)
<1>1. DefaultRow(m) /\ DefaultRow(q) BY DefaultRows
<1>2. q.name # m.name /\ (m.n = q.n => m.n = 0 /\ m.protocol # q.protocol)
  BY DefaultRows
<1>3. singletonEngine(m.engine) => q.engine # m.engine
  BY <1>1 DEF DefaultRow, singletonEngine
<1>4. <<q.engine, q.protocol>> # <<m.engine, m.protocol>> OBVIOUS
<1>5. Clash(m, q) => managedEdge(q.engine) /\ managedEdge(m.engine)
  BY <1>1 DEF DefaultRow, Clash, Network, managedEdge
<1> QED BY <1>2, <1>3, <1>4, <1>5 DEF Apart

LEMMA FirstList ==
    ASSUME NEW e \in Engines, NEW here
    PROVE  DefaultList(FirstMethods(e, here), Defaults(e))
<1> DEFINE ms == FirstMethods(e, here)
<1>1. CASE e \notin here
  <2>1. ms = <<>> BY <1>1 DEF FirstMethods
  <2>2. ms \in Seq(MethodRecord) /\ DOMAIN ms = {} BY <2>1
  <2> QED BY <2>2 DEF DefaultList
<1>2. CASE e \in here
  <2>1. PICK ps : ps = DefaultProtocols(e) OBVIOUS
  <2>2. /\ \E n \in Nat : DOMAIN ps = 1..n
        /\ \A i, k \in DOMAIN ps : i # k => ps[i] # ps[k]
    <3>1. \/ ps = <<"hysteria2">> \/ ps = <<"naive">> \/ ps = <<"amneziawg">>
          \/ ps = <<"xhttp", "grpc">> \/ ps = <<"anytls", "trusttunnel">>
      BY <2>1, EngineNames DEF DefaultProtocols
    <3>2. ASSUME NEW p, ps = <<p>> PROVE DOMAIN ps = 1..1 BY <3>2
    <3>3. ASSUME NEW p, NEW q, ps = <<p, q>>, p # q
          PROVE  DOMAIN ps = 1..2 /\ ps[1] # ps[2]
      BY <3>3
    <3>4. DOMAIN ps = 1..1 \/ (DOMAIN ps = 1..2 /\ ps[1] # ps[2]) BY <3>1, <3>2, <3>3
    <3>5. CASE DOMAIN ps = 1..1 BY <3>5
    <3>6. CASE DOMAIN ps = 1..2 /\ ps[1] # ps[2]
      <4>1. \A i \in DOMAIN ps : i = 1 \/ i = 2 BY <3>6
      <4> QED BY <3>6, <4>1
    <3> QED BY <3>4, <3>5, <3>6
  <2>3. ms = [k \in DOMAIN ps |-> Default(e, ps[k])]
    BY <1>2, <2>1 DEF FirstMethods, Default
  <2>4. PICK n \in Nat : DOMAIN ps = 1..n BY <2>2
  <2>5. ASSUME NEW i \in DOMAIN ps
        PROVE  /\ DefaultMethod(ms[i]) /\ ms[i].protocol = ps[i] /\ ps[i] \in Defaults(e)
               /\ ms[i] \in MethodRecord
    <3>1. ps[i] \in Defaults(e) BY <2>1 DEF Defaults
    <3>2. ms[i] = Default(e, ps[i]) BY <2>3
    <3>3. DefaultMethod(ms[i])
      <4> HIDE DEF ms
      <4> QED BY <3>1, <3>2 DEF DefaultMethod
    <3>4. ms[i].protocol = ps[i]
      <4> HIDE DEF ms
      <4> QED BY <3>2 DEF Default, MethodOf
    <3>5. ms[i] \in MethodRecord
      <4> HIDE DEF ms
      <4> QED BY <3>3, DefaultRows
    <3> QED BY <3>1, <3>3, <3>4, <3>5
  <2>6. DOMAIN ms = DOMAIN ps BY <2>3
  <2>7. ms \in [1..n -> MethodRecord]
    <3>1. ms = [k \in 1..n |-> Default(e, ps[k])] BY <2>3, <2>4
    <3>2. \A k \in 1..n : ms[k] \in MethodRecord BY <2>4, <2>5
    <3>3. \A k \in 1..n : Default(e, ps[k]) \in MethodRecord BY <3>1, <3>2
    <3> QED BY <3>1, <3>3
  <2>8. ms \in Seq(MethodRecord)
    <3> HIDE DEF ms
    <3> QED BY <2>7
  <2>9. \A i \in DOMAIN ms : DefaultMethod(ms[i]) /\ ms[i].protocol \in Defaults(e)
    <3> HIDE DEF ms
    <3> QED BY <2>5, <2>6
  <2>10. \A i, k \in DOMAIN ms : i # k => ms[i].protocol # ms[k].protocol
    <3> HIDE DEF ms
    <3> QED BY <2>2, <2>5, <2>6
  <2> HIDE DEF ms
  <2>11. DefaultList(ms, Defaults(e)) BY <2>8, <2>9, <2>10 DEF DefaultList
  <2> QED BY <2>11 DEF ms
<1> QED BY <1>1, <1>2

LEMMA JoinedList ==
    ASSUME NEW s, NEW ps, NEW t, NEW qs, DefaultList(s, ps), DefaultList(t, qs),
           ps \cap qs = {}
    PROVE  DefaultList(s \o t, ps \cup qs)
<1> DEFINE j == s \o t
<1>1. s \in Seq(MethodRecord) /\ t \in Seq(MethodRecord) BY DEF DefaultList
<1>2. /\ Len(s) \in Nat /\ DOMAIN s = 1..Len(s)
      /\ Len(t) \in Nat /\ DOMAIN t = 1..Len(t)
  BY <1>1, LenProperties
<1>3. /\ j \in Seq(MethodRecord) /\ Len(j) = Len(s) + Len(t)
      /\ \A i \in 1..(Len(s) + Len(t)) : j[i] = IF i <= Len(s) THEN s[i] ELSE t[i - Len(s)]
  BY <1>1, ConcatProperties
<1>4. DOMAIN j = 1..(Len(s) + Len(t)) BY <1>3, LenProperties
<1> HIDE DEF j
<1>5. ASSUME NEW i \in DOMAIN j
      PROVE  \/ i \in DOMAIN s /\ j[i] = s[i]
             \/ i \notin DOMAIN s /\ i - Len(s) \in DOMAIN t /\ j[i] = t[i - Len(s)]
  BY <1>2, <1>3, <1>4
<1>6. ASSUME NEW i \in DOMAIN j
      PROVE  DefaultMethod(j[i]) /\ j[i].protocol \in ps \cup qs
  BY <1>5 DEF DefaultList
<1>7. ASSUME NEW i \in DOMAIN j, NEW k \in DOMAIN j, i # k
      PROVE  j[i].protocol # j[k].protocol
  <2>1. CASE i \in DOMAIN s /\ k \in DOMAIN s BY <1>5, <1>7, <2>1 DEF DefaultList
  <2>2. CASE i \in DOMAIN s /\ k \notin DOMAIN s BY <1>5, <2>2 DEF DefaultList
  <2>3. CASE i \notin DOMAIN s /\ k \in DOMAIN s BY <1>5, <2>3 DEF DefaultList
  <2>4. CASE i \notin DOMAIN s /\ k \notin DOMAIN s
    <3>1. i - Len(s) # k - Len(s) BY <1>2, <1>4, <1>7
    <3> QED BY <1>5, <2>4, <3>1 DEF DefaultList
  <2> QED BY <2>1, <2>2, <2>3, <2>4
<1>8. DefaultList(j, ps \cup qs) BY <1>3, <1>6, <1>7 DEF DefaultList
<1> QED BY <1>8 DEF j

(* The list of the migration, engine by engine.                            *)
LEMMA DefaultsFit ==
    ASSUME NEW here
    PROVE  ListFits(defaultMethods(here), 0)
<1> DEFINE F(e) == FirstMethods(e, here)
<1>1. /\ DefaultList(F("hysteria"), {"hysteria2"}) /\ DefaultList(F("xray"), {"xhttp", "grpc"})
      /\ DefaultList(F("mihomo"), {"anytls", "trusttunnel"})
      /\ DefaultList(F("sing-box"), {"naive"}) /\ DefaultList(F("amneziawg"), {"amneziawg"})
  <2>1. \A e \in Engines : DefaultList(F(e), Defaults(e)) BY FirstList
  <2> HIDE DEF F
  <2> QED BY <2>1, EngineNames, DefaultsAre
<1> HIDE DEF F
<1>2. DefaultList(F("hysteria") \o F("xray"), {"hysteria2"} \cup {"xhttp", "grpc"})
  <2>1. {"hysteria2"} \cap {"xhttp", "grpc"} = {} OBVIOUS
  <2> QED BY <1>1, <2>1, JoinedList
<1>3. PICK s2, p2 : s2 = F("hysteria") \o F("xray") /\ p2 = {"hysteria2"} \cup {"xhttp", "grpc"}
  OBVIOUS
<1>4. DefaultList(s2 \o F("mihomo"), p2 \cup {"anytls", "trusttunnel"})
  <2>1. p2 \cap {"anytls", "trusttunnel"} = {} BY <1>3
  <2>2. DefaultList(s2, p2) BY <1>2, <1>3
  <2> QED BY <1>1, <2>1, <2>2, JoinedList
<1>5. PICK s3, p3 : s3 = s2 \o F("mihomo") /\ p3 = p2 \cup {"anytls", "trusttunnel"}
  OBVIOUS
<1>6. DefaultList(s3 \o F("sing-box"), p3 \cup {"naive"})
  <2>1. p3 \cap {"naive"} = {} BY <1>3, <1>5
  <2>2. DefaultList(s3, p3) BY <1>4, <1>5
  <2> QED BY <1>1, <2>1, <2>2, JoinedList
<1>7. PICK s4, p4 : s4 = s3 \o F("sing-box") /\ p4 = p3 \cup {"naive"} OBVIOUS
<1>8. DefaultList(s4 \o F("amneziawg"), p4 \cup {"amneziawg"})
  <2>1. p4 \cap {"amneziawg"} = {} BY <1>3, <1>5, <1>7
  <2>2. DefaultList(s4, p4) BY <1>6, <1>7
  <2> QED BY <1>1, <2>1, <2>2, JoinedList
<1>9. PICK ms : ms = defaultMethods(here) OBVIOUS
<1>10. ms = s4 \o F("amneziawg") BY <1>3, <1>5, <1>7, <1>9 DEF defaultMethods, F
<1>11. PICK ps : DefaultList(ms, ps) BY <1>8, <1>10
<1>12. \A i \in DOMAIN ms : MethodFits(ms[i]) /\ ms[i].n <= 0
  BY <1>11, DefaultFits, DefaultRows DEF DefaultList
<1>13. \A i, k \in DOMAIN ms : i # k => Apart(ms[i], ms[k])
  BY <1>11, DefaultsApart DEF DefaultList
<1>14. ListFits(ms, 0) BY <1>11, <1>12, <1>13 DEF DefaultList, ListFits
<1> QED BY <1>9, <1>14

LEMMA MethodsInits == MethodsInit => MethodsInv
<1> SUFFICES ASSUME MethodsInit PROVE MethodsInv OBVIOUS
<1>1. requiredEngineIds \subseteq Engines BY EngineNames DEF requiredEngineIds
<1>2. requiredEngineIds \subseteq enginesHere /\ enginesHere \subseteq Engines
  BY <1>1, MethodsAssumption DEF MethodsInit
<1>3. methodEdits = 0 /\ ListFits(methodSetting, 0) BY DefaultsFit DEF MethodsInit
<1> QED BY <1>2, <1>3 DEF MethodsInv

LEMMA MethodsSteps == MethodsInv /\ [MethodsNext]_methodVars => MethodsInv'
<1> SUFFICES ASSUME MethodsInv, [MethodsNext]_methodVars PROVE MethodsInv' OBVIOUS
<1>1. CASE Saves BY <1>1, SavesKeep
<1>2. ASSUME NEW i \in DOMAIN list, RemoveMethod(i) PROVE MethodsInv' BY <1>2, RemoveKeeps
<1>3. ASSUME NEW places, ReorderMethods(places) PROVE MethodsInv' BY <1>3, ReorderKeeps
<1>4. ASSUME NEW e \in Engines, InstallsEngine(e) \/ MissesEngine(e) PROVE MethodsInv'
  BY <1>4, EnginesKeep
<1>5. CASE UNCHANGED methodVars
  <2>1. /\ methodSetting' = methodSetting /\ methodEdits' = methodEdits
        /\ enginesHere' = enginesHere
    BY <1>5 DEF methodVars
  <2> QED BY <2>1 DEF MethodsInv
<1> QED BY <1>1, <1>2, <1>3, <1>4, <1>5 DEF MethodsNext

-----------------------------------------------------------------------------
(* What is listened on and what is offered.                                *)

LEMMA ListFacts ==
    ASSUME MethodsInv
    PROVE  /\ IsFiniteSet(DOMAIN list) /\ DOMAIN list \subseteq Nat
           /\ \A i \in DOMAIN list :
                /\ list[i] \in MethodRecord /\ MethodFits(list[i])
                /\ list[i].engine \in Engines /\ list[i].protocol \in Protocols
           /\ \A i, k \in DOMAIN list : i # k => Apart(list[i], list[k])
<1>1. list = methodSetting BY ListIsStored
<1>2. ListFits(methodSetting, methodEdits) BY DEF MethodsInv
<1>3. PICK n \in Nat : DOMAIN methodSetting = 1..n BY <1>2, FitsDomain
<1>4. IsFiniteSet(1..n)
  <2>1. 1 \in Int /\ n \in Int OBVIOUS
  <2> QED BY <2>1, FS_Interval
<1>5. IsFiniteSet(DOMAIN list) /\ DOMAIN list \subseteq Nat BY <1>1, <1>3, <1>4
<1>6. \A i \in DOMAIN list : list[i] \in MethodRecord /\ MethodFits(list[i])
  BY <1>1, <1>2, FitsDomain DEF ListFits
<1>7. \A i \in DOMAIN list : list[i].engine \in Engines /\ list[i].protocol \in Protocols
  BY <1>6 DEF MethodRecord
<1>8. \A i, k \in DOMAIN list : i # k => Apart(list[i], list[k]) BY <1>1, <1>2 DEF ListFits
<1> QED BY <1>5, <1>6, <1>7, <1>8

LEMMA FirstOf ==
    ASSUME NEW S, S \subseteq Nat, S # {}
    PROVE  First(S) \in S
<1> DEFINE L == OpToRel(<, Nat)
<1>1. PICK i \in S : \A k \in S : ~ (<<k, i>> \in L)
  BY NatLessThanWellFounded, WFMin
<1>2. \A k \in S : i <= k
  <2> TAKE k \in S
  <2>1. ~ (<<k, i>> \in L)
    <3> HIDE DEF L
    <3> QED BY <1>1
  <2>2. ~ (k < i) BY <2>1 DEF OpToRel
  <2> QED BY <2>2
<1> QED BY <1>2 DEF First

(* A protocol's path, and the place of an engine that has one listener.    *)
LEMMA MethodPath ==
    ASSUME NEW m \in MethodRecord, MethodFits(m)
    PROVE  m.protocol \notin {"xhttp", "grpc"} => m.path = NoPath
BY DEF MethodFits, PathFits

LEMMA SingleProtocol ==
    ASSUME NEW m \in MethodRecord, MethodFits(m), singletonEngine(m.engine)
    PROVE  m.protocol = DefaultProtocols(m.engine)[1] /\ m.path = NoPath
<1>1. \/ m.engine = "hysteria" /\ m.protocol = "hysteria2"
      \/ m.engine = "amneziawg" /\ m.protocol = "amneziawg"
  BY DEF MethodFits, singletonEngine, engineCapabilities
<1>2. DefaultProtocols("hysteria")[1] = "hysteria2"
      /\ DefaultProtocols("amneziawg")[1] = "amneziawg"
  BY DEF DefaultProtocols
<1> QED BY <1>1, <1>2, MethodPath

MethodListener(i) ==
    Listener(i, list[i].protocol, list[i].port, list[i].path, FALSE)

(* Outside the managed edge an engine listens for each of its methods: of   *)
(* those with one listener there is one method.                             *)
LEMMA ListenersAre ==
    ASSUME MethodsInv, NEW e \in Engines, ~ managedEdge(e)
    PROVE  renderEngine(e) = {MethodListener(i) : i \in Selected(e)}
<1>1. CASE singletonEngine(e)
  <2>1. CASE Selected(e) = {}
    <3>1. renderEngine(e) = {} BY <1>1, <2>1 DEF renderEngine
    <3> QED BY <2>1, <3>1
  <2>2. CASE Selected(e) # {}
    <3>1. PICK i : i = First(Selected(e)) OBVIOUS
    <3>2. Selected(e) \subseteq DOMAIN list BY DEF Selected
    <3>3. i \in Selected(e)
      <4>1. Selected(e) \subseteq Nat BY <3>2, ListFacts
      <4> QED BY <2>2, <3>1, <4>1, FirstOf
    <3>4. /\ i \in DOMAIN list /\ list[i].engine = e /\ list[i] \in MethodRecord
          /\ MethodFits(list[i])
      BY <3>3, ListFacts DEF Selected
    <3>5. \A k \in Selected(e) : k = i
      <4>1. SUFFICES ASSUME NEW k \in Selected(e), k # i PROVE FALSE OBVIOUS
      <4>2. k \in DOMAIN list /\ list[k].engine = e BY DEF Selected
      <4>3. Apart(list[i], list[k]) BY <3>4, <4>1, <4>2, ListFacts
      <4> QED BY <1>1, <3>4, <4>2, <4>3 DEF Apart
    <3>6. renderEngine(e) = {Listener(i, DefaultProtocols(e)[1], list[i].port, NoPath, FALSE)}
      BY <1>1, <2>2, <3>1 DEF renderEngine
    <3>7. list[i].protocol = DefaultProtocols(e)[1] /\ list[i].path = NoPath
      BY <1>1, <3>4, SingleProtocol
    <3>8. MethodListener(i) = Listener(i, DefaultProtocols(e)[1], list[i].port, NoPath, FALSE)
      BY <3>7 DEF MethodListener
    <3>9. renderEngine(e) = {MethodListener(i)} BY <3>6, <3>8
    <3>10. Selected(e) = {i} BY <3>3, <3>5
    <3> QED BY <3>9, <3>10
  <2> QED BY <2>1, <2>2
<1>2. CASE ~ singletonEngine(e)
  <2>1. renderEngine(e) = methodListeners(e) BY <1>2 DEF renderEngine
  <2> QED BY <2>1 DEF methodListeners, MethodListener
<1> QED BY <1>1, <1>2

XhttpInbound == Listener(1, "xhttp", 10000, paths["xhttp"], TRUE)
GrpcInbound == Listener(2, "grpc", 10001, paths["grpc"], TRUE)

(* A method's own engine answers what is made of it.                       *)
LEMMA OfferedAnswers ==
    ASSUME MethodsInv, NEW i \in DOMAIN list, list[i].enabled, NEW out,
           out.protocol = list[i].protocol, out.port = list[i].port, out.path = list[i].path
    PROVE  Answers(list[i].engine, out)
<1> DEFINE m == list[i]
           e == m.engine
<1>1. /\ m \in MethodRecord /\ MethodFits(m) /\ e \in Engines BY ListFacts
<1>2. i \in Selected(e) BY DEF Selected
<1>3. CASE ~ managedEdge(e)
  <2>1. PICK l : l = MethodListener(i) OBVIOUS
  <2>2. l \in renderEngine(e)
    <3> HIDE DEF e
    <3>1. renderEngine(e) = {MethodListener(k) : k \in Selected(e)}
      BY <1>1, <1>3, ListenersAre
    <3> QED BY <1>2, <2>1, <3>1
  <2>3. l.type = m.protocol /\ l.path = m.path /\ l.port = m.port /\ l.local = FALSE
    BY <2>1 DEF MethodListener, Listener
  <2>4. <<l.port, Network(l.type)>> \in runtimePorts(e)
    <3> HIDE DEF e
    <3> QED BY <2>2, <2>3 DEF runtimePorts
  <2>5. \E x \in renderEngine(e) :
          /\ x.type = out.protocol /\ x.path = out.path
          /\ out.port = IF x.local THEN 443 ELSE x.port
    <3> HIDE DEF e
    <3> QED BY <2>2, <2>3
  <2>6. <<out.port, Network(out.protocol)>> \in runtimePorts(e) BY <2>3, <2>4
  <2> HIDE DEF e
  <2>7. Answers(e, out) BY <2>5, <2>6 DEF Answers
  <2> QED BY <2>7 DEF e
<1>4. CASE managedEdge(e)
  <2>1. e = "xray" BY <1>4 DEF managedEdge
  <2>2. /\ m.port = 443 /\ m.path = paths[m.protocol]
        /\ m.protocol = "xhttp" \/ m.protocol = "grpc"
    BY <1>1, <1>4, <2>1 DEF MethodFits, engineCapabilities
  <2>3. renderEngine("xray") = xrayInbounds
    BY DEF renderEngine, singletonEngine, managedEdge
  <2>4. PICK l \in {XhttpInbound, GrpcInbound} :
            l.type = m.protocol /\ l.path = m.path /\ l.local = TRUE
    <3>1. /\ XhttpInbound.type = "xhttp" /\ XhttpInbound.path = paths["xhttp"]
          /\ XhttpInbound.local = TRUE
          /\ GrpcInbound.type = "grpc" /\ GrpcInbound.path = paths["grpc"]
          /\ GrpcInbound.local = TRUE
      BY DEF XhttpInbound, GrpcInbound, Listener
    <3>2. CASE m.protocol = "xhttp" BY <2>2, <3>1, <3>2
    <3>3. CASE m.protocol = "grpc" BY <2>2, <3>1, <3>3
    <3> QED BY <2>2, <3>2, <3>3
  <2>5. l \in renderEngine("xray")
    <3>1. xrayInbounds = {x \in {XhttpInbound, GrpcInbound} :
                             \E k \in Selected("xray") : list[k].protocol = x.type}
      BY DEF xrayInbounds, XhttpInbound, GrpcInbound
    <3>2. i \in Selected("xray") /\ list[i].protocol = l.type BY <1>2, <2>1, <2>4
    <3> QED BY <2>3, <3>1, <3>2
  <2>6. <<443, "tcp">> \in runtimePorts("xray")
    BY <2>5 DEF runtimePorts, managedEdge
  <2>7. Network(out.protocol) = "tcp" BY <2>2 DEF Network
  <2>8. \E x \in renderEngine("xray") :
          /\ x.type = out.protocol /\ x.path = out.path
          /\ out.port = IF x.local THEN 443 ELSE x.port
    BY <2>2, <2>4, <2>5
  <2>9. <<out.port, Network(out.protocol)>> \in runtimePorts("xray")
    BY <2>2, <2>6, <2>7
  <2>10. Answers("xray", out) BY <2>8, <2>9 DEF Answers
  <2> QED BY <2>1, <2>10
<1> QED BY <1>3, <1>4

(* Which methods are in a file.                                            *)
LEMMA FileIs ==
    ASSUME MethodsInv, NEW offer, offer.profile \in Profiles, NEW outs, outs = Outbounds(offer)
    PROVE  /\ DOMAIN outs \subseteq compatibleMethods(offer)
           /\ \A i \in DOMAIN outs :
                /\ outs[i].label = Label(offer.profile, list[i])
                /\ outs[i].protocol = list[i].protocol
                /\ outs[i].port = list[i].port /\ outs[i].path = list[i].path
           /\ Transports(offer) = {outs[i].protocol : i \in DOMAIN outs}
<1> DEFINE all == compatibleMethods(offer)
           one == offer.profile \in {"naive", "amneziawg"}
<1>1. /\ DOMAIN outs = {k \in all : one => k = First(all)}
      /\ \A i \in DOMAIN outs :
            outs[i] = [label |-> Label(offer.profile, list[i]), protocol |-> list[i].protocol,
                       port |-> list[i].port, path |-> list[i].path]
  BY DEF Outbounds
<1>2. \A i \in DOMAIN outs :
         /\ outs[i].label = Label(offer.profile, list[i])
         /\ outs[i].protocol = list[i].protocol
         /\ outs[i].port = list[i].port /\ outs[i].path = list[i].path
  <2> TAKE i \in DOMAIN outs
  <2>1. PICK label, protocol, port, path :
            /\ label = Label(offer.profile, list[i]) /\ protocol = list[i].protocol
            /\ port = list[i].port /\ path = list[i].path
    OBVIOUS
  <2> HIDE DEF all, one
  <2>2. outs[i] = [label |-> label, protocol |-> protocol, port |-> port, path |-> path]
    BY <1>1, <2>1
  <2>3. /\ outs[i].label = label /\ outs[i].protocol = protocol
        /\ outs[i].port = port /\ outs[i].path = path
    BY <2>2
  <2> QED BY <2>1, <2>3
<1>3. Transports(offer) = {list[i].protocol : i \in all} BY DEF Transports
<1>4. {list[i].protocol : i \in all} = {outs[i].protocol : i \in DOMAIN outs}
  <2>1. CASE ~ one
    <3>1. DOMAIN outs = all BY <1>1, <2>1
    <3> HIDE DEF all
    <3> QED BY <1>2, <3>1
  <2>2. CASE one /\ all = {}
    <3>1. DOMAIN outs = {} BY <1>1, <2>2
    <3> HIDE DEF all
    <3> QED BY <2>2, <3>1
  <2>3. CASE one /\ all # {}
    <3>1. all \subseteq DOMAIN list BY DEF compatibleMethods
    <3>2. all \subseteq Nat BY <3>1, ListFacts
    <3>3. First(all) \in all
      <4> HIDE DEF all
      <4> QED BY <2>3, <3>2, FirstOf
    <3>4. DOMAIN outs = {First(all)}
      <4> HIDE DEF all
      <4> QED BY <1>1, <2>3, <3>3
    <3>5. \A i \in all : list[i].protocol \in clientProfiles(offer.profile)
      BY DEF compatibleMethods
    <3>6. \E p : clientProfiles(offer.profile) = {p}
      BY <2>3 DEF clientProfiles
    <3>7. PICK p : \A i \in all : list[i].protocol = p BY <3>5, <3>6
    <3> HIDE DEF all
    <3>8. {list[i].protocol : i \in all} = {p} BY <3>3, <3>7
    <3>9. {outs[i].protocol : i \in DOMAIN outs} = {p} BY <1>2, <3>3, <3>4, <3>7
    <3> QED BY <3>8, <3>9
  <2> QED BY <2>1, <2>2, <2>3
<1>5. DOMAIN outs \subseteq compatibleMethods(offer) BY <1>1
<1> QED BY <1>2, <1>3, <1>4, <1>5

(* No two entries of a file are called alike.                               *)
LEMMA LabelsDiffer ==
    ASSUME NEW m \in MethodRecord, NEW q \in MethodRecord, Apart(m, q), NEW profile
    PROVE  Label(profile, m) # Label(profile, q)
<1>1. m.n \in Nat /\ q.n \in Nat BY DEF MethodRecord
<1>2. m.name # q.name /\ (m.n = q.n => m.n = 0 /\ m.protocol # q.protocol) BY DEF Apart
<1>3. CASE profile \in {"mihomo", "mihomo-modern"}
  BY <1>2, <1>3 DEF Label
<1>4. CASE profile \notin {"mihomo", "mihomo-modern"}
  <2>1. /\ Label(profile, m)[2] = m.n /\ Label(profile, q)[2] = q.n
        /\ m.n = 0 => Label(profile, m)[1] = m.protocol
        /\ q.n = 0 => Label(profile, q)[1] = q.protocol
    BY <1>4 DEF Label
  <2> QED BY <1>2, <2>1
<1> QED BY <1>3, <1>4

(* An application's modern profile knows all its plain one does.            *)
LEMMA AppProfiles ==
    ASSUME NEW app \in applications
    PROVE  /\ app.format \in Profiles /\ app.modern \in Profiles
           /\ clientProfiles(app.format) \subseteq clientProfiles(app.modern)
           /\ app.modern # "modern"
<1>1. \/ app.format = "mihomo" /\ app.modern = "mihomo-modern"
      \/ app.format = "sing-box" /\ app.modern = "sing-box-modern"
      \/ app.format = "links" /\ app.modern = "links"
      \/ app.format = "xray-json" /\ app.modern = "xray-json"
  BY DEF applications
<1>2. /\ clientProfiles("mihomo") \subseteq clientProfiles("mihomo-modern")
      /\ clientProfiles("sing-box") \subseteq clientProfiles("sing-box-modern")
  BY DEF clientProfiles
<1> QED BY <1>1, <1>2 DEF Profiles

(* What the catalog picks for an application carries all it could.          *)
LEMMA CatalogWhole ==
    ASSUME MethodsInv, NEW app \in applications
    PROVE  /\ catalogProfile(app).profile \in Profiles
           /\ Transports(ApplicationProfile(app, "plain"))
                 \cup Transports(ApplicationProfile(app, "modern"))
              \subseteq Transports(catalogProfile(app))
<1> DEFINE plain == ApplicationProfile(app, "plain")
           modern == ApplicationProfile(app, "modern")
<1>1. /\ plain.profile = app.format /\ plain.protocols = Protocols
      /\ modern.profile = app.modern
      /\ modern.protocols = clientProfiles(app.format) \cup app.adds
  BY DEF ApplicationProfile
<1> HIDE DEF plain, modern
<1>2. compatibleMethods(plain) \subseteq compatibleMethods(modern)
  BY <1>1, AppProfiles DEF compatibleMethods
<1>3. Transports(plain) \subseteq Transports(modern) BY <1>2 DEF Transports
<1>4. IsFiniteSet(Transports(modern))
  <2>1. PICK f : f = [i \in compatibleMethods(modern) |-> list[i].protocol] OBVIOUS
  <2>2. f \in Surjection(compatibleMethods(modern), Transports(modern))
    BY <2>1 DEF Surjection, Transports
  <2>3. IsFiniteSet(compatibleMethods(modern))
    <3>1. compatibleMethods(modern) \subseteq DOMAIN list BY DEF compatibleMethods
    <3> QED BY <3>1, ListFacts, FS_Subset
  <2> QED BY <2>2, <2>3, FS_Surjection
<1>5. catalogProfile(app) = IF Cardinality(Transports(modern)) > Cardinality(Transports(plain))
                            THEN modern ELSE plain
  BY DEF catalogProfile, plain, modern
<1>6. CASE Cardinality(Transports(modern)) > Cardinality(Transports(plain))
  <2>1. catalogProfile(app) = modern BY <1>5, <1>6
  <2>2. Transports(plain) \cup Transports(modern) \subseteq Transports(catalogProfile(app))
    BY <1>3, <2>1
  <2>3. catalogProfile(app).profile \in Profiles BY <1>1, <2>1, AppProfiles
  <2> QED BY <2>2, <2>3 DEF plain, modern
<1>7. CASE ~ (Cardinality(Transports(modern)) > Cardinality(Transports(plain)))
  <2>1. catalogProfile(app) = plain BY <1>5, <1>7
  <2>2. Transports(plain) = Transports(modern)
    <3>1. IsFiniteSet(Transports(plain)) BY <1>3, <1>4, FS_Subset
    <3>2. /\ Cardinality(Transports(plain)) \in Nat /\ Cardinality(Transports(modern)) \in Nat
      BY <1>4, <3>1, FS_CardinalityType
    <3>3. Cardinality(Transports(plain)) <= Cardinality(Transports(modern))
      BY <1>3, <1>4, FS_Subset
    <3>4. Cardinality(Transports(plain)) = Cardinality(Transports(modern))
      BY <1>7, <3>2, <3>3
    <3> QED BY <1>3, <1>4, <3>4, FS_Subset
  <2>3. Transports(plain) \cup Transports(modern) \subseteq Transports(catalogProfile(app))
    BY <2>1, <2>2
  <2>4. catalogProfile(app).profile \in Profiles BY <1>1, <2>1, AppProfiles
  <2> QED BY <2>3, <2>4 DEF plain, modern
<1> QED BY <1>6, <1>7

(* What every offer promises.                                              *)
OfferServed(offer) ==
    LET outs == Outbounds(offer) IN
    /\ \A i, k \in DOMAIN outs : i # k => outs[i].label # outs[k].label
    /\ \A i \in DOMAIN outs : /\ list[i].engine \in enginesHere
                             /\ Answers(list[i].engine, outs[i])
    /\ Transports(offer) = {outs[i].protocol : i \in DOMAIN outs}

LEMMA OffersServedEach ==
    ASSUME MethodsInv, NEW offer \in Offers
    PROVE  OfferServed(offer)
<1>1. offer.profile \in Profiles
  <2>1. CASE \E app \in applications : offer = catalogProfile(app) BY <2>1, CatalogWhole
  <2>2. CASE \E p \in Profiles : offer = [profile |-> p, protocols |-> Protocols] BY <2>2
  <2> QED BY <2>1, <2>2 DEF Offers
<1>2. PICK outs : outs = Outbounds(offer) OBVIOUS
<1>3. /\ DOMAIN outs \subseteq compatibleMethods(offer)
      /\ \A i \in DOMAIN outs :
            /\ outs[i].label = Label(offer.profile, list[i])
            /\ outs[i].protocol = list[i].protocol
            /\ outs[i].port = list[i].port /\ outs[i].path = list[i].path
      /\ Transports(offer) = {outs[i].protocol : i \in DOMAIN outs}
  BY <1>1, <1>2, FileIs
<1>4. \A i \in DOMAIN outs :
         i \in DOMAIN list /\ list[i].enabled /\ list[i].engine \in enginesHere
  BY <1>3 DEF compatibleMethods
<1>5. ASSUME NEW i \in DOMAIN outs, NEW k \in DOMAIN outs, i # k
      PROVE  outs[i].label # outs[k].label
  <2>1. /\ list[i] \in MethodRecord /\ list[k] \in MethodRecord /\ Apart(list[i], list[k])
    BY <1>4, <1>5, ListFacts
  <2>2. Label(offer.profile, list[i]) # Label(offer.profile, list[k])
    BY <2>1, LabelsDiffer
  <2> QED BY <1>3, <2>2
<1>6. ASSUME NEW i \in DOMAIN outs
      PROVE  list[i].engine \in enginesHere /\ Answers(list[i].engine, outs[i])
  BY <1>3, <1>4, OfferedAnswers
<1> QED BY <1>2, <1>3, <1>5, <1>6 DEF OfferServed

(* The sockets that are there whatever the methods.                        *)
FixedSockets ==
    {<<"xray", 1, 10000, "tcp">>, <<"xray", 2, 10001, "tcp">>,
     <<"hysteria", 0, 9999, "tcp">>, <<"xray", 0, 10085, "tcp">>,
     <<"mihomo", 0, 9097, "tcp">>, <<"sing-box", 0, 10086, "tcp">>,
     <<"host", 1, 443, "tcp">>, <<"host", 2, 8181, "tcp">>, <<"host", 3, 8443, "tcp">>}

MethodSocket(i) == <<list[i].engine, i, list[i].port, Network(list[i].protocol)>>

LEMMA FixedApart ==
    ASSUME NEW s \in FixedSockets
    PROVE  /\ s[4] = "tcp" /\ s[3] \in reservedPorts \cup {443}
           /\ \A t \in FixedSockets : s # t => s[3] # t[3]
BY ReservedAre DEF FixedSockets

LEMMA SocketKinds ==
    ASSUME MethodsInv, NEW s \in Sockets
    PROVE  \/ s \in FixedSockets
           \/ \E i \in DOMAIN list : /\ s = MethodSocket(i) /\ list[i].enabled
                                     /\ ~ managedEdge(list[i].engine)
<1> DEFINE Ls == UNION {ListenerSockets(e) : e \in enginesHere}
           Apis == {<<e, 0, engineApi(e), "tcp">> : e \in enginesHere \cap WithApi}
           Hosts == {<<"host", 1, 443, "tcp">>, <<"host", 2, 8181, "tcp">>,
                     <<"host", 3, 8443, "tcp">>}
<1>1. CASE \E e \in enginesHere : \E l \in renderEngine(e) :
              s = <<e, l.at, l.port, Network(l.type)>>
  <2>0. PICK e \in enginesHere :
           \E l \in renderEngine(e) : s = <<e, l.at, l.port, Network(l.type)>>
    BY <1>1
  <2>1. PICK l \in renderEngine(e) : s = <<e, l.at, l.port, Network(l.type)>>
    BY <2>0
  <2>2. e \in Engines BY DEF MethodsInv
  <2>3. CASE ~ managedEdge(e)
    <3>1. PICK i \in Selected(e) : l = MethodListener(i) BY <2>2, <2>3, ListenersAre
    <3>2. i \in DOMAIN list /\ list[i].engine = e /\ list[i].enabled BY DEF Selected
    <3>3. l.at = i /\ l.port = list[i].port /\ l.type = list[i].protocol
      BY <3>1 DEF MethodListener, Listener
    <3>4. s = MethodSocket(i) BY <2>1, <3>2, <3>3 DEF MethodSocket
    <3> QED BY <2>3, <3>2, <3>4
  <2>4. CASE managedEdge(e)
    <3>1. e = "xray" BY <2>4 DEF managedEdge
    <3>2. renderEngine("xray") = xrayInbounds
      BY DEF renderEngine, singletonEngine, managedEdge
    <3>3. l \in {XhttpInbound, GrpcInbound}
      <4>1. xrayInbounds = {x \in {XhttpInbound, GrpcInbound} :
                               \E k \in Selected("xray") : list[k].protocol = x.type}
        BY DEF xrayInbounds, XhttpInbound, GrpcInbound
      <4> QED BY <3>1, <3>2, <4>1
    <3>4. CASE l = XhttpInbound
      <4>1. l.at = 1 /\ l.port = 10000 /\ l.type = "xhttp"
        BY <3>4 DEF XhttpInbound, Listener
      <4>2. Network("xhttp") = "tcp" BY DEF Network
      <4>3. s = <<"xray", 1, 10000, "tcp">> BY <2>1, <3>1, <4>1, <4>2
      <4> QED BY <4>3 DEF FixedSockets
    <3>5. CASE l = GrpcInbound
      <4>1. l.at = 2 /\ l.port = 10001 /\ l.type = "grpc"
        BY <3>5 DEF GrpcInbound, Listener
      <4>2. Network("grpc") = "tcp" BY DEF Network
      <4>3. s = <<"xray", 2, 10001, "tcp">> BY <2>1, <3>1, <4>1, <4>2
      <4> QED BY <4>3 DEF FixedSockets
    <3> QED BY <3>3, <3>4, <3>5
  <2> QED BY <2>3, <2>4
<1>2. CASE \E e \in WithApi : s = <<e, 0, engineApi(e), "tcp">>
  <2>1. PICK e \in WithApi : s = <<e, 0, engineApi(e), "tcp">> BY <1>2
  <2>2. e \in {"hysteria", "xray", "mihomo", "sing-box"} BY EngineNames DEF WithApi
  <2>3. /\ engineApi("hysteria") = 9999 /\ engineApi("xray") = 10085
        /\ engineApi("mihomo") = 9097 /\ engineApi("sing-box") = 10086
    BY DEF engineApi
  <2>4. s \in FixedSockets BY <2>1, <2>2, <2>3 DEF FixedSockets
  <2> QED BY <2>4
<1>3. CASE s \in Ls
  <2>1. PICK e \in enginesHere : s \in ListenerSockets(e) BY <1>3
  <2> QED BY <1>1, <2>1 DEF ListenerSockets
<1>4. CASE s \in Apis
  <2>1. PICK e \in enginesHere \cap WithApi : s = <<e, 0, engineApi(e), "tcp">>
    BY <1>4
  <2> QED BY <1>2, <2>1
<1>5. CASE s \in Hosts BY <1>5 DEF FixedSockets
<1>6. Sockets = Ls \cup Apis \cup Hosts BY DEF Sockets
<1> QED
  <2> HIDE DEF Ls, Apis, Hosts
  <2> QED BY <1>3, <1>4, <1>5, <1>6

(* Of any two sockets of the host, whoever opens them.                      *)
LEMMA SocketsApart ==
    ASSUME MethodsInv, NEW s \in Sockets, NEW t \in Sockets, s # t
    PROVE  <<s[3], s[4]>> # <<t[3], t[4]>>
<1>1. ASSUME NEW i \in DOMAIN list, NEW x \in FixedSockets, ~ managedEdge(list[i].engine)
      PROVE  <<MethodSocket(i)[3], MethodSocket(i)[4]>> # <<x[3], x[4]>>
  <2>1. MethodSocket(i)[3] = list[i].port /\ MethodSocket(i)[4] = Network(list[i].protocol)
    BY DEF MethodSocket
  <2>2. list[i] \in MethodRecord /\ MethodFits(list[i]) BY ListFacts
  <2>3. list[i].port \notin reservedPorts BY <2>2 DEF MethodFits
  <2>4. list[i].port = 443 => Network(list[i].protocol) = "udp"
    <3>1. SUFFICES ASSUME list[i].port = 443 PROVE Network(list[i].protocol) = "udp"
      OBVIOUS
    <3>2. list[i].engine = "hysteria" BY <1>1, <2>2, <3>1 DEF MethodFits
    <3>3. list[i].protocol \in {"hysteria2"}
      BY <2>2, <3>2 DEF MethodFits, engineCapabilities
    <3> QED BY <3>3 DEF Network
  <2>5. x[4] = "tcp" /\ x[3] \in reservedPorts \cup {443} BY FixedApart
  <2> QED BY <2>1, <2>3, <2>4, <2>5
<1>2. ASSUME NEW i \in DOMAIN list, NEW k \in DOMAIN list, i # k,
             list[i].enabled, list[k].enabled, ~ managedEdge(list[i].engine)
      PROVE  <<MethodSocket(i)[3], MethodSocket(i)[4]>> # <<MethodSocket(k)[3], MethodSocket(k)[4]>>
  <2>1. /\ MethodSocket(i)[3] = list[i].port /\ MethodSocket(i)[4] = Network(list[i].protocol)
        /\ MethodSocket(k)[3] = list[k].port /\ MethodSocket(k)[4] = Network(list[k].protocol)
    BY DEF MethodSocket
  <2>2. Apart(list[i], list[k]) BY <1>2, ListFacts
  <2>3. ~ Clash(list[i], list[k]) BY <1>2, <2>2 DEF Apart
  <2> QED BY <1>2, <2>1, <2>3 DEF Clash
<1>3. CASE s \in FixedSockets /\ t \in FixedSockets BY <1>3, FixedApart
<1>4. CASE s \in FixedSockets /\ t \notin FixedSockets
  <2>1. PICK i \in DOMAIN list : t = MethodSocket(i) /\ ~ managedEdge(list[i].engine)
    BY <1>4, SocketKinds
  <2> QED BY <1>1, <1>4, <2>1
<1>5. CASE s \notin FixedSockets /\ t \in FixedSockets
  <2>1. PICK i \in DOMAIN list : s = MethodSocket(i) /\ ~ managedEdge(list[i].engine)
    BY <1>5, SocketKinds
  <2> QED BY <1>1, <1>5, <2>1
<1>6. CASE s \notin FixedSockets /\ t \notin FixedSockets
  <2>1. PICK i \in DOMAIN list :
            s = MethodSocket(i) /\ list[i].enabled /\ ~ managedEdge(list[i].engine)
    BY <1>6, SocketKinds
  <2>2. PICK k \in DOMAIN list :
            t = MethodSocket(k) /\ list[k].enabled /\ ~ managedEdge(list[k].engine)
    BY <1>6, SocketKinds
  <2>3. i # k BY <2>1, <2>2
  <2> QED BY <1>2, <2>1, <2>2, <2>3
<1> QED BY <1>3, <1>4, <1>5, <1>6

(* The suggestion for one more method is accepted.                         *)
LEMMA NoNameIsFree ==
    /\ NoName \notin MethodName \cup Protocols
    /\ NoName \notin {"PROXY", "DIRECT", "REJECT", "GLOBAL"}
<1>1. NoName \notin MethodName BY MethodsAssumption
<1>2. NoName \notin {"hysteria2", "xhttp", "grpc", "anytls", "trusttunnel", "naive", "amneziawg"}
  BY Zenon DEF NoName
<1>3. NoName \notin {"PROXY", "DIRECT", "REJECT", "GLOBAL"} BY Zenon DEF NoName
<1> QED BY <1>1, <1>2, <1>3, ProtocolNames

LEMMA SuggestionPermitted ==
    ASSUME MethodsInv, NEW e \in enginesHere \ (requiredEngineIds \cup {"amneziawg"}),
           NEW p \in engineCapabilities(e)
    PROVE  Permitted(MethodOf(e, p, MaxMethodEdits + 1, NoName, TRUE, Suggested(e, p)), Elements)
<1> DEFINE m == MethodOf(e, p, MaxMethodEdits + 1, NoName, TRUE, Suggested(e, p))
<1>1. e \in {"mihomo", "sing-box"} BY EngineNames DEF MethodsInv, requiredEngineIds
<1>2. e \in Engines /\ p \in Protocols BY <1>1, EngineNames, CapabilitiesTyped
<1>3. ~ managedEdge(e) /\ ~ singletonEngine(e) BY <1>1 DEF managedEdge, singletonEngine
<1>4. PICK settings : settings = Suggested(e, p) OBVIOUS
<1>5. /\ settings.port \in Nat /\ settings.path = paths[p]
      /\ settings.port >= methodSettings(e, p).port /\ ~ Occupied(settings.port, p)
  BY <1>2, <1>3, <1>4, SuggestedFree
<1>6. /\ m.engine = e /\ m.protocol = p /\ m.name = NoName /\ m.enabled = TRUE
      /\ m.port = settings.port /\ m.path = settings.path
  BY <1>4 DEF MethodOf
<1> HIDE DEF m
<1>7. \A q \in Elements :
         /\ q \in MethodRecord
         /\ q.port = m.port => Network(q.protocol) # Network(m.protocol)
  BY <1>5, <1>6, ListFacts DEF Elements, Occupied
<1>8. \A q \in Elements : q.name # m.name
  BY <1>6, <1>7, NoNameIsFree DEF MethodRecord
<1>9. m.port \notin reservedPorts BY <1>5, <1>6 DEF Occupied
<1>10. m.port >= 1024
  <2>1. methodSettings(e, p).port >= 1024 BY <1>1, SuggestedFromAbove
  <2>2. methodSettings(e, p).port \in Nat BY <1>2, SettingsAre
  <2> QED BY <1>5, <1>6, <2>1, <2>2
<1>11. PathFits(m)
  BY <1>2, <1>5, <1>6, PathsAre, ProtocolNames DEF PathFits, XhttpPath, GrpcPath
<1>12. OnlyOne(m, Elements) BY <1>3, <1>6 DEF OnlyOne
<1>13. PortFree(m, Elements) BY <1>7 DEF PortFree
<1>14. m.name \notin {"PROXY", "DIRECT", "REJECT", "GLOBAL"} BY <1>6, NoNameIsFree
<1>15. Permitted(m, Elements)
  BY <1>3, <1>6, <1>8, <1>9, <1>10, <1>11, <1>12, <1>13, <1>14 DEF Permitted
<1> QED BY <1>15 DEF m

(* All that is promised of the methods follows from the invariant.          *)
LEMMA MethodsFollow == MethodsInv => MethodsAreServed
<1> SUFFICES ASSUME MethodsInv PROVE MethodsAreServed OBVIOUS
<1>1. \A offer \in Offers : OfferServed(offer) BY OffersServedEach
<1>2. \A app \in applications :
         Transports(ApplicationProfile(app, "plain"))
             \cup Transports(ApplicationProfile(app, "modern"))
         \subseteq Transports(catalogProfile(app))
  BY CatalogWhole
<1>3. \A s, t \in Sockets : s # t => <<s[3], s[4]>> # <<t[3], t[4]>> BY SocketsApart
<1>4. \A e \in enginesHere \ (requiredEngineIds \cup {"amneziawg"}) :
         \A p \in engineCapabilities(e) :
            Permitted(MethodOf(e, p, MaxMethodEdits + 1, NoName, TRUE, Suggested(e, p)), Elements)
  BY SuggestionPermitted
<1> QED BY <1>1, <1>2, <1>3, <1>4 DEF MethodsAreServed, OfferServed

(* However methods are saved, removed, reordered and disabled, and engines  *)
(* come and go, for any names, ports and number of changes: what is offered *)
(* is answered and told apart, the sockets of the host are apart, and the   *)
(* panel suggests what is accepted.                                         *)
THEOREM MethodsServed == MethodsSpec => []MethodsAreServed
<1>1. MethodsSpec => []MethodsInv BY MethodsInits, MethodsSteps, PTL DEF MethodsSpec
<1> QED BY <1>1, MethodsFollow, PTL

-----------------------------------------------------------------------------
(* Both beside each other: all that a client is offered is served.         *)
THEOREM OffersServed == OffersSpec => []OffersAreServed
<1>1. OffersInit => MethodsInit /\ DeliveryInit BY DEF OffersInit
<1>2. [OffersNext]_<<methodVars, vars, deliveryVars>> =>
         [MethodsNext]_methodVars /\ [DeliveryNext]_<<vars, deliveryVars>>
  BY DEF OffersNext
<1>3. OffersSpec => MethodsSpec /\ DeliverySpec
  BY <1>1, <1>2, PTL DEF OffersSpec, MethodsSpec, DeliverySpec
<1>4. MethodsAreServed /\ LinksAreServed => OffersAreServed BY DEF OffersAreServed
<1> QED BY <1>3, <1>4, MethodsServed, LinksServed, PTL
=============================================================================

----------------------- MODULE ConnectionSync_proofs -----------------------
(***************************************************************************)
(* Proofs about ConnectionSync, for any set of connections and any bounds. *)
(*                                                                         *)
(* AccessIsCurrent is not inductive: a completion activates the generation *)
(* its run was queued with, so it takes QueueMatchesOutbox (that is still  *)
(* the newest generation) and LifecycleConsistent (its credential was not  *)
(* revoked).  QueueMatchesOutbox in turn takes the order of the runs of    *)
(* one connection, and LifecycleConsistent that a revoke's job is the last.*)
(* IInv is their conjunction.  There is one lemma per action of Next, after*)
(* the lemmas on the steps the actions share: a claim, a release, a crash, *)
(* a submission, a completion.                                             *)
(***************************************************************************)
EXTENDS ConnectionSync, SequenceTheorems, TLAPS

IInv == TypeOK /\ AccessIsCurrent /\ LifecycleConsistent /\ QueueMatchesOutbox

(* The holder is a run that agrees with the outbox, and every run behind   *)
(* it of the same connection belongs to a newer job.                       *)
LEMMA HolderFacts ==
    ASSUME IInv, queue # <<>>
    PROVE  /\ Holder = queue[1] /\ Holder \in Run /\ RunAgrees(Holder)
           /\ Tail(queue) \in Seq(Run)
           /\ DOMAIN Tail(queue) = 1..(Len(queue) - 1)
           /\ \A i \in DOMAIN Tail(queue) :
                /\ i + 1 \in DOMAIN queue
                /\ Tail(queue)[i] = queue[i + 1]
                /\ queue[i + 1].conn = Holder.conn => Holder.id < queue[i + 1].id
<1>1. queue \in Seq(Run) /\ Len(queue) \in Nat /\ DOMAIN queue = 1..Len(queue)
  BY LenProperties DEF IInv, TypeOK
<1>2. Len(queue) # 0 BY <1>1, EmptySeq
<1>3. 1 \in DOMAIN queue BY <1>1, <1>2
<1>4. /\ Tail(queue) \in Seq(Run)
      /\ Len(Tail(queue)) = Len(queue) - 1
      /\ \A i \in 1..Len(Tail(queue)) : Tail(queue)[i] = queue[i + 1]
  BY <1>1, HeadTailProperties
<1>5. DOMAIN Tail(queue) = 1..(Len(queue) - 1) BY <1>4, LenProperties
<1>6. Holder = queue[1] BY DEF Holder
<1>7. Holder \in Run BY <1>1, <1>3, <1>6, ElementOfSeq
<1>8. RunAgrees(Holder) BY <1>3, <1>6 DEF IInv, QueueMatchesOutbox
<1>9. ASSUME NEW i \in DOMAIN Tail(queue)
      PROVE  /\ i + 1 \in DOMAIN queue
             /\ Tail(queue)[i] = queue[i + 1]
             /\ queue[i + 1].conn = Holder.conn => Holder.id < queue[i + 1].id
  <2>1. i \in 1..(Len(queue) - 1) /\ i + 1 \in DOMAIN queue /\ 1 < i + 1
    BY <1>1, <1>5
  <2>2. QED BY <2>1, <1>3, <1>4, <1>5, <1>6 DEF IInv, QueueMatchesOutbox
<1>10. QED BY <1>4, <1>5, <1>6, <1>7, <1>8, <1>9

(* A snapshot names existing generations only.                             *)
LEMMA SnapshotType ==
    ASSUME IInv, NEW r \in Run, RunAgrees(r)
    PROVE  Snapshot(r) \in SUBSET Credential
<1>1. ASSUME NEW c \in Conn, conn[c].status # "absent"
      PROVE  conn[c].generation \in Gen
  BY <1>1 DEF IInv, TypeOK, Connection, Gen, LifecycleConsistent, RowsAgree
<1>2. Others(r.conn) \in SUBSET Credential
  BY <1>1 DEF Others, Serving, Credential
<1>3. Adds(r) => <<r.conn, r.gen>> \in Credential
  <2> SUFFICES ASSUME Adds(r) PROVE <<r.conn, r.gen>> \in Credential OBVIOUS
  <2>1. r.conn \in Conn BY DEF Adds, RunAgrees, Run
  <2>2. conn[r.conn].status # "absent"
    BY <2>1 DEF RunAgrees, IInv, LifecycleConsistent, RowsAgree
  <2>3. QED BY <1>1, <2>1, <2>2 DEF RunAgrees, Credential
<1>4. QED BY <1>2, <1>3 DEF Snapshot

(* The part of TypeOK about what the engines hold.                         *)
EnginesTyped ==
    /\ file \in SUBSET Credential /\ live \in SUBSET Credential
    /\ opt \in SUBSET Credential /\ up \in BOOLEAN
    /\ optLive \in SUBSET Credential /\ missed \in SUBSET {"xray", "optional"}

(* Whatever the agent did with a request, the engines keep their types.    *)
LEMMA AgentType ==
    ASSUME IInv, AgentOutcome
    PROVE  EnginesTyped'
<1>1. EnginesTyped BY DEF IInv, TypeOK, EnginesTyped
<1>2. CASE UNCHANGED engines BY <1>1, <1>2 DEF EnginesTyped, engines
<1>3. CASE call # NoCall
  <2>1. call.users \in SUBSET Credential
    BY <1>3 DEF IInv, TypeOK, Call
  <2>2. Holder \in Run /\ RunAgrees(Holder) /\ (Holder.kind # "reconcile" => call.gen \in Gen)
    BY <1>3, HolderFacts DEF IInv, QueueMatchesOutbox
  <2>3. HotAdd(Holder) => <<Holder.conn, call.gen>> \in Credential
    BY <2>2 DEF HotAdd, RunAgrees, Credential, Run
  <2>4. CASE XrayApplied(Holder, call.gen, call.users)
    BY <1>1, <2>1, <2>3, <2>4 DEF XrayApplied, EnginesTyped, InStep
  <2>5. CASE XrayRefused(Holder, call.users)
    BY <1>1, <2>1, <2>5 DEF XrayRefused, EnginesTyped, InStep
  <2>6. CASE XrayKilled(Holder, call.users)
    BY <1>1, <2>1, <2>6 DEF XrayKilled, EnginesTyped, InStep, Missed
  <2>7. CASE \/ OptionalApplied(call.users) \/ OptionalRefused(call.users)
             \/ OptionalKilled(call.users)
    BY <1>1, <2>1, <2>7
    DEF OptionalApplied, OptionalRefused, OptionalKilled, EnginesTyped, InStep, Missed
  <2>8. QED BY <1>2, <2>4, <2>5, <2>6, <2>7 DEF AgentOutcome
<1>4. QED BY <1>2, <1>3 DEF NoCall, AgentOutcome

(* What a step that kills the control plane leaves.                        *)
LEMMA DiesFacts ==
    ASSUME IInv, NEW jobs \in [Conn -> Job], Dies(jobs)
    PROVE  /\ job' \in [Conn -> Job]
           /\ \A c \in Conn : /\ job'[c].id = jobs[c].id
                              /\ job'[c].kind = jobs[c].kind
                              /\ job'[c].gen = jobs[c].gen
                              /\ job'[c].status # "running"
                              /\ jobs[c].status = "completed" =>
                                   job'[c].status = "completed"
           /\ queue' = <<>> /\ call' = NoCall /\ todo' = {}
           /\ faults' \in 0..MaxFaults
           /\ EnginesTyped'
<1>1. job' = Recovered(jobs) BY DEF Dies
<1>2. \A c \in Conn : Recovered(jobs)[c] =
        IF jobs[c].status = "running"
          THEN [jobs[c] EXCEPT !.status = "failed", !.due = TRUE]
          ELSE jobs[c]
  BY DEF Recovered
<1>3. job' \in [Conn -> Job]
  <2>1. ASSUME NEW c \in Conn PROVE Recovered(jobs)[c] \in Job
    <3>1. jobs[c] \in Job OBVIOUS
    <3>2. [jobs[c] EXCEPT !.status = "failed", !.due = TRUE] \in Job
      BY <3>1 DEF Job, OpenStates
    <3>3. QED BY <1>2, <3>1, <3>2
  <2>2. \E f : job' = [c \in Conn |-> f[c]] BY <1>1 DEF Recovered
  <2>3. QED BY <1>1, <2>1, <2>2
<1>4. faults' \in 0..MaxFaults BY BoundAssumption DEF Dies, IInv, TypeOK
<1>5. ASSUME NEW c \in Conn
      PROVE  /\ job'[c].id = jobs[c].id
             /\ job'[c].kind = jobs[c].kind
             /\ job'[c].gen = jobs[c].gen
             /\ job'[c].status # "running"
             /\ jobs[c].status = "completed" => job'[c].status = "completed"
  <2>1. jobs[c] \in Job OBVIOUS
  <2>2. CASE jobs[c].status = "running"
    <3>1. job'[c] = [jobs[c] EXCEPT !.status = "failed", !.due = TRUE]
      BY <1>1, <1>2, <2>2
    <3>2. QED BY <2>1, <2>2, <3>1 DEF Job
  <2>3. CASE jobs[c].status # "running" BY <1>1, <1>2, <2>3
  <2>4. QED BY <2>2, <2>3
<1>6. queue' = <<>> /\ call' = NoCall /\ todo' = {} /\ AgentOutcome BY DEF Dies
<1>7. QED BY <1>3, <1>4, <1>5, <1>6, AgentType

(* A crash leaves no run and no running job, so the outbox and the queue   *)
(* agree trivially.                                                        *)
LEMMA EmptyQueueAgrees ==
    ASSUME queue' = <<>>, call' = NoCall, \A c \in Conn : job'[c].status # "running"
    PROVE  QueueMatchesOutbox'
BY DEF QueueMatchesOutbox

(* What claiming job j of connection c does to the outbox and the queue.   *)
LEMMA ClaimFacts ==
    ASSUME IInv, NEW c \in Conn, NEW j \in Job, j.kind # "none",
           NEW by \in {"request", "drain"}, Claim(c, j, by)
    PROVE  /\ job' \in [Conn -> Job] /\ queue' \in Seq(Run)
           /\ \A d \in Conn \ {c} : job'[d] = job[d]
           /\ job'[c].id = j.id /\ job'[c].kind = j.kind /\ job'[c].gen = j.gen
           /\ job'[c].status = "running"
           /\ queue # <<>> => Head(queue') = Head(queue)
           /\ queue' # <<>>
           /\ DOMAIN queue' = 1..(Len(queue) + 1)
           /\ DOMAIN queue = 1..Len(queue) /\ Len(queue) \in Nat
           /\ \A i \in DOMAIN queue : queue'[i] = queue[i]
           /\ queue'[Len(queue) + 1] = [conn |-> c, id |-> j.id, kind |-> j.kind,
                                        gen |-> j.gen, by |-> by]
<1> DEFINE r == [conn |-> c, id |-> j.id, kind |-> j.kind, gen |-> j.gen, by |-> by]
<1>1. r \in Run BY DEF Run, Job, Kinds
<1>2. queue \in Seq(Run) /\ Len(queue) \in Nat /\ DOMAIN queue = 1..Len(queue)
  BY LenProperties DEF IInv, TypeOK
<1>3. queue' = Append(queue, r) BY DEF Claim
<1>4. /\ queue' \in Seq(Run) /\ queue' # <<>> /\ Len(queue') = Len(queue) + 1
      /\ \A i \in 1..Len(queue) : queue'[i] = queue[i]
      /\ queue'[Len(queue) + 1] = r
  BY <1>1, <1>2, <1>3, AppendProperties
<1>5. DOMAIN queue' = 1..(Len(queue) + 1) BY <1>4, LenProperties
<1>6. queue # <<>> => Head(queue') = Head(queue)
  <2> SUFFICES ASSUME queue # <<>> PROVE Head(queue') = Head(queue) OBVIOUS
  <2>1. Len(queue) # 0 BY <1>2, EmptySeq
  <2>2. 1 \in 1..Len(queue) BY <1>2, <2>1
  <2>3. QED BY <1>4, <2>2
<1>7. /\ job' \in [Conn -> Job]
      /\ \A d \in Conn \ {c} : job'[d] = job[d]
      /\ job'[c].id = j.id /\ job'[c].kind = j.kind /\ job'[c].gen = j.gen
      /\ job'[c].status = "running"
  BY DEF Claim, IInv, TypeOK, Job, OpenStates
<1>8. QED BY <1>2, <1>4, <1>5, <1>6, <1>7

(* A claim keeps the queue and the outbox in agreement when the job is new *)
(* (its id is the next one) or open and without a run.                     *)
LEMMA ClaimAgrees ==
    ASSUME IInv, NEW c \in Conn, NEW j \in Job, j.kind # "none",
           NEW by \in {"request", "drain"}, Claim(c, j, by), call' = call,
           \A d \in Conn \ {c} : conn'[d] = conn[d],
           conn'[c].generation = j.gen,
           conn'[c].status = "archived" => j.kind = "revoke",
           \/ /\ j.id = job[c].id + 1
              /\ ~conn[c].archived
              /\ conn'[c].status # "archived"
              /\ j.gen = conn[c].generation \/ job[c].status # "running"
           \/ job[c].status # "running"
    PROVE  QueueMatchesOutbox'
<1> DEFINE n == Len(queue) + 1
<1>1. /\ \A d \in Conn \ {c} : job'[d] = job[d]
      /\ job'[c].id = j.id /\ job'[c].kind = j.kind /\ job'[c].gen = j.gen
      /\ job'[c].status = "running"
      /\ queue # <<>> => Head(queue') = Head(queue)
      /\ queue' # <<>>
      /\ DOMAIN queue' = 1..n
      /\ DOMAIN queue = 1..Len(queue) /\ Len(queue) \in Nat
      /\ \A i \in DOMAIN queue : queue'[i] = queue[i]
      /\ queue'[n] = [conn |-> c, id |-> j.id, kind |-> j.kind,
                      gen |-> j.gen, by |-> by]
  BY ClaimFacts
<1>2. \A i \in DOMAIN queue' : i \in DOMAIN queue \/ i = n BY <1>1
<1>3. \A i \in DOMAIN queue : RunAgrees(queue[i]) BY DEF IInv, QueueMatchesOutbox
<1>4. \A i \in DOMAIN queue : queue[i] \in Run
  BY <1>1, ElementOfSeq DEF IInv, TypeOK
<1>5. j \in Job /\ job[c] \in Job BY DEF IInv, TypeOK
<1>6. ASSUME NEW i \in DOMAIN queue, queue[i].conn = c
      PROVE  /\ j.id = job[c].id + 1 /\ ~conn[c].archived
             /\ conn'[c].status # "archived"
             /\ j.gen = conn[c].generation
             /\ queue[i].id < j.id
             /\ queue[i].kind # "revoke"
  <2>1. job[c].status = "running" /\ queue[i].id <= job[c].id BY <1>3, <1>6 DEF RunAgrees
  <2>2. j.id = job[c].id + 1 /\ ~conn[c].archived /\ conn'[c].status # "archived"
        /\ j.gen = conn[c].generation
    BY <2>1
  <2>3. queue[i].id \in Nat /\ job[c].id \in Nat
    BY <1>4, <1>5, BoundAssumption DEF Run, Job
  <2>4. queue[i].kind = "revoke" => job[c].kind = "revoke"
    BY <1>3, <1>6 DEF RunAgrees
  <2>5. job[c].kind # "revoke" BY <2>2 DEF IInv, LifecycleConsistent, RowsAgree
  <2>6. QED BY <2>1, <2>2, <2>3, <2>4, <2>5
<1>7. ASSUME NEW i \in DOMAIN queue' PROVE RunAgrees(queue[i])'
  <2>1. CASE i \in DOMAIN queue /\ queue[i].conn = c
    <3>1. queue'[i] = queue[i] BY <1>1, <2>1
    <3>2. queue[i].id < j.id /\ queue[i].id \in Nat /\ j.id \in Nat
      BY <1>4, <1>5, <1>6, <2>1, BoundAssumption DEF Run, Job
    <3>3. QED BY <1>1, <1>3, <1>6, <2>1, <3>1, <3>2 DEF RunAgrees
  <2>2. CASE i \in DOMAIN queue /\ queue[i].conn # c
    <3>1. queue'[i] = queue[i] BY <1>1, <2>2
    <3>2. QED BY <1>1, <1>3, <2>2, <3>1 DEF RunAgrees
  <2>3. CASE i = n
    <3>1. j.id \in Nat /\ j.kind # "reconcile"
      BY <1>5, BoundAssumption DEF Job, OwnerKinds
    <3>2. QED BY <1>1, <2>3, <3>1, ConnAssumption DEF RunAgrees
  <2>4. QED BY <1>2, <2>1, <2>2, <2>3
<1>8. ASSUME NEW i \in DOMAIN queue', NEW k \in DOMAIN queue',
             i < k, queue'[i].conn = queue'[k].conn
      PROVE  queue'[i].id < queue'[k].id
  <2>1. i \in DOMAIN queue BY <1>1, <1>8
  <2>2. CASE k \in DOMAIN queue
    BY <1>1, <1>8, <2>1, <2>2 DEF IInv, QueueMatchesOutbox
  <2>3. CASE k = n BY <1>1, <1>6, <1>8, <2>1, <2>3
  <2>4. QED BY <1>2, <2>2, <2>3
<1>9. ASSUME NEW d \in Conn, job'[d].status = "running"
      PROVE  \E i \in DOMAIN queue' : queue'[i].conn = d /\ queue'[i].id = job'[d].id
  <2>1. CASE d = c
    <3>1. n \in DOMAIN queue' BY <1>1
    <3>2. QED BY <1>1, <2>1, <3>1
  <2>2. CASE d # c
    <3>1. PICK i \in DOMAIN queue : queue[i].conn = d /\ queue[i].id = job[d].id
      BY <1>1, <1>9, <2>2 DEF IInv, QueueMatchesOutbox
    <3>2. i \in DOMAIN queue' BY <1>1
    <3>3. QED BY <1>1, <2>2, <3>1, <3>2
  <2>3. QED BY <2>1, <2>2
<1>10. call' # NoCall => queue' # <<>> /\ (Head(queue').kind # "reconcile" => call'.gen \in Gen)
  BY <1>1 DEF IInv, QueueMatchesOutbox, Holder
<1>11. QED BY <1>7, <1>8, <1>9, <1>10 DEF QueueMatchesOutbox, Holder

(* What the end of the holder's run does to its own job and to no other.   *)
LEMMA ClosedFacts ==
    ASSUME IInv, queue # <<>>, NEW st \in {"failed", "completed"},
           job' = Closed(Holder, st)
    PROVE  /\ job' \in [Conn -> Job]
           /\ \A c \in Conn : /\ job'[c].id = job[c].id
                              /\ job'[c].kind = job[c].kind
                              /\ job'[c].gen = job[c].gen
                              /\ job[c].status # "running" => job'[c] = job[c]
                              /\ ~(c = Holder.conn /\ job[c].id = Holder.id) =>
                                   job'[c] = job[c]
                              /\ c = Holder.conn /\ job[c].id = Holder.id =>
                                   job'[c].status = st
<1>1. Holder \in Run /\ RunAgrees(Holder) BY HolderFacts
<1>2. CASE Holder.conn \in Conn /\ job[Holder.conn].id = Holder.id
  <2> DEFINE h == Holder.conn
             j == [job[h] EXCEPT !.status = st, !.due = (st = "completed")]
  <2>1. job[h] \in Job BY <1>2 DEF IInv, TypeOK
  <2>2. j \in Job /\ j.id = job[h].id /\ j.kind = job[h].kind /\ j.gen = job[h].gen
        /\ j.status = st
    BY <2>1 DEF Job, OpenStates
  <2>3. job[h].status = "running" BY <1>1, <1>2 DEF RunAgrees
  <2>4. job' = [job EXCEPT ![h] = j] BY <1>2, <2>3 DEF Closed
  <2>5. job \in [Conn -> Job] BY DEF IInv, TypeOK
  <2> HIDE DEF j
  <2>6. QED BY <1>2, <2>2, <2>3, <2>4, <2>5
<1>3. CASE ~(Holder.conn \in Conn /\ job[Holder.conn].id = Holder.id)
  <2>1. job' = job BY <1>3 DEF Closed
  <2>2. QED BY <1>3, <2>1 DEF IInv, TypeOK
<1>4. QED BY <1>2, <1>3

(* Releasing the lock keeps the queue and the outbox in agreement.         *)
LEMMA ReleaseAgrees ==
    ASSUME IInv, queue # <<>>, NEW st \in {"failed", "completed"},
           job' = Closed(Holder, st), queue' = Tail(queue), call' = NoCall,
           \A c \in Conn : /\ conn'[c].generation = conn[c].generation
                           /\ conn'[c].status = "archived" =>
                                \/ conn[c].status = "archived"
                                \/ c = Holder.conn /\ Holder.kind = "revoke"
    PROVE  QueueMatchesOutbox'
<1>1. /\ Holder = queue[1] /\ Holder \in Run /\ RunAgrees(Holder)
      /\ DOMAIN queue' = 1..(Len(queue) - 1)
      /\ \A i \in DOMAIN queue' :
           /\ i + 1 \in DOMAIN queue
           /\ queue'[i] = queue[i + 1]
           /\ queue[i + 1].conn = Holder.conn => Holder.id < queue[i + 1].id
  BY HolderFacts
<1>2. /\ \A i \in DOMAIN queue : RunAgrees(queue[i])
      /\ \A i, k \in DOMAIN queue :
           i < k /\ queue[i].conn = queue[k].conn => queue[i].id < queue[k].id
  BY DEF IInv, QueueMatchesOutbox
<1>3. /\ queue \in Seq(Run) /\ Len(queue) \in Nat /\ DOMAIN queue = 1..Len(queue)
      /\ \A i \in DOMAIN queue : queue[i] \in Run
  BY LenProperties, ElementOfSeq DEF IInv, TypeOK
<1>4. \A i \in DOMAIN queue : queue[i].id \in Nat
  BY <1>3, BoundAssumption DEF Run
<1>5. /\ \A c \in Conn : job[c].id \in Nat
      /\ Holder.id \in Nat
  BY <1>1, BoundAssumption DEF IInv, TypeOK, Job, Run
<1>6. \A c \in Conn : /\ job'[c].id = job[c].id
                      /\ job'[c].kind = job[c].kind
                      /\ job[c].status # "running" => job'[c] = job[c]
                      /\ ~(c = Holder.conn /\ job[c].id = Holder.id) => job'[c] = job[c]
                      /\ c = Holder.conn /\ job[c].id = Holder.id => job'[c].status = st
  BY ClosedFacts
(* A waiting run of the holder's connection belongs to a newer job.        *)
<1>7. ASSUME NEW i \in DOMAIN queue', queue'[i].conn \in Conn
      PROVE  ~(queue'[i].conn = Holder.conn /\ job[Holder.conn].id = Holder.id)
  <2>1. RunAgrees(queue[i + 1]) BY <1>1, <1>2
  <2>2. queue[i + 1].id <= job[queue[i + 1].conn].id BY <1>1, <1>7, <2>1 DEF RunAgrees
  <2>3. queue[i + 1].id \in Nat /\ i + 1 \in DOMAIN queue BY <1>1, <1>4
  <2>4. queue'[i] = queue[i + 1] /\ (queue[i + 1].conn = Holder.conn => Holder.id < queue[i + 1].id)
    BY <1>1
  <2>5. QED BY <1>5, <1>7, <2>2, <2>3, <2>4
<1>8. ASSUME NEW i \in DOMAIN queue' PROVE RunAgrees(queue[i])'
  <2>1. queue'[i] = queue[i + 1] /\ RunAgrees(queue[i + 1]) BY <1>1, <1>2
  <2>2. CASE queue'[i].conn \notin Conn
    BY <2>1, <2>2 DEF RunAgrees
  <2>3. CASE queue'[i].conn \in Conn
    <3>1. job'[queue'[i].conn] = job[queue'[i].conn] BY <1>6, <1>7, <2>3
    <3>2. queue'[i].conn = Holder.conn => Holder.kind # "revoke"
      BY <1>1, <1>7, <2>3 DEF RunAgrees
    <3>3. QED BY <2>1, <2>3, <3>1, <3>2 DEF RunAgrees
  <2>4. QED BY <2>2, <2>3
<1>9. ASSUME NEW i \in DOMAIN queue', NEW k \in DOMAIN queue',
             i < k, queue'[i].conn = queue'[k].conn
      PROVE  queue'[i].id < queue'[k].id
  <2>1. i + 1 < k + 1 /\ i + 1 \in DOMAIN queue /\ k + 1 \in DOMAIN queue
    BY <1>1, <1>3, <1>9
  <2>2. QED BY <1>1, <1>2, <1>9, <2>1
<1>10. ASSUME NEW c \in Conn, job'[c].status = "running"
       PROVE  \E i \in DOMAIN queue' : queue'[i].conn = c /\ queue'[i].id = job'[c].id
  <2>1. ~(c = Holder.conn /\ job[c].id = Holder.id) /\ job'[c] = job[c]
    BY <1>6, <1>10
  <2>2. PICK i \in DOMAIN queue : queue[i].conn = c /\ queue[i].id = job[c].id
    BY <1>10, <2>1 DEF IInv, QueueMatchesOutbox
  <2>3. i # 1 BY <1>1, <2>1, <2>2
  <2>4. i - 1 \in DOMAIN queue' /\ (i - 1) + 1 = i BY <1>1, <1>3, <2>2, <2>3
  <2>5. queue'[i - 1] = queue[i] BY <1>1, <2>4
  <2>6. QED BY <2>1, <2>2, <2>4, <2>5
<1>11. QED BY <1>8, <1>9, <1>10 DEF QueueMatchesOutbox, Holder

-----------------------------------------------------------------------------
(* The parts of TypeOK that a step on the outbox, the queue and the agent  *)
(* touches, and the parts about the two tables of SQLite.                  *)
OutboxTyped == /\ job \in [Conn -> Job] /\ queue \in Seq(Run) /\ call \in Call
               /\ todo \in SUBSET Conn
               /\ EnginesTyped
               /\ faults \in 0..MaxFaults

TablesTyped == /\ conn \in [Conn -> Connection]
               /\ cred \in [Conn -> [Gen -> {"none", "pending", "active", "revoked"}]]

(* TypeOK is the conjunction of its two halves.                            *)
LEMMA TypeParts == TypeOK <=> OutboxTyped /\ TablesTyped
BY DEF TypeOK, OutboxTyped, EnginesTyped, TablesTyped

(* A handler that submits a new job for connection c.                      *)
LEMMA SubmitStep ==
    ASSUME IInv, NEW c \in Conn, NEW kind \in OwnerKinds, NEW g \in Gen,
           Submit(c, kind, g),
           \A d \in Conn \ {c} : conn'[d] = conn[d],
           conn'[c].generation = g, conn'[c].status # "archived",
           ~conn[c].archived,
           g = conn[c].generation \/ job[c].status # "running"
    PROVE  /\ OutboxTyped' /\ QueueMatchesOutbox'
           /\ job'[c].kind = kind /\ job'[c].gen = g
           /\ \A d \in Conn \ {c} : /\ job'[d].kind = job[d].kind
                                    /\ job'[d].gen = job[d].gen
                                    /\ job[d].status = "completed" =>
                                         job'[d].status = "completed"
<1> DEFINE j == NewJob(c, kind, g)
<1>1. j \in Job /\ j.id = job[c].id + 1 /\ j.kind = kind /\ j.gen = g
      /\ j.status = "pending" /\ kind # "none"
  BY BoundAssumption DEF NewJob, Job, OpenStates, Submit, IInv, TypeOK, OwnerKinds, Gen
<1> HIDE DEF j
<1>2. CASE /\ Claim(c, j, "request")
           /\ UNCHANGED <<call, todo, engines, faults>>
  <2>1. "request" \in {"request", "drain"} OBVIOUS
  <2>2. QueueMatchesOutbox' BY <1>1, <1>2, <2>1, ClaimAgrees
  <2>3. /\ job' \in [Conn -> Job] /\ queue' \in Seq(Run)
        /\ \A d \in Conn \ {c} : job'[d] = job[d]
        /\ job'[c].kind = j.kind /\ job'[c].gen = j.gen
    BY <1>1, <1>2, <2>1, ClaimFacts
  <2>4. OutboxTyped' BY <1>2, <2>3 DEF OutboxTyped, EnginesTyped, IInv, TypeOK, engines
  <2>5. QED BY <1>1, <2>2, <2>3, <2>4
<1>3. CASE Dies([job EXCEPT ![c] = j])
  <2> DEFINE jobs == [job EXCEPT ![c] = j]
  <2>1. /\ jobs \in [Conn -> Job] /\ jobs[c] = j
        /\ \A d \in Conn \ {c} : jobs[d] = job[d]
    BY <1>1 DEF IInv, TypeOK
  <2> HIDE DEF jobs
  <2>2. Dies(jobs) BY <1>3 DEF jobs
  <2>3. /\ job' \in [Conn -> Job]
        /\ \A d \in Conn : /\ job'[d].kind = jobs[d].kind
                           /\ job'[d].gen = jobs[d].gen
                           /\ job'[d].status # "running"
                           /\ jobs[d].status = "completed" => job'[d].status = "completed"
        /\ queue' = <<>> /\ call' = NoCall /\ todo' = {}
        /\ faults' \in 0..MaxFaults
        /\ EnginesTyped'
    BY <2>1, <2>2, DiesFacts
  <2>4. QueueMatchesOutbox' BY <2>3, EmptyQueueAgrees
  <2>5. OutboxTyped' BY <2>3 DEF OutboxTyped, Call
  <2>6. QED BY <1>1, <2>1, <2>3, <2>4, <2>5
<1>4. QED BY <1>2, <1>3 DEF Submit, j

(* The invariant after a step that changed only connection c's rows.       *)
LEMMA RowsOfOthers ==
    ASSUME IInv, NEW c \in Conn,
           \A d \in Conn \ {c} : /\ conn'[d] = conn[d] /\ cred'[d] = cred[d]
                                 /\ job'[d].kind = job[d].kind
                                 /\ job'[d].gen = job[d].gen
                                 /\ job[d].status = "completed" =>
                                      job'[d].status = "completed",
           RowsAgree(c)',
           conn'[c].status = "active" =>
             \A g \in Gen : cred'[c][g] = "active" <=> g = conn'[c].generation,
           conn'[c].status = "active" => conn'[c].generation \in Gen
    PROVE  LifecycleConsistent' /\ AccessIsCurrent'
<1>1. ASSUME NEW d \in Conn \ {c} PROVE RowsAgree(d)'
  BY DEF IInv, LifecycleConsistent, RowsAgree
<1>2. LifecycleConsistent' BY <1>1 DEF LifecycleConsistent
<1>3. ASSUME NEW d \in Conn \ {c}, conn'[d].status = "active"
      PROVE  ActiveGens(d)' = {conn'[d].generation}
  BY <1>3 DEF IInv, AccessIsCurrent, ActiveGens
<1>4. ASSUME conn'[c].status = "active"
      PROVE  ActiveGens(c)' = {conn'[c].generation}
  BY <1>4 DEF ActiveGens
<1>5. QED BY <1>2, <1>3, <1>4 DEF AccessIsCurrent

(* What the invariant says of one connection that exists, or is active.    *)
LEMMA GenerationFacts ==
    ASSUME IInv, NEW c \in Conn
    PROVE  /\ conn[c].status # "absent" => conn[c].generation \in Gen
           /\ conn[c].status = "active" =>
                \A g \in Gen : cred[c][g] = "active" <=> g = conn[c].generation
           /\ RowsAgree(c)
           /\ conn[c] \in Connection /\ conn[c].generation \in 0..MaxGen
           /\ job[c] \in Job
<1>1. conn[c] \in Connection /\ job[c] \in Job BY DEF IInv, TypeOK
<1>2. conn[c].generation \in 0..MaxGen BY <1>1 DEF Connection
<1>3. RowsAgree(c) BY DEF IInv, LifecycleConsistent
<1>4. conn[c].status # "absent" => conn[c].generation \in Gen
  BY <1>2, <1>3, BoundAssumption DEF RowsAgree, Gen
<1>5. conn[c].status = "active" => ActiveGens(c) = {conn[c].generation}
  BY DEF IInv, AccessIsCurrent
<1>6. QED BY <1>1, <1>2, <1>3, <1>4, <1>5 DEF ActiveGens

(* create() inserts the connection, its first credential and its job.      *)
LEMMA CreateStep == ASSUME IInv, NEW c \in Conn, Create(c) PROVE IInv'
<1>1. conn[c].status = "absent" /\ RowsAgree(c) /\ conn[c].generation = 0
      /\ ~conn[c].archived /\ job[c].status = "completed"
  <2>1. conn[c].status = "absent" /\ RowsAgree(c) BY GenerationFacts DEF Create
  <2>2. QED BY <2>1 DEF RowsAgree
<1> DEFINE k == [conn[c] EXCEPT !.status = "provisioning", !.generation = 1]
<1>9. /\ k \in Connection /\ k.status = "provisioning" /\ k.generation = 1
      /\ k.archived = conn[c].archived
  <2>1. conn[c] \in Connection /\ 1 \in 0..MaxGen
    BY GenerationFacts, BoundAssumption
  <2>2. QED BY <2>1 DEF Connection
<1>10. conn' = [conn EXCEPT ![c] = k] BY DEF Create
<1> HIDE DEF k
<1>2. /\ \A d \in Conn \ {c} : conn'[d] = conn[d] /\ cred'[d] = cred[d]
      /\ conn'[c].status = "provisioning" /\ conn'[c].generation = 1
      /\ conn'[c].archived = conn[c].archived
      /\ TablesTyped'
  <2>1. TablesTyped BY DEF IInv, TypeOK, TablesTyped
  <2>2. cred' = [cred EXCEPT ![c][1] = "pending"] BY DEF Create
  <2>3. QED BY <1>9, <1>10, <2>1, <2>2, BoundAssumption DEF Gen, TablesTyped
<1>3. \A g \in Gen : cred'[c][g] = IF g = 1 THEN "pending" ELSE cred[c][g]
  BY DEF Create, IInv, TypeOK
<1>4. 1 \in Gen /\ "activate" \in OwnerKinds BY BoundAssumption DEF Gen, OwnerKinds
<1>5. /\ OutboxTyped' /\ QueueMatchesOutbox'
      /\ job'[c].kind = "activate" /\ job'[c].gen = 1
      /\ \A d \in Conn \ {c} : /\ job'[d].kind = job[d].kind
                               /\ job'[d].gen = job[d].gen
                               /\ job[d].status = "completed" =>
                                    job'[d].status = "completed"
  BY <1>1, <1>2, <1>4, SubmitStep DEF Create
<1>6. RowsAgree(c)'
  BY <1>1, <1>2, <1>3, <1>5, BoundAssumption DEF RowsAgree, Gen
<1>7. LifecycleConsistent' /\ AccessIsCurrent'
  BY <1>2, <1>5, <1>6, RowsOfOthers
<1>8. TypeOK' BY <1>2, <1>5 DEF TypeOK, OutboxTyped, EnginesTyped, TablesTyped
<1>11. QED BY <1>5, <1>7, <1>8 DEF IInv

(* prepareRotation() starts a generation only when no job is open, so the  *)
(* runs that wait are all about the generation it replaces: there are      *)
(* none.                                                                   *)
LEMMA RotateStep == ASSUME IInv, NEW c \in Conn, Rotate(c) PROVE IInv'
<1> DEFINE g == conn[c].generation + 1
           k == [conn[c] EXCEPT !.status = "rotating", !.generation = g,
                                !.activated = FALSE]
<1>1. /\ conn[c].status = "active" /\ ~conn[c].archived
      /\ job[c].status # "running" /\ conn[c].generation < MaxGen
      /\ RowsAgree(c) /\ conn[c].generation \in Gen
  BY GenerationFacts DEF Rotate, Serving, Open, OpenStates
<1>2. g \in Gen /\ g \in 0..MaxGen /\ g # conn[c].generation /\ g # 0
  BY <1>1, BoundAssumption DEF Gen
<1>3. k \in Connection /\ k.status = "rotating" /\ k.generation = g
      /\ k.archived = conn[c].archived
  BY <1>2, GenerationFacts DEF Connection
<1>4. conn' = [conn EXCEPT ![c] = k] /\ cred' = [cred EXCEPT ![c][g] = "pending"]
      /\ Submit(c, "rotate", g)
  BY DEF Rotate
<1>5. \A h \in Gen : cred'[c][h] = IF h = g THEN "pending" ELSE cred[c][h]
  BY <1>2, <1>4 DEF IInv, TypeOK
<1> HIDE DEF k
<1>6. /\ \A d \in Conn \ {c} : conn'[d] = conn[d] /\ cred'[d] = cred[d]
      /\ conn'[c] = k /\ TablesTyped'
  BY <1>2, <1>3, <1>4 DEF IInv, TypeOK, TablesTyped
<1>7. "rotate" \in OwnerKinds BY DEF OwnerKinds
<1>8. /\ OutboxTyped' /\ QueueMatchesOutbox'
      /\ job'[c].kind = "rotate" /\ job'[c].gen = g
      /\ \A d \in Conn \ {c} : /\ job'[d].kind = job[d].kind
                               /\ job'[d].gen = job[d].gen
                               /\ job[d].status = "completed" =>
                                    job'[d].status = "completed"
  BY <1>1, <1>2, <1>3, <1>4, <1>6, <1>7, SubmitStep
<1>9. RowsAgree(c)'
  <2>1. \A h \in Gen : cred'[c][h] = "none" <=> h > g
    BY <1>1, <1>2, <1>5, BoundAssumption DEF RowsAgree, Gen
  <2>2. cred'[c][g] # "revoked" BY <1>2, <1>5
  <2>3. QED BY <1>1, <1>2, <1>3, <1>6, <1>8, <2>1, <2>2 DEF RowsAgree
<1>10. LifecycleConsistent' /\ AccessIsCurrent'
  BY <1>3, <1>6, <1>8, <1>9, RowsOfOthers
<1>11. TypeOK' BY <1>6, <1>8 DEF TypeOK, OutboxTyped, EnginesTyped, TablesTyped
<1>12. QED BY <1>8, <1>10, <1>11 DEF IInv

(* Suspend, Resume and Archive keep generation and credentials and submit  *)
(* a job about the same generation.                                        *)
LEMMA CloseOrReopenStep ==
    ASSUME IInv, NEW c \in Conn, NEW kind \in OwnerKinds, NEW k \in Connection,
           conn' = [conn EXCEPT ![c] = k], cred' = cred,
           Submit(c, kind, conn[c].generation),
           conn[c].status # "absent", ~conn[c].archived,
           k.generation = conn[c].generation,
           k.archived <=> kind = "revoke",
           k.status = IF k.archived THEN "archiving" ELSE "active",
           ~k.archived => conn[c].status = "active"
    PROVE  IInv'
<1>1. conn[c].generation \in Gen /\ RowsAgree(c) BY GenerationFacts
<1>2. /\ \A d \in Conn \ {c} : conn'[d] = conn[d] /\ cred'[d] = cred[d]
      /\ conn'[c] = k /\ cred'[c] = cred[c] /\ TablesTyped'
  BY DEF IInv, TypeOK, TablesTyped
<1>3. /\ OutboxTyped' /\ QueueMatchesOutbox'
      /\ job'[c].kind = kind /\ job'[c].gen = conn[c].generation
      /\ \A d \in Conn \ {c} : /\ job'[d].kind = job[d].kind
                               /\ job'[d].gen = job[d].gen
                               /\ job[d].status = "completed" =>
                                    job'[d].status = "completed"
  BY <1>1, <1>2, SubmitStep
<1>4. conn[c].status # "archived" BY <1>1 DEF RowsAgree
<1>5. RowsAgree(c)' BY <1>1, <1>2, <1>3, <1>4 DEF RowsAgree, OwnerKinds
<1>6. conn'[c].status = "active" =>
        \A g \in Gen : cred'[c][g] = "active" <=> g = conn'[c].generation
  BY <1>2, GenerationFacts
<1>7. LifecycleConsistent' /\ AccessIsCurrent'
  BY <1>1, <1>2, <1>3, <1>5, <1>6, RowsOfOthers
<1>8. TypeOK' BY <1>2, <1>3 DEF TypeOK, OutboxTyped, EnginesTyped, TablesTyped
<1>9. QED BY <1>3, <1>7, <1>8 DEF IInv

(* A step that writes neither table and keeps every job's kind and         *)
(* generation.                                                             *)
LEMMA QuietStep ==
    ASSUME IInv, UNCHANGED db,
           \A c \in Conn : /\ job'[c].kind = job[c].kind
                           /\ job'[c].gen = job[c].gen
                           /\ job[c].status = "completed" =>
                                job'[c].status = "completed"
    PROVE  LifecycleConsistent' /\ AccessIsCurrent' /\ TablesTyped'
<1>1. conn' = conn /\ cred' = cred BY DEF db
<1>2. \A c \in Conn : RowsAgree(c)' BY <1>1 DEF IInv, LifecycleConsistent, RowsAgree
<1>3. AccessIsCurrent' BY <1>1 DEF IInv, AccessIsCurrent, ActiveGens
<1>4. QED BY <1>1, <1>2, <1>3 DEF LifecycleConsistent, TablesTyped, IInv, TypeOK

(* Claiming the job that is already open.                                  *)
LEMMA ClaimOpenStep ==
    ASSUME IInv, NEW c \in Conn, NEW by \in {"request", "drain"},
           Claimable(c), Claim(c, job[c], by), UNCHANGED <<db, call, engines, faults>>,
           todo' \in SUBSET Conn
    PROVE  IInv'
<1>1. job[c] \in Job /\ RowsAgree(c) BY GenerationFacts
<1>2. job[c].status # "running" /\ job[c].status # "completed" BY DEF Claimable
<1>3. conn' = conn /\ call' = call BY DEF db
<1>4. job[c].kind # "none"
  BY <1>1, <1>2 DEF RowsAgree
<1>5. conn[c].generation = job[c].gen
      /\ (conn[c].status = "archived" => job[c].kind = "revoke")
  BY <1>1 DEF RowsAgree
<1>6. QueueMatchesOutbox' BY <1>1, <1>2, <1>3, <1>4, <1>5, ClaimAgrees
<1>7. /\ job' \in [Conn -> Job] /\ queue' \in Seq(Run)
      /\ \A d \in Conn \ {c} : job'[d] = job[d]
      /\ job'[c].kind = job[c].kind /\ job'[c].gen = job[c].gen
  BY <1>1, <1>4, ClaimFacts
<1>8. LifecycleConsistent' /\ AccessIsCurrent' /\ TablesTyped'
  BY <1>2, <1>7, QuietStep
<1>9. OutboxTyped' BY <1>7 DEF OutboxTyped, EnginesTyped, IInv, TypeOK, engines
<1>10. TypeOK' BY <1>8, <1>9 DEF TypeOK, OutboxTyped, EnginesTyped, TablesTyped
<1>11. QED BY <1>6, <1>8, <1>10 DEF IInv

(* A retry claims the open job.                                            *)
LEMMA RunNowStep == ASSUME IInv, NEW c \in Conn, RunNow(c) PROVE IInv'
<1>1. "request" \in {"request", "drain"} OBVIOUS
<1>2. todo' \in SUBSET Conn BY DEF RunNow, IInv, TypeOK
<1>3. QED BY <1>1, <1>2, ClaimOpenStep DEF RunNow

(* Suspend closes the connection, or claims the open suspension.           *)
LEMMA SuspendStep == ASSUME IInv, NEW c \in Conn, Suspend(c) PROVE IInv'
<1>1. CASE ~conn[c].suspended \/ (Open(c) /\ job[c].kind = "resume")
  <2> DEFINE k == [conn[c] EXCEPT !.suspended = TRUE]
  <2>1. /\ k \in Connection /\ k.generation = conn[c].generation
        /\ k.archived = conn[c].archived /\ k.status = conn[c].status
    BY GenerationFacts DEF Connection
  <2>2. /\ conn' = [conn EXCEPT ![c] = k] /\ cred' = cred
        /\ Submit(c, "suspend", conn[c].generation)
        /\ conn[c].status = "active" /\ ~conn[c].archived
    BY <1>1 DEF Suspend
  <2>3. "suspend" \in OwnerKinds BY DEF OwnerKinds
  <2> HIDE DEF k
  <2>4. QED BY <2>1, <2>2, <2>3, CloseOrReopenStep
<1>2. CASE ~(~conn[c].suspended \/ (Open(c) /\ job[c].kind = "resume"))
  BY <1>2, RunNowStep DEF Suspend
<1>3. QED BY <1>1, <1>2

(* Resume submits a job and leaves the connection closed.                  *)
LEMMA ResumeStep == ASSUME IInv, NEW c \in Conn, Resume(c) PROVE IInv'
<1>1. CASE Open(c) /\ job[c].kind = "resume"
  BY <1>1, RunNowStep DEF Resume
<1>2. CASE ~(Open(c) /\ job[c].kind = "resume")
  <2>1. /\ conn' = conn /\ cred' = cred
        /\ Submit(c, "resume", conn[c].generation)
        /\ conn[c].status = "active" /\ ~conn[c].archived
    BY <1>2 DEF Resume, db
  <2>2. conn' = [conn EXCEPT ![c] = conn[c]] /\ conn[c] \in Connection
    BY <2>1, GenerationFacts DEF IInv, TypeOK
  <2>3. "resume" \in OwnerKinds BY DEF OwnerKinds
  <2>4. QED BY <2>1, <2>2, <2>3, CloseOrReopenStep
<1>3. QED BY <1>1, <1>2

(* Archive submits the last job of the connection.                         *)
LEMMA ArchiveStep == ASSUME IInv, NEW c \in Conn, Archive(c) PROVE IInv'
<1> DEFINE k == [conn[c] EXCEPT !.status = "archiving", !.archived = TRUE]
<1>1. /\ k \in Connection /\ k.generation = conn[c].generation
      /\ k.archived = TRUE /\ k.status = "archiving"
  BY GenerationFacts DEF Connection
<1>2. /\ conn' = [conn EXCEPT ![c] = k] /\ cred' = cred
      /\ Submit(c, "revoke", conn[c].generation)
      /\ conn[c].status # "absent" /\ ~conn[c].archived
  BY DEF Archive
<1>3. "revoke" \in OwnerKinds BY DEF OwnerKinds
<1> HIDE DEF k
<1>4. QED BY <1>1, <1>2, <1>3, CloseOrReopenStep

(* A backoff that ends changes no job's state.                             *)
LEMMA BackoffStep == ASSUME IInv, NEW c \in Conn, BackoffElapses(c) PROVE IInv'
<1>1. /\ job' \in [Conn -> Job]
      /\ \A d \in Conn : /\ job'[d].id = job[d].id /\ job'[d].kind = job[d].kind
                         /\ job'[d].gen = job[d].gen
                         /\ job'[d].status = job[d].status
  <2> DEFINE j == [job[c] EXCEPT !.due = TRUE]
  <2>1. job \in [Conn -> Job] BY DEF IInv, TypeOK
  <2>2. /\ j \in Job /\ j.id = job[c].id /\ j.kind = job[c].kind
        /\ j.gen = job[c].gen /\ j.status = job[c].status
    BY <2>1 DEF Job
  <2>3. job' = [job EXCEPT ![c] = j] BY DEF BackoffElapses
  <2> HIDE DEF j
  <2>4. QED BY <2>1, <2>2, <2>3
<1>2. conn' = conn /\ queue' = queue /\ call' = call /\ UNCHANGED db
  BY DEF BackoffElapses, db
<1>3. OutboxTyped' BY <1>1 DEF BackoffElapses, OutboxTyped, EnginesTyped, IInv, TypeOK, engines
<1>4. LifecycleConsistent' /\ AccessIsCurrent' /\ TablesTyped' BY <1>1, <1>2, QuietStep
<1>5. \A i \in DOMAIN queue : RunAgrees(queue[i])'
  BY <1>1, <1>2 DEF IInv, QueueMatchesOutbox, RunAgrees
<1>6. QueueMatchesOutbox' BY <1>1, <1>2, <1>5 DEF IInv, QueueMatchesOutbox, Holder
<1>7. QED BY <1>3, <1>4, <1>6 DEF IInv, TypeOK, OutboxTyped, EnginesTyped, TablesTyped

(* The drain claims a job that is still due, and skips one that is not.    *)
LEMMA DrainNextStep == ASSUME IInv, NEW c \in Conn, DrainNext(c) PROVE IInv'
<1>1. todo' \in SUBSET Conn BY DEF DrainNext, IInv, TypeOK
<1>2. CASE c \in DueConns
  <2>1. Claimable(c) BY <1>2 DEF DueConns
  <2>2. "drain" \in {"request", "drain"} OBVIOUS
  <2>3. QED BY <1>1, <1>2, <2>1, <2>2, ClaimOpenStep DEF DrainNext
<1>3. CASE c \notin DueConns
  <2>1. UNCHANGED <<db, job, queue, call, engines, faults>>
    BY <1>3 DEF DrainNext
  <2>2. UNCHANGED <<conn, cred, job, queue, call, engines, faults>>
    BY <2>1 DEF db
  <2>3. QED BY <1>1, <2>2
      DEF engines, IInv, TypeOK, AccessIsCurrent, ActiveGens, LifecycleConsistent, RowsAgree,
          QueueMatchesOutbox, RunAgrees, Holder
<1>4. QED BY <1>2, <1>3

(* The steps that write neither the tables, the outbox nor the lock.       *)
LEMMA OutsideStep ==
    ASSUME IInv, DrainStart \/ XrayRestarts \/ OptionalRestarts \/ UNCHANGED vars
    PROVE  IInv'
<1>1. UNCHANGED <<conn, cred, job, queue, call, faults>>
  BY DEF DrainStart, XrayRestarts, OptionalRestarts, vars, db
<1>2. todo' \in SUBSET Conn /\ EnginesTyped'
  BY DEF DrainStart, XrayRestarts, OptionalRestarts, vars, engines, DueConns,
         IInv, TypeOK, EnginesTyped, InStep
<1>3. QED BY <1>1, <1>2
    DEF IInv, TypeOK, EnginesTyped, AccessIsCurrent, ActiveGens, LifecycleConsistent, RowsAgree,
        QueueMatchesOutbox, RunAgrees, Holder

(* A reconcile task queues for the lock without any job.                   *)
LEMMA ReconcileStep == ASSUME IInv, Reconcile PROVE IInv'
<1> DEFINE r == [conn |-> NoConn, id |-> 0, kind |-> "reconcile",
                 gen |-> 0, by |-> "request"]
           n == Len(queue) + 1
<1>1. UNCHANGED <<conn, cred, job, call, todo, engines, faults>>
      /\ queue' = Append(queue, r)
      /\ \A i \in DOMAIN queue : queue[i].conn # NoConn
  BY DEF Reconcile, db
<1>2. r \in Run BY BoundAssumption DEF Run, Kinds
<1>3. queue \in Seq(Run) /\ Len(queue) \in Nat /\ DOMAIN queue = 1..Len(queue)
  BY LenProperties DEF IInv, TypeOK
<1>4. /\ queue' \in Seq(Run) /\ queue' # <<>> /\ Len(queue') = n
      /\ \A i \in 1..Len(queue) : queue'[i] = queue[i]
      /\ queue'[n] = r
  BY <1>1, <1>2, <1>3, AppendProperties
<1>5. DOMAIN queue' = 1..n BY <1>4, LenProperties
<1>6. \A i \in DOMAIN queue' : i \in DOMAIN queue \/ i = n BY <1>3, <1>5
<1>7. \A i \in DOMAIN queue : i \in DOMAIN queue' /\ queue'[i] = queue[i]
  BY <1>3, <1>4, <1>5
<1>8. queue # <<>> => Head(queue') = Head(queue)
  <2> SUFFICES ASSUME queue # <<>> PROVE Head(queue') = Head(queue) OBVIOUS
  <2>1. Len(queue) # 0 BY <1>3, EmptySeq
  <2>2. 1 \in 1..Len(queue) BY <1>3, <2>1
  <2>3. QED BY <1>4, <2>2
<1>9. ASSUME NEW i \in DOMAIN queue' PROVE RunAgrees(queue[i])'
  <2>1. CASE i \in DOMAIN queue
    BY <1>1, <1>7, <2>1 DEF IInv, QueueMatchesOutbox, RunAgrees
  <2>2. CASE i = n BY <1>4, <2>2, ConnAssumption DEF RunAgrees
  <2>3. QED BY <1>6, <2>1, <2>2
<1>10. ASSUME NEW i \in DOMAIN queue', NEW k \in DOMAIN queue',
              i < k, queue'[i].conn = queue'[k].conn
       PROVE  queue'[i].id < queue'[k].id
  <2>1. i \in DOMAIN queue BY <1>3, <1>5, <1>10
  <2>2. k # n BY <1>1, <1>4, <1>7, <1>10, <2>1
  <2>3. k \in DOMAIN queue BY <1>6, <2>2
  <2>4. QED BY <1>7, <1>10, <2>1, <2>3 DEF IInv, QueueMatchesOutbox
<1>11. ASSUME NEW c \in Conn, job'[c].status = "running"
       PROVE  \E i \in DOMAIN queue' : queue'[i].conn = c /\ queue'[i].id = job'[c].id
  <2>1. PICK i \in DOMAIN queue : queue[i].conn = c /\ queue[i].id = job[c].id
    BY <1>1, <1>11 DEF IInv, QueueMatchesOutbox
  <2>2. QED BY <1>1, <1>7, <2>1
<1>12. call' # NoCall => /\ queue' # <<>>
                         /\ Head(queue').kind # "reconcile" => call'.gen \in Gen
  BY <1>1, <1>4, <1>8 DEF IInv, QueueMatchesOutbox, Holder
<1>13. QueueMatchesOutbox' BY <1>9, <1>10, <1>11, <1>12 DEF QueueMatchesOutbox, Holder
<1>14. LifecycleConsistent' /\ AccessIsCurrent' /\ TablesTyped'
  BY <1>1, QuietStep DEF db
<1>15. OutboxTyped' BY <1>1, <1>4 DEF OutboxTyped, EnginesTyped, engines, IInv, TypeOK
<1>16. QED BY <1>13, <1>14, <1>15 DEF IInv, TypeOK, OutboxTyped, EnginesTyped, TablesTyped

(* The transaction that completes the holder's run keeps the two tables    *)
(* consistent whatever happens to the jobs' states, even when the run was  *)
(* cancelled by a newer job; only a revoke archives.                       *)
LEMMA CompleteTables ==
    ASSUME IInv, queue # <<>>, CompleteDb(Holder),
           \A c \in Conn : /\ job'[c].kind = job[c].kind
                           /\ job'[c].gen = job[c].gen
                           /\ job[c].status = "completed" =>
                                job'[c].status = "completed"
    PROVE  /\ LifecycleConsistent' /\ AccessIsCurrent' /\ TablesTyped'
           /\ \A c \in Conn : /\ conn'[c].generation = conn[c].generation
                              /\ conn'[c].status = "archived" =>
                                   \/ conn[c].status = "archived"
                                   \/ c = Holder.conn /\ Holder.kind = "revoke"
<1> DEFINE c == Holder.conn
<1>1. Holder \in Run /\ RunAgrees(Holder) BY HolderFacts
<1>2. CASE UNCHANGED db
  BY <1>2, QuietStep DEF db
<1>3. ASSUME Holder.kind # "reconcile"
      PROVE  /\ c \in Conn /\ conn[c].status # "absent" /\ RowsAgree(c)
             /\ conn[c] \in Connection /\ conn[c].generation \in Gen
             /\ Holder.gen = conn[c].generation
             /\ conn[c].status = "archived" => Holder.kind = "revoke"
             /\ Holder.kind = "revoke" => conn[c].archived
  <2>1. c \in Conn BY <1>1, <1>3 DEF RunAgrees, Run
  <2>2. RowsAgree(c) /\ conn[c] \in Connection
        /\ (conn[c].status # "absent" => conn[c].generation \in Gen)
    BY <2>1, GenerationFacts
  <2>3. /\ job[c].status = "running" /\ Holder.gen = conn[c].generation
        /\ conn[c].status = "archived" => Holder.kind = "revoke"
        /\ Holder.kind = "revoke" => job[c].kind = "revoke"
    BY <1>1, <2>1 DEF RunAgrees
  <2>4. QED BY <2>1, <2>2, <2>3 DEF RowsAgree
<1>4. ASSUME NEW e \in Conn, e = c, NEW k \in Connection, conn' = [conn EXCEPT ![e] = k],
             Holder.kind # "reconcile",
             k.generation = conn[e].generation, k.archived = conn[e].archived,
             k.status # "absent",
             k.status \in {"archiving", "archived"} => k.archived,
             k.status = "archived" => Holder.kind = "revoke",
             cred' \in [Conn -> [Gen -> {"none", "pending", "active", "revoked"}]],
             \A d \in Conn \ {e} : cred'[d] = cred[d],
             \A g \in Gen : cred'[e][g] = "none" <=> cred[e][g] = "none",
             cred'[e][conn[e].generation] = "revoked" => k.status = "archived",
             k.status = "archived" =>
               \A g \in Gen : cred'[e][g] \in {"none", "revoked"},
             k.status = "active" =>
               \A g \in Gen : cred'[e][g] = "active" <=> g = conn[e].generation
      PROVE  /\ LifecycleConsistent' /\ AccessIsCurrent' /\ TablesTyped'
             /\ \A d \in Conn : /\ conn'[d].generation = conn[d].generation
                                /\ conn'[d].status = "archived" =>
                                     \/ conn[d].status = "archived"
                                     \/ d = Holder.conn /\ Holder.kind = "revoke"
  <2>1. /\ conn'[e] = k /\ TablesTyped'
        /\ \A d \in Conn \ {e} : conn'[d] = conn[d] /\ cred'[d] = cred[d]
    BY <1>3, <1>4 DEF IInv, TypeOK, TablesTyped
  <2>2. RowsAgree(e)' BY <1>3, <1>4, <2>1 DEF RowsAgree, Gen
  <2>3. LifecycleConsistent' /\ AccessIsCurrent'
    BY <1>3, <1>4, <2>1, <2>2, RowsOfOthers
  <2>4. QED BY <1>4, <2>1, <2>3
<1>5. CASE Holder.kind \in {"activate", "rotate"} /\ CompleteActivation(c, Holder.gen)
  <2> DEFINE k == [conn[c] EXCEPT !.status = "active", !.activated = TRUE]
  <2>1. /\ k \in Connection /\ k.generation = conn[c].generation
        /\ k.archived = conn[c].archived /\ k.status = "active"
    BY <1>3, <1>5 DEF Connection
  <2>2. conn' = [conn EXCEPT ![c] = k] BY <1>5 DEF CompleteActivation
  <2> HIDE DEF k
  <2>3. cred[c] \in [Gen -> {"none", "pending", "active", "revoked"}]
    BY <1>3, <1>5 DEF IInv, TypeOK
  <2>4. \A g \in Gen : cred'[c][g] =
           IF g # Holder.gen /\ cred[c][g] = "active" THEN "revoked"
           ELSE IF g = Holder.gen /\ cred[c][g] = "pending" THEN "active"
           ELSE cred[c][g]
    BY <1>3, <1>5 DEF CompleteActivation, IInv, TypeOK
  <2>5. cred' \in [Conn -> [Gen -> {"none", "pending", "active", "revoked"}]]
        /\ \A d \in Conn \ {c} : cred'[d] = cred[d]
    BY <1>3, <1>5, <2>3 DEF CompleteActivation, IInv, TypeOK
  <2>6. cred[c][Holder.gen] \in {"pending", "active"}
    BY <1>3, <1>5, <2>3, BoundAssumption DEF RowsAgree, Gen
  <2>7. Holder.kind # "reconcile" /\ Holder.kind # "revoke" BY <1>5
  <2>8. \A g \in Gen : /\ cred'[c][g] = "none" <=> cred[c][g] = "none"
                       /\ cred'[c][g] = "active" <=> g = conn[c].generation
    BY <1>3, <2>3, <2>4, <2>6, <2>7
  <2>9. cred'[c][conn[c].generation] # "revoked"
    BY <1>3, <2>3, <2>4, <2>6, <2>7
  <2>10. QED BY <1>3, <1>4, <2>1, <2>2, <2>5, <2>7, <2>8, <2>9
<1>6. CASE Holder.kind = "resume" /\ ~Throws(Holder) /\ CompleteResume(c)
  <2> DEFINE k == [conn[c] EXCEPT !.suspended = FALSE]
  <2>1. /\ k \in Connection /\ k.generation = conn[c].generation
        /\ k.archived = conn[c].archived /\ k.status = conn[c].status
    BY <1>3, <1>6 DEF Connection
  <2>2. conn' = [conn EXCEPT ![c] = k] /\ cred' = cred BY <1>6 DEF CompleteResume
  <2> HIDE DEF k
  <2>3. ~(k.status = "archived") /\ c \in Conn /\ RowsAgree(c) BY <1>3, <1>6, <2>1
  <2>4. k.status = "active" =>
          \A g \in Gen : cred'[c][g] = "active" <=> g = conn[c].generation
    BY <2>1, <2>2, <2>3, GenerationFacts
  <2>5. cred'[c][conn[c].generation] # "revoked"
    BY <1>3, <1>6, <2>1, <2>2, <2>3 DEF RowsAgree
  <2>6. k.status \in {"archiving", "archived"} => k.archived
    BY <2>1, <2>3 DEF RowsAgree
  <2>7. QED BY <1>3, <1>4, <1>6, <2>1, <2>2, <2>3, <2>4, <2>5, <2>6 DEF IInv, TypeOK
<1>7. CASE Holder.kind = "revoke" /\ CompleteArchive(c)
  <2> DEFINE k == [conn[c] EXCEPT !.status = "archived"]
  <2>1. /\ k \in Connection /\ k.generation = conn[c].generation
        /\ k.archived = conn[c].archived /\ k.status = "archived"
    BY <1>3, <1>7 DEF Connection
  <2>2. conn' = [conn EXCEPT ![c] = k] BY <1>7 DEF CompleteArchive
  <2> HIDE DEF k
  <2>3. \A g \in Gen : cred'[c][g] = IF cred[c][g] = "none" THEN "none" ELSE "revoked"
    BY <1>3, <1>7 DEF CompleteArchive, IInv, TypeOK
  <2>4. cred' \in [Conn -> [Gen -> {"none", "pending", "active", "revoked"}]]
        /\ \A d \in Conn \ {c} : cred'[d] = cred[d]
    BY <1>3, <1>7 DEF CompleteArchive, IInv, TypeOK
  <2>5. QED BY <1>3, <1>4, <1>7, <2>1, <2>2, <2>3, <2>4
<1>8. QED BY <1>2, <1>5, <1>6, <1>7 DEF CompleteDb

(* The holder's run ends, its engine work done or skipped.                 *)
LEMMA CompleteStep ==
    ASSUME IInv, queue # <<>>, Complete,
           EnginesTyped'
    PROVE  IInv'
<1> DEFINE st == IF Throws(Holder) THEN "failed" ELSE "completed"
<1>1. /\ CompleteDb(Holder) /\ job' = Closed(Holder, st)
      /\ queue' = Tail(queue) /\ call' = NoCall /\ UNCHANGED <<todo, faults>>
  BY DEF Complete, Release
<1>2. st \in {"failed", "completed"} OBVIOUS
<1> HIDE DEF st
<1>3. /\ job' \in [Conn -> Job]
      /\ \A c \in Conn : /\ job'[c].kind = job[c].kind /\ job'[c].gen = job[c].gen
                         /\ job[c].status = "completed" => job'[c].status = "completed"
  BY <1>1, <1>2, ClosedFacts
<1>4. /\ LifecycleConsistent' /\ AccessIsCurrent' /\ TablesTyped'
      /\ \A c \in Conn : /\ conn'[c].generation = conn[c].generation
                         /\ conn'[c].status = "archived" =>
                              \/ conn[c].status = "archived"
                              \/ c = Holder.conn /\ Holder.kind = "revoke"
  BY <1>1, <1>3, CompleteTables
<1>5. QueueMatchesOutbox' BY <1>1, <1>2, <1>4, ReleaseAgrees
<1>6. queue' \in Seq(Run) BY <1>1, HolderFacts
<1>7. OutboxTyped' BY <1>1, <1>3, <1>6 DEF OutboxTyped, Call, IInv, TypeOK
<1>8. QED BY <1>4, <1>5, <1>7, TypeParts DEF IInv, TypeOK, OutboxTyped, EnginesTyped, TablesTyped

(* The holder's run fails and leaves both tables alone.                    *)
LEMMA FailStep ==
    ASSUME IInv, queue # <<>>, job' = Closed(Holder, "failed"),
           queue' = Tail(queue), call' = NoCall, UNCHANGED <<db, todo>>,
           EnginesTyped',
           faults' \in 0..MaxFaults
    PROVE  IInv'
<1>1. "failed" \in {"failed", "completed"} OBVIOUS
<1>2. /\ job' \in [Conn -> Job]
      /\ \A c \in Conn : /\ job'[c].kind = job[c].kind /\ job'[c].gen = job[c].gen
                         /\ job[c].status = "completed" => job'[c].status = "completed"
  BY <1>1, ClosedFacts
<1>3. LifecycleConsistent' /\ AccessIsCurrent' /\ TablesTyped' BY <1>2, QuietStep
<1>4. QueueMatchesOutbox' BY <1>1, ReleaseAgrees DEF db
<1>5. queue' \in Seq(Run) BY HolderFacts
<1>6. OutboxTyped' BY <1>2, <1>5 DEF OutboxTyped, Call, IInv, TypeOK
<1>7. QED BY <1>3, <1>4, <1>6 DEF IInv, TypeOK, OutboxTyped, EnginesTyped, TablesTyped

(* The holder sends the agent a request about generation g.                *)
LEMMA RequestStep ==
    ASSUME IInv, queue # <<>>, NEW k \in Call,
           Holder.kind # "reconcile" => k.gen \in Gen,
           call' = k, UNCHANGED <<db, job, queue, todo, faults>>,
           EnginesTyped'
    PROVE  IInv'
<1>1. UNCHANGED <<conn, cred, job, queue, todo, faults>> BY DEF db
<1>2. \A i \in DOMAIN queue : RunAgrees(queue[i])'
  BY <1>1 DEF IInv, QueueMatchesOutbox, RunAgrees
<1>3. QueueMatchesOutbox'
  BY <1>1, <1>2 DEF IInv, QueueMatchesOutbox, Holder
<1>4. LifecycleConsistent' /\ AccessIsCurrent' /\ TablesTyped' BY <1>1, QuietStep
<1>5. QED BY <1>1, <1>3, <1>4 DEF IInv, TypeOK, TablesTyped, EnginesTyped

(* The holder is granted the lock: it asks the agent, ends or fails.       *)
LEMMA BeginStep == ASSUME IInv, Begin PROVE IInv'
<1>1. queue # <<>> /\ Holder \in Run /\ RunAgrees(Holder) BY HolderFacts DEF Begin
<1>2. ASSUME UNCHANGED engines
      PROVE  EnginesTyped'
  BY <1>2 DEF engines, IInv, TypeOK, EnginesTyped
<1>3. CASE Complete /\ UNCHANGED engines BY <1>1, <1>2, <1>3, CompleteStep
<1>4. CASE Fail /\ UNCHANGED engines
  <2>1. faults' \in 0..MaxFaults BY <1>4 DEF Fail, Release, IInv, TypeOK
  <2>2. QED BY <1>1, <1>2, <1>4, <2>1, FailStep DEF Fail, Release
<1>5. ASSUME NEW g \in CallGens(Holder), NEW stage \in {"xray", "optional"},
             call' = [stage |-> stage, gen |-> g, users |-> Snapshot(Holder)],
             UNCHANGED <<db, job, queue, todo, engines, faults>>
      PROVE  IInv'
  <2>1. Snapshot(Holder) \in SUBSET Credential BY <1>1, SnapshotType
  <2>2. g \in 0..MaxGen /\ (Holder.kind # "reconcile" => g \in Gen)
    <3>1. CASE Holder.kind = "revoke"
      BY <3>1, BoundAssumption DEF CallGens, ActiveGens, Gen
    <3>2. CASE Holder.kind # "revoke"
      <4>1. g = Holder.gen BY <3>2 DEF CallGens
      <4>2. Holder.kind # "reconcile" =>
              Holder.conn \in Conn /\ conn[Holder.conn].status # "absent"
              /\ Holder.gen = conn[Holder.conn].generation
        BY <1>1 DEF RunAgrees, Run, IInv, LifecycleConsistent, RowsAgree
      <4>3. QED BY <1>1, <4>1, <4>2, GenerationFacts DEF Run
    <3>3. QED BY <3>1, <3>2
  <2> DEFINE k == [stage |-> stage, gen |-> g, users |-> Snapshot(Holder)]
  <2>3. k \in Call /\ k.gen = g BY <2>1, <2>2 DEF Call
  <2>4. call' = k BY <1>5
  <2> HIDE DEF k
  <2>5. QED BY <1>1, <1>2, <1>5, <2>2, <2>3, <2>4, RequestStep
<1>6. QED BY <1>3, <1>4, <1>5 DEF Begin

(* Xray has answered: the run ends, fails or goes on to the next engine.   *)
LEMMA XrayRepliesStep == ASSUME IInv, XrayReplies PROVE IInv'
<1>1. call # NoCall /\ queue # <<>> /\ Holder \in Run /\ RunAgrees(Holder)
  <2>1. call # NoCall BY DEF XrayReplies, NoCall
  <2>2. QED BY <2>1, HolderFacts DEF IInv, QueueMatchesOutbox
<1>2. EnginesTyped'
  BY AgentType DEF XrayReplies, AgentOutcome
<1>3. CASE Complete BY <1>1, <1>2, <1>3, CompleteStep
<1>4. CASE Fail
  <2>1. faults' \in 0..MaxFaults BY <1>4 DEF Fail, Release, IInv, TypeOK
  <2>2. QED BY <1>1, <1>2, <1>4, <2>1, FailStep DEF Fail, Release
<1>5. CASE /\ call' = [call EXCEPT !.stage = "optional", !.users = Snapshot(Holder)]
           /\ UNCHANGED <<db, job, queue, todo, faults>>
  <2> DEFINE k == [call EXCEPT !.stage = "optional", !.users = Snapshot(Holder)]
  <2>1. Snapshot(Holder) \in SUBSET Credential BY <1>1, SnapshotType
  <2>2. call \in [stage : {"xray", "optional"}, gen : 0..MaxGen,
                  users : SUBSET Credential]
        /\ (Holder.kind # "reconcile" => call.gen \in Gen)
    BY <1>1 DEF IInv, TypeOK, Call, QueueMatchesOutbox
  <2>3. k \in Call /\ k.gen = call.gen BY <2>1, <2>2 DEF Call
  <2>4. call' = k BY <1>5
  <2> HIDE DEF k
  <2>5. QED BY <1>1, <1>2, <1>5, <2>2, <2>3, <2>4, RequestStep
<1>6. QED BY <1>3, <1>4, <1>5 DEF XrayReplies

(* The optional engine has answered: the run ends.                         *)
LEMMA OptionalRepliesStep == ASSUME IInv, OptionalReplies PROVE IInv'
<1>1. call # NoCall BY DEF OptionalReplies, NoCall
<1>2. queue # <<>> BY <1>1 DEF IInv, QueueMatchesOutbox
<1>3. EnginesTyped'
  BY AgentType DEF OptionalReplies, AgentOutcome
<1>4. QED BY <1>2, <1>3, CompleteStep DEF OptionalReplies

(* The agent refuses or its answer is lost: the run fails.                 *)
LEMMA EngineFailsStep == ASSUME IInv, EngineFails PROVE IInv'
<1>1. queue # <<>> BY DEF EngineFails, IInv, QueueMatchesOutbox
<1>2. EnginesTyped'
  BY AgentType DEF EngineFails
<1>3. faults' \in 0..MaxFaults BY BoundAssumption DEF EngineFails, IInv, TypeOK
<1>4. QED BY <1>1, <1>2, <1>3, FailStep DEF EngineFails

(* The control plane dies and starts again.                                *)
LEMMA CrashStep == ASSUME IInv, Crash PROVE IInv'
<1>1. job \in [Conn -> Job] /\ Dies(job) /\ UNCHANGED db
  BY DEF Crash, IInv, TypeOK
<1>2. /\ job' \in [Conn -> Job]
      /\ \A c \in Conn : /\ job'[c].kind = job[c].kind
                         /\ job'[c].gen = job[c].gen
                         /\ job'[c].status # "running"
                         /\ job[c].status = "completed" =>
                              job'[c].status = "completed"
      /\ queue' = <<>> /\ call' = NoCall /\ todo' = {}
      /\ faults' \in 0..MaxFaults
      /\ EnginesTyped'
  BY <1>1, DiesFacts
<1>3. QueueMatchesOutbox' BY <1>2, EmptyQueueAgrees
<1>4. LifecycleConsistent' /\ AccessIsCurrent' /\ TablesTyped' BY <1>1, <1>2, QuietStep
<1>5. TypeOK' BY <1>2, <1>4 DEF TypeOK, TablesTyped, EnginesTyped, Call
<1>6. QED BY <1>3, <1>4, <1>5 DEF IInv

(* The control plane dies between the two transactions that end a run: the *)
(* tables already say so and the job does not.                             *)
LEMMA CrashInCompletionStep == ASSUME IInv, CrashInCompletion PROVE IInv'
<1>1. /\ queue # <<>> /\ CompleteDb(Holder) /\ job' = Recovered(job)
      /\ queue' = <<>> /\ call' = NoCall /\ todo' = {}
  BY DEF CrashInCompletion
<1>2. job \in [Conn -> Job] BY DEF IInv, TypeOK
<1>3. \A c \in Conn : job'[c] =
        IF job[c].status = "running"
          THEN [job[c] EXCEPT !.status = "failed", !.due = TRUE]
          ELSE job[c]
  BY <1>1 DEF Recovered
<1>4. job' \in [Conn -> Job]
  BY <1>1, <1>2 DEF Recovered, Job, OpenStates
<1>5. \A c \in Conn : /\ job'[c].kind = job[c].kind
                      /\ job'[c].gen = job[c].gen
                      /\ job'[c].status # "running"
                      /\ job[c].status = "completed" =>
                           job'[c].status = "completed"
  BY <1>2, <1>3 DEF Job
<1>6. LifecycleConsistent' /\ AccessIsCurrent' /\ TablesTyped'
  BY <1>1, <1>5, CompleteTables
<1>7. QueueMatchesOutbox' BY <1>1, <1>5, EmptyQueueAgrees
<1>8. EnginesTyped'
  <2>1. CASE call.stage = "optional" /\ OptionalApplied(call.users)
    BY <2>1, AgentType DEF AgentOutcome
  <2>2. CASE UNCHANGED engines
    BY <2>2 DEF engines, IInv, TypeOK, EnginesTyped
  <2>3. QED BY <2>1, <2>2 DEF CrashInCompletion
<1>9. faults' \in 0..MaxFaults BY BoundAssumption DEF CrashInCompletion, IInv, TypeOK
<1>10. TypeOK' BY <1>1, <1>4, <1>6, <1>8, <1>9, EmptySeq DEF TypeOK, TablesTyped, EnginesTyped, Call
<1>11. QED BY <1>6, <1>7, <1>10 DEF IInv

(* An empty database, an empty outbox and engines without users.           *)
LEMMA InitStep == Init => IInv
<1> SUFFICES ASSUME Init PROVE IInv OBVIOUS
<1>1. TypeOK
  BY BoundAssumption DEF Init, TypeOK, Connection, Job, NoJob, Call
<1>2. \A c \in Conn : RowsAgree(c)
  BY BoundAssumption DEF Init, RowsAgree, NoJob, Gen
<1>3. AccessIsCurrent BY DEF Init, AccessIsCurrent
<1>4. QueueMatchesOutbox BY DEF Init, QueueMatchesOutbox, NoJob
<1>5. QED BY <1>1, <1>2, <1>3, <1>4 DEF IInv, LifecycleConsistent

(* Every step, and every stutter, preserves the invariant.                 *)
LEMMA NextStep == IInv /\ [Next]_vars => IInv'
<1> SUFFICES ASSUME IInv, [Next]_vars PROVE IInv' OBVIOUS
<1>1. ASSUME NEW c \in Conn,
             \/ Create(c) \/ Rotate(c) \/ Suspend(c) \/ Resume(c) \/ Archive(c)
             \/ Retry(c) \/ BackoffElapses(c) \/ DrainNext(c)
      PROVE  IInv'
  BY <1>1, CreateStep, RotateStep, SuspendStep, ResumeStep, ArchiveStep,
     RunNowStep, BackoffStep, DrainNextStep DEF Retry
<1>2. ASSUME \/ Reconcile \/ DrainStart \/ Begin \/ XrayReplies \/ OptionalReplies
             \/ EngineFails \/ Crash \/ CrashInCompletion \/ XrayRestarts
             \/ OptionalRestarts \/ UNCHANGED vars
      PROVE  IInv'
  BY <1>2, ReconcileStep, OutsideStep, BeginStep, XrayRepliesStep,
     OptionalRepliesStep, EngineFailsStep, CrashStep, CrashInCompletionStep
<1>3. QED BY <1>1, <1>2 DEF Next

-----------------------------------------------------------------------------
(* For any connections and any bounds: every variable keeps its type.      *)
THEOREM TypeCorrect == Spec => []TypeOK
<1>1. IInv => TypeOK BY DEF IInv
<1>2. QED BY <1>1, InitStep, NextStep, PTL DEF Spec

(* For any connections and any bounds: at most the newest generation of a  *)
(* connection is accepted, across cancelled runs, retries and crashes      *)
(* between any two transactions.                                           *)
THEOREM AccessCurrent == Spec => []AccessIsCurrent
<1>1. IInv => AccessIsCurrent BY DEF IInv
<1>2. QED BY <1>1, InitStep, NextStep, PTL DEF Spec

(* The rows of a connection agree with its job whatever a cancelled or a   *)
(* repeated run has written over them.                                     *)
THEOREM Consistency == Spec => []LifecycleConsistent
<1>1. IInv => LifecycleConsistent BY DEF IInv
<1>2. QED BY <1>1, InitStep, NextStep, PTL DEF Spec

(* The runs that wait for the lock are about the newest generations, those *)
(* of a connection wait in the order of their jobs, and a job that is      *)
(* running always has the run that will end it, after crashes too.         *)
THEOREM QueueAgrees == Spec => []QueueMatchesOutbox
<1>1. IInv => QueueMatchesOutbox BY DEF IInv
<1>2. QED BY <1>1, InitStep, NextStep, PTL DEF Spec

-----------------------------------------------------------------------------
(* What every step of the lock holder that is not a completion, and every  *)
(* step outside the lock, does to the tables: nothing.                     *)
LEMMA TableSteps ==
    ASSUME IInv, Next
    PROVE  \/ UNCHANGED db
           \/ queue # <<>> /\ CompleteDb(Holder)
           \/ \E c \in Conn : \/ Create(c) \/ Rotate(c) \/ Suspend(c)
                              \/ Resume(c) \/ Archive(c)
<1>1. ASSUME NEW c \in Conn, Retry(c) \/ BackoffElapses(c) \/ DrainNext(c)
      PROVE  UNCHANGED db
  BY <1>1 DEF Retry, RunNow, BackoffElapses, DrainNext
<1>2. ASSUME Reconcile \/ DrainStart \/ EngineFails \/ Crash \/ XrayRestarts
             \/ OptionalRestarts
      PROVE  UNCHANGED db
  BY <1>2 DEF Reconcile, DrainStart, EngineFails, Crash, XrayRestarts, OptionalRestarts
<1>3. ASSUME Begin \/ XrayReplies \/ OptionalReplies \/ CrashInCompletion
      PROVE  UNCHANGED db \/ (queue # <<>> /\ CompleteDb(Holder))
  <2>1. call # NoCall => queue # <<>> BY DEF IInv, QueueMatchesOutbox
  <2>2. CASE Begin BY <2>2 DEF Begin, Complete, Fail
  <2>3. CASE XrayReplies
    BY <2>1, <2>3 DEF XrayReplies, Complete, Fail, NoCall
  <2>4. CASE OptionalReplies
    BY <2>1, <2>4 DEF OptionalReplies, Complete, NoCall
  <2>5. CASE CrashInCompletion BY <2>5 DEF CrashInCompletion
  <2>6. QED BY <1>3, <2>2, <2>3, <2>4, <2>5
<1>4. QED BY <1>1, <1>2, <1>3 DEF Next

(* A completion writes the rows of the holder's connection only, and those *)
(* of an archived connection not at all.                                   *)
LEMMA CompletionRows ==
    ASSUME IInv, queue # <<>>, CompleteDb(Holder), NEW c \in Conn
    PROVE  \/ conn'[c] = conn[c] /\ cred'[c] = cred[c]
           \/ c = Holder.conn /\ conn[c].status # "archived"
<1>1. Holder \in Run /\ RunAgrees(Holder) BY HolderFacts
<1>2. conn \in [Conn -> Connection] /\ RowsAgree(c) BY GenerationFacts DEF IInv, TypeOK
<1>3. CASE c # Holder.conn
  BY <1>3 DEF CompleteDb, CompleteActivation, CompleteResume, CompleteArchive, db,
              IInv, TypeOK
<1>4. CASE c = Holder.conn /\ conn[c].status = "archived" /\ CompleteArchive(c)
  <2>1. conn' = [conn EXCEPT ![c].status = "archived"] BY <1>4 DEF CompleteArchive
  <2>2. conn'[c] = conn[c] BY <1>2, <1>4, <2>1 DEF Connection
  <2>3. cred'[c] = [h \in Gen |-> IF cred[c][h] = "none" THEN "none" ELSE "revoked"]
    BY <1>4 DEF CompleteArchive, IInv, TypeOK
  <2>4. cred[c] \in [Gen -> {"none", "pending", "active", "revoked"}]
        /\ \A g \in Gen : cred[c][g] \in {"none", "revoked"}
    BY <1>2, <1>4 DEF IInv, TypeOK, RowsAgree
  <2>5. cred'[c] = cred[c] BY <2>3, <2>4
  <2>6. QED BY <2>2, <2>5
<1>5. CASE c = Holder.conn /\ conn[c].status = "archived" /\ UNCHANGED db
  BY <1>5 DEF db
<1>6. c = Holder.conn /\ conn[c].status = "archived" => Holder.kind = "revoke"
  BY <1>1 DEF RunAgrees
<1>7. QED BY <1>3, <1>4, <1>5, <1>6 DEF CompleteDb, Throws

(* For any connections and any bounds: an archived connection and its      *)
(* credentials never change again.                                         *)
THEOREM ArchiveIsFinal == Spec => ArchivedIsFinal
<1>1. ASSUME IInv, [Next]_vars, NEW c \in Conn, conn[c].status = "archived"
      PROVE  conn'[c] = conn[c] /\ cred'[c] = cred[c]
  <2>1. CASE UNCHANGED db BY <2>1 DEF db
  <2>2. CASE queue # <<>> /\ CompleteDb(Holder)
    BY <1>1, <2>2, CompletionRows
  <2>3. ASSUME NEW d \in Conn,
               Create(d) \/ Rotate(d) \/ Suspend(d) \/ Resume(d) \/ Archive(d)
        PROVE  conn'[c] = conn[c] /\ cred'[c] = cred[c]
    <3>1. RowsAgree(c) /\ conn[c].archived
      BY <1>1, GenerationFacts DEF RowsAgree
    <3>2. d # c BY <1>1, <2>3, <3>1 DEF Create, Rotate, Serving, Suspend, Resume, Archive
    <3>3. QED
      BY <1>1, <2>3, <3>2 DEF Create, Rotate, Suspend, Resume, Archive, RunNow, db,
                              IInv, TypeOK
  <2>4. CASE UNCHANGED vars BY <2>4 DEF vars
  <2>5. QED BY <1>1, <2>1, <2>2, <2>3, <2>4, TableSteps
<1>2. IInv /\ [Next]_vars =>
        [\A c \in Conn : conn[c].status = "archived" =>
            conn'[c] = conn[c] /\ cred'[c] = cred[c]]_vars
  BY <1>1
<1>3. QED BY <1>2, InitStep, NextStep, PTL DEF Spec, ArchivedIsFinal

-----------------------------------------------------------------------------
(* The refinement mapping.                                                 *)
DoorNow    == [d \in Conn |-> Door(d)]
EditionNow == [d \in Conn |-> conn[d].generation]

(* A step that changes the row of connection c only changes the door and   *)
(* the edition of c only.                                                  *)
LEMMA DoorOfOne ==
    ASSUME NEW c \in Conn, \A d \in Conn \ {c} : conn'[d] = conn[d]
    PROVE  /\ DoorNow' = [DoorNow EXCEPT ![c] = Door(c)']
           /\ EditionNow' = [EditionNow EXCEPT ![c] = conn'[c].generation]
           /\ DoorNow[c] = Door(c) /\ EditionNow[c] = conn[c].generation
           /\ Door(c)' = Door(c) => DoorNow' = DoorNow
           /\ conn'[c].generation = conn[c].generation => EditionNow' = EditionNow
<1>1. \A d \in Conn \ {c} : Door(d)' = Door(d) BY DEF Door, Serving
<1>2. QED BY <1>1 DEF DoorNow, EditionNow

(* A completion admits the holder's connection, or changes no door.        *)
LEMMA CompletionAdmits ==
    ASSUME IInv, queue # <<>>, CompleteDb(Holder)
    PROVE  \/ \E c \in Conn : Access!Admit(c)
           \/ UNCHANGED <<DoorNow, EditionNow>>
<1>1. Holder \in Run /\ RunAgrees(Holder) BY HolderFacts
<1>2. CASE UNCHANGED db
  BY <1>2 DEF db, DoorNow, EditionNow, Door, Serving
<1>3. ASSUME Holder.kind # "reconcile", NEW c \in Conn, c = Holder.conn,
             \/ Holder.kind \in {"activate", "rotate"} /\ CompleteActivation(c, Holder.gen)
             \/ Holder.kind = "resume" /\ ~Throws(Holder) /\ CompleteResume(c)
             \/ Holder.kind = "revoke" /\ CompleteArchive(c)
      PROVE  \/ Access!Admit(c)
             \/ UNCHANGED <<DoorNow, EditionNow>>
  <2>1. /\ conn[c] \in Connection /\ RowsAgree(c) /\ conn \in [Conn -> Connection]
        /\ job[c].status = "running"
        /\ Holder.kind = "revoke" => job[c].kind = "revoke"
    BY <1>1, <1>3, GenerationFacts DEF RunAgrees, IInv, TypeOK
  <2>2. conn[c].status # "absent" /\ (Holder.kind = "revoke" => conn[c].archived)
    BY <2>1 DEF RowsAgree
  <2>3. /\ \A d \in Conn \ {c} : conn'[d] = conn[d]
        /\ conn'[c].generation = conn[c].generation
        /\ conn'[c].archived = conn[c].archived
        /\ conn'[c].status # "absent"
        /\ ~conn[c].archived => \/ conn'[c].status = "active"
                                     /\ conn'[c].suspended = conn[c].suspended
                                \/ conn'[c].status = conn[c].status
                                     /\ conn'[c].suspended = FALSE
    BY <1>3, <2>1, <2>2 DEF CompleteActivation, CompleteResume, CompleteArchive,
                            Connection
  <2>4. CASE conn[c].archived
    <3>1. Door(c) = "gone" /\ Door(c)' = "gone" BY <2>2, <2>3, <2>4 DEF Door
    <3>2. QED BY <2>3, <3>1, DoorOfOne
  <2>5. CASE ~conn[c].archived
    <3>1. Door(c) \in {"open", "closed"} /\ Door(c)' \in {"open", "closed"}
          /\ (Door(c) = "open" => Door(c)' = "open")
      BY <2>2, <2>3, <2>5 DEF Door, Serving
    <3>2. CASE Door(c) = Door(c)' BY <2>3, <3>2, DoorOfOne
    <3>3. CASE Door(c) = "closed" /\ Door(c)' = "open"
      <4>1. /\ DoorNow[c] = "closed" /\ DoorNow' = [DoorNow EXCEPT ![c] = "open"]
            /\ EditionNow' = EditionNow
        BY <2>3, <3>3, DoorOfOne
      <4>2. QED BY <4>1 DEF Access!Admit, DoorNow, EditionNow
    <3>4. QED BY <3>1, <3>2, <3>3
  <2>6. QED BY <2>4, <2>5
<1>4. Holder.kind # "reconcile" => Holder.conn \in Conn BY <1>1 DEF RunAgrees, Run
<1>5. QED BY <1>2, <1>3, <1>4 DEF CompleteDb

(* An owner's request issues, reissues, shuts or retires, or changes no    *)
(* door.                                                                   *)
LEMMA RequestMoves ==
    ASSUME IInv, NEW c \in Conn,
           Create(c) \/ Rotate(c) \/ Suspend(c) \/ Resume(c) \/ Archive(c)
    PROVE  \/ Access!Issue(c) \/ Access!Reissue(c) \/ Access!Shut(c) \/ Access!Retire(c)
           \/ UNCHANGED <<DoorNow, EditionNow>>
<1>1. conn[c] \in Connection /\ RowsAgree(c) /\ conn \in [Conn -> Connection]
      /\ (conn[c].status # "absent" => conn[c].generation \in Gen)
  BY GenerationFacts DEF IInv, TypeOK
<1>2. CASE UNCHANGED db
  BY <1>2 DEF db, DoorNow, EditionNow, Door, Serving
<1>3. CASE Create(c)
  <2>1. /\ \A d \in Conn \ {c} : conn'[d] = conn[d]
        /\ conn[c].status = "absent" /\ ~conn[c].archived /\ conn[c].generation = 0
        /\ conn'[c].status = "provisioning" /\ conn'[c].generation = 1
        /\ ~conn'[c].archived
    BY <1>1, <1>3 DEF Create, RowsAgree, Connection
  <2>2. Door(c) = "none" /\ Door(c)' = "closed" BY <2>1 DEF Door, Serving
  <2>3. /\ DoorNow[c] = "none" /\ DoorNow' = [DoorNow EXCEPT ![c] = "closed"]
        /\ EditionNow' = [EditionNow EXCEPT ![c] = 1]
    BY <2>1, <2>2, DoorOfOne
  <2>4. QED BY <2>3 DEF Access!Issue, DoorNow, EditionNow
<1>4. CASE Rotate(c)
  <2> DEFINE g == conn[c].generation + 1
             k == [conn[c] EXCEPT !.status = "rotating", !.generation = g,
                                  !.activated = FALSE]
  <2>1. conn' = [conn EXCEPT ![c] = k] /\ Serving(c) /\ conn[c].generation < MaxGen
    BY <1>4 DEF Rotate
  <2>2. k.status = "rotating" /\ k.generation = g /\ k.archived = conn[c].archived
    BY <1>1 DEF Connection
  <2> HIDE DEF k
  <2>3. conn'[c] = k /\ \A d \in Conn \ {c} : conn'[d] = conn[d] BY <1>1, <2>1
  <2>4. Door(c) = "open" /\ Door(c)' = "closed"
    BY <2>1, <2>2, <2>3 DEF Door, Serving
  <2>5. /\ DoorNow[c] = "open" /\ DoorNow' = [DoorNow EXCEPT ![c] = "closed"]
        /\ EditionNow[c] = conn[c].generation
        /\ EditionNow' = [EditionNow EXCEPT ![c] = g]
    BY <2>2, <2>3, <2>4, DoorOfOne
  <2> HIDE DEF g
  <2>6. g = EditionNow[c] + 1 BY <2>5 DEF g
  <2>7. QED BY <2>1, <2>5, <2>6 DEF Access!Reissue, DoorNow, EditionNow
<1>5. CASE /\ conn' = [conn EXCEPT ![c].suspended = TRUE]
           /\ conn[c].status = "active" /\ ~conn[c].archived
  <2>1. /\ \A d \in Conn \ {c} : conn'[d] = conn[d]
        /\ conn'[c].status = "active" /\ ~conn'[c].archived /\ conn'[c].suspended
        /\ conn'[c].generation = conn[c].generation
    BY <1>1, <1>5 DEF Connection
  <2>2. Door(c) \in {"open", "closed"} /\ Door(c)' = "closed"
    BY <1>5, <2>1 DEF Door, Serving
  <2>3. CASE Door(c) = "closed" BY <2>1, <2>2, <2>3, DoorOfOne
  <2>4. CASE Door(c) = "open"
    <3>1. /\ DoorNow[c] = "open" /\ DoorNow' = [DoorNow EXCEPT ![c] = "closed"]
          /\ EditionNow' = EditionNow
      BY <2>1, <2>2, <2>4, DoorOfOne
    <3>2. QED BY <3>1 DEF Access!Shut, DoorNow, EditionNow
  <2>5. QED BY <2>2, <2>3, <2>4
<1>6. CASE Archive(c)
  <2>1. /\ \A d \in Conn \ {c} : conn'[d] = conn[d]
        /\ conn[c].status # "absent" /\ ~conn[c].archived
        /\ conn'[c].status = "archiving" /\ conn'[c].archived
        /\ conn'[c].generation = conn[c].generation
    BY <1>1, <1>6 DEF Archive, Connection
  <2>2. Door(c) \in {"open", "closed"} /\ Door(c)' = "gone"
    BY <2>1 DEF Door
  <2>3. /\ DoorNow[c] \in {"closed", "open"}
        /\ DoorNow' = [DoorNow EXCEPT ![c] = "gone"]
        /\ EditionNow' = EditionNow
    BY <2>1, <2>2, DoorOfOne
  <2>4. QED BY <2>3 DEF Access!Retire, DoorNow, EditionNow
<1>7. CASE Suspend(c) BY <1>2, <1>5, <1>7 DEF Suspend, RunNow
<1>8. CASE Resume(c) BY <1>2, <1>8 DEF Resume, RunNow
<1>9. QED BY <1>3, <1>4, <1>6, <1>7, <1>8

(* For any connections and any bounds: ConnectionSync implements           *)
(* ConnectionAccess.                                                       *)
THEOREM Refinement == Spec => ImplementsAccess
<1>1. Init => Access!AccessInit
  BY DEF Init, Access!AccessInit, Door
<1>2. ASSUME IInv, [Next]_vars
      PROVE  Access!AccessNext \/ UNCHANGED <<DoorNow, EditionNow>>
  <2>1. CASE UNCHANGED db \/ UNCHANGED vars
    BY <2>1 DEF db, vars, DoorNow, EditionNow, Door, Serving
  <2>2. CASE queue # <<>> /\ CompleteDb(Holder)
    BY <1>2, <2>2, CompletionAdmits DEF Access!AccessNext
  <2>3. CASE \E c \in Conn : Create(c) \/ Rotate(c) \/ Suspend(c) \/ Resume(c) \/ Archive(c)
    BY <1>2, <2>3, RequestMoves DEF Access!AccessNext
  <2>4. QED BY <1>2, <2>1, <2>2, <2>3, TableSteps
<1>3. IInv /\ [Next]_vars =>
        [Access!AccessNext]_<<[c \in Conn |-> Door(c)], [c \in Conn |-> conn[c].generation]>>
  BY <1>2 DEF DoorNow, EditionNow
<1>4. QED
  BY <1>1, <1>3, InitStep, NextStep, PTL DEF Spec, ImplementsAccess, Access!AccessSpec
=============================================================================

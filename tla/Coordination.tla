---------------------------- MODULE Coordination ----------------------------
(***************************************************************************)
(* How several agents share one project: sessions, path leases, read sets  *)
(* and the invalidations that commits send to them, host approvals, and    *)
(* work episodes, around the governed change they all end in.  That change *)
(* itself is AtomicChange, which MutationEngine implements.                *)
(*                                                                         *)
(* The server runs one request at a time.  stage_change, commit_change and *)
(* rollback_change save their work in several database transactions, and   *)
(* `pc' stops between those, where a crash can fall.                       *)
(***************************************************************************)
CONSTANTS
  Paths, Contents, Absent, Txs, Plans, NoPlan,    \* see AtomicChange
  Agents,       \* agent sessions that may be opened
  Anyone,       \* the owner of a transaction staged without an agent_id
  Free,         \* the holder of a path nobody leases
  Episodes,     \* work episodes that may be started
  NoEpisode,    \* the episode of a change staged outside of one
  Approvals,    \* approval tokens the host may grant
  NoApproval,   \* a request without a token
  Policy,       \* [Paths -> {"allow", "approve", "deny"}]: evaluate_source
  CrashPoints   \* values of pc at which the process may die

ASSUME CoordinationAssumption ==
  /\ Anyone \notin Agents /\ Free \notin Agents /\ Free # Anyone
  /\ NoEpisode \notin Episodes /\ NoApproval \notin Approvals
  /\ Policy \in [Paths -> {"allow", "approve", "deny"}]
  /\ NoPlan \notin Plans
  /\ \A o \in Plans : \E S \in SUBSET Paths :
       o.pre \in [S -> Contents \cup {Absent}] /\ o.post \in [S -> Contents \cup {Absent}]

VARIABLES
  files, status, ops,   \* the governed sources, see AtomicChange
  session,    \* [Agents -> "none" | "active" | "closed" | "gone"]
  lease,      \* [Paths -> Agents \cup {Free}]: live path leases
  seen,       \* [Agents -> SUBSET Paths]: the read set of an agent
  pending,    \* [Agents -> SUBSET (Paths \X Txs)]: pending source-invalidated
  approval,   \* [Approvals -> "none" | "active" | "spent"]
  grantee,    \* [Approvals -> Agents \cup {Anyone}]: who may use a token
  episode,    \* [Episodes -> "none" | "active" | "completed" | "closed"]
  links,      \* pairs <<e, t>>: t was staged in episode e
  owner,      \* [Txs -> Agents \cup {Anyone}]: owner_agent_id
  reserved,   \* [Txs -> SUBSET Paths]: lease_resources
  pc, req,    \* the request in progress, lost in a crash
  stale,      \* history: what an agent has read and others have committed to
  usedFor     \* history: the token each transaction was admitted with

governed == <<files, status, ops>>
agents == <<session, lease, seen, pending>>
permits == <<approval, grantee>>
work == <<episode, links>>
book == <<owner, reserved>>
server == <<pc, req>>
history == <<stale, usedFor>>
vars == <<governed, agents, permits, work, book, server, history>>

Engine == INSTANCE AtomicChange

NoReq == [tx |-> Anyone]

-----------------------------------------------------------------------------
Known(a) == session[a] \in {"active", "closed"}

(* lease_acquire: what the paths of S are leased to once a has asked.      *)
Leased(S, a) ==
  [p \in Paths |-> IF p \in S /\ lease[p] \in {Free, a} THEN a ELSE lease[p]]
Released(S, a) ==
  [p \in Paths |-> IF p \in S /\ lease[p] = a THEN Free ELSE lease[p]]

Guarded(o) == \E p \in DOMAIN o.pre : Policy[p] = "approve"

(* consume_approval's single test-and-set; an approval names an agent or   *)
(* is good for anyone.                                                     *)
Usable(k, a) == approval[k] = "active" /\ grantee[k] \in {a, Anyone}

(* Sensitivity: a completed episode still lets its changes through.        *)
OpenLinks(t) == \A e \in Episodes : <<e, t>> \in links => episode[e] # "closed"

ActiveLinks(t) == \A e \in Episodes : <<e, t>> \in links => episode[e] = "active"

(* changed_paths: the files apply really rewrote.                          *)
Changed(t) == {p \in DOMAIN ops[t].pre : ops[t].pre[p] # ops[t].post[p]}

Observers(t) == {a \in Agents \ {owner[t]} : session[a] = "active"}

Init ==
  /\ Engine!Init
  /\ session = [a \in Agents |-> "none"]
  /\ lease = [p \in Paths |-> Free]
  /\ seen = [a \in Agents |-> {}] /\ pending = [a \in Agents |-> {}]
  /\ approval = [k \in Approvals |-> "none"] /\ grantee = [k \in Approvals |-> Anyone]
  /\ episode = [e \in Episodes |-> "none"] /\ links = {}
  /\ owner = [t \in Txs |-> Anyone] /\ reserved = [t \in Txs |-> {}]
  /\ pc = "idle" /\ req = NoReq
  /\ stale = [a \in Agents |-> {}] /\ usedFor = [t \in Txs |-> NoApproval]

-----------------------------------------------------------------------------
(* Sessions, leases, read sets and invalidations                           *)

AgentOpen(a) ==
  /\ pc = "idle" /\ session[a] = "none"
  /\ session' = [session EXCEPT ![a] = "active"]
  /\ UNCHANGED <<governed, lease, seen, pending, permits, work, book, server, history>>

AgentClose(a) ==
  /\ pc = "idle" /\ Known(a)
  /\ session' = [session EXCEPT ![a] = "closed"]
  /\ lease' = Released(Paths, a)
  /\ UNCHANGED <<governed, seen, pending, permits, work, book, server, history>>

(* What belongs to the session goes with it; its tokens are revoked.       *)
AgentForget(a) ==
  /\ pc = "idle" /\ session[a] = "closed"
  /\ session' = [session EXCEPT ![a] = "gone"]
  /\ lease' = Released(Paths, a)
  /\ seen' = [seen EXCEPT ![a] = {}]
  /\ pending' = [pending EXCEPT ![a] = {}]
  /\ approval' = [k \in Approvals |-> IF Usable(k, a) /\ grantee[k] = a THEN "spent"
                                      ELSE approval[k]]
  /\ stale' = [stale EXCEPT ![a] = {}]
  /\ UNCHANGED <<governed, grantee, work, book, server, usedFor>>

LeaseAcquire(a, p) ==
  /\ pc = "idle" /\ Known(a)
  /\ lease' = Leased({p}, a)
  /\ UNCHANGED <<governed, session, seen, pending, permits, work, book, server, history>>

LeaseRelease(a, p) ==
  /\ pc = "idle" /\ lease[p] = a
  /\ lease' = [lease EXCEPT ![p] = Free]
  /\ UNCHANGED <<governed, session, seen, pending, permits, work, book, server, history>>

(* Time passes: a lease runs out, or a token does.                         *)
LeaseExpire(p) ==
  /\ lease[p] # Free
  /\ lease' = [lease EXCEPT ![p] = Free]
  /\ UNCHANGED <<governed, session, seen, pending, permits, work, book, server, history>>

ApprovalLapse(k) ==
  /\ approval[k] = "active"
  /\ approval' = [approval EXCEPT ![k] = "spent"]
  /\ UNCHANGED <<governed, agents, grantee, work, book, server, history>>

ApprovalGrant(k, a) ==
  /\ pc = "idle" /\ approval[k] = "none"
  /\ a # Anyone => Known(a)
  /\ approval' = [approval EXCEPT ![k] = "active"]
  /\ grantee' = [grantee EXCEPT ![k] = a]
  /\ UNCHANGED <<governed, agents, work, book, server, history>>

AgentObserve(a, p) ==
  /\ pc = "idle" /\ Known(a)
  /\ files[p] # Absent
  /\ seen' = [seen EXCEPT ![a] = @ \cup {p}]
  /\ stale' = [stale EXCEPT ![a] = @ \ {p}]
  /\ UNCHANGED <<governed, session, lease, pending, permits, work, book, server, usedFor>>

(* agent_ack_notification, which takes the agent's word for it.            *)
AgentAck(a, n) ==
  /\ pc = "idle" /\ Known(a) /\ n \in pending[a]
  /\ pending' = [pending EXCEPT ![a] = @ \ {n}]
  /\ stale' = [stale EXCEPT ![a] = @ \ {n[1]}]
  /\ UNCHANGED <<governed, session, lease, seen, permits, work, book, server, usedFor>>

(* agent_revalidate_notification, which reads the file again first.        *)
AgentRevalidate(a, n) ==
  /\ pc = "idle" /\ Known(a) /\ n \in pending[a]
  /\ pending' = [pending EXCEPT ![a] = @ \ {n}]
  /\ seen' = [seen EXCEPT ![a] = IF files[n[1]] # Absent THEN @ \cup {n[1]} ELSE @]
  /\ stale' = [stale EXCEPT ![a] = @ \ {n[1]}]
  /\ UNCHANGED <<governed, session, lease, permits, work, book, server, usedFor>>

-----------------------------------------------------------------------------
(* Work episodes                                                           *)

EpisodeStart(e) ==
  /\ pc = "idle" /\ episode[e] = "none"
  /\ episode' = [episode EXCEPT ![e] = "active"]
  /\ UNCHANGED <<governed, agents, permits, links, book, server, history>>

EpisodeFinish(e, outcome) ==
  /\ pc = "idle" /\ episode[e] = "active"
  /\ outcome = "completed" =>
       \A t \in Txs : <<e, t>> \in links => status[t] # "staged"
  /\ episode' = [episode EXCEPT ![e] = outcome]
  /\ UNCHANGED <<governed, agents, permits, links, book, server, history>>

-----------------------------------------------------------------------------
(* stage_change                                                            *)

(* Everything that can refuse a change before anything is kept of it.      *)
Admissible(o, a, e, k) ==
  /\ e # NoEpisode => episode[e] = "active"
  /\ a # Anyone => Known(a)
  /\ \A p \in DOMAIN o.pre : Policy[p] # "deny"
  /\ Guarded(o) => k # NoApproval /\ Usable(k, a)

(* Sensitivity: the token is only looked at.                               *)
KeepToken(o, k) == approval' = approval

Spend(o, k) ==
  approval' = IF Guarded(o) THEN [approval EXCEPT ![k] = "spent"] ELSE approval

Taken(o, a) == {p \in DOMAIN o.pre : lease[p] \notin {Free, a}}

(* The token is spent and every path leased, in one order for all agents.  *)
StageAdmit(t, o, a, e, k) ==
  /\ pc = "idle" /\ status[t] = "none"
  /\ Admissible(o, a, e, k)
  /\ Spend(o, k)
  /\ a # Anyone => Taken(o, a) = {}
  /\ lease' = IF a = Anyone THEN lease ELSE Leased(DOMAIN o.pre, a)
  /\ req' = [tx |-> t, ops |-> o, agent |-> a, episode |-> e,
             approval |-> IF Guarded(o) THEN k ELSE NoApproval]
  /\ pc' = "begin"
  /\ UNCHANGED <<governed, session, seen, pending, grantee, work, book, history>>

(* Another agent has one of the paths.  The paths leased up to that one    *)
(* are released, including those the agent had leased before it asked.     *)
StageConflict(o, a, e, k) ==
  /\ pc = "idle" /\ a # Anyone
  /\ Admissible(o, a, e, k)
  /\ Spend(o, k)
  /\ Taken(o, a) # {}
  /\ \E S \in SUBSET (DOMAIN o.pre \ Taken(o, a)) : lease' = Released(S, a)
  /\ UNCHANGED <<governed, session, seen, pending, grantee, work, book, server, history>>

(* begin saves the record before it has an owner.                          *)
StageBegin ==
  /\ pc = "begin"
  /\ Engine!Stage(req.tx, req.ops)
  /\ usedFor' = [usedFor EXCEPT ![req.tx] = req.approval]
  /\ pc' = "own"
  /\ UNCHANGED <<agents, permits, work, book, req, stale>>

(* Sensitivity: only the files the preview shows as changed stay reserved. *)
StageOwnChanged ==
  /\ pc = "own"
  /\ owner' = [owner EXCEPT ![req.tx] = req.agent]
  /\ reserved' = [reserved EXCEPT ![req.tx] =
                    IF req.agent = Anyone THEN {} ELSE Changed(req.tx)]
  /\ lease' = IF req.agent = Anyone THEN lease ELSE Leased(DOMAIN req.ops.pre, req.agent)
  /\ pc' = "link"
  /\ UNCHANGED <<governed, session, seen, pending, permits, work, req, history>>

StageOwn ==
  /\ pc = "own"
  /\ owner' = [owner EXCEPT ![req.tx] = req.agent]
  /\ reserved' = [reserved EXCEPT ![req.tx] =
                    IF req.agent = Anyone THEN {} ELSE DOMAIN req.ops.pre]
  /\ lease' = IF req.agent = Anyone THEN lease ELSE Leased(DOMAIN req.ops.pre, req.agent)
  /\ pc' = "link"
  /\ UNCHANGED <<governed, session, seen, pending, permits, work, req, history>>

(* The sources drifted, or something raised: the leases are given back.    *)
StageRaise ==
  /\ pc \in {"begin", "own"}
  /\ lease' = IF req.agent = Anyone THEN lease ELSE Released(DOMAIN req.ops.pre, req.agent)
  /\ pc' = "idle" /\ req' = NoReq
  /\ UNCHANGED <<governed, session, seen, pending, permits, work, book, history>>

StageLink ==
  /\ pc = "link"
  /\ links' = IF req.episode = NoEpisode THEN links ELSE links \cup {<<req.episode, req.tx>>}
  /\ pc' = "idle" /\ req' = NoReq
  /\ UNCHANGED <<governed, agents, permits, episode, book, history>>

-----------------------------------------------------------------------------
(* commit_change and rollback_change, called by agent a or by Anyone       *)

MayAct(t, a) == owner[t] # Anyone => a = owner[t]

(* Sensitivity: invalidations do not block a commit.                       *)
CommitAdmittedBlindly(t, a) ==
  /\ pc = "idle" /\ status[t] # "none"
  /\ MayAct(t, a)
  /\ owner[t] # Anyone => \A p \in reserved[t] : lease[p] = owner[t]
  /\ ActiveLinks(t)

CommitAdmitted(t, a) ==
  /\ pc = "idle" /\ status[t] # "none"
  /\ MayAct(t, a)
  /\ owner[t] # Anyone =>
       /\ \A p \in reserved[t] : lease[p] = owner[t]
       /\ pending[owner[t]] = {}
  /\ ActiveLinks(t)

Commit(t, a) ==
  /\ CommitAdmitted(t, a)
  /\ Engine!Commit(t)
  /\ stale' = [b \in Agents |-> IF b \in Observers(t) THEN stale[b] \cup (seen[b] \cap Changed(t))
                                ELSE stale[b]]
  /\ req' = [tx |-> t]
  /\ pc' = "notify"
  /\ UNCHANGED <<agents, permits, work, book, usedFor>>

(* apply raised and undid itself; the leases stay.                         *)
CommitRaise(t, a) ==
  /\ CommitAdmitted(t, a)
  /\ Engine!Abort(t)
  /\ UNCHANGED <<agents, permits, work, book, server, history>>

(* Sensitivity: an invalidation names the path but not its cause.          *)
NotifyWithoutCause ==
  /\ pc = "notify"
  /\ pending' = [b \in Agents |-> IF b \in Observers(req.tx)
                                  THEN pending[b] \cup (seen[b] \cap Changed(req.tx))
                                  ELSE pending[b]]
  /\ pc' = "release"
  /\ UNCHANGED <<governed, session, lease, seen, permits, work, book, req, history>>

(* _notify_observers: one invalidation for each reader and changed path.   *)
Notify ==
  /\ pc = "notify"
  /\ pending' = [b \in Agents |->
                   IF b \in Observers(req.tx)
                   THEN pending[b] \cup ((seen[b] \cap Changed(req.tx)) \X {req.tx})
                   ELSE pending[b]]
  /\ pc' = "release"
  /\ UNCHANGED <<governed, session, lease, seen, permits, work, book, req, history>>

Release ==
  /\ pc = "release"
  /\ lease' = IF owner[req.tx] = Anyone THEN lease
              ELSE Released(reserved[req.tx], owner[req.tx])
  /\ pc' = "idle" /\ req' = NoReq
  /\ UNCHANGED <<governed, session, seen, pending, permits, work, book, history>>

(* Cancels a staged change or reverts a committed one; no lease is looked  *)
(* at and nobody is notified.                                              *)
Rollback(t, a) ==
  /\ pc = "idle" /\ status[t] \in {"staged", "committed"}
  /\ MayAct(t, a)
  /\ Engine!Abort(t) \/ Engine!Revert(t)
  /\ req' = [tx |-> t]
  /\ pc' = "release"
  /\ UNCHANGED <<agents, permits, work, book, history>>

-----------------------------------------------------------------------------
Crash ==
  /\ pc \in CrashPoints
  /\ pc' = "idle" /\ req' = NoReq
  /\ UNCHANGED <<governed, agents, permits, work, book, history>>

Edit(p, c) ==
  /\ Engine!Edit(p, c)
  /\ UNCHANGED <<agents, permits, work, book, server, history>>

Coordinate ==
  \/ \E a \in Agents : AgentOpen(a) \/ AgentClose(a) \/ AgentForget(a)
  \/ \E a \in Agents, p \in Paths : LeaseAcquire(a, p) \/ LeaseRelease(a, p) \/ AgentObserve(a, p)
  \/ \E a \in Agents : \E n \in pending[a] : AgentAck(a, n) \/ AgentRevalidate(a, n)
  \/ \E k \in Approvals, a \in Agents \cup {Anyone} : ApprovalGrant(k, a)
  \/ \E e \in Episodes : EpisodeStart(e) \/ \E s \in {"completed", "closed"} : EpisodeFinish(e, s)

Change ==
  \/ \E o \in Plans, a \in Agents \cup {Anyone}, e \in Episodes \cup {NoEpisode},
        k \in Approvals \cup {NoApproval} :
       StageConflict(o, a, e, k) \/ \E t \in Txs : StageAdmit(t, o, a, e, k)
  \/ StageBegin \/ StageOwn \/ StageRaise \/ StageLink
  \/ \E t \in Txs, a \in Agents \cup {Anyone} : Commit(t, a) \/ CommitRaise(t, a) \/ Rollback(t, a)
  \/ Notify \/ Release

Environment ==
  \/ \E p \in Paths : LeaseExpire(p)
  \/ \E k \in Approvals : ApprovalLapse(k)
  \/ \E p \in Paths, c \in Contents \cup {Absent} : Edit(p, c)
  \/ Crash

Next == Coordinate \/ Change \/ Environment

Spec == Init /\ [][Next]_vars

-----------------------------------------------------------------------------
(* Properties                                                              *)

(* Every variable has its type.                                            *)
TypeOK ==
  /\ files \in [Paths -> Contents \cup {Absent}]
  /\ status \in [Txs -> {"none", "staged", "committed", "rolled-back"}]
  /\ ops \in [Txs -> Plans \cup {NoPlan}]
  /\ \A t \in Txs : status[t] # "none" => ops[t] \in Plans
  /\ session \in [Agents -> {"none", "active", "closed", "gone"}]
  /\ lease \in [Paths -> Agents \cup {Free}]
  /\ seen \in [Agents -> SUBSET Paths] /\ stale \in [Agents -> SUBSET Paths]
  /\ pending \in [Agents -> SUBSET (Paths \X Txs)]
  /\ approval \in [Approvals -> {"none", "active", "spent"}]
  /\ grantee \in [Approvals -> Agents \cup {Anyone}]
  /\ episode \in [Episodes -> {"none", "active", "completed", "closed"}]
  /\ links \subseteq Episodes \X Txs
  /\ owner \in [Txs -> Agents \cup {Anyone}] /\ reserved \in [Txs -> SUBSET Paths]
  /\ pc \in {"idle", "begin", "own", "link", "notify", "release"}
  /\ pc # "idle" => req.tx \in Txs
  /\ usedFor \in [Txs -> Approvals \cup {NoApproval}]

Commits(t) == status[t] # "committed" /\ status'[t] = "committed"

(* An agent never commits on top of a file it has read and another agent   *)
(* has since committed to, unless it acknowledged or read that change: the *)
(* invalidation reaches it before its next request.  Between the commit    *)
(* and the invalidation the process must not die (CrashPoints).            *)
CommitsOnFreshReads ==
  [][\A t \in Txs : Commits(t) /\ owner[t] # Anyone => stale[owner[t]] = {}]_vars

(* A commit of an agent's transaction happens with every path it touches   *)
(* leased to that agent, whatever was leased, released, lost or restarted  *)
(* since the transaction was staged.                                       *)
CommitsUnderLease ==
  [][\A t \in Txs : Commits(t) /\ owner[t] # Anyone =>
       \A p \in DOMAIN ops[t].pre : lease[p] = owner[t]]_vars

(* A completed episode leaves no staged change behind, and a change staged *)
(* in an episode is not committed once that episode has ended.             *)
EndedEpisodesAreFinal ==
  /\ [](\A l \in links : episode[l[1]] = "completed" => status[l[2]] # "staged")
  /\ [][\A l \in links : Commits(l[2]) => episode[l[1]] = "active"]_vars

(* A change to a path that needs approval has a token of its own: no token *)
(* admits two transactions, whoever asks and whatever fails in between.    *)
OneTokenEach ==
  \A t \in Txs : status[t] # "none" /\ Guarded(ops[t]) =>
    /\ usedFor[t] # NoApproval
    /\ \A u \in Txs : usedFor[u] = usedFor[t] => u = t

(* What a path lease is for: as long as one agent leases a path, no        *)
(* transaction of another agent changes it, by a commit or by a rollback.  *)
NoOverlap ==
  [][\A t \in Txs : owner[t] # Anyone /\ status'[t] # status[t] =>
       \A p \in Paths : files'[p] # files[p] => lease[p] \in {owner[t], Free}]_vars

=============================================================================

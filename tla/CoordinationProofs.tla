------------------------- MODULE CoordinationProofs -------------------------
(* What holds of Coordination for every set of agents, paths, changes,     *)
(* tokens and episodes, and wherever the process may die.                  *)
EXTENDS Coordination, TLAPS

-----------------------------------------------------------------------------
(* Type correctness                                                        *)

(* A staging request on its way carries what StageAdmit put into it.       *)
ReqTyped ==
  pc \in {"begin", "own", "link"} =>
    req \in [tx : Txs, ops : Plans, agent : Agents \cup {Anyone},
             episode : Episodes \cup {NoEpisode}, approval : Approvals \cup {NoApproval}]

TypeInv == TypeOK /\ ReqTyped

USE DEF Engine!File

(* A change is about paths and maps them to files.                         *)
LEMMA PlanFacts ==
  ASSUME NEW o \in Plans
  PROVE  /\ DOMAIN o.pre \subseteq Paths
         /\ DOMAIN o.post = DOMAIN o.pre
         /\ \A p \in DOMAIN o.pre : o.pre[p] \in Contents \cup {Absent}
         /\ \A p \in DOMAIN o.post : o.post[p] \in Contents \cup {Absent}
<1>1. PICK S \in SUBSET Paths :
        o.pre \in [S -> Contents \cup {Absent}] /\ o.post \in [S -> Contents \cup {Absent}]
  BY CoordinationAssumption
<1> QED
  BY <1>1

(* Taking and giving back leases keeps them leases.                        *)
LEMMA LeaseTyped ==
  ASSUME TypeOK, NEW S, NEW a \in Agents
  PROVE  /\ Leased(S, a) \in [Paths -> Agents \cup {Free}]
         /\ Released(S, a) \in [Paths -> Agents \cup {Free}]
BY DEF TypeOK, Leased, Released

(* The governed variables keep their types in every step of the engine.    *)
GovernedTyped ==
  /\ files \in [Paths -> Contents \cup {Absent}]
  /\ status \in [Txs -> {"none", "staged", "committed", "rolled-back"}]
  /\ ops \in [Txs -> Plans \cup {NoPlan}]
  /\ \A t \in Txs : status[t] # "none" => ops[t] \in Plans

LEMMA EngineTyped ==
  ASSUME GovernedTyped, NEW t \in Txs, NEW o \in Plans,
         Engine!Stage(t, o) \/ Engine!Commit(t) \/ Engine!Abort(t) \/ Engine!Revert(t)
  PROVE  GovernedTyped'
<1>1. CASE Engine!Stage(t, o)
  BY <1>1 DEF Engine!Stage, GovernedTyped
<1>2. CASE Engine!Abort(t)
  BY <1>2 DEF Engine!Abort, GovernedTyped
<1>3. ASSUME Engine!Commit(t) \/ Engine!Revert(t) PROVE GovernedTyped'
  <2>1. ops[t] \in Plans
    BY <1>3 DEF Engine!Commit, Engine!Revert, GovernedTyped
  <2>2. Engine!Overlay(ops[t].post) \in [Paths -> Contents \cup {Absent}]
    BY <2>1, PlanFacts DEF Engine!Overlay, GovernedTyped
  <2>3. Engine!Overlay(ops[t].pre) \in [Paths -> Contents \cup {Absent}]
    BY <2>1, PlanFacts DEF Engine!Overlay, GovernedTyped
  <2>4. CASE Engine!Commit(t)
    BY <2>4, <2>2 DEF Engine!Commit, GovernedTyped
  <2>5. CASE Engine!Revert(t)
    BY <2>5, <2>3 DEF Engine!Revert, GovernedTyped
  <2> QED
    BY <1>3, <2>4, <2>5
<1> QED
  BY <1>1, <1>2, <1>3

LEMMA TypeInit == Init => TypeInv
BY CoordinationAssumption DEF Init, Engine!Init, TypeInv, TypeOK, ReqTyped, NoReq

(* A step of the sessions, leases, read sets, tokens and episodes.         *)
LEMMA TypeCoordinate == TypeInv /\ Coordinate => TypeInv'
<1> SUFFICES ASSUME TypeInv, Coordinate PROVE TypeInv'
  OBVIOUS
<1> USE DEF TypeInv, governed, agents, permits, work, book, server, history
<1>1. ASSUME NEW a \in Agents, AgentOpen(a) PROVE TypeInv'
  BY <1>1 DEF AgentOpen, TypeOK, ReqTyped
<1>2. ASSUME NEW a \in Agents, AgentClose(a) PROVE TypeInv'
  BY <1>2, LeaseTyped DEF AgentClose, TypeOK, ReqTyped
<1>3. ASSUME NEW a \in Agents, AgentForget(a) PROVE TypeInv'
  BY <1>3, LeaseTyped DEF AgentForget, TypeOK, ReqTyped
<1>4. ASSUME NEW a \in Agents, NEW p \in Paths, LeaseAcquire(a, p) PROVE TypeInv'
  BY <1>4, LeaseTyped DEF LeaseAcquire, TypeOK, ReqTyped
<1>5. ASSUME NEW a \in Agents, NEW p \in Paths, LeaseRelease(a, p) PROVE TypeInv'
  BY <1>5 DEF LeaseRelease, TypeOK, ReqTyped
<1>6. ASSUME NEW a \in Agents, NEW p \in Paths, AgentObserve(a, p) PROVE TypeInv'
  BY <1>6 DEF AgentObserve, TypeOK, ReqTyped
<1>7. ASSUME NEW a \in Agents, NEW n \in pending[a], AgentAck(a, n) PROVE TypeInv'
  BY <1>7 DEF AgentAck, TypeOK, ReqTyped
<1>8. ASSUME NEW a \in Agents, NEW n \in pending[a], AgentRevalidate(a, n) PROVE TypeInv'
  <2>1. n[1] \in Paths
    BY DEF TypeOK
  <2> QED
    BY <1>8, <2>1 DEF AgentRevalidate, TypeOK, ReqTyped
<1>9. ASSUME NEW k \in Approvals, NEW a \in Agents \cup {Anyone}, ApprovalGrant(k, a)
      PROVE TypeInv'
  BY <1>9 DEF ApprovalGrant, TypeOK, ReqTyped
<1>10. ASSUME NEW e \in Episodes, EpisodeStart(e) PROVE TypeInv'
  BY <1>10 DEF EpisodeStart, TypeOK, ReqTyped
<1>11. ASSUME NEW e \in Episodes, NEW s \in {"completed", "closed"}, EpisodeFinish(e, s)
       PROVE TypeInv'
  BY <1>11 DEF EpisodeFinish, TypeOK, ReqTyped
<1> QED
  BY <1>1, <1>2, <1>3, <1>4, <1>5, <1>6, <1>7, <1>8, <1>9, <1>10, <1>11 DEF Coordinate

(* A step of a change or of a commit, a rollback and what follows them.    *)
LEMMA TypeChange == TypeInv /\ Change => TypeInv'
<1> SUFFICES ASSUME TypeInv, Change PROVE TypeInv'
  OBVIOUS
<1> USE DEF TypeInv, governed, agents, permits, work, book, server, history
<1>1. ASSUME NEW o \in Plans, NEW a \in Agents \cup {Anyone}, NEW e \in Episodes \cup {NoEpisode},
             NEW k \in Approvals \cup {NoApproval}, StageConflict(o, a, e, k)
      PROVE  TypeInv'
  <2>1. approval' \in [Approvals -> {"none", "active", "spent"}]
    BY <1>1 DEF StageConflict, Spend, TypeOK
  <2>2. lease' \in [Paths -> Agents \cup {Free}]
    BY <1>1, LeaseTyped DEF StageConflict
  <2> QED
    BY <1>1, <2>1, <2>2 DEF StageConflict, TypeOK, ReqTyped
<1>2. ASSUME NEW t \in Txs, NEW o \in Plans, NEW a \in Agents \cup {Anyone},
             NEW e \in Episodes \cup {NoEpisode}, NEW k \in Approvals \cup {NoApproval},
             StageAdmit(t, o, a, e, k)
      PROVE  TypeInv'
  <2>1. approval' \in [Approvals -> {"none", "active", "spent"}]
    BY <1>2 DEF StageAdmit, Spend, TypeOK
  <2>2. lease' \in [Paths -> Agents \cup {Free}]
    BY <1>2, LeaseTyped DEF StageAdmit, TypeOK
  <2>3. /\ req' \in [tx : Txs, ops : Plans, agent : Agents \cup {Anyone},
                    episode : Episodes \cup {NoEpisode}, approval : Approvals \cup {NoApproval}]
        /\ req'.tx \in Txs
    BY <1>2 DEF StageAdmit
  <2> QED
    BY <1>2, <2>1, <2>2, <2>3 DEF StageAdmit, TypeOK, ReqTyped
<1>3. CASE StageBegin
  <2>1. req.tx \in Txs /\ req.ops \in Plans /\ req.approval \in Approvals \cup {NoApproval}
    BY <1>3 DEF StageBegin, ReqTyped
  <2>2. GovernedTyped'
    BY <1>3, <2>1, EngineTyped DEF StageBegin, GovernedTyped, TypeOK
  <2> QED
    BY <1>3, <2>1, <2>2 DEF StageBegin, GovernedTyped, TypeOK, ReqTyped
<1>4. CASE StageOwn
  <2>1. /\ req.tx \in Txs /\ req.ops \in Plans /\ req.agent \in Agents \cup {Anyone}
        /\ DOMAIN req.ops.pre \subseteq Paths
    BY <1>4, PlanFacts DEF StageOwn, ReqTyped
  <2>2. lease' \in [Paths -> Agents \cup {Free}]
    BY <1>4, <2>1, LeaseTyped DEF StageOwn, TypeOK
  <2> QED
    BY <1>4, <2>1, <2>2 DEF StageOwn, TypeOK, ReqTyped
<1>5. CASE StageRaise
  <2>1. req.agent \in Agents \cup {Anyone}
    BY <1>5 DEF StageRaise, ReqTyped
  <2>2. lease' \in [Paths -> Agents \cup {Free}]
    BY <1>5, <2>1, LeaseTyped DEF StageRaise, TypeOK
  <2> QED
    BY <1>5, <2>2 DEF StageRaise, TypeOK, ReqTyped
<1>6. CASE StageLink
  BY <1>6 DEF StageLink, TypeOK, ReqTyped
<1>7. ASSUME NEW t \in Txs, NEW a \in Agents \cup {Anyone},
             Commit(t, a) \/ CommitRaise(t, a) \/ Rollback(t, a)
      PROVE  TypeInv'
  <2>1. ops[t] \in Plans
    BY <1>7 DEF Commit, CommitRaise, Rollback, CommitAdmitted, TypeOK
  <2>2. GovernedTyped'
    BY <1>7, <2>1, EngineTyped DEF Commit, CommitRaise, Rollback, GovernedTyped, TypeOK
  <2>3. stale' \in [Agents -> SUBSET Paths] /\ usedFor' = usedFor
    BY <1>7 DEF Commit, CommitRaise, Rollback, TypeOK
  <2>4. \/ UNCHANGED server
        \/ pc' \in {"notify", "release"} /\ req'.tx \in Txs
    BY <1>7 DEF Commit, CommitRaise, Rollback
  <2>5. UNCHANGED <<agents, permits, work, book>>
    BY <1>7 DEF Commit, CommitRaise, Rollback
  <2> QED
    BY <2>2, <2>3, <2>4, <2>5 DEF GovernedTyped, TypeOK, ReqTyped
<1>8. CASE Notify
  <2>1. req.tx \in Txs
    BY <1>8 DEF Notify, TypeOK
  <2>2. pending' \in [Agents -> SUBSET (Paths \X Txs)]
    BY <1>8, <2>1 DEF Notify, TypeOK
  <2> QED
    BY <1>8, <2>2 DEF Notify, TypeOK, ReqTyped
<1>9. CASE Release
  <2>1. req.tx \in Txs /\ owner[req.tx] \in Agents \cup {Anyone}
    BY <1>9 DEF Release, TypeOK
  <2>2. lease' \in [Paths -> Agents \cup {Free}]
    BY <1>9, <2>1, LeaseTyped DEF Release, TypeOK
  <2> QED
    BY <1>9, <2>2 DEF Release, TypeOK, ReqTyped
<1> QED
  BY <1>1, <1>2, <1>3, <1>4, <1>5, <1>6, <1>7, <1>8, <1>9 DEF Change

(* Time passing, an edit by another program, a crash.                      *)
LEMMA TypeEnvironment == TypeInv /\ Environment => TypeInv'
<1> SUFFICES ASSUME TypeInv, Environment PROVE TypeInv'
  OBVIOUS
<1> USE DEF TypeInv, governed, agents, permits, work, book, server, history
<1>1. ASSUME NEW p \in Paths, LeaseExpire(p) PROVE TypeInv'
  BY <1>1 DEF LeaseExpire, TypeOK, ReqTyped
<1>2. ASSUME NEW k \in Approvals, ApprovalLapse(k) PROVE TypeInv'
  BY <1>2 DEF ApprovalLapse, TypeOK, ReqTyped
<1>3. ASSUME NEW p \in Paths, NEW c \in Contents \cup {Absent}, Edit(p, c) PROVE TypeInv'
  BY <1>3 DEF Edit, Engine!Edit, TypeOK, ReqTyped
<1>4. CASE Crash
  BY <1>4 DEF Crash, TypeOK, ReqTyped
<1> QED
  BY <1>1, <1>2, <1>3, <1>4 DEF Environment

LEMMA TypeStep == TypeInv /\ [Next]_vars => TypeInv'
<1>1. TypeInv /\ UNCHANGED vars => TypeInv'
  BY DEF vars, governed, agents, permits, work, book, server, history, TypeInv, TypeOK, ReqTyped
<1> QED
  BY <1>1, TypeCoordinate, TypeChange, TypeEnvironment DEF Next

LEMMA TypeAlways == Spec => []TypeInv
BY TypeInit, TypeStep, PTL DEF Spec

(* Every variable of the coordination keeps its type.                      *)
THEOREM TypeCorrect == Spec => []TypeOK
BY TypeAlways, PTL DEF TypeInv

-----------------------------------------------------------------------------
(* Who owns what                                                           *)

(* A transaction with an owner reserves every path of its operations, and  *)
(* the request that is about to give it one still carries the operations   *)
(* begin has saved.                                                        *)
BookInv ==
  /\ \A t \in Txs : owner[t] # Anyone => reserved[t] = DOMAIN ops[t].pre /\ status[t] # "none"
  /\ pc = "own" => ops[req.tx] = req.ops /\ status[req.tx] # "none"

LEMMA BookInit == Init => BookInv
BY DEF Init, BookInv

(* Only staging touches owners, reservations and operations.               *)
LEMMA BookFrame ==
  ASSUME TypeOK, BookInv, UNCHANGED <<owner, reserved, ops>>,
         \A t \in Txs : status[t] # "none" => status'[t] # "none",
         pc' = "own" => UNCHANGED <<pc, req>>
  PROVE  BookInv'
BY DEF BookInv, TypeOK

LEMMA BookStep == TypeInv /\ BookInv /\ [Next]_vars => BookInv'
<1> SUFFICES ASSUME TypeInv, BookInv, [Next]_vars PROVE BookInv'
  OBVIOUS
<1> USE DEF TypeInv, governed, agents, permits, work, book, server, history
<1>1. CASE UNCHANGED vars
  BY <1>1, BookFrame DEF vars
<1>2. CASE Coordinate
  <2>1. UNCHANGED <<governed, book, server>>
    BY <1>2 DEF Coordinate, AgentOpen, AgentClose, AgentForget, LeaseAcquire, LeaseRelease,
                AgentObserve, AgentAck, AgentRevalidate, ApprovalGrant, EpisodeStart, EpisodeFinish
  <2> QED
    BY <2>1, BookFrame
<1>3. CASE Environment
  <2>1. UNCHANGED <<status, ops, book>> /\ (UNCHANGED server \/ pc' = "idle")
    BY <1>3 DEF Environment, LeaseExpire, ApprovalLapse, Edit, Engine!Edit, Crash
  <2> QED
    BY <2>1, BookFrame
<1>4. ASSUME NEW o \in Plans, NEW a \in Agents \cup {Anyone},
             NEW e \in Episodes \cup {NoEpisode}, NEW k \in Approvals \cup {NoApproval},
             StageConflict(o, a, e, k) \/ \E t \in Txs : StageAdmit(t, o, a, e, k)
      PROVE  BookInv'
  <2>1. UNCHANGED <<governed, book>> /\ (UNCHANGED server \/ pc' = "begin")
    BY <1>4 DEF StageConflict, StageAdmit
  <2> QED
    BY <2>1, BookFrame
<1>5. CASE StageBegin
  <2>1. req.tx \in Txs /\ owner[req.tx] = Anyone
    BY <1>5 DEF StageBegin, Engine!Stage, TypeOK, BookInv
  <2> QED
    BY <1>5, <2>1 DEF StageBegin, Engine!Stage, TypeOK, BookInv
<1>6. CASE StageOwn
  <2>1. req.tx \in Txs
    BY <1>6 DEF StageOwn, TypeOK
  <2> QED
    BY <1>6, <2>1 DEF StageOwn, TypeOK, BookInv
<1>7. CASE StageRaise \/ StageLink \/ Notify \/ Release
  <2>1. UNCHANGED <<governed, book>> /\ pc' # "own"
    BY <1>7 DEF StageRaise, StageLink, Notify, Release
  <2> QED
    BY <2>1, BookFrame
<1>8. ASSUME NEW t \in Txs, NEW a \in Agents \cup {Anyone},
             Commit(t, a) \/ CommitRaise(t, a) \/ Rollback(t, a)
      PROVE  BookInv'
  <2>1. UNCHANGED <<ops, book>> /\ (UNCHANGED server \/ pc' \in {"notify", "release"})
    BY <1>8 DEF Commit, CommitRaise, Rollback, Engine!Commit, Engine!Abort, Engine!Revert
  <2>2. status' = [status EXCEPT ![t] = "committed"] \/ status' = [status EXCEPT ![t] = "rolled-back"]
    BY <1>8 DEF Commit, CommitRaise, Rollback, Engine!Commit, Engine!Abort, Engine!Revert
  <2>3. \A u \in Txs : status[u] # "none" => status'[u] # "none"
    BY <2>2 DEF TypeOK
  <2> QED
    BY <2>1, <2>3, BookFrame
<1>9. CASE Change
  BY <1>9, <1>4, <1>5, <1>6, <1>7, <1>8 DEF Change
<1> QED
  BY <1>1, <1>2, <1>3, <1>9 DEF Next

(* Only commit_change makes a transaction committed.                       *)
LEMMA CommitsAreAdmitted ==
  ASSUME TypeInv, [Next]_vars, NEW t \in Txs, Commits(t)
  PROVE  \E a \in Agents \cup {Anyone} : CommitAdmitted(t, a)
<1> USE DEF TypeInv, governed, agents, permits, work, book, server, history
<1>1. ASSUME UNCHANGED status PROVE FALSE
  BY <1>1 DEF Commits
<1>2. ASSUME NEW s \in Txs, status' = [status EXCEPT ![s] = "staged"] PROVE FALSE
  BY <1>2 DEF Commits, TypeOK
<1>3. ASSUME NEW s \in Txs, status' = [status EXCEPT ![s] = "rolled-back"] PROVE FALSE
  BY <1>3 DEF Commits, TypeOK
<1>4. ~(UNCHANGED vars \/ Coordinate \/ Environment)
  BY <1>1 DEF vars, Coordinate, AgentOpen, AgentClose, AgentForget, LeaseAcquire, LeaseRelease,
              AgentObserve, AgentAck, AgentRevalidate, ApprovalGrant, EpisodeStart, EpisodeFinish,
              Environment, LeaseExpire, ApprovalLapse, Edit, Engine!Edit, Crash
<1>5. \A s \in Txs, o \in Plans, a \in Agents \cup {Anyone}, e \in Episodes \cup {NoEpisode},
         k \in Approvals \cup {NoApproval} : ~StageConflict(o, a, e, k) /\ ~StageAdmit(s, o, a, e, k)
  BY <1>1 DEF StageConflict, StageAdmit
<1>6. ~(StageOwn \/ StageRaise \/ StageLink \/ Notify \/ Release)
  BY <1>1 DEF StageOwn, StageRaise, StageLink, Notify, Release
<1>7. ~StageBegin
  BY <1>2 DEF StageBegin, Engine!Stage, TypeOK
<1>8. \A s \in Txs, a \in Agents \cup {Anyone} : ~CommitRaise(s, a) /\ ~Rollback(s, a)
  BY <1>3 DEF CommitRaise, Rollback, Engine!Abort, Engine!Revert
<1>9. PICK s \in Txs, a \in Agents \cup {Anyone} : Commit(s, a)
  BY <1>4, <1>5, <1>6, <1>7, <1>8, Zenon DEF Next, Change
<1>10. s = t
  BY <1>9 DEF Commit, Engine!Commit, Commits, TypeOK
<1> QED
  BY <1>9, <1>10 DEF Commit

(* An agent's transaction is committed with every path it touches leased   *)
(* to that agent: commit_change rechecks exactly the paths stage_change    *)
(* leased, whatever expired, crashed or was released in between.           *)
THEOREM UnderLease == Spec => CommitsUnderLease
<1> DEFINE Guard(t) == \A p \in DOMAIN ops[t].pre : lease[p] = owner[t]
<1>1. TypeInv /\ BookInv /\ [Next]_vars =>
        [\A t \in Txs : Commits(t) /\ owner[t] # Anyone => Guard(t)]_vars
  BY CommitsAreAdmitted DEF CommitAdmitted, BookInv
<1> QED
  BY <1>1, TypeAlways, BookInit, BookStep, PTL DEF Spec, CommitsUnderLease

-----------------------------------------------------------------------------
(* One token, one transaction                                              *)

(* A token that admitted a transaction, or is about to, is spent and       *)
(* admits no other; and a change that needs one has one.                   *)
TokenInv ==
  /\ \A t \in Txs : usedFor[t] # NoApproval => approval[usedFor[t]] = "spent"
  /\ \A t, u \in Txs : usedFor[t] # NoApproval /\ usedFor[t] = usedFor[u] => t = u
  /\ \A t \in Txs : status[t] # "none" /\ Guarded(ops[t]) => usedFor[t] # NoApproval
  /\ pc = "begin" =>
       /\ Guarded(req.ops) => req.approval # NoApproval
       /\ req.approval # NoApproval =>
            approval[req.approval] = "spent" /\ \A t \in Txs : usedFor[t] # req.approval

LEMMA TokenInit == Init => TokenInv
BY DEF Init, Engine!Init, TokenInv

(* Tokens are never unspent, so a step that admits nothing keeps them.     *)
LEMMA TokenFrame ==
  ASSUME TypeOK, ReqTyped, TokenInv, UNCHANGED <<usedFor, ops>>,
         \A k \in Approvals : approval[k] = "spent" => approval'[k] = "spent",
         \A t \in Txs : status'[t] # "none" => status[t] # "none",
         pc' = "begin" => UNCHANGED <<pc, req>>
  PROVE  TokenInv'
<1>1. \A t \in Txs : usedFor[t] # NoApproval => usedFor[t] \in Approvals
  BY DEF TypeOK
<1>2. pc = "begin" /\ req.approval # NoApproval => req.approval \in Approvals
  BY DEF ReqTyped
<1> QED
  BY <1>1, <1>2 DEF TokenInv, Guarded

(* Spending a usable token takes one that admitted nothing yet.            *)
LEMMA SpendFacts ==
  ASSUME TypeOK, TokenInv, NEW o \in Plans, NEW a \in Agents \cup {Anyone},
         NEW e \in Episodes \cup {NoEpisode}, NEW k \in Approvals \cup {NoApproval},
         Admissible(o, a, e, k), Spend(o, k)
  PROVE  /\ \A j \in Approvals : approval[j] = "spent" => approval'[j] = "spent"
         /\ Guarded(o) => /\ k \in Approvals /\ approval'[k] = "spent"
                          /\ \A t \in Txs : usedFor[t] # k
<1>1. \A j \in Approvals : approval[j] = "spent" => approval'[j] = "spent"
  BY DEF Spend, TypeOK
<1>2. ASSUME Guarded(o) PROVE k \in Approvals /\ approval[k] = "active"
  BY <1>2 DEF Admissible, Usable
<1>3. ASSUME Guarded(o) PROVE approval'[k] = "spent" /\ \A t \in Txs : usedFor[t] # k
  BY <1>2, <1>3, CoordinationAssumption DEF Spend, TypeOK, TokenInv
<1> QED
  BY <1>1, <1>2, <1>3

LEMMA TokenStep == TypeInv /\ TokenInv /\ [Next]_vars => TokenInv'
<1> SUFFICES ASSUME TypeInv, TokenInv, [Next]_vars PROVE TokenInv'
  OBVIOUS
<1> USE DEF TypeInv, governed, agents, permits, work, book, server, history
<1>1. CASE UNCHANGED vars
  BY <1>1, TokenFrame DEF vars
<1>2. CASE Coordinate
  <2>1. UNCHANGED <<governed, server, usedFor>>
    BY <1>2 DEF Coordinate, AgentOpen, AgentClose, AgentForget, LeaseAcquire, LeaseRelease,
                AgentObserve, AgentAck, AgentRevalidate, ApprovalGrant, EpisodeStart, EpisodeFinish
  <2>2. \/ UNCHANGED approval
        \/ \E a \in Agents : AgentForget(a)
        \/ \E k \in Approvals, a \in Agents \cup {Anyone} : ApprovalGrant(k, a)
    BY <1>2 DEF Coordinate, AgentOpen, AgentClose, LeaseAcquire, LeaseRelease,
                AgentObserve, AgentAck, AgentRevalidate, EpisodeStart, EpisodeFinish
  <2>3. \A k \in Approvals : approval[k] = "spent" => approval'[k] = "spent"
    BY <2>2 DEF AgentForget, ApprovalGrant, TypeOK
  <2> QED
    BY <2>1, <2>3, TokenFrame
<1>3. CASE Environment
  <2>1. UNCHANGED <<status, ops, usedFor>> /\ (UNCHANGED server \/ pc' = "idle")
    BY <1>3 DEF Environment, LeaseExpire, ApprovalLapse, Edit, Engine!Edit, Crash
  <2>2. \A k \in Approvals : approval[k] = "spent" => approval'[k] = "spent"
    BY <1>3 DEF Environment, LeaseExpire, ApprovalLapse, Edit, Crash, TypeOK
  <2> QED
    BY <2>1, <2>2, TokenFrame
<1>4. ASSUME NEW o \in Plans, NEW a \in Agents \cup {Anyone}, NEW e \in Episodes \cup {NoEpisode},
             NEW k \in Approvals \cup {NoApproval}, StageConflict(o, a, e, k)
      PROVE  TokenInv'
  <2>1. \A j \in Approvals : approval[j] = "spent" => approval'[j] = "spent"
    BY <1>4, SpendFacts DEF StageConflict
  <2>2. UNCHANGED <<governed, server, usedFor>>
    BY <1>4 DEF StageConflict
  <2> QED
    BY <2>1, <2>2, TokenFrame
<1>5. ASSUME NEW t \in Txs, NEW o \in Plans, NEW a \in Agents \cup {Anyone},
             NEW e \in Episodes \cup {NoEpisode}, NEW k \in Approvals \cup {NoApproval},
             StageAdmit(t, o, a, e, k)
      PROVE  TokenInv'
  <2>1. \A j \in Approvals : approval[j] = "spent" => approval'[j] = "spent"
    BY <1>5, SpendFacts DEF StageAdmit
  <2>2. Guarded(o) => /\ k \in Approvals /\ approval'[k] = "spent"
                      /\ \A u \in Txs : usedFor[u] # k
    BY <1>5, SpendFacts DEF StageAdmit
  <2>3. UNCHANGED <<governed, usedFor>>
    BY <1>5 DEF StageAdmit
  <2>4. req'.ops = o /\ req'.approval = IF Guarded(o) THEN k ELSE NoApproval
    BY <1>5 DEF StageAdmit
  <2>5. \A u \in Txs : usedFor[u] # NoApproval => usedFor[u] \in Approvals
    BY DEF TypeOK
  <2> QED
    BY <2>1, <2>2, <2>3, <2>4, <2>5, CoordinationAssumption DEF TokenInv, Guarded
<1>6. CASE StageBegin
  <2>1. /\ req.tx \in Txs /\ req.approval \in Approvals \cup {NoApproval}
        /\ ops' = [ops EXCEPT ![req.tx] = req.ops]
        /\ status' = [status EXCEPT ![req.tx] = "staged"]
        /\ usedFor' = [usedFor EXCEPT ![req.tx] = req.approval]
        /\ UNCHANGED approval /\ pc = "begin" /\ pc' = "own"
    BY <1>6 DEF StageBegin, Engine!Stage, ReqTyped
  <2>2. usedFor'[req.tx] = req.approval /\ ops'[req.tx] = req.ops
    BY <2>1 DEF TypeOK
  <2>3. \A t \in Txs \ {req.tx} :
          usedFor'[t] = usedFor[t] /\ ops'[t] = ops[t] /\ status'[t] = status[t]
    BY <2>1 DEF TypeOK
  <2>4. \A t \in Txs : usedFor'[t] # NoApproval => approval'[usedFor'[t]] = "spent"
    BY <2>1, <2>2, <2>3 DEF TokenInv
  <2>5. \A t, u \in Txs : usedFor'[t] # NoApproval /\ usedFor'[t] = usedFor'[u] => t = u
    BY <2>1, <2>2, <2>3 DEF TokenInv
  <2>6. \A t \in Txs : status'[t] # "none" /\ Guarded(ops'[t]) => usedFor'[t] # NoApproval
    BY <2>1, <2>2, <2>3 DEF TokenInv
  <2> QED
    BY <2>1, <2>4, <2>5, <2>6 DEF TokenInv, Guarded
<1>7. CASE StageOwn \/ StageRaise \/ StageLink \/ Notify \/ Release
  <2>1. UNCHANGED <<governed, permits, usedFor>> /\ pc' # "begin"
    BY <1>7 DEF StageOwn, StageRaise, StageLink, Notify, Release
  <2> QED
    BY <2>1, TokenFrame
<1>8. ASSUME NEW t \in Txs, NEW a \in Agents \cup {Anyone},
             Commit(t, a) \/ CommitRaise(t, a) \/ Rollback(t, a)
      PROVE  TokenInv'
  <2>1. UNCHANGED <<ops, permits, usedFor>> /\ (UNCHANGED server \/ pc' \in {"notify", "release"})
    BY <1>8 DEF Commit, CommitRaise, Rollback, Engine!Commit, Engine!Abort, Engine!Revert
  <2>2. status[t] # "none"
    BY <1>8 DEF Commit, CommitRaise, Rollback, CommitAdmitted
  <2>3. status' = [status EXCEPT ![t] = "committed"] \/ status' = [status EXCEPT ![t] = "rolled-back"]
    BY <1>8 DEF Commit, CommitRaise, Rollback, Engine!Commit, Engine!Abort, Engine!Revert
  <2>4. \A u \in Txs : status'[u] # "none" => status[u] # "none"
    BY <2>2, <2>3 DEF TypeOK
  <2> QED
    BY <2>1, <2>4, TokenFrame
<1>9. CASE Change
  BY <1>9, <1>4, <1>5, <1>6, <1>7, <1>8 DEF Change
<1> QED
  BY <1>1, <1>2, <1>3, <1>9 DEF Next

(* No approval token admits two transactions, and no change that needs one *)
(* was admitted without: stage_change spends it before it saves anything.  *)
THEOREM OneTokenPerChange == Spec => []OneTokenEach
<1>1. TokenInv => OneTokenEach
  BY DEF TokenInv, OneTokenEach
<1> QED
  BY <1>1, TypeAlways, TokenInit, TokenStep, PTL DEF Spec

-----------------------------------------------------------------------------
(* Fresh reads                                                             *)

(* Whatever an agent has read and another one has since changed is among   *)
(* its pending invalidations, or is about to be.                           *)
Announced(a, p) == \E t \in Txs : <<p, t>> \in pending[a]
AboutToBe(a, p) == pc = "notify" /\ a \in Observers(req.tx) /\ p \in seen[a] \cap Changed(req.tx)
FreshInv == \A a \in Agents : \A p \in stale[a] : Announced(a, p) \/ AboutToBe(a, p)

LEMMA FreshInit == Init => FreshInv
BY DEF Init, FreshInv

(* A step that neither outdates a read nor takes an invalidation away, and *)
(* lets a commit in progress reach its observers.                          *)
LEMMA FreshFrame ==
  ASSUME TypeOK, FreshInv,
         \A a \in Agents : stale'[a] \subseteq stale[a] /\ pending[a] \subseteq pending'[a],
         pc = "notify" => UNCHANGED <<pc, req, session, seen, owner, ops>>
  PROVE  FreshInv'
<1>1. \A a \in Agents, p \in Paths : Announced(a, p) => Announced(a, p)'
  BY DEF Announced
<1>2. \A a \in Agents, p \in Paths : AboutToBe(a, p) => AboutToBe(a, p)'
  BY DEF AboutToBe, Observers, Changed
<1> QED
  BY <1>1, <1>2 DEF FreshInv, TypeOK

LEMMA FreshStep ==
  ASSUME "notify" \notin CrashPoints
  PROVE  TypeInv /\ FreshInv /\ [Next]_vars => FreshInv'
<1> SUFFICES ASSUME TypeInv, FreshInv, [Next]_vars PROVE FreshInv'
  OBVIOUS
<1> USE DEF TypeInv, governed, agents, permits, work, book, server, history
<1>1. CASE UNCHANGED vars
  BY <1>1, FreshFrame DEF vars
<1>2. ASSUME NEW a \in Agents, NEW n \in pending[a], AgentAck(a, n) \/ AgentRevalidate(a, n)
      PROVE  FreshInv'
  <2>1. pc = "idle" /\ pc' = "idle" /\ n = <<n[1], n[2]>>
    BY <1>2 DEF AgentAck, AgentRevalidate, TypeOK
  <2>2. pending' = [pending EXCEPT ![a] = @ \ {n}] /\ stale' = [stale EXCEPT ![a] = @ \ {n[1]}]
    BY <1>2 DEF AgentAck, AgentRevalidate
  <2>3. \A b \in Agents \ {a} : pending'[b] = pending[b] /\ stale'[b] = stale[b]
    BY <2>2 DEF TypeOK
  <2>4. pending'[a] = pending[a] \ {n} /\ stale'[a] = stale[a] \ {n[1]}
    BY <2>2 DEF TypeOK
  <2>5. ASSUME NEW p \in stale'[a] PROVE \E t \in Txs : <<p, t>> \in pending'[a]
    <3>1. PICK t \in Txs : <<p, t>> \in pending[a]
      BY <2>1, <2>4, <2>5 DEF FreshInv, Announced, AboutToBe
    <3> QED
      BY <2>1, <2>4, <2>5, <3>1
  <2> QED
    BY <2>1, <2>3, <2>5 DEF FreshInv, Announced, AboutToBe
<1>3. ASSUME NEW a \in Agents, AgentForget(a) PROVE FreshInv'
  <2>1. /\ pc = "idle" /\ pc' = "idle" /\ stale'[a] = {}
        /\ \A b \in Agents \ {a} : pending'[b] = pending[b] /\ stale'[b] = stale[b]
    BY <1>3 DEF AgentForget, TypeOK
  <2> QED
    BY <2>1 DEF FreshInv, Announced, AboutToBe
<1>4. ASSUME NEW a \in Agents, NEW p \in Paths, AgentObserve(a, p) PROVE FreshInv'
  <2>1. pc = "idle" /\ UNCHANGED pending /\ \A b \in Agents : stale'[b] \subseteq stale[b]
    BY <1>4 DEF AgentObserve, TypeOK
  <2> QED
    BY <2>1, FreshFrame
<1>5. CASE Coordinate
  <2>1. \/ pc = "idle" /\ UNCHANGED <<pending, stale>>
        \/ \E a \in Agents : AgentForget(a)
        \/ \E a \in Agents, p \in Paths : AgentObserve(a, p)
        \/ \E a \in Agents : \E n \in pending[a] : AgentAck(a, n) \/ AgentRevalidate(a, n)
    BY <1>5 DEF Coordinate, AgentOpen, AgentClose, LeaseAcquire, LeaseRelease, ApprovalGrant,
                EpisodeStart, EpisodeFinish
  <2>2. ASSUME pc = "idle", UNCHANGED <<pending, stale>> PROVE FreshInv'
    BY <2>2, FreshFrame
  <2> QED
    BY <2>1, <2>2, <1>2, <1>3, <1>4
<1>6. CASE Environment
  <2>1. UNCHANGED <<pending, stale, session, seen, owner, ops>> /\ (UNCHANGED server \/ Crash)
    BY <1>6 DEF Environment, LeaseExpire, ApprovalLapse, Edit, Engine!Edit, Crash
  <2>2. Crash => pc # "notify"
    BY DEF Crash
  <2> QED
    BY <2>1, <2>2, FreshFrame
<1>7. CASE Notify
  <2>1. req.tx \in Txs /\ UNCHANGED stale
    BY <1>7 DEF Notify, TypeOK
  <2>2. \A a \in Agents, p \in Paths : Announced(a, p) \/ AboutToBe(a, p) => Announced(a, p)'
    BY <1>7, <2>1 DEF Notify, Announced, AboutToBe
  <2> QED
    BY <2>1, <2>2 DEF FreshInv, TypeOK
<1>8. ASSUME NEW t \in Txs, NEW a \in Agents \cup {Anyone}, Commit(t, a) PROVE FreshInv'
  <2>1. /\ pc = "idle" /\ pc' = "notify" /\ req' = [tx |-> t]
        /\ UNCHANGED <<pending, session, seen, owner, ops>>
        /\ \A b \in Agents : stale'[b] = IF b \in Observers(t)
                                         THEN stale[b] \cup (seen[b] \cap Changed(t)) ELSE stale[b]
    BY <1>8 DEF Commit, CommitAdmitted, Engine!Commit
  <2>2. \A b \in Agents : \A p \in stale[b] : Announced(b, p)'
    BY <2>1 DEF FreshInv, Announced, AboutToBe
  <2>3. ASSUME NEW b \in Observers(t), NEW p \in seen[b] \cap Changed(t) PROVE AboutToBe(b, p)'
    BY <2>1 DEF AboutToBe, Observers, Changed
  <2> QED
    BY <2>1, <2>2, <2>3 DEF FreshInv
<1>9. CASE Change
  <2>1. ASSUME \A t \in Txs, a \in Agents \cup {Anyone} : ~Commit(t, a), ~Notify
        PROVE  UNCHANGED <<pending, stale>> /\ pc # "notify"
    BY <1>9, <2>1 DEF Change, StageConflict, StageAdmit, StageBegin, StageOwn, StageRaise,
                      StageLink, CommitRaise, CommitAdmitted, Rollback, Release
  <2>2. ASSUME UNCHANGED <<pending, stale>>, pc # "notify" PROVE FreshInv'
    BY <2>2, FreshFrame
  <2> QED
    BY <2>1, <2>2, <1>7, <1>8
<1> QED
  BY <1>1, <1>5, <1>6, <1>9 DEF Next

(* As long as the process does not die between a commit and the            *)
(* invalidations it causes, no agent commits over a change to something it *)
(* has read and not looked at again.                                       *)
THEOREM FreshReads ==
  ASSUME "notify" \notin CrashPoints
  PROVE  Spec => CommitsOnFreshReads
<1> DEFINE Fresh(t) == stale[owner[t]] = {}
<1>1. ASSUME TypeInv, FreshInv, [Next]_vars, NEW t \in Txs, Commits(t), owner[t] # Anyone
      PROVE  Fresh(t)
  <2>1. pc = "idle" /\ pending[owner[t]] = {} /\ owner[t] \in Agents
    BY <1>1, CommitsAreAdmitted DEF CommitAdmitted, TypeInv, TypeOK
  <2> QED
    BY <1>1, <2>1 DEF FreshInv, Announced, AboutToBe
<1>2. TypeInv /\ FreshInv /\ [Next]_vars =>
        [\A t \in Txs : Commits(t) /\ owner[t] # Anyone => Fresh(t)]_vars
  BY <1>1
<1> QED
  BY <1>2, TypeAlways, FreshInit, FreshStep, PTL DEF Spec, CommitsOnFreshReads

-----------------------------------------------------------------------------
(* Ended episodes                                                          *)

(* What is linked to an episode is a change that was staged, not staged    *)
(* any more once the episode is completed; a staging request on its way    *)
(* has an active episode, for nothing ends one while it runs.              *)
EpisodeInv ==
  /\ \A l \in links : /\ status[l[2]] # "none"
                      /\ episode[l[1]] = "completed" => status[l[2]] # "staged"
  /\ pc \in {"own", "link"} => status[req.tx] # "none"
  /\ pc \in {"begin", "own", "link"} /\ req.episode # NoEpisode => episode[req.episode] = "active"

LEMMA EpisodeInit == Init => EpisodeInv
BY DEF Init, EpisodeInv

(* A step that stages nothing, links nothing and ends no episode.          *)
LEMMA EpisodeFrame ==
  ASSUME TypeOK, EpisodeInv, UNCHANGED work,
         \A t \in Txs : status'[t] = status[t] \/ status'[t] \in {"committed", "rolled-back"},
         pc' \in {"own", "link"} => pc \in {"own", "link"},
         pc' \in {"begin", "own", "link"} => pc \in {"begin", "own", "link"} /\ UNCHANGED req
  PROVE  EpisodeInv'
<1>1. \A l \in links : l[1] \in Episodes /\ l[2] \in Txs
  BY DEF TypeOK
<1>2. pc # "idle" => req.tx \in Txs
  BY DEF TypeOK
<1> QED
  BY <1>1, <1>2 DEF EpisodeInv, work

LEMMA EpisodeStep == TypeInv /\ EpisodeInv /\ [Next]_vars => EpisodeInv'
<1> SUFFICES ASSUME TypeInv, EpisodeInv, [Next]_vars PROVE EpisodeInv'
  OBVIOUS
<1> USE DEF TypeInv, governed, agents, permits, work, book, server, history
<1>0. \A l \in links : l[1] \in Episodes /\ l[2] \in Txs
  BY DEF TypeOK
<1>1. CASE UNCHANGED vars
  BY <1>1, EpisodeFrame DEF vars
<1>2. ASSUME NEW e \in Episodes, EpisodeStart(e) PROVE EpisodeInv'
  <2>1. /\ UNCHANGED <<status, links>> /\ pc' = "idle"
        /\ \A d \in Episodes : episode'[d] = IF d = e THEN "active" ELSE episode[d]
    BY <1>2 DEF EpisodeStart, TypeOK
  <2> QED
    BY <1>0, <2>1 DEF EpisodeInv
<1>3. ASSUME NEW e \in Episodes, NEW s \in {"completed", "closed"}, EpisodeFinish(e, s)
      PROVE  EpisodeInv'
  <2>1. /\ UNCHANGED <<status, links>> /\ pc' = "idle"
        /\ \A d \in Episodes : episode'[d] = IF d = e THEN s ELSE episode[d]
    BY <1>3 DEF EpisodeFinish, TypeOK
  <2>2. ASSUME NEW l \in links, l[1] = e, s = "completed" PROVE status[l[2]] # "staged"
    <3>1. l = <<e, l[2]>>
      BY <2>2 DEF TypeOK
    <3> QED
      BY <1>0, <1>3, <2>2, <3>1 DEF EpisodeFinish
  <2> QED
    BY <1>0, <2>1, <2>2 DEF EpisodeInv
<1>4. CASE Coordinate
  <2>1. \/ UNCHANGED <<governed, work, server>>
        \/ \E e \in Episodes : EpisodeStart(e) \/ \E s \in {"completed", "closed"} : EpisodeFinish(e, s)
    <3>1. ASSUME NEW a \in Agents, AgentOpen(a) \/ AgentClose(a) \/ AgentForget(a)
          PROVE  UNCHANGED <<governed, work, server>>
      BY <3>1 DEF AgentOpen, AgentClose, AgentForget
    <3>2. ASSUME NEW a \in Agents, NEW p \in Paths,
                 LeaseAcquire(a, p) \/ LeaseRelease(a, p) \/ AgentObserve(a, p)
          PROVE  UNCHANGED <<governed, work, server>>
      BY <3>2 DEF LeaseAcquire, LeaseRelease, AgentObserve
    <3>3. ASSUME NEW a \in Agents, NEW n \in pending[a], AgentAck(a, n) \/ AgentRevalidate(a, n)
          PROVE  UNCHANGED <<governed, work, server>>
      BY <3>3 DEF AgentAck, AgentRevalidate
    <3>4. ASSUME NEW k \in Approvals, NEW a \in Agents \cup {Anyone}, ApprovalGrant(k, a)
          PROVE  UNCHANGED <<governed, work, server>>
      BY <3>4 DEF ApprovalGrant
    <3> QED
      BY <1>4, <3>1, <3>2, <3>3, <3>4, Zenon DEF Coordinate
  <2>2. ASSUME UNCHANGED <<governed, work, server>> PROVE EpisodeInv'
    BY <2>2, EpisodeFrame
  <2> QED
    BY <2>1, <2>2, <1>2, <1>3
<1>5. CASE Environment
  <2>1. UNCHANGED <<status, work>> /\ (UNCHANGED server \/ pc' = "idle")
    BY <1>5 DEF Environment, LeaseExpire, ApprovalLapse, Edit, Engine!Edit, Crash
  <2> QED
    BY <2>1, EpisodeFrame
<1>6. ASSUME NEW o \in Plans, NEW a \in Agents \cup {Anyone}, NEW e \in Episodes \cup {NoEpisode},
             NEW k \in Approvals \cup {NoApproval}, StageConflict(o, a, e, k)
      PROVE  EpisodeInv'
  <2>1. UNCHANGED <<status, work, server>>
    BY <1>6 DEF StageConflict
  <2> QED
    BY <2>1, EpisodeFrame
<1>7. ASSUME NEW t \in Txs, NEW o \in Plans, NEW a \in Agents \cup {Anyone},
             NEW e \in Episodes \cup {NoEpisode}, NEW k \in Approvals \cup {NoApproval},
             StageAdmit(t, o, a, e, k)
      PROVE  EpisodeInv'
  <2>1. /\ UNCHANGED <<status, work>> /\ pc' = "begin" /\ req'.episode = e
        /\ e # NoEpisode => episode[e] = "active"
    BY <1>7 DEF StageAdmit, Admissible
  <2> QED
    BY <2>1 DEF EpisodeInv
<1>8. CASE StageBegin
  <2>1. /\ pc = "begin" /\ pc' = "own" /\ UNCHANGED <<work, req>>
        /\ req.tx \in Txs /\ status[req.tx] = "none"
        /\ \A t \in Txs : status'[t] = IF t = req.tx THEN "staged" ELSE status[t]
    BY <1>8 DEF StageBegin, Engine!Stage, TypeOK
  <2> QED
    BY <1>0, <2>1 DEF EpisodeInv
<1>9. CASE StageLink
  <2>1. req.tx \in Txs /\ pc = "link" /\ pc' = "idle" /\ UNCHANGED <<status, episode>>
    BY <1>9 DEF StageLink, TypeOK
  <2>2. \A l \in links' : l \in links \/ (l = <<req.episode, req.tx>> /\ req.episode # NoEpisode)
    BY <1>9 DEF StageLink
  <2> QED
    BY <2>1, <2>2 DEF EpisodeInv
<1>10. CASE StageOwn \/ StageRaise \/ Notify \/ Release
  <2>1. /\ UNCHANGED <<status, work>>
        /\ (pc = "own" /\ pc' = "link" /\ UNCHANGED req) \/ pc' \in {"idle", "release"}
    BY <1>10 DEF StageOwn, StageRaise, Notify, Release
  <2> QED
    BY <2>1, EpisodeFrame
<1>11. ASSUME NEW t \in Txs, NEW a \in Agents \cup {Anyone},
              Commit(t, a) \/ CommitRaise(t, a) \/ Rollback(t, a)
       PROVE  EpisodeInv'
  <2>1. UNCHANGED work /\ (UNCHANGED server \/ pc' \in {"notify", "release"})
    BY <1>11 DEF Commit, CommitRaise, Rollback
  <2>2. status' = [status EXCEPT ![t] = "committed"] \/ status' = [status EXCEPT ![t] = "rolled-back"]
    BY <1>11 DEF Commit, CommitRaise, Rollback, Engine!Commit, Engine!Abort, Engine!Revert
  <2>3. \A u \in Txs : status'[u] = status[u] \/ status'[u] \in {"committed", "rolled-back"}
    BY <2>2 DEF TypeOK
  <2> QED
    BY <2>1, <2>3, EpisodeFrame
<1>12. CASE Change
  BY <1>12, <1>6, <1>7, <1>8, <1>9, <1>10, <1>11 DEF Change
<1> QED
  BY <1>1, <1>4, <1>5, <1>12 DEF Next

(* A completed episode leaves no staged change behind, and no change of an *)
(* episode is committed after its end: an episode only ends between two    *)
(* requests, and commit_change asks every episode a change is linked to.   *)
THEOREM EndedEpisodes == Spec => EndedEpisodesAreFinal
<1> DEFINE Settled == \A l \in links : episode[l[1]] = "completed" => status[l[2]] # "staged"
           Final == \A l \in links : Commits(l[2]) => episode[l[1]] = "active"
<1>1. EpisodeInv => Settled
  BY DEF EpisodeInv
<1>2. ASSUME TypeInv, [Next]_vars, NEW l \in links, Commits(l[2]) PROVE episode[l[1]] = "active"
  <2>0. l \in Episodes \X Txs
    BY <1>2 DEF TypeInv, TypeOK
  <2>1. l = <<l[1], l[2]>> /\ l[1] \in Episodes /\ l[2] \in Txs
    BY <2>0
  <2>2. ActiveLinks(l[2])
    BY <1>2, <2>1, CommitsAreAdmitted DEF CommitAdmitted
  <2> QED
    BY <2>1, <2>2 DEF ActiveLinks
<1>3. TypeInv /\ [Next]_vars => [Final]_vars
  BY <1>2
<1>4. Spec => []Settled
  BY <1>1, TypeAlways, EpisodeInit, EpisodeStep, PTL DEF Spec
<1>5. Spec => [][Final]_vars
  BY <1>3, TypeAlways, PTL DEF Spec
<1> QED
  BY <1>4, <1>5 DEF EndedEpisodesAreFinal

=============================================================================

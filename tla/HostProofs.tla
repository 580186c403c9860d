----------------------------- MODULE HostProofs -----------------------------
(***************************************************************************)
(* What holds of the components of HostServices for any runtimes, lines,   *)
(* workspaces and bounds, each proved of its instance, and side by side.   *)
(***************************************************************************)
EXTENDS HostServices, Integers, Sequences, SequenceTheorems, FiniteSetTheorems,
  WellFoundedInduction, TLAPS

-----------------------------------------------------------------------------
(***************************************************************************)
(* The mirror of a browser page, for any ring, buffer, window and number   *)
(* of runtimes.                                                            *)
(*                                                                         *)
(* Why it holds: the worker is joined before the session's files are       *)
(* deleted and before anything else is tried in its place, so a thread is  *)
(* at work only from its start to the end of its session, and whoever      *)
(* writes a frame has the lock from the number to the file.                *)
(***************************************************************************)
(* What the theorems assume of the constants, and of the hazards that none *)
(* occurs.                                                                 *)
ObserverSensible ==
  /\ Main \in Runtimes /\ Ring \in Nat \ {0} /\ Window \in Nat
  /\ MaxFrames \in Nat /\ MaxEvents \in Nat /\ MaxPages \in Nat /\ MaxCrashes \in Nat
  /\ StreamHazards = {}

ObserverMains == {"idle", "loading", "starting", "awaiting", "stopping", "claiming", "falling back",
          "open", "joining", "down"}

ObserverTypeInv ==
  /\ observerBrowser \in {"down", "bare", "debuggable"} /\ observerLeased \subseteq Runtimes
  /\ observerMain \in ObserverMains
  /\ observerWorker \in {"none", "connecting", "receiving", "writing", "failing", "dead"}
  /\ observerMode \in {"snapshot", "cooperative", "live"}

ObserverFlagInv ==
  /\ observerStopping \in BOOLEAN /\ observerStarted \in BOOLEAN /\ observerLock \in BOOLEAN
  /\ observerClosed \in BOOLEAN
  /\ observerActive \in BOOLEAN /\ observerTorn \in BOOLEAN /\ observerMeta \in BOOLEAN

ObserverCountInv ==
  /\ observerSeq \in 0..MaxFrames /\ observerStreamSeq \in 0..observerSeq
  /\ observerLast \in 0..MaxFrames
  /\ \A n \in observerFrames : n \in 1..MaxFrames
  /\ observerLock => observerSeq > 0
  /\ observerOpens \in 0..MaxPages /\ observerCrashes \in 0..MaxCrashes

(* When there is a session, when a thread, and what they know of it.       *)
ObserverThreadInv ==
  /\ observerClosed <=> observerMain \in {"idle", "joining", "down"}
  /\ observerWorker \notin {"none", "dead"} => observerMain \in {"awaiting", "stopping", "claiming",
     "open", "joining"}
  /\ observerWorker \in {"none", "connecting", "dead"} => ~observerStarted
  /\ observerWorker \in {"receiving", "writing"} => observerStarted
  /\ observerLock <=> observerWorker = "writing"
  /\ observerWorker = "failing" /\ observerMain \in {"awaiting", "stopping", "claiming"}
     => ~observerStarted
  /\ observerMain = "claiming" => observerStarted
  /\ observerMain \in {"loading", "starting", "awaiting", "claiming"} => ~observerStopping
  /\ observerMode = "live" => observerMain \in {"open", "joining", "idle"}
  /\ observerMode = "live" /\ observerMain = "open" => ~observerStopping
     /\ (observerActive => observerWorker \in {"receiving", "writing"})
  /\ observerWorker \notin {"none", "dead"} /\ observerMain = "open" => observerMode = "live"

ObserverRinged(s) == {n \in 1..s : n + Ring > s}

(* The files: of a frame being written the number is taken already.        *)
ObserverFrameInv ==
  /\ observerLast # 0 => observerLast \in observerFrames
  /\ observerClosed \/ observerTorn
     \/ observerFrames = IF observerLock THEN ObserverRinged(observerSeq - 1) ELSE ObserverRinged(observerSeq)
  /\ observerMain = "idle" => observerFrames = {} /\ ~observerMeta
  /\ observerMain = "down" => observerLast = 0

ObserverEventInv ==
  /\ observerBuffered \in Nat /\ observerDropped \in Nat /\ observerSince \in 0..MaxEvents
  /\ observerBuffered + observerDropped = observerSince
  /\ observerSeen.reported < Window
     => observerSeen.reported + observerSeen.dropped = observerSeen.since

ObserverLeaseInv ==
  /\ observerBrowser # "down" <=> observerLeased # {}
  /\ ~observerClosed => Main \in observerLeased

ObserverInv == ObserverTypeInv /\ ObserverFlagInv /\ ObserverCountInv /\ ObserverThreadInv
  /\ ObserverFrameInv /\ ObserverEventInv /\ ObserverLeaseInv

-----------------------------------------------------------------------------
(* The ring moves on by one.                                               *)
LEMMA ObserverRingMoves ==
  ASSUME ObserverSensible, NEW s \in Nat
  PROVE  (ObserverRinged(s) \cup {s + 1}) \ {s + 1 - Ring} = ObserverRinged(s + 1)
BY DEF ObserverSensible, ObserverRinged

LEMMA ObserverRingIsEmpty == ObserverRinged(0) = {}
BY DEF ObserverRinged

(* The main thread, or a callback in it, writes the next frame or fails to.*)
LEMMA ObserverNextFrame ==
  ASSUME ObserverSensible, ObserverInv, observerMain \in {"loading", "open"}, ~observerLock,
    observerMain' # "idle", observerMain' # "down",
         observerSeq' = observerSeq + 1, observerLock' = observerLock,
           observerClosed' = observerClosed, Observer!Publish(observerSeq + 1) \/ Observer!Tear
  PROVE  ObserverFrameInv'
<1>1. observerSeq \in Nat
  BY DEF ObserverInv, ObserverCountInv, ObserverSensible
<1>2. CASE Observer!Publish(observerSeq + 1)
  <2>1. observerLast' # 0 => observerLast' \in observerFrames'
    BY <1>1, <1>2 DEF Observer!Publish, ObserverSensible
  <2>2. (ObserverRinged(observerSeq) \cup {observerSeq + 1}) \ {observerSeq + 1 - Ring} = ObserverRinged(observerSeq + 1)
    BY <1>1, ObserverRingMoves
  <2>3. observerClosed \/ observerTorn \/ observerFrames = ObserverRinged(observerSeq)
    BY DEF ObserverInv, ObserverFrameInv
  <2>4. observerFrames' = (observerFrames \cup {observerSeq + 1}) \ {observerSeq + 1 - Ring}
    BY <1>1, <1>2 DEF Observer!Publish, ObserverSensible
  <2>5. observerTorn' = observerTorn
    BY <1>2, Zenon DEF Observer!Publish
  <2>6. observerClosed' \/ observerTorn' \/ observerFrames' = ObserverRinged(observerSeq + 1)
    BY <2>2, <2>3, <2>4, <2>5, Zenon
  <2> QED  BY <2>1, <2>6 DEF ObserverFrameInv, ObserverInv, ObserverThreadInv, ObserverRinged
<1>3. CASE Observer!Tear
  BY <1>3 DEF ObserverInv, ObserverFrameInv, Observer!Tear
<1> QED  BY <1>2, <1>3

LEMMA ObserverInitInv == ASSUME ObserverSensible, Observer!Init PROVE ObserverInv
<1>1. ObserverTypeInv /\ ObserverFlagInv
  BY DEF Observer!Init, ObserverTypeInv, ObserverFlagInv, ObserverMains
<1>2. ObserverCountInv
  BY DEF ObserverSensible, Observer!Init, ObserverCountInv
<1>3. ObserverThreadInv /\ ObserverLeaseInv
  BY DEF Observer!Init, ObserverThreadInv, ObserverLeaseInv
<1>4. ObserverFrameInv /\ ObserverEventInv
  BY DEF ObserverSensible, Observer!Init, ObserverFrameInv, ObserverEventInv, Observer!Quiet
<1> QED  BY <1>1, <1>2, <1>3, <1>4 DEF ObserverInv

LEMMA ObserverAcquireStep ==
  ASSUME ObserverSensible, ObserverInv, NEW r \in Runtimes, Observer!Acquire(r)
  PROVE  ObserverInv'
<1>1. ObserverTypeInv'
  BY DEF ObserverSensible, ObserverInv, ObserverTypeInv, ObserverMains, Observer!Acquire,
    Observer!Ensure, Observer!files, Observer!console
<1>2. ObserverFlagInv'
  BY DEF ObserverSensible, ObserverInv, ObserverFlagInv, Observer!Acquire, Observer!Ensure,
    Observer!files, Observer!console
<1>3. ObserverCountInv'
  BY DEF ObserverSensible, ObserverInv, ObserverTypeInv, ObserverFlagInv, ObserverCountInv,
    ObserverThreadInv, Observer!Acquire, Observer!Ensure, Observer!files, Observer!console
<1>4. ObserverThreadInv'
  BY DEF ObserverSensible, ObserverInv, ObserverTypeInv, ObserverFlagInv, ObserverThreadInv,
    Observer!Acquire, Observer!Ensure, Observer!files, Observer!console
<1>5. ObserverFrameInv'
  BY ObserverRingMoves, ObserverRingIsEmpty
    DEF ObserverSensible, ObserverInv, ObserverTypeInv, ObserverFlagInv, ObserverCountInv,
      ObserverThreadInv, ObserverFrameInv, Observer!Acquire, Observer!Ensure, Observer!files,
        Observer!console
<1>6. ObserverEventInv'
  BY DEF ObserverSensible, ObserverInv, ObserverEventInv, Observer!Acquire, Observer!Ensure,
    Observer!files, Observer!console
<1>7. ObserverLeaseInv'
  BY DEF ObserverSensible, ObserverInv, ObserverTypeInv, ObserverFlagInv, ObserverThreadInv,
    ObserverLeaseInv, Observer!Acquire, Observer!Ensure, Observer!files, Observer!console
<1> QED  BY <1>1, <1>2, <1>3, <1>4, <1>5, <1>6, <1>7 DEF ObserverInv

LEMMA ObserverReleaseStep ==
  ASSUME ObserverSensible, ObserverInv, NEW r \in Runtimes, Observer!Release(r)
  PROVE  ObserverInv'
<1>1. ObserverTypeInv'
  BY DEF ObserverSensible, ObserverInv, ObserverTypeInv, ObserverMains, Observer!Release,
    Observer!files, Observer!console
<1>2. ObserverFlagInv'
  BY DEF ObserverSensible, ObserverInv, ObserverFlagInv, Observer!Release, Observer!files,
    Observer!console
<1>3. ObserverCountInv'
  BY DEF ObserverSensible, ObserverInv, ObserverTypeInv, ObserverFlagInv, ObserverCountInv,
    ObserverThreadInv, Observer!Release, Observer!files, Observer!console
<1>4. ObserverThreadInv'
  BY DEF ObserverSensible, ObserverInv, ObserverTypeInv, ObserverFlagInv, ObserverThreadInv,
    Observer!Release, Observer!files, Observer!console
<1>5. ObserverFrameInv'
  BY DEF ObserverSensible, ObserverInv, ObserverTypeInv, ObserverFlagInv, ObserverCountInv,
    ObserverThreadInv, ObserverFrameInv, Observer!Release, Observer!files, Observer!console
<1>6. ObserverEventInv'
  BY DEF ObserverSensible, ObserverInv, ObserverEventInv, Observer!Release, Observer!files,
    Observer!console
<1>7. ObserverLeaseInv'
  BY DEF ObserverSensible, ObserverInv, ObserverTypeInv, ObserverFlagInv, ObserverThreadInv,
    ObserverLeaseInv, Observer!Release, Observer!files, Observer!console
<1> QED  BY <1>1, <1>2, <1>3, <1>4, <1>5, <1>6, <1>7 DEF ObserverInv

LEMMA ObserverOpenStep ==
  ASSUME ObserverSensible, ObserverInv, Observer!Open
  PROVE  ObserverInv'
<1>1. ObserverTypeInv'
  BY DEF ObserverSensible, ObserverInv, ObserverTypeInv, ObserverMains, Observer!Open,
    Observer!Ensure, Observer!Quiet
<1>2. ObserverFlagInv'
  BY DEF ObserverSensible, ObserverInv, ObserverFlagInv, Observer!Open, Observer!Ensure,
    Observer!Quiet
<1>3. ObserverCountInv'
  BY DEF ObserverSensible, ObserverInv, ObserverTypeInv, ObserverFlagInv, ObserverCountInv,
    ObserverThreadInv, Observer!Open, Observer!Ensure, Observer!Quiet
<1>4. ObserverThreadInv'
  BY DEF ObserverSensible, ObserverInv, ObserverTypeInv, ObserverFlagInv, ObserverThreadInv,
    Observer!Open, Observer!Ensure, Observer!Quiet
<1>5. ObserverFrameInv'
  BY ObserverRingMoves, ObserverRingIsEmpty
    DEF ObserverSensible, ObserverInv, ObserverTypeInv, ObserverFlagInv, ObserverCountInv,
      ObserverThreadInv, ObserverFrameInv, Observer!Open, Observer!Ensure, Observer!Quiet
<1>6. ObserverEventInv'
  BY DEF ObserverSensible, ObserverInv, ObserverEventInv, Observer!Open, Observer!Ensure,
    Observer!Quiet
<1>7. ObserverLeaseInv'
  BY DEF ObserverSensible, ObserverInv, ObserverTypeInv, ObserverFlagInv, ObserverThreadInv,
    ObserverLeaseInv, Observer!Open, Observer!Ensure, Observer!Quiet
<1> QED  BY <1>1, <1>2, <1>3, <1>4, <1>5, <1>6, <1>7 DEF ObserverInv

LEMMA ObserverLoadedStep ==
  ASSUME ObserverSensible, ObserverInv, Observer!Loaded
  PROVE  ObserverInv'
<1>1. ObserverTypeInv'
  BY DEF ObserverSensible, ObserverInv, ObserverTypeInv, ObserverMains, Observer!Loaded,
    Observer!TakeEvents, Observer!Least, Observer!WriteFrame, Observer!Publish, Observer!shared
<1>2. ObserverFlagInv'
  BY DEF ObserverSensible, ObserverInv, ObserverFlagInv, Observer!Loaded, Observer!TakeEvents,
    Observer!Least, Observer!WriteFrame, Observer!Publish, Observer!shared
<1>3. ObserverCountInv'
  BY DEF ObserverSensible, ObserverInv, ObserverTypeInv, ObserverFlagInv, ObserverCountInv,
    ObserverThreadInv, Observer!Loaded, Observer!TakeEvents, Observer!Least, Observer!WriteFrame,
      Observer!Publish, Observer!shared
<1>4. ObserverThreadInv'
  BY DEF ObserverSensible, ObserverInv, ObserverTypeInv, ObserverFlagInv, ObserverThreadInv,
    Observer!Loaded, Observer!TakeEvents, Observer!Least, Observer!WriteFrame, Observer!Publish,
      Observer!shared
<1>5. ObserverFrameInv'
  BY ObserverNextFrame DEF Observer!Loaded, Observer!WriteFrame
<1>6. ObserverEventInv'
  BY DEF ObserverSensible, ObserverInv, ObserverEventInv, Observer!Loaded, Observer!TakeEvents,
    Observer!Least, Observer!WriteFrame, Observer!Publish, Observer!shared
<1>7. ObserverLeaseInv'
  BY DEF ObserverSensible, ObserverInv, ObserverTypeInv, ObserverFlagInv, ObserverThreadInv,
    ObserverLeaseInv, Observer!Loaded, Observer!TakeEvents, Observer!Least, Observer!WriteFrame,
      Observer!Publish, Observer!shared
<1> QED  BY <1>1, <1>2, <1>3, <1>4, <1>5, <1>6, <1>7 DEF ObserverInv

LEMMA ObserverLoadFailsStep ==
  ASSUME ObserverSensible, ObserverInv, Observer!LoadFails
  PROVE  ObserverInv'
<1>1. ObserverTypeInv'
  BY DEF ObserverSensible, ObserverInv, ObserverTypeInv, ObserverMains, Observer!LoadFails,
    Observer!files, Observer!shared, Observer!console
<1>2. ObserverFlagInv'
  BY DEF ObserverSensible, ObserverInv, ObserverFlagInv, Observer!LoadFails, Observer!files,
    Observer!shared, Observer!console
<1>3. ObserverCountInv'
  BY DEF ObserverSensible, ObserverInv, ObserverTypeInv, ObserverFlagInv, ObserverCountInv,
    ObserverThreadInv, Observer!LoadFails, Observer!files, Observer!shared, Observer!console
<1>4. ObserverThreadInv'
  BY DEF ObserverSensible, ObserverInv, ObserverTypeInv, ObserverFlagInv, ObserverThreadInv,
    Observer!LoadFails, Observer!files, Observer!shared, Observer!console
<1>5. ObserverFrameInv'
  BY DEF ObserverSensible, ObserverInv, ObserverTypeInv, ObserverFlagInv, ObserverCountInv,
    ObserverThreadInv, ObserverFrameInv, Observer!LoadFails, Observer!files, Observer!shared,
      Observer!console
<1>6. ObserverEventInv'
  BY DEF ObserverSensible, ObserverInv, ObserverEventInv, Observer!LoadFails, Observer!files,
    Observer!shared, Observer!console
<1>7. ObserverLeaseInv'
  BY DEF ObserverSensible, ObserverInv, ObserverTypeInv, ObserverFlagInv, ObserverThreadInv,
    ObserverLeaseInv, Observer!LoadFails, Observer!files, Observer!shared, Observer!console
<1> QED  BY <1>1, <1>2, <1>3, <1>4, <1>5, <1>6, <1>7 DEF ObserverInv

LEMMA ObserverStartWorkerStep ==
  ASSUME ObserverSensible, ObserverInv, Observer!StartWorker
  PROVE  ObserverInv'
<1>1. ObserverTypeInv'
  BY DEF ObserverSensible, ObserverInv, ObserverTypeInv, ObserverMains, Observer!StartWorker,
    Observer!files, Observer!shared, Observer!console
<1>2. ObserverFlagInv'
  BY DEF ObserverSensible, ObserverInv, ObserverFlagInv, Observer!StartWorker, Observer!files,
    Observer!shared, Observer!console
<1>3. ObserverCountInv'
  BY DEF ObserverSensible, ObserverInv, ObserverTypeInv, ObserverFlagInv, ObserverCountInv,
    ObserverThreadInv, Observer!StartWorker, Observer!files, Observer!shared, Observer!console
<1>4. ObserverThreadInv'
  BY DEF ObserverSensible, ObserverInv, ObserverTypeInv, ObserverFlagInv, ObserverThreadInv,
    Observer!StartWorker, Observer!files, Observer!shared, Observer!console
<1>5. ObserverFrameInv'
  BY DEF ObserverSensible, ObserverInv, ObserverTypeInv, ObserverFlagInv, ObserverCountInv,
    ObserverThreadInv, ObserverFrameInv, Observer!StartWorker, Observer!files, Observer!shared,
      Observer!console
<1>6. ObserverEventInv'
  BY DEF ObserverSensible, ObserverInv, ObserverEventInv, Observer!StartWorker, Observer!files,
    Observer!shared, Observer!console
<1>7. ObserverLeaseInv'
  BY DEF ObserverSensible, ObserverInv, ObserverTypeInv, ObserverFlagInv, ObserverThreadInv,
    ObserverLeaseInv, Observer!StartWorker, Observer!files, Observer!shared, Observer!console
<1> QED  BY <1>1, <1>2, <1>3, <1>4, <1>5, <1>6, <1>7 DEF ObserverInv

LEMMA ObserverAwaitStep ==
  ASSUME ObserverSensible, ObserverInv, Observer!Await
  PROVE  ObserverInv'
<1>1. ObserverTypeInv'
  BY DEF ObserverSensible, ObserverInv, ObserverTypeInv, ObserverMains, Observer!Await,
    Observer!files, Observer!shared, Observer!console
<1>2. ObserverFlagInv'
  BY DEF ObserverSensible, ObserverInv, ObserverFlagInv, Observer!Await, Observer!files,
    Observer!shared, Observer!console
<1>3. ObserverCountInv'
  BY DEF ObserverSensible, ObserverInv, ObserverTypeInv, ObserverFlagInv, ObserverCountInv,
    ObserverThreadInv, Observer!Await, Observer!files, Observer!shared, Observer!console
<1>4. ObserverThreadInv'
  BY DEF ObserverSensible, ObserverInv, ObserverTypeInv, ObserverFlagInv, ObserverThreadInv,
    Observer!Await, Observer!files, Observer!shared, Observer!console
<1>5. ObserverFrameInv'
  BY DEF ObserverSensible, ObserverInv, ObserverTypeInv, ObserverFlagInv, ObserverCountInv,
    ObserverThreadInv, ObserverFrameInv, Observer!Await, Observer!files, Observer!shared,
      Observer!console
<1>6. ObserverEventInv'
  BY DEF ObserverSensible, ObserverInv, ObserverEventInv, Observer!Await, Observer!files,
    Observer!shared, Observer!console
<1>7. ObserverLeaseInv'
  BY DEF ObserverSensible, ObserverInv, ObserverTypeInv, ObserverFlagInv, ObserverThreadInv,
    ObserverLeaseInv, Observer!Await, Observer!files, Observer!shared, Observer!console
<1> QED  BY <1>1, <1>2, <1>3, <1>4, <1>5, <1>6, <1>7 DEF ObserverInv

LEMMA ObserverGiveUpStep ==
  ASSUME ObserverSensible, ObserverInv, Observer!GiveUp
  PROVE  ObserverInv'
<1>1. ObserverTypeInv'
  BY DEF ObserverSensible, ObserverInv, ObserverTypeInv, ObserverMains, Observer!GiveUp,
    Observer!Joinable, Observer!files, Observer!shared, Observer!console
<1>2. ObserverFlagInv'
  BY DEF ObserverSensible, ObserverInv, ObserverFlagInv, Observer!GiveUp, Observer!Joinable,
    Observer!files, Observer!shared, Observer!console
<1>3. ObserverCountInv'
  BY DEF ObserverSensible, ObserverInv, ObserverTypeInv, ObserverFlagInv, ObserverCountInv,
    ObserverThreadInv, Observer!GiveUp, Observer!Joinable, Observer!files, Observer!shared,
      Observer!console
<1>4. ObserverThreadInv'
  BY DEF ObserverSensible, ObserverInv, ObserverTypeInv, ObserverFlagInv, ObserverThreadInv,
    Observer!GiveUp, Observer!Joinable, Observer!files, Observer!shared, Observer!console
<1>5. ObserverFrameInv'
  BY DEF ObserverSensible, ObserverInv, ObserverTypeInv, ObserverFlagInv, ObserverCountInv,
    ObserverThreadInv, ObserverFrameInv, Observer!GiveUp, Observer!Joinable, Observer!files,
      Observer!shared, Observer!console
<1>6. ObserverEventInv'
  BY DEF ObserverSensible, ObserverInv, ObserverEventInv, Observer!GiveUp, Observer!Joinable,
    Observer!files, Observer!shared, Observer!console
<1>7. ObserverLeaseInv'
  BY DEF ObserverSensible, ObserverInv, ObserverTypeInv, ObserverFlagInv, ObserverThreadInv,
    ObserverLeaseInv, Observer!GiveUp, Observer!Joinable, Observer!files, Observer!shared,
      Observer!console
<1> QED  BY <1>1, <1>2, <1>3, <1>4, <1>5, <1>6, <1>7 DEF ObserverInv

LEMMA ObserverClaimStep ==
  ASSUME ObserverSensible, ObserverInv, Observer!Claim
  PROVE  ObserverInv'
<1>1. ObserverTypeInv'
  BY DEF ObserverSensible, ObserverInv, ObserverTypeInv, ObserverMains, Observer!Claim,
    Observer!shared, Observer!console
<1>2. ObserverFlagInv'
  BY DEF ObserverSensible, ObserverInv, ObserverFlagInv, Observer!Claim, Observer!shared,
    Observer!console
<1>3. ObserverCountInv'
  BY DEF ObserverSensible, ObserverInv, ObserverTypeInv, ObserverFlagInv, ObserverCountInv,
    ObserverThreadInv, Observer!Claim, Observer!shared, Observer!console
<1>4. ObserverThreadInv'
  BY DEF ObserverSensible, ObserverInv, ObserverTypeInv, ObserverFlagInv, ObserverThreadInv,
    Observer!Claim, Observer!shared, Observer!console
<1>5. ObserverFrameInv'
  BY DEF ObserverSensible, ObserverInv, ObserverTypeInv, ObserverFlagInv, ObserverCountInv,
    ObserverThreadInv, ObserverFrameInv, Observer!Claim, Observer!shared, Observer!console
<1>6. ObserverEventInv'
  BY DEF ObserverSensible, ObserverInv, ObserverEventInv, Observer!Claim, Observer!shared,
    Observer!console
<1>7. ObserverLeaseInv'
  BY DEF ObserverSensible, ObserverInv, ObserverTypeInv, ObserverFlagInv, ObserverThreadInv,
    ObserverLeaseInv, Observer!Claim, Observer!shared, Observer!console
<1> QED  BY <1>1, <1>2, <1>3, <1>4, <1>5, <1>6, <1>7 DEF ObserverInv

LEMMA ObserverFallBackStep ==
  ASSUME ObserverSensible, ObserverInv, Observer!FallBack
  PROVE  ObserverInv'
<1>1. ObserverTypeInv'
  BY DEF ObserverSensible, ObserverInv, ObserverTypeInv, ObserverMains, Observer!FallBack,
    Observer!shared, Observer!console
<1>2. ObserverFlagInv'
  BY DEF ObserverSensible, ObserverInv, ObserverFlagInv, Observer!FallBack, Observer!shared,
    Observer!console
<1>3. ObserverCountInv'
  BY DEF ObserverSensible, ObserverInv, ObserverTypeInv, ObserverFlagInv, ObserverCountInv,
    ObserverThreadInv, Observer!FallBack, Observer!shared, Observer!console
<1>4. ObserverThreadInv'
  BY DEF ObserverSensible, ObserverInv, ObserverTypeInv, ObserverFlagInv, ObserverThreadInv,
    Observer!FallBack, Observer!shared, Observer!console
<1>5. ObserverFrameInv'
  BY DEF ObserverSensible, ObserverInv, ObserverTypeInv, ObserverFlagInv, ObserverCountInv,
    ObserverThreadInv, ObserverFrameInv, Observer!FallBack, Observer!shared, Observer!console
<1>6. ObserverEventInv'
  BY DEF ObserverSensible, ObserverInv, ObserverEventInv, Observer!FallBack, Observer!shared,
    Observer!console
<1>7. ObserverLeaseInv'
  BY DEF ObserverSensible, ObserverInv, ObserverTypeInv, ObserverFlagInv, ObserverThreadInv,
    ObserverLeaseInv, Observer!FallBack, Observer!shared, Observer!console
<1> QED  BY <1>1, <1>2, <1>3, <1>4, <1>5, <1>6, <1>7 DEF ObserverInv

LEMMA ObserverConnectedStep ==
  ASSUME ObserverSensible, ObserverInv, Observer!Connected
  PROVE  ObserverInv'
<1>1. ObserverTypeInv'
  BY DEF ObserverSensible, ObserverInv, ObserverTypeInv, ObserverMains, Observer!Connected,
    Observer!files, Observer!shared, Observer!console
<1>2. ObserverFlagInv'
  BY DEF ObserverSensible, ObserverInv, ObserverFlagInv, Observer!Connected, Observer!files,
    Observer!shared, Observer!console
<1>3. ObserverCountInv'
  BY DEF ObserverSensible, ObserverInv, ObserverTypeInv, ObserverFlagInv, ObserverCountInv,
    ObserverThreadInv, Observer!Connected, Observer!files, Observer!shared, Observer!console
<1>4. ObserverThreadInv'
  BY DEF ObserverSensible, ObserverInv, ObserverTypeInv, ObserverFlagInv, ObserverThreadInv,
    Observer!Connected, Observer!files, Observer!shared, Observer!console
<1>5. ObserverFrameInv'
  BY DEF ObserverSensible, ObserverInv, ObserverTypeInv, ObserverFlagInv, ObserverCountInv,
    ObserverThreadInv, ObserverFrameInv, Observer!Connected, Observer!files, Observer!shared,
      Observer!console
<1>6. ObserverEventInv'
  BY DEF ObserverSensible, ObserverInv, ObserverEventInv, Observer!Connected, Observer!files,
    Observer!shared, Observer!console
<1>7. ObserverLeaseInv'
  BY DEF ObserverSensible, ObserverInv, ObserverTypeInv, ObserverFlagInv, ObserverThreadInv,
    ObserverLeaseInv, Observer!Connected, Observer!files, Observer!shared, Observer!console
<1> QED  BY <1>1, <1>2, <1>3, <1>4, <1>5, <1>6, <1>7 DEF ObserverInv

LEMMA ObserverFrameArrivesStep ==
  ASSUME ObserverSensible, ObserverInv, Observer!FrameArrives
  PROVE  ObserverInv'
<1>1. ObserverTypeInv'
  BY DEF ObserverSensible, ObserverInv, ObserverTypeInv, ObserverMains, Observer!FrameArrives,
    Observer!WriteFrame, Observer!shared, Observer!console
<1>2. ObserverFlagInv'
  BY DEF ObserverSensible, ObserverInv, ObserverFlagInv, Observer!FrameArrives, Observer!WriteFrame,
    Observer!shared, Observer!console
<1>3. ObserverCountInv'
  BY DEF ObserverSensible, ObserverInv, ObserverTypeInv, ObserverFlagInv, ObserverCountInv,
    ObserverThreadInv, Observer!FrameArrives, Observer!WriteFrame, Observer!shared, Observer!console
<1>4. ObserverThreadInv'
  BY DEF ObserverSensible, ObserverInv, ObserverTypeInv, ObserverFlagInv, ObserverThreadInv,
    Observer!FrameArrives, Observer!WriteFrame, Observer!shared, Observer!console
<1>5. ObserverFrameInv'
  BY ObserverRingMoves, ObserverRingIsEmpty
    DEF ObserverSensible, ObserverInv, ObserverTypeInv, ObserverFlagInv, ObserverCountInv,
      ObserverThreadInv, ObserverFrameInv, Observer!FrameArrives, Observer!WriteFrame,
        Observer!shared, Observer!console
<1>6. ObserverEventInv'
  BY DEF ObserverSensible, ObserverInv, ObserverEventInv, Observer!FrameArrives,
    Observer!WriteFrame, Observer!shared, Observer!console
<1>7. ObserverLeaseInv'
  BY DEF ObserverSensible, ObserverInv, ObserverTypeInv, ObserverFlagInv, ObserverThreadInv,
    ObserverLeaseInv, Observer!FrameArrives, Observer!WriteFrame, Observer!shared, Observer!console
<1> QED  BY <1>1, <1>2, <1>3, <1>4, <1>5, <1>6, <1>7 DEF ObserverInv

LEMMA ObserverFrameWrittenStep ==
  ASSUME ObserverSensible, ObserverInv, Observer!FrameWritten
  PROVE  ObserverInv'
<1>1. ObserverTypeInv'
  BY DEF ObserverSensible, ObserverInv, ObserverTypeInv, ObserverMains, Observer!FrameWritten,
    Observer!Publish, Observer!shared, Observer!console
<1>2. ObserverFlagInv'
  BY DEF ObserverSensible, ObserverInv, ObserverFlagInv, Observer!FrameWritten, Observer!Publish,
    Observer!shared, Observer!console
<1>3. ObserverCountInv'
  BY DEF ObserverSensible, ObserverInv, ObserverTypeInv, ObserverFlagInv, ObserverCountInv,
    ObserverThreadInv, Observer!FrameWritten, Observer!Publish, Observer!shared, Observer!console
<1>4. ObserverThreadInv'
  BY DEF ObserverSensible, ObserverInv, ObserverTypeInv, ObserverFlagInv, ObserverThreadInv,
    Observer!FrameWritten, Observer!Publish, Observer!shared, Observer!console
<1>5. ObserverFrameInv'
  BY ObserverRingMoves, ObserverRingIsEmpty
    DEF ObserverSensible, ObserverInv, ObserverTypeInv, ObserverFlagInv, ObserverCountInv,
      ObserverThreadInv, ObserverFrameInv, Observer!FrameWritten, Observer!Publish, Observer!shared,
        Observer!console
<1>6. ObserverEventInv'
  BY DEF ObserverSensible, ObserverInv, ObserverEventInv, Observer!FrameWritten, Observer!Publish,
    Observer!shared, Observer!console
<1>7. ObserverLeaseInv'
  BY DEF ObserverSensible, ObserverInv, ObserverTypeInv, ObserverFlagInv, ObserverThreadInv,
    ObserverLeaseInv, Observer!FrameWritten, Observer!Publish, Observer!shared, Observer!console
<1> QED  BY <1>1, <1>2, <1>3, <1>4, <1>5, <1>6, <1>7 DEF ObserverInv

LEMMA ObserverFailsStep ==
  ASSUME ObserverSensible, ObserverInv, Observer!Fails
  PROVE  ObserverInv'
<1>1. ObserverTypeInv'
  BY DEF ObserverSensible, ObserverInv, ObserverTypeInv, ObserverMains, Observer!Fails,
    Observer!MayDie, Observer!Tear, Observer!shared, Observer!console
<1>2. ObserverFlagInv'
  BY DEF ObserverSensible, ObserverInv, ObserverFlagInv, Observer!Fails, Observer!MayDie,
    Observer!Tear, Observer!shared, Observer!console
<1>3. ObserverCountInv'
  BY DEF ObserverSensible, ObserverInv, ObserverTypeInv, ObserverFlagInv, ObserverCountInv,
    ObserverThreadInv, Observer!Fails, Observer!MayDie, Observer!Tear, Observer!shared,
      Observer!console
<1>4. ObserverThreadInv'
  BY DEF ObserverSensible, ObserverInv, ObserverTypeInv, ObserverFlagInv, ObserverThreadInv,
    Observer!Fails, Observer!MayDie, Observer!Tear, Observer!shared, Observer!console
<1>5. ObserverFrameInv'
  BY DEF ObserverSensible, ObserverInv, ObserverTypeInv, ObserverFlagInv, ObserverCountInv,
    ObserverThreadInv, ObserverFrameInv, Observer!Fails, Observer!MayDie, Observer!Tear,
      Observer!shared, Observer!console
<1>6. ObserverEventInv'
  BY DEF ObserverSensible, ObserverInv, ObserverEventInv, Observer!Fails, Observer!MayDie,
    Observer!Tear, Observer!shared, Observer!console
<1>7. ObserverLeaseInv'
  BY DEF ObserverSensible, ObserverInv, ObserverTypeInv, ObserverFlagInv, ObserverThreadInv,
    ObserverLeaseInv, Observer!Fails, Observer!MayDie, Observer!Tear, Observer!shared,
      Observer!console
<1> QED  BY <1>1, <1>2, <1>3, <1>4, <1>5, <1>6, <1>7 DEF ObserverInv

LEMMA ObserverDegradedStep ==
  ASSUME ObserverSensible, ObserverInv, Observer!Degraded
  PROVE  ObserverInv'
<1>1. ObserverTypeInv'
  BY DEF ObserverSensible, ObserverInv, ObserverTypeInv, ObserverMains, Observer!Degraded,
    Observer!shared, Observer!console
<1>2. ObserverFlagInv'
  BY DEF ObserverSensible, ObserverInv, ObserverFlagInv, Observer!Degraded, Observer!shared,
    Observer!console
<1>3. ObserverCountInv'
  BY DEF ObserverSensible, ObserverInv, ObserverTypeInv, ObserverFlagInv, ObserverCountInv,
    ObserverThreadInv, Observer!Degraded, Observer!shared, Observer!console
<1>4. ObserverThreadInv'
  BY DEF ObserverSensible, ObserverInv, ObserverTypeInv, ObserverFlagInv, ObserverThreadInv,
    Observer!Degraded, Observer!shared, Observer!console
<1>5. ObserverFrameInv'
  BY DEF ObserverSensible, ObserverInv, ObserverTypeInv, ObserverFlagInv, ObserverCountInv,
    ObserverThreadInv, ObserverFrameInv, Observer!Degraded, Observer!shared, Observer!console
<1>6. ObserverEventInv'
  BY DEF ObserverSensible, ObserverInv, ObserverEventInv, Observer!Degraded, Observer!shared,
    Observer!console
<1>7. ObserverLeaseInv'
  BY DEF ObserverSensible, ObserverInv, ObserverTypeInv, ObserverFlagInv, ObserverThreadInv,
    ObserverLeaseInv, Observer!Degraded, Observer!shared, Observer!console
<1> QED  BY <1>1, <1>2, <1>3, <1>4, <1>5, <1>6, <1>7 DEF ObserverInv

LEMMA ObserverSeesStopStep ==
  ASSUME ObserverSensible, ObserverInv, Observer!SeesStop
  PROVE  ObserverInv'
<1>1. ObserverTypeInv'
  BY DEF ObserverSensible, ObserverInv, ObserverTypeInv, ObserverMains, Observer!SeesStop,
    Observer!files, Observer!shared, Observer!console
<1>2. ObserverFlagInv'
  BY DEF ObserverSensible, ObserverInv, ObserverFlagInv, Observer!SeesStop, Observer!files,
    Observer!shared, Observer!console
<1>3. ObserverCountInv'
  BY DEF ObserverSensible, ObserverInv, ObserverTypeInv, ObserverFlagInv, ObserverCountInv,
    ObserverThreadInv, Observer!SeesStop, Observer!files, Observer!shared, Observer!console
<1>4. ObserverThreadInv'
  BY DEF ObserverSensible, ObserverInv, ObserverTypeInv, ObserverFlagInv, ObserverThreadInv,
    Observer!SeesStop, Observer!files, Observer!shared, Observer!console
<1>5. ObserverFrameInv'
  BY DEF ObserverSensible, ObserverInv, ObserverTypeInv, ObserverFlagInv, ObserverCountInv,
    ObserverThreadInv, ObserverFrameInv, Observer!SeesStop, Observer!files, Observer!shared,
      Observer!console
<1>6. ObserverEventInv'
  BY DEF ObserverSensible, ObserverInv, ObserverEventInv, Observer!SeesStop, Observer!files,
    Observer!shared, Observer!console
<1>7. ObserverLeaseInv'
  BY DEF ObserverSensible, ObserverInv, ObserverTypeInv, ObserverFlagInv, ObserverThreadInv,
    ObserverLeaseInv, Observer!SeesStop, Observer!files, Observer!shared, Observer!console
<1> QED  BY <1>1, <1>2, <1>3, <1>4, <1>5, <1>6, <1>7 DEF ObserverInv

LEMMA ObserverEventStep ==
  ASSUME ObserverSensible, ObserverInv, Observer!Event
  PROVE  ObserverInv'
<1>1. ObserverTypeInv'
  BY DEF ObserverSensible, ObserverInv, ObserverTypeInv, ObserverMains, Observer!Event,
    Observer!files, Observer!shared
<1>2. ObserverFlagInv'
  BY DEF ObserverSensible, ObserverInv, ObserverFlagInv, Observer!Event, Observer!files,
    Observer!shared
<1>3. ObserverCountInv'
  BY DEF ObserverSensible, ObserverInv, ObserverTypeInv, ObserverFlagInv, ObserverCountInv,
    ObserverThreadInv, Observer!Event, Observer!files, Observer!shared
<1>4. ObserverThreadInv'
  BY DEF ObserverSensible, ObserverInv, ObserverTypeInv, ObserverFlagInv, ObserverThreadInv,
    Observer!Event, Observer!files, Observer!shared
<1>5. ObserverFrameInv'
  BY DEF ObserverSensible, ObserverInv, ObserverTypeInv, ObserverFlagInv, ObserverCountInv,
    ObserverThreadInv, ObserverFrameInv, Observer!Event, Observer!files, Observer!shared
<1>6. ObserverEventInv'
  BY DEF ObserverSensible, ObserverInv, ObserverEventInv, Observer!Event, Observer!files,
    Observer!shared
<1>7. ObserverLeaseInv'
  BY DEF ObserverSensible, ObserverInv, ObserverTypeInv, ObserverFlagInv, ObserverThreadInv,
    ObserverLeaseInv, Observer!Event, Observer!files, Observer!shared
<1> QED  BY <1>1, <1>2, <1>3, <1>4, <1>5, <1>6, <1>7 DEF ObserverInv

LEMMA ObserverObserveStep ==
  ASSUME ObserverSensible, ObserverInv, Observer!Observe
  PROVE  ObserverInv'
<1>1. ObserverTypeInv'
  BY DEF ObserverSensible, ObserverInv, ObserverTypeInv, ObserverMains, Observer!Observe,
    Observer!TakeEvents, Observer!Least, Observer!WriteFrame, Observer!Publish, Observer!Tear,
      Observer!files, Observer!shared
<1>2. ObserverFlagInv'
  BY DEF ObserverSensible, ObserverInv, ObserverFlagInv, Observer!Observe, Observer!TakeEvents,
    Observer!Least, Observer!WriteFrame, Observer!Publish, Observer!Tear, Observer!files,
      Observer!shared
<1>3. ObserverCountInv'
  BY DEF ObserverSensible, ObserverInv, ObserverTypeInv, ObserverFlagInv, ObserverCountInv,
    ObserverThreadInv, Observer!Observe, Observer!TakeEvents, Observer!Least, Observer!WriteFrame,
      Observer!Publish, Observer!Tear, Observer!files, Observer!shared
<1>4. ObserverThreadInv'
  BY DEF ObserverSensible, ObserverInv, ObserverTypeInv, ObserverFlagInv, ObserverThreadInv,
    Observer!Observe, Observer!TakeEvents, Observer!Least, Observer!WriteFrame, Observer!Publish,
      Observer!Tear, Observer!files, Observer!shared
<1>5. ObserverFrameInv'
  <2>1. CASE UNCHANGED Observer!files
    BY <2>1 DEF ObserverInv, ObserverFrameInv, Observer!Observe, Observer!files, ObserverRinged
  <2>2. CASE Observer!WriteFrame(FALSE) /\ (Observer!Publish(observerSeq') \/ Observer!Tear)
    BY <2>2, ObserverNextFrame DEF Observer!Observe, Observer!WriteFrame
  <2> QED  BY <2>1, <2>2 DEF Observer!Observe
<1>6. ObserverEventInv'
  BY DEF ObserverSensible, ObserverInv, ObserverEventInv, Observer!Observe, Observer!TakeEvents,
    Observer!Least, Observer!WriteFrame, Observer!Publish, Observer!Tear, Observer!files,
      Observer!shared
<1>7. ObserverLeaseInv'
  BY DEF ObserverSensible, ObserverInv, ObserverTypeInv, ObserverFlagInv, ObserverThreadInv,
    ObserverLeaseInv, Observer!Observe, Observer!TakeEvents, Observer!Least, Observer!WriteFrame,
      Observer!Publish, Observer!Tear, Observer!files, Observer!shared
<1> QED  BY <1>1, <1>2, <1>3, <1>4, <1>5, <1>6, <1>7 DEF ObserverInv

LEMMA ObserverCallbackStep ==
  ASSUME ObserverSensible, ObserverInv, Observer!Callback
  PROVE  ObserverInv'
<1>1. ObserverTypeInv'
  BY DEF ObserverSensible, ObserverInv, ObserverTypeInv, ObserverMains, Observer!Callback,
    Observer!WriteFrame, Observer!Publish, Observer!Tear, Observer!shared, Observer!console
<1>2. ObserverFlagInv'
  BY DEF ObserverSensible, ObserverInv, ObserverFlagInv, Observer!Callback, Observer!WriteFrame,
    Observer!Publish, Observer!Tear, Observer!shared, Observer!console
<1>3. ObserverCountInv'
  BY DEF ObserverSensible, ObserverInv, ObserverTypeInv, ObserverFlagInv, ObserverCountInv,
    ObserverThreadInv, Observer!Callback, Observer!WriteFrame, Observer!Publish, Observer!Tear,
      Observer!shared, Observer!console
<1>4. ObserverThreadInv'
  BY DEF ObserverSensible, ObserverInv, ObserverTypeInv, ObserverFlagInv, ObserverThreadInv,
    Observer!Callback, Observer!WriteFrame, Observer!Publish, Observer!Tear, Observer!shared,
      Observer!console
<1>5. ObserverFrameInv'
  BY ObserverNextFrame DEF Observer!Callback, Observer!WriteFrame
<1>6. ObserverEventInv'
  BY DEF ObserverSensible, ObserverInv, ObserverEventInv, Observer!Callback, Observer!WriteFrame,
    Observer!Publish, Observer!Tear, Observer!shared, Observer!console
<1>7. ObserverLeaseInv'
  BY DEF ObserverSensible, ObserverInv, ObserverTypeInv, ObserverFlagInv, ObserverThreadInv,
    ObserverLeaseInv, Observer!Callback, Observer!WriteFrame, Observer!Publish, Observer!Tear,
      Observer!shared, Observer!console
<1> QED  BY <1>1, <1>2, <1>3, <1>4, <1>5, <1>6, <1>7 DEF ObserverInv

LEMMA ObserverCloseStep ==
  ASSUME ObserverSensible, ObserverInv, Observer!Close
  PROVE  ObserverInv'
<1>1. ObserverTypeInv'
  BY DEF ObserverSensible, ObserverInv, ObserverTypeInv, ObserverMains, Observer!Close,
    Observer!files, Observer!shared, Observer!console
<1>2. ObserverFlagInv'
  BY DEF ObserverSensible, ObserverInv, ObserverFlagInv, Observer!Close, Observer!files,
    Observer!shared, Observer!console
<1>3. ObserverCountInv'
  BY DEF ObserverSensible, ObserverInv, ObserverTypeInv, ObserverFlagInv, ObserverCountInv,
    ObserverThreadInv, Observer!Close, Observer!files, Observer!shared, Observer!console
<1>4. ObserverThreadInv'
  BY DEF ObserverSensible, ObserverInv, ObserverTypeInv, ObserverFlagInv, ObserverThreadInv,
    Observer!Close, Observer!files, Observer!shared, Observer!console
<1>5. ObserverFrameInv'
  BY DEF ObserverSensible, ObserverInv, ObserverTypeInv, ObserverFlagInv, ObserverCountInv,
    ObserverThreadInv, ObserverFrameInv, Observer!Close, Observer!files, Observer!shared,
      Observer!console
<1>6. ObserverEventInv'
  BY DEF ObserverSensible, ObserverInv, ObserverEventInv, Observer!Close, Observer!files,
    Observer!shared, Observer!console
<1>7. ObserverLeaseInv'
  BY DEF ObserverSensible, ObserverInv, ObserverTypeInv, ObserverFlagInv, ObserverThreadInv,
    ObserverLeaseInv, Observer!Close, Observer!files, Observer!shared, Observer!console
<1> QED  BY <1>1, <1>2, <1>3, <1>4, <1>5, <1>6, <1>7 DEF ObserverInv

LEMMA ObserverCleanUpStep ==
  ASSUME ObserverSensible, ObserverInv, Observer!CleanUp
  PROVE  ObserverInv'
<1>1. ObserverTypeInv'
  BY DEF ObserverSensible, ObserverInv, ObserverTypeInv, ObserverMains, Observer!CleanUp,
    Observer!Joinable, Observer!shared, Observer!console
<1>2. ObserverFlagInv'
  BY DEF ObserverSensible, ObserverInv, ObserverFlagInv, Observer!CleanUp, Observer!Joinable,
    Observer!shared, Observer!console
<1>3. ObserverCountInv'
  BY DEF ObserverSensible, ObserverInv, ObserverTypeInv, ObserverFlagInv, ObserverCountInv,
    ObserverThreadInv, Observer!CleanUp, Observer!Joinable, Observer!shared, Observer!console
<1>4. ObserverThreadInv'
  BY DEF ObserverSensible, ObserverInv, ObserverTypeInv, ObserverFlagInv, ObserverThreadInv,
    Observer!CleanUp, Observer!Joinable, Observer!shared, Observer!console
<1>5. ObserverFrameInv'
  BY DEF ObserverSensible, ObserverInv, ObserverTypeInv, ObserverFlagInv, ObserverCountInv,
    ObserverThreadInv, ObserverFrameInv, Observer!CleanUp, Observer!Joinable, Observer!shared,
      Observer!console
<1>6. ObserverEventInv'
  BY DEF ObserverSensible, ObserverInv, ObserverEventInv, Observer!CleanUp, Observer!Joinable,
    Observer!shared, Observer!console
<1>7. ObserverLeaseInv'
  BY DEF ObserverSensible, ObserverInv, ObserverTypeInv, ObserverFlagInv, ObserverThreadInv,
    ObserverLeaseInv, Observer!CleanUp, Observer!Joinable, Observer!shared, Observer!console
<1> QED  BY <1>1, <1>2, <1>3, <1>4, <1>5, <1>6, <1>7 DEF ObserverInv

LEMMA ObserverCrashStep ==
  ASSUME ObserverSensible, ObserverInv, Observer!Crash
  PROVE  ObserverInv'
<1>1. ObserverTypeInv'
  BY DEF ObserverSensible, ObserverInv, ObserverTypeInv, ObserverMains, Observer!Crash,
    Observer!console
<1>2. ObserverFlagInv'
  BY DEF ObserverSensible, ObserverInv, ObserverFlagInv, Observer!Crash, Observer!console
<1>3. ObserverCountInv'
  BY DEF ObserverSensible, ObserverInv, ObserverTypeInv, ObserverFlagInv, ObserverCountInv,
    ObserverThreadInv, Observer!Crash, Observer!console
<1>4. ObserverThreadInv'
  BY DEF ObserverSensible, ObserverInv, ObserverTypeInv, ObserverFlagInv, ObserverThreadInv,
    Observer!Crash, Observer!console
<1>5. ObserverFrameInv'
  BY DEF ObserverSensible, ObserverInv, ObserverTypeInv, ObserverFlagInv, ObserverCountInv,
    ObserverThreadInv, ObserverFrameInv, Observer!Crash, Observer!console
<1>6. ObserverEventInv'
  BY DEF ObserverSensible, ObserverInv, ObserverEventInv, Observer!Crash, Observer!console
<1>7. ObserverLeaseInv'
  BY DEF ObserverSensible, ObserverInv, ObserverTypeInv, ObserverFlagInv, ObserverThreadInv,
    ObserverLeaseInv, Observer!Crash, Observer!console
<1> QED  BY <1>1, <1>2, <1>3, <1>4, <1>5, <1>6, <1>7 DEF ObserverInv

LEMMA ObserverRestartStep ==
  ASSUME ObserverSensible, ObserverInv, Observer!Restart
  PROVE  ObserverInv'
<1>1. ObserverTypeInv'
  BY DEF ObserverSensible, ObserverInv, ObserverTypeInv, ObserverMains, Observer!Restart,
    Observer!shared, Observer!console
<1>2. ObserverFlagInv'
  BY DEF ObserverSensible, ObserverInv, ObserverFlagInv, Observer!Restart, Observer!shared,
    Observer!console
<1>3. ObserverCountInv'
  BY DEF ObserverSensible, ObserverInv, ObserverTypeInv, ObserverFlagInv, ObserverCountInv,
    ObserverThreadInv, Observer!Restart, Observer!shared, Observer!console
<1>4. ObserverThreadInv'
  BY DEF ObserverSensible, ObserverInv, ObserverTypeInv, ObserverFlagInv, ObserverThreadInv,
    Observer!Restart, Observer!shared, Observer!console
<1>5. ObserverFrameInv'
  BY DEF ObserverSensible, ObserverInv, ObserverTypeInv, ObserverFlagInv, ObserverCountInv,
    ObserverThreadInv, ObserverFrameInv, Observer!Restart, Observer!shared, Observer!console
<1>6. ObserverEventInv'
  BY DEF ObserverSensible, ObserverInv, ObserverEventInv, Observer!Restart, Observer!shared,
    Observer!console
<1>7. ObserverLeaseInv'
  BY DEF ObserverSensible, ObserverInv, ObserverTypeInv, ObserverFlagInv, ObserverThreadInv,
    ObserverLeaseInv, Observer!Restart, Observer!shared, Observer!console
<1> QED  BY <1>1, <1>2, <1>3, <1>4, <1>5, <1>6, <1>7 DEF ObserverInv

LEMMA ObserverStutterStep == ObserverSensible /\ ObserverInv /\ UNCHANGED Observer!vars
  => ObserverInv'
BY DEF ObserverInv, ObserverTypeInv, ObserverFlagInv, ObserverCountInv, ObserverThreadInv,
  ObserverFrameInv, ObserverEventInv, ObserverLeaseInv, Observer!vars, ObserverRinged

LEMMA ObserverInvStep == ObserverSensible /\ ObserverInv /\ [Observer!Next]_Observer!vars
  => ObserverInv'
BY ObserverAcquireStep, ObserverReleaseStep, ObserverOpenStep, ObserverLoadedStep,
  ObserverLoadFailsStep, ObserverStartWorkerStep, ObserverAwaitStep, ObserverGiveUpStep,
    ObserverClaimStep, ObserverFallBackStep, ObserverConnectedStep, ObserverFrameArrivesStep,
      ObserverFrameWrittenStep, ObserverFailsStep, ObserverDegradedStep, ObserverSeesStopStep,
        ObserverEventStep, ObserverObserveStep, ObserverCallbackStep, ObserverCloseStep,
          ObserverCleanUpStep, ObserverCrashStep, ObserverRestartStep, ObserverStutterStep
  DEF Observer!Next

LEMMA ObserverInvariant == ASSUME ObserverSensible PROVE Observer!Spec => []ObserverInv
<1>1. ObserverSensible /\ ObserverInv /\ [Observer!Next]_Observer!vars => ObserverInv'
  BY ObserverInvStep
<1> QED  BY <1>1, ObserverInitInv, PTL DEF Observer!Spec

(* TypeOK is invariant. *)
THEOREM ObserverTypeCorrect == ASSUME ObserverSensible PROVE Observer!Spec => []Observer!TypeOK
<1>1. ASSUME ObserverSensible, ObserverInv PROVE Observer!TypeOK
  <2>1. {observerStopping, observerStarted, observerLock, observerClosed, observerActive,
        observerTorn, observerMeta} \subseteq BOOLEAN
    BY <1>1 DEF ObserverInv, ObserverFlagInv
  <2>2. {observerSeq, observerStreamSeq, observerLast} \subseteq 0..MaxFrames
        /\ observerFrames \subseteq 1..MaxFrames
    BY <1>1 DEF ObserverSensible, ObserverInv, ObserverCountInv
  <2>3. {observerBuffered, observerDropped, observerSince} \subseteq 0..MaxEvents
    BY <1>1 DEF ObserverSensible, ObserverInv, ObserverEventInv
  <2> QED  BY <1>1, <2>1, <2>2, <2>3
      DEF ObserverInv, ObserverTypeInv, ObserverCountInv, Observer!TypeOK, ObserverMains
<1> QED  BY <1>1, ObserverInvariant, PTL

(* The frame a session names is on disk, and the files are the last Ring   *)
(* frames, though two threads write them.                                  *)
THEOREM ObserverFramesAreAlwaysTheRing == ASSUME ObserverSensible
  PROVE Observer!Spec => []Observer!FramesAreTheRing
<1>1. ObserverInv => Observer!FramesAreTheRing
  BY DEF ObserverInv, ObserverTypeInv, ObserverFlagInv, ObserverCountInv, ObserverFrameInv,
    Observer!FramesAreTheRing, ObserverRinged
<1> QED  BY <1>1, ObserverInvariant, PTL

(* Of a closed session nothing is left on disk. *)
THEOREM ObserverNothingIsLeftBehind == ASSUME ObserverSensible
  PROVE Observer!Spec => []Observer!NothingLeftBehind
<1>1. ObserverInv => Observer!NothingLeftBehind
  BY DEF ObserverInv, ObserverFrameInv, Observer!NothingLeftBehind
<1> QED  BY <1>1, ObserverInvariant, PTL

(* A live stream reported active is received. *)
THEOREM ObserverActiveIsAlwaysReceived == ASSUME ObserverSensible
  PROVE Observer!Spec => []Observer!ActiveIsReceived
<1>1. ObserverInv => Observer!ActiveIsReceived
  BY DEF ObserverInv, ObserverThreadInv, Observer!ActiveIsReceived
<1> QED  BY <1>1, ObserverInvariant, PTL

(* Events are reported or counted. *)
THEOREM ObserverEventsAreAlwaysAccounted == ASSUME ObserverSensible
  PROVE Observer!Spec => []Observer!EventsAreAccounted
<1>1. ObserverInv => Observer!EventsAreAccounted
  BY DEF ObserverInv, ObserverEventInv, Observer!EventsAreAccounted
<1> QED  BY <1>1, ObserverInvariant, PTL

(* The shared browser runs while it is leased, and no longer. *)
THEOREM ObserverBrowserIsAlwaysLeased == ASSUME ObserverSensible
  PROVE Observer!Spec => []Observer!BrowserIsLeased
<1>1. ObserverInv => Observer!BrowserIsLeased
  BY DEF ObserverInv, ObserverLeaseInv, Observer!BrowserIsLeased
<1> QED  BY <1>1, ObserverInvariant, PTL

(* The variables of the instance, by either name. *)
LEMMA ObserverVarsAre == ObserverVars' = ObserverVars <=> Observer!vars' = Observer!vars
BY DEF ObserverVars, Observer!vars

-----------------------------------------------------------------------------
(***************************************************************************)
(* Lines, replies, activity, traces and the page, for any clients, pieces, *)
(* retention and batch.                                                    *)
(*                                                                         *)
(* Why it holds: the pieces on a wire are lines in order, of which the     *)
(* first is the one after those answered; a call is open in the activity   *)
(* from its first row to its last; rows are only deleted from the old end; *)
(* and the page counts what it shows in rows of the activity.              *)
(***************************************************************************)
(* The instance counts as FiniteSets does. *)
LEMMA ServedCounts ==
  \A S : (Served!IsFiniteSet(S) <=> IsFiniteSet(S)) /\ Served!Cardinality(S) = Cardinality(S)
BY DEF Served!IsFiniteSet, IsFiniteSet, Served!Cardinality, Cardinality


(* What the theorems assume of the constants. *)
ServedSensible ==
  /\ Sends \in [Servers -> SUBSET Served!Kinds] /\ MaxLines \in Nat /\ Pieces \in Nat \ {0}
  /\ KeptRows \in Nat /\ Batch \in Nat /\ MaxCrashes \in Nat /\ MaxCalls \in Nat

ServedNoTwoTracers == "two tracers" \notin ServingHazards
ServedNoTwoCompactors == "two compactors" \notin ServingHazards

ServedStages == {"reading", "draining", "dispatching", "starting", "compacting", "completing",
           "tracing", "recording", "replying"}
ServedParts == [line : 0..MaxLines, kind : Served!Kinds, ends : BOOLEAN]
ServedCalls == [at : ServedStages, line : 0..MaxLines, kind : Served!Kinds, ok : BOOLEAN,
  trace : Nat, drop : Nat]
ServedAnswers == [line : 0..MaxLines, ok : BOOLEAN]
ServedEvents == [by : Servers, line : 0..MaxLines, phase : {"started", "completed"}]
ServedTraceRows == [seq : 1..MaxCalls, trace : Nat, kind : Served!Kinds]

ServedTypeInv ==
  /\ servedWire \in [Servers -> Seq(ServedParts)] /\ servedSent \in [Servers -> 0..MaxLines]
  /\ servedCall \in [Servers -> ServedCalls] /\ servedReplies \in [Servers -> Seq(ServedAnswers)]
  /\ servedActivity \in Seq(ServedEvents) /\ servedTraces \in Seq([active : BOOLEAN])
  /\ servedRows \in SUBSET ServedTraceRows /\ servedMade \in 0..MaxCalls
  /\ servedCrashes \in 0..MaxCrashes

(* Pieces of the lines after the first "done", up to the last one.         *)
ServedCoherent(w, done, last) ==
  /\ w = <<>> => done = last
  /\ w # <<>> => w[1].line = done + 1 /\ w[Len(w)].line = last /\ w[Len(w)].ends
  /\ \A i \in 1..Len(w) - 1 : w[i + 1].line = IF w[i].ends THEN w[i].line + 1 ELSE w[i].line
  /\ \A i \in 1..Len(w) : w[i].ends \/ w[i].kind = "long"

ServedInHand(c) == c.at \notin {"reading", "draining"}
ServedTaken(c, a) == IF ServedInHand(c) THEN Len(a) + 1 ELSE Len(a)

(* The pieces w on a wire, the call c, the answers a and the n lines sent. *)
(* A server that crashed is followed no further.                           *)
ServedSettled(w, c, a, n) == w = <<>> /\ a = <<>> /\ n = MaxLines /\ c = Served!Waiting

ServedOrderly(w, c, a, n) ==
  /\ ServedCoherent(w, ServedTaken(c, a), n)
  /\ c.at = "reading" => c = Served!Waiting
  /\ c.at = "draining" => w # <<>> /\ c.line = 0
  /\ ServedInHand(c) => c.line \in {0, Len(a) + 1}
  /\ \A i \in DOMAIN a : a[i].line \in {i, 0}

ServedWireOf(w, c, a, n) == ServedSettled(w, c, a, n) \/ ServedOrderly(w, c, a, n)
ServedWireInv == \A s \in Servers : ServedWireOf(servedWire[s], servedCall[s], servedReplies[s],
  servedSent[s])

(* A call that was opened is closed or under way. *)
ServedClosed(i) ==
  \/ [by |-> servedActivity[i].by, line |-> servedActivity[i].line] \in servedDead
  \/ \E j \in DOMAIN servedActivity : j > i
     /\ servedActivity[j] = [servedActivity[i] EXCEPT !.phase = "completed"]

ServedUnderWay(c, line) ==
  /\ c.at \in {"dispatching", "starting", "compacting", "completing"}
  /\ c.line = line /\ ~Served!Silent(c.kind)

ServedActivityInv ==
  \A i \in DOMAIN servedActivity : servedActivity[i].phase = "started" =>
    ServedClosed(i) \/ ServedUnderWay(servedCall[servedActivity[i].by], servedActivity[i].line)

ServedTraceInv ==
  /\ \A s \in Servers : servedCall[s].at = "recording" =>
       ~Served!Silent(servedCall[s].kind) /\ servedCall[s].trace \in DOMAIN servedTraces
  /\ \A r \in servedRows : ~Served!Silent(r.kind) /\ r.trace \in DOMAIN servedTraces

ServedOneInv ==
  /\ \A t, u \in DOMAIN servedTraces : servedTraces[t].active /\ servedTraces[u].active => t = u
  /\ \A s \in Servers : servedCall[s].at = "starting" =>
       /\ \A t \in DOMAIN servedTraces : ~servedTraces[t].active
       /\ Served!Alone(s, "starting")

(* The rows are those after the first k, and whoever compacts has counted  *)
(* no more than there are.                                                 *)
ServedNewest(k) ==
  /\ \A r \in servedRows : r.seq \in k + 1..servedMade
  /\ \A n \in k + 1..servedMade : \E r \in servedRows : r.seq = n
  /\ \A q, r \in servedRows : q.seq = r.seq => q = r

ServedRowInv ==
  \E k \in 0..servedMade :
    /\ ServedNewest(k) /\ (k = 0 \/ k + KeptRows <= servedMade)
    /\ \A s \in Servers : servedCall[s].at = "compacting" =>
         Served!Alone(s, "compacting") /\ (servedCall[s].drop = 0
           \/ k + servedCall[s].drop + KeptRows <= servedMade)

ServedViewInv ==
  /\ servedViewer \in [base : Nat, seq : Nat, shown : Seq(ServedEvents), linked : BOOLEAN]
  /\ servedViewer.base <= servedViewer.seq /\ servedViewer.seq <= Len(servedActivity)
  /\ Served!PageShowsActivity

ServedInv == ServedTypeInv /\ Served!IsFiniteSet(servedRows) /\ ServedWireInv /\ ServedActivityInv
  /\ ServedTraceInv /\ ServedViewInv

-----------------------------------------------------------------------------
(* Wires                                                                   *)

LEMMA ServedCoherentTail ==
  ASSUME NEW S, NEW w \in Seq(S), w # <<>>, NEW d \in Nat, NEW n \in Nat, ServedCoherent(w, d, n)
  PROVE  /\ ServedCoherent(Tail(w), IF w[1].ends THEN d + 1 ELSE d, n)
         /\ ~w[1].ends => Tail(w) # <<>>
<1> DEFINE v == Tail(w)
<1>1. Len(w) \in Nat /\ Len(w) > 0 /\ v \in Seq(S) /\ Len(v) = Len(w) - 1
      /\ \A i \in 1..Len(v) : v[i] = w[i + 1]
  BY HeadTailProperties
<1> HIDE DEF v
<1>2. v = <<>> <=> Len(v) = 0
  BY <1>1
<1>3. CASE Len(v) = 0
  BY <1>1, <1>2, <1>3 DEF ServedCoherent, v
<1>4. CASE Len(v) # 0
  <2>1. 1 \in 1..Len(w) - 1 /\ v[1] = w[2] /\ v[Len(v)] = w[Len(w)]
    BY <1>1, <1>4
  <2>2. w[2].line = IF w[1].ends THEN d + 2 ELSE d + 1
    BY <1>1, <2>1 DEF ServedCoherent
  <2>3. ASSUME NEW i \in 1..Len(v) - 1
        PROVE  v[i + 1].line = IF v[i].ends THEN v[i].line + 1 ELSE v[i].line
    <3>1. i \in 1..Len(v) /\ i + 1 \in 1..Len(v) /\ i + 1 \in 1..Len(w) - 1
      BY <1>1
    <3>2. v[i] = w[i + 1] /\ v[i + 1] = w[(i + 1) + 1]
      BY <1>1, <3>1
    <3> QED  BY <3>1, <3>2 DEF ServedCoherent
  <2>4. \A i \in 1..Len(v) - 1 : v[i + 1].line = IF v[i].ends THEN v[i].line + 1 ELSE v[i].line
    BY <2>3
  <2>5. \A i \in 1..Len(v) : v[i].ends \/ v[i].kind = "long"
    BY <1>1 DEF ServedCoherent
  <2> QED  BY <1>1, <1>2, <1>4, <2>1, <2>2, <2>4, <2>5 DEF ServedCoherent, v
<1> QED  BY <1>1, <1>3, <1>4

LEMMA ServedCoherentSend ==
  ASSUME NEW S, NEW w \in Seq(S), NEW u \in Seq(S), u # <<>>, NEW d \in Nat, NEW n \in Nat,
         ServedCoherent(w, d, n),
         \A i \in 1..Len(u) : u[i].line = n + 1 /\ (u[i].ends <=> i = Len(u))
                              /\ (u[i].ends \/ u[i].kind = "long")
  PROVE  ServedCoherent(w \o u, d, n + 1)
<1> DEFINE v == w \o u
<1>1. /\ Len(w) \in Nat /\ Len(u) \in Nat /\ Len(u) > 0 /\ Len(v) = Len(w) + Len(u)
      /\ \A i \in 1..Len(w) : v[i] = w[i]
      /\ \A i \in 1..Len(u) : v[Len(w) + i] = u[i]
  OBVIOUS
<1>2. v # <<>>
  BY <1>1
<1>3. w = <<>> <=> Len(w) = 0
  OBVIOUS
<1> HIDE DEF v
<1>4. v[1].line = d + 1
  <2>1. CASE Len(w) = 0
    BY <1>1, <1>3, <2>1 DEF ServedCoherent
  <2>2. CASE Len(w) # 0
    BY <1>1, <1>3, <2>2 DEF ServedCoherent
  <2> QED  BY <2>1, <2>2
<1>5. v[Len(v)].line = n + 1 /\ v[Len(v)].ends
  BY <1>1
<1>6. \A i \in 1..Len(v) - 1 : v[i + 1].line = IF v[i].ends THEN v[i].line + 1 ELSE v[i].line
  <2> SUFFICES ASSUME NEW i \in 1..Len(v) - 1
               PROVE  v[i + 1].line = IF v[i].ends THEN v[i].line + 1 ELSE v[i].line
    OBVIOUS
  <2>1. CASE i < Len(w)
    <3>1. i \in 1..Len(w) - 1 /\ v[i] = w[i] /\ v[i + 1] = w[i + 1]
      BY <1>1, <2>1
    <3> QED  BY <3>1 DEF ServedCoherent
  <2>2. CASE i = Len(w)
    <3>1. v[i] = w[Len(w)] /\ v[i + 1] = u[1]
      BY <1>1, <2>2
    <3> QED  BY <1>1, <1>3, <2>2, <3>1 DEF ServedCoherent
  <2>3. CASE i > Len(w)
    <3> DEFINE j == i - Len(w)
    <3>1. j \in 1..Len(u) /\ j + 1 \in 1..Len(u) /\ i = Len(w) + j /\ i + 1 = Len(w) + (j + 1)
      BY <1>1, <2>3
    <3> HIDE DEF j
    <3>2. v[i] = u[j] /\ v[i + 1] = u[j + 1]
      BY <1>1, <3>1
    <3> QED  BY <1>1, <3>1, <3>2
  <2> QED  BY <1>1, <2>1, <2>2, <2>3
<1>7. \A i \in 1..Len(v) : v[i].ends \/ v[i].kind = "long"
  <2> SUFFICES ASSUME NEW i \in 1..Len(v) PROVE v[i].ends \/ v[i].kind = "long"
    OBVIOUS
  <2>1. CASE i <= Len(w)
    BY <1>1, <2>1 DEF ServedCoherent
  <2>2. CASE i > Len(w)
    <3>1. i - Len(w) \in 1..Len(u) /\ v[i] = u[i - Len(w)]
      BY <1>1, <2>2
    <3> QED  BY <3>1
  <2> QED  BY <1>1, <2>1, <2>2
<1> QED  BY <1>2, <1>4, <1>5, <1>6, <1>7 DEF ServedCoherent, v

-----------------------------------------------------------------------------
(* Calls                                                                   *)

(* Nobody but s changes its call, which becomes c.                         *)
ServedBecomes(s, c) == c \in ServedCalls /\ servedCall' = [servedCall EXCEPT ![s] = c]

LEMMA ServedMoveBecomes ==
  ASSUME ServedTypeInv, NEW s \in Servers, NEW to \in ServedStages, Served!Move(s, to)
  PROVE  ServedBecomes(s, [servedCall[s] EXCEPT !.at = to])
BY DEF ServedTypeInv, Served!Move, ServedBecomes, ServedCalls

LEMMA ServedDoneBecomes ==
  ASSUME ServedTypeInv, NEW s \in Servers, NEW ok \in BOOLEAN, Served!Done(s, ok)
  PROVE  ServedBecomes(s, [[servedCall[s] EXCEPT !.at = "completing"] EXCEPT !.ok = ok])
<1>1. servedCall[s] \in ServedCalls
  BY DEF ServedTypeInv
<1>2. servedCall' = [servedCall EXCEPT ![s] = [[servedCall[s] EXCEPT !.at = "completing"] EXCEPT !.ok = ok]]
  BY DEF ServedTypeInv, Served!Done
<1> QED  BY <1>1, <1>2 DEF ServedBecomes, ServedCalls, ServedStages

ServedOpened(piece) ==
  [at |-> IF ~piece.ends THEN "draining"
          ELSE IF piece.kind \in {"malformed", "long"} THEN "replying" ELSE "dispatching",
   line |-> IF piece.kind \in {"malformed", "long"} THEN 0 ELSE piece.line,
   kind |-> piece.kind, ok |-> piece.kind \notin {"malformed", "long"}, trace |-> 0, drop |-> 0]

LEMMA ServedReadBecomes ==
  ASSUME ServedSensible, ServedTypeInv, NEW s \in Servers, Served!ReadLine(s)
  PROVE  /\ servedWire[s] \in Seq(ServedParts) /\ servedWire[s] # <<>> /\ servedWire[s][1] \in ServedParts
         /\ ServedBecomes(s, ServedOpened(servedWire[s][1]))
<1>1. servedWire[s] \in Seq(ServedParts) /\ servedWire[s] # <<>> /\ servedWire[s][1] \in ServedParts
  BY DEF ServedTypeInv, Served!ReadLine
<1>2. servedCall' = [servedCall EXCEPT ![s] = ServedOpened(servedWire[s][1])]
  BY DEF Served!ReadLine, ServedOpened
<1>3. ServedOpened(servedWire[s][1]) \in ServedCalls
  BY <1>1 DEF ServedOpened, ServedCalls, ServedParts, ServedStages, ServedSensible
<1> QED  BY <1>1, <1>2, <1>3 DEF ServedBecomes

LEMMA ServedWaitingIsCall == ServedSensible => Served!Waiting \in ServedCalls
BY DEF ServedSensible, Served!Waiting, ServedCalls, ServedStages, Served!Kinds, Served!ReadOnly

LEMMA ServedLeastNatural ==
  ASSUME NEW T, T \in SUBSET Nat, T # {}
  PROVE  \E x \in T : \A y \in T : x <= y
<1>1. PICK x \in T : \A y \in T : ~ (<<y, x>> \in OpToRel(<, Nat))
  BY NatLessThanWellFounded, WFMin, Zenon
<1>2. \A y \in T : ~ (y < x)
  BY <1>1 DEF OpToRel
<1> QED  BY <1>2

(* The trace that is active, if one is.                                    *)
LEMMA ServedActiveIsOne ==
  ASSUME ServedTypeInv
  PROVE  /\ Served!Active \in Nat
         /\ Served!Active = 0 => \A t \in DOMAIN servedTraces : ~servedTraces[t].active
         /\ Served!Active # 0 => Served!Active \in DOMAIN servedTraces
            /\ servedTraces[Served!Active].active
<1> DEFINE T == {t \in DOMAIN servedTraces : servedTraces[t].active} \cup {0}
<1>1. DOMAIN servedTraces = 1..Len(servedTraces) /\ Len(servedTraces) \in Nat
  BY DEF ServedTypeInv
<1>2. T \in SUBSET (0..Len(servedTraces)) /\ 0 \in T
  BY <1>1
<1>3. \E x \in T : \A y \in T : x >= y
  <2> DEFINE U == {Len(servedTraces) - x : x \in T}
  <2>1. U \in SUBSET Nat /\ U # {}
    BY <1>1, <1>2
  <2> HIDE DEF U
  <2>2. PICK u \in U : \A y \in U : u <= y
    BY <2>1, ServedLeastNatural
  <2>3. \A y \in T : Len(servedTraces) - y \in U
    BY DEF U
  <2>4. PICK x \in T : u = Len(servedTraces) - x
    BY <2>2 DEF U
  <2> HIDE DEF T
  <2> QED  BY <1>1, <1>2, <2>2, <2>3, <2>4
<1>4. Served!Active \in T /\ \A y \in T : Served!Active >= y
  BY <1>3 DEF Served!Active, Served!Max
<1>5. \A t \in DOMAIN servedTraces : servedTraces[t].active => t \in T
  OBVIOUS
<1>6. \A t \in T : t # 0 => t \in DOMAIN servedTraces /\ servedTraces[t].active
  OBVIOUS
<1> HIDE DEF T
<1> QED  BY <1>1, <1>2, <1>4, <1>5, <1>6

(* Only the call of s changes. *)
ServedOnly(s) == servedCall' \in [Servers -> ServedCalls]
  /\ \A t \in Servers \ {s} : servedCall'[t] = servedCall[t]

LEMMA ServedBecomesOnly ==
  ASSUME ServedTypeInv, NEW s \in Servers, NEW c, ServedBecomes(s, c)
  PROVE  ServedOnly(s) /\ servedCall'[s] = c
BY DEF ServedTypeInv, ServedBecomes, ServedOnly

ServedHandles(s) ==
  \/ Served!Work(s) \/ Served!StartTrace(s) \/ Served!CreateTrace(s) \/ Served!StopTrace(s)
     \/ Served!PlanCompact(s) \/ Served!Compact(s)
  \/ Served!Complete(s) \/ Served!FindTrace(s) \/ Served!Record(s)

(* What a call goes through once its line is read.                         *)
ServedFollows ==
  {<<"dispatching", "completing">>, <<"dispatching", "starting">>, <<"starting", "completing">>,
   <<"dispatching", "compacting">>, <<"compacting", "completing">>, <<"completing", "tracing">>,
   <<"tracing", "replying">>, <<"tracing", "recording">>, <<"recording", "replying">>}

ServedHandStep(s) ==
  /\ ServedOnly(s) /\ servedCall'[s].line = servedCall[s].line
  /\ servedCall'[s].kind = servedCall[s].kind
  /\ <<servedCall[s].at, servedCall'[s].at>> \in ServedFollows

LEMMA ServedMoveSteps ==
  ASSUME ServedTypeInv, NEW s \in Servers, NEW to \in ServedStages, Served!Move(s, to),
    <<servedCall[s].at, to>> \in ServedFollows
  PROVE  ServedHandStep(s) /\ servedCall'[s].at = to /\ servedCall'[s].drop = servedCall[s].drop
         /\ servedCall'[s].trace = servedCall[s].trace
<1>1. servedCall[s] \in ServedCalls
  BY DEF ServedTypeInv
<1>2. ServedOnly(s) /\ servedCall'[s] = [servedCall[s] EXCEPT !.at = to]
  BY ServedMoveBecomes, ServedBecomesOnly
<1> QED  BY <1>1, <1>2 DEF ServedHandStep, ServedCalls

LEMMA ServedDoneSteps ==
  ASSUME ServedTypeInv, NEW s \in Servers, NEW ok \in BOOLEAN, Served!Done(s, ok),
         servedCall[s].at \in {"dispatching", "starting", "compacting"}
  PROVE  ServedHandStep(s) /\ servedCall'[s].at = "completing"
<1>1. servedCall[s] \in ServedCalls
  BY DEF ServedTypeInv
<1>2. ServedOnly(s)
      /\ servedCall'[s] = [[servedCall[s] EXCEPT !.at = "completing"] EXCEPT !.ok = ok]
  BY ServedDoneBecomes, ServedBecomesOnly
<1>3. servedCall'[s].at = "completing" /\ servedCall'[s].line = servedCall[s].line
      /\ servedCall'[s].kind = servedCall[s].kind
  BY <1>1, <1>2 DEF ServedCalls
<1> QED  BY <1>2, <1>3 DEF ServedHandStep, ServedFollows

LEMMA ServedStartSteps ==
  ASSUME ServedTypeInv, NEW s \in Servers, Served!StartTrace(s)
  PROVE  /\ ServedHandStep(s) /\ servedCall[s].at = "dispatching" /\ servedCall[s].kind = "start"
         /\ \/ servedCall'[s].at = "completing"
            \/ /\ servedCall'[s].at = "starting" /\ Served!Active = 0
               /\ "two tracers" \in ServingHazards \/ Served!Alone(s, "starting")
<1>1. CASE Served!Active # 0
  BY <1>1, ServedDoneSteps DEF Served!StartTrace, Served!Dispatching
<1>2. CASE Served!Active = 0
  <2>1. Served!Move(s, "starting") /\ <<servedCall[s].at, "starting">> \in ServedFollows
    BY <1>2 DEF Served!StartTrace, Served!Dispatching, ServedFollows
  <2> QED  BY <1>2, <2>1, ServedMoveSteps DEF Served!StartTrace, Served!Dispatching, ServedStages
<1> QED  BY <1>1, <1>2

LEMMA ServedPlanSteps ==
  ASSUME ServedSensible, ServedTypeInv, NEW s \in Servers, Served!PlanCompact(s),
    Served!IsFiniteSet(servedRows)
  PROVE  /\ ServedHandStep(s) /\ servedCall'[s].at = "compacting"
         /\ servedCall'[s].drop = IF Served!Cardinality(servedRows) > KeptRows THEN Served!Cardinality(servedRows) - KeptRows ELSE 0
<1> DEFINE d == IF Served!Cardinality(servedRows) > KeptRows THEN Served!Cardinality(servedRows) - KeptRows ELSE 0
<1>1. servedCall[s] \in ServedCalls /\ d \in Nat
  BY ServedCounts, FS_CardinalityType DEF ServedTypeInv, ServedSensible
<1>2. servedCall' = [servedCall EXCEPT ![s] = [[servedCall[s] EXCEPT !.at = "compacting"] EXCEPT !.drop = d]]
  BY DEF ServedTypeInv, Served!PlanCompact
<1> HIDE DEF d
<1>3. [[servedCall[s] EXCEPT !.at = "compacting"] EXCEPT !.drop = d] \in ServedCalls
  BY <1>1 DEF ServedCalls, ServedStages
<1>4. ServedOnly(s)
      /\ servedCall'[s] = [[servedCall[s] EXCEPT !.at = "compacting"] EXCEPT !.drop = d]
  BY <1>2, <1>3, ServedBecomesOnly DEF ServedBecomes
<1>5. /\ servedCall'[s].at = "compacting" /\ servedCall'[s].line = servedCall[s].line
      /\ servedCall'[s].kind = servedCall[s].kind /\ servedCall'[s].drop = d
  BY <1>1, <1>4 DEF ServedCalls
<1> QED  BY <1>4, <1>5 DEF ServedHandStep, ServedFollows, Served!PlanCompact, Served!Dispatching, d

LEMMA ServedFindSteps ==
  ASSUME ServedTypeInv, NEW s \in Servers, Served!FindTrace(s)
  PROVE  /\ ServedHandStep(s) /\ servedCall[s].at = "tracing"
         /\ \/ servedCall'[s].at = "replying"
            \/ /\ servedCall'[s].at = "recording" /\ servedCall'[s].trace = Served!Active
               /\ Served!Active # 0 /\ ~Served!Silent(servedCall[s].kind)
<1>1. CASE Served!Silent(servedCall[s].kind) \/ Served!Active = 0
  <2>1. Served!Move(s, "replying") /\ <<servedCall[s].at, "replying">> \in ServedFollows
    BY <1>1 DEF Served!FindTrace, ServedFollows
  <2> QED  BY <2>1, ServedMoveSteps DEF Served!FindTrace, ServedStages
<1>2. CASE ~(Served!Silent(servedCall[s].kind) \/ Served!Active = 0)
  <2>1. servedCall[s] \in ServedCalls /\ Served!Active \in Nat
    BY ServedActiveIsOne DEF ServedTypeInv
  <2>2. servedCall' = [servedCall EXCEPT ![s] = [[servedCall[s] EXCEPT !.at = "recording"] EXCEPT !.trace = Served!Active]]
    BY <1>2 DEF ServedTypeInv, Served!FindTrace
  <2>3. [[servedCall[s] EXCEPT !.at = "recording"] EXCEPT !.trace = Served!Active] \in ServedCalls
    BY <2>1 DEF ServedCalls, ServedStages
  <2>4. ServedOnly(s)
        /\ servedCall'[s] = [[servedCall[s] EXCEPT !.at = "recording"] EXCEPT !.trace = Served!Active]
    BY <2>2, <2>3, ServedBecomesOnly DEF ServedBecomes
  <2>5. /\ servedCall'[s].at = "recording" /\ servedCall'[s].line = servedCall[s].line
        /\ servedCall'[s].kind = servedCall[s].kind /\ servedCall'[s].trace = Served!Active
    BY <2>1, <2>4 DEF ServedCalls
  <2> QED  BY <1>2, <2>4, <2>5 DEF ServedHandStep, ServedFollows, Served!FindTrace
<1> QED  BY <1>1, <1>2

LEMMA ServedHandled ==
  ASSUME ServedSensible, ServedTypeInv, Served!IsFiniteSet(servedRows), NEW s \in Servers,
    ServedHandles(s)
  PROVE  ServedHandStep(s) /\ UNCHANGED <<servedWire, servedSent, servedReplies, servedViewer,
    servedDead, servedCrashes>>
<1>1. CASE Served!Work(s)
  BY <1>1, ServedDoneSteps DEF Served!Work
<1>2. CASE Served!StartTrace(s)
  BY <1>2, ServedStartSteps DEF Served!StartTrace
<1>3. CASE Served!CreateTrace(s)
  BY <1>3, ServedDoneSteps DEF Served!CreateTrace
<1>4. CASE Served!StopTrace(s)
  BY <1>4, ServedDoneSteps DEF Served!StopTrace, Served!Dispatching
<1>5. CASE Served!PlanCompact(s)
  BY <1>5, ServedPlanSteps DEF Served!PlanCompact
<1>6. CASE Served!Compact(s)
  BY <1>6, ServedDoneSteps DEF Served!Compact
<1>7. CASE Served!Complete(s)
  BY <1>7, ServedMoveSteps DEF Served!Complete, ServedFollows, ServedStages
<1>8. CASE Served!FindTrace(s)
  BY <1>8, ServedFindSteps DEF Served!FindTrace
<1>9. CASE Served!Record(s)
  BY <1>9, ServedMoveSteps DEF Served!Record, ServedFollows, ServedStages
<1> QED  BY <1>1, <1>2, <1>3, <1>4, <1>5, <1>6, <1>7, <1>8, <1>9 DEF ServedHandles

LEMMA ServedDrainSteps ==
  ASSUME ServedTypeInv, NEW s \in Servers, Served!Drain(s)
  PROVE  /\ ServedOnly(s) /\ servedCall'[s].line = servedCall[s].line
         /\ servedCall'[s].at = IF servedWire[s][1].ends THEN "replying" ELSE "draining"
<1> DEFINE to == IF servedWire[s][1].ends THEN "replying" ELSE "draining"
<1>1. to \in ServedStages /\ Served!Move(s, to) /\ servedCall[s] \in ServedCalls
  BY DEF ServedStages, Served!Drain, ServedTypeInv
<1> HIDE DEF to
<1>2. ServedOnly(s) /\ servedCall'[s] = [servedCall[s] EXCEPT !.at = to]
  BY <1>1, ServedMoveBecomes, ServedBecomesOnly
<1> QED  BY <1>1, <1>2 DEF ServedCalls, to

LEMMA ServedRestSteps ==
  ASSUME ServedSensible, ServedTypeInv, NEW s \in Servers, Served!Reply(s) \/ Served!Crash(s)
  PROVE  ServedOnly(s) /\ servedCall'[s] = Served!Waiting
BY ServedWaitingIsCall DEF Served!Reply, Served!Crash, ServedTypeInv, ServedOnly

ServedByServer(s) ==
  \/ \E kind \in Sends[s] : Served!Send(s, kind)
  \/ Served!ReadLine(s) \/ Served!Drain(s) \/ ServedHandles(s) \/ Served!Reply(s) \/ Served!Crash(s)

LEMMA ServedNextIs == Served!Next <=> (\E s \in Servers : ServedByServer(s)) \/ Served!Snapshot
  \/ Served!Poll \/ Served!Reconnect
BY DEF Served!Next, ServedByServer, ServedHandles

-----------------------------------------------------------------------------
(* Types                                                                   *)

LEMMA ServedEmitTypes ==
  ASSUME ServedSensible, ServedTypeInv, NEW s \in Servers, NEW kind,
    NEW phase \in {"started", "completed"},
         servedCall' \in [Servers -> ServedCalls], Served!Emit(s, kind, phase)
  PROVE  servedActivity' \in Seq(ServedEvents)
<1> DEFINE e == [by |-> s, line |-> servedCall'[s].line, phase |-> phase]
<1>1. e \in ServedEvents
  BY DEF ServedCalls, ServedEvents
<1>2. servedActivity' = servedActivity \/ servedActivity' = Append(servedActivity, e)
  BY DEF Served!Emit
<1> HIDE DEF e
<1>3. servedActivity \in Seq(ServedEvents)
  BY DEF ServedTypeInv
<1> QED  BY <1>1, <1>2, <1>3

LEMMA ServedInitTypes == ASSUME ServedSensible, Served!Init PROVE ServedTypeInv
<1>1. servedWire \in [Servers -> Seq(ServedParts)] /\ servedSent \in [Servers -> 0..MaxLines]
  BY DEF Served!Init, ServedSensible
<1>2. servedCall \in [Servers -> ServedCalls] /\ servedReplies \in [Servers -> Seq(ServedAnswers)]
  BY ServedWaitingIsCall DEF Served!Init
<1> QED  BY <1>1, <1>2 DEF Served!Init, ServedSensible, ServedTypeInv

LEMMA ServedSendPieces ==
  ASSUME ServedSensible, ServedTypeInv, NEW s \in Servers, NEW kind \in Sends[s],
    Served!Send(s, kind)
  PROVE  /\ servedSent' = [servedSent EXCEPT ![s] = servedSent[s] + 1] /\ servedSent'[s] \in 0..MaxLines
         /\ \E u \in Seq(ServedParts) :
              /\ servedWire' = [servedWire EXCEPT ![s] = servedWire[s] \o u] /\ u # <<>>
              /\ \A i \in 1..Len(u) : u[i].line = servedSent[s] + 1 /\ (u[i].ends <=> i = Len(u))
                                      /\ (u[i].ends \/ u[i].kind = "long")
<1>1. servedSent \in [Servers -> 0..MaxLines] /\ servedSent[s] < MaxLines /\ MaxLines \in Nat
      /\ servedSent' = [servedSent EXCEPT ![s] = servedSent[s] + 1]
  BY DEF ServedTypeInv, Served!Send, ServedSensible
<1>2. servedSent'[s] = servedSent[s] + 1 /\ servedSent[s] + 1 \in 0..MaxLines
  BY <1>1
<1>3. kind \in Served!Kinds /\ Pieces \in Nat /\ Pieces > 0
  BY DEF ServedSensible
<1> DEFINE p == [i \in 1..Pieces |-> [line |-> servedSent'[s], kind |-> "long",
    ends |-> i = Pieces]]
           u == IF kind = "long" THEN p ELSE <<[line |-> servedSent'[s], kind |-> kind,
             ends |-> TRUE]>>
<1>4. servedWire' = [servedWire EXCEPT ![s] = servedWire[s] \o u]
  BY DEF Served!Send
<1>5. CASE kind = "long"
  <2>1. \A i \in 1..Pieces : [line |-> servedSent'[s], kind |-> "long",
        ends |-> i = Pieces] \in ServedParts
    BY <1>2, <1>3, <1>5 DEF ServedParts
  <2>2. u = p /\ p \in Seq(ServedParts) /\ Len(p) = Pieces
    BY <1>3, <1>5, <2>1
  <2>3. p # <<>>
    BY <1>3, <2>2
  <2>4. \A i \in 1..Len(p) : p[i].line = servedSent[s] + 1 /\ (p[i].ends <=> i = Len(p))
                             /\ (p[i].ends \/ p[i].kind = "long")
    BY <1>2, <2>2
  <2> QED  BY <1>1, <1>2, <1>4, <2>2, <2>3, <2>4
<1>6. CASE kind # "long"
  <2> DEFINE e == [line |-> servedSent'[s], kind |-> kind, ends |-> TRUE]
  <2>1. e \in ServedParts /\ e.line = servedSent[s] + 1 /\ e.ends
    BY <1>2, <1>3 DEF ServedParts
  <2>2. u = <<e>>
    BY <1>6
  <2> HIDE DEF u, e
  <2>3. u \in Seq(ServedParts) /\ Len(u) = 1 /\ u # <<>> /\ u[1] = e
    BY <2>1, <2>2
  <2>4. \A i \in 1..Len(u) : u[i].line = servedSent[s] + 1 /\ (u[i].ends <=> i = Len(u))
                             /\ (u[i].ends \/ u[i].kind = "long")
    BY <2>1, <2>3
  <2> QED  BY <1>1, <1>2, <1>4, <2>3, <2>4
<1> QED  BY <1>5, <1>6

LEMMA ServedElementOf == ASSUME NEW S, NEW q \in Seq(S), NEW a \in DOMAIN q PROVE q[a] \in S
OBVIOUS

LEMMA ServedStoppedTypes ==
  ASSUME NEW q \in Seq([active : BOOLEAN]), NEW a \in DOMAIN q
  PROVE  [q EXCEPT ![a].active = FALSE] \in Seq([active : BOOLEAN])
<1>1. q[a] \in [active : BOOLEAN]
  BY ServedElementOf, Zenon
<1>2. [q[a] EXCEPT !.active = FALSE] \in [active : BOOLEAN]
  BY <1>1, Zenon
<1> DEFINE e == [q[a] EXCEPT !.active = FALSE]
<1> HIDE DEF e
<1>3. [q EXCEPT ![a] = e] \in Seq([active : BOOLEAN])
  BY <1>2 DEF e
<1>4. [q EXCEPT ![a].active = FALSE] = [q EXCEPT ![a] = e]
  BY DEF e
<1> QED  BY <1>3, <1>4

LEMMA ServedServerTypes ==
  ASSUME ServedSensible, ServedTypeInv, Served!IsFiniteSet(servedRows), NEW s \in Servers,
    ServedByServer(s)
  PROVE  ServedTypeInv'
<1> USE DEF ServedTypeInv
<1>1. CASE \E kind \in Sends[s] : Served!Send(s, kind)
  <2> PICK kind \in Sends[s] : Served!Send(s, kind)
    BY <1>1
  <2>1. servedSent' \in [Servers -> 0..MaxLines] /\ servedWire' \in [Servers -> Seq(ServedParts)]
    <3>1. PICK u \in Seq(ServedParts) : servedWire' = [servedWire EXCEPT ![s] = servedWire[s] \o u]
      BY ServedSendPieces
    <3>2. servedSent' = [servedSent EXCEPT ![s] = servedSent[s] + 1]
          /\ servedSent'[s] \in 0..MaxLines
      BY ServedSendPieces
    <3>3. servedWire[s] \o u \in Seq(ServedParts)
      OBVIOUS
    <3> QED  BY <3>1, <3>2, <3>3
  <2> QED  BY <2>1 DEF Served!Send
<1>2. CASE Served!ReadLine(s)
  <2>1. ServedOnly(s) /\ servedWire[s] \in Seq(ServedParts) /\ servedWire[s] # <<>>
    BY <1>2, ServedReadBecomes, ServedBecomesOnly
  <2>2. servedActivity' \in Seq(ServedEvents)
    BY <1>2, <2>1, ServedEmitTypes DEF Served!ReadLine, ServedOnly
  <2>3. Tail(servedWire[s]) \in Seq(ServedParts)
    BY <2>1
  <2>4. servedWire' \in [Servers -> Seq(ServedParts)]
    BY <1>2, <2>3 DEF Served!ReadLine
  <2> QED  BY <1>2, <2>1, <2>2, <2>4 DEF Served!ReadLine, ServedOnly
<1>3. CASE Served!Drain(s)
  <2>1. ServedOnly(s) /\ servedWire[s] \in Seq(ServedParts) /\ servedWire[s] # <<>>
    BY <1>3, ServedDrainSteps DEF Served!Drain
  <2>2. Tail(servedWire[s]) \in Seq(ServedParts)
    BY <2>1
  <2>3. servedWire' \in [Servers -> Seq(ServedParts)]
    BY <1>3, <2>2 DEF Served!Drain
  <2> QED  BY <1>3, <2>1, <2>3 DEF Served!Drain, ServedOnly
<1>4. CASE ServedHandles(s)
  <2>1. servedCall' \in [Servers -> ServedCalls]
        /\ UNCHANGED <<servedWire, servedSent, servedReplies, servedViewer, servedDead,
           servedCrashes>>
    BY <1>4, ServedHandled DEF ServedHandStep, ServedOnly
  <2>2. servedActivity' \in Seq(ServedEvents)
    BY <1>4, <2>1, ServedEmitTypes
      DEF ServedHandles, Served!Work, Served!StartTrace, Served!CreateTrace, Served!StopTrace,
        Served!PlanCompact,
         Served!Compact, Served!Complete, Served!FindTrace, Served!Record
  <2>3. servedTraces' \in Seq([active : BOOLEAN])
    <3>1. CASE Served!CreateTrace(s)
      BY <3>1 DEF Served!CreateTrace
    <3>2. CASE Served!StopTrace(s)
      <4>1. servedTraces' = servedTraces \/ (Served!Active \in DOMAIN servedTraces
            /\ servedTraces' = [servedTraces EXCEPT ![Served!Active].active = FALSE])
        BY <3>2, ServedActiveIsOne DEF Served!StopTrace
      <4>2. servedTraces \in Seq([active : BOOLEAN])
        OBVIOUS
      <4> HIDE DEF ServedTypeInv
      <4> QED  BY <4>1, <4>2, ServedStoppedTypes
    <3> QED  BY <1>4, <3>1, <3>2
        DEF ServedHandles, Served!Work, Served!StartTrace, Served!PlanCompact, Served!Compact,
          Served!Complete,
               Served!FindTrace, Served!Record
  <2>4. servedRows' \in SUBSET ServedTraceRows /\ servedMade' \in 0..MaxCalls
    <3>1. CASE Served!Compact(s)
      BY <3>1 DEF Served!Compact
    <3>2. CASE Served!Record(s)
      <4>1. servedMade' = servedMade + 1 /\ servedMade' \in 1..MaxCalls
            /\ servedCall[s] \in ServedCalls
        BY <3>2 DEF Served!Record, ServedSensible
      <4>2. [seq |-> servedMade', trace |-> servedCall[s].trace,
            kind |-> servedCall[s].kind] \in ServedTraceRows
        BY <4>1 DEF ServedCalls, ServedTraceRows
      <4> QED  BY <3>2, <4>1, <4>2 DEF Served!Record
    <3> QED  BY <1>4, <3>1, <3>2
        DEF ServedHandles, Served!Work, Served!StartTrace, Served!CreateTrace, Served!StopTrace,
               Served!PlanCompact, Served!Complete, Served!FindTrace
  <2> QED  BY <2>1, <2>2, <2>3, <2>4
<1>5. CASE Served!Reply(s)
  <2>1. servedCall' \in [Servers -> ServedCalls]
    BY <1>5, ServedRestSteps DEF ServedOnly
  <2>2. [line |-> servedCall[s].line, ok |-> servedCall[s].ok] \in ServedAnswers
    BY DEF ServedCalls, ServedAnswers
  <2>3. servedReplies' \in [Servers -> Seq(ServedAnswers)]
    BY <1>5, <2>2 DEF Served!Reply
  <2> QED  BY <1>5, <2>1, <2>3 DEF Served!Reply
<1>6. CASE Served!Crash(s)
  <2>1. servedCall' \in [Servers -> ServedCalls]
    BY <1>6, ServedRestSteps DEF ServedOnly
  <2>2. servedSent' \in [Servers -> 0..MaxLines] /\ servedCrashes' \in 0..MaxCrashes
    BY <1>6 DEF Served!Crash, ServedSensible
  <2>3. servedWire' \in [Servers -> Seq(ServedParts)]
        /\ servedReplies' \in [Servers -> Seq(ServedAnswers)]
    BY <1>6 DEF Served!Crash
  <2> QED  BY <1>6, <2>1, <2>2, <2>3 DEF Served!Crash
<1> QED  BY <1>1, <1>2, <1>3, <1>4, <1>5, <1>6 DEF ServedByServer

-----------------------------------------------------------------------------
(* Lines and replies                                                       *)

LEMMA ServedOthersWait ==
  ASSUME ServedWireInv, NEW s \in Servers, ServedWireOf(servedWire'[s], servedCall'[s],
    servedReplies'[s], servedSent'[s]),
         \A t \in Servers \ {s} : servedWire'[t] = servedWire[t] /\ servedCall'[t] = servedCall[t]
                                  /\ servedReplies'[t] = servedReplies[t]
                                  /\ servedSent'[t] = servedSent[t]
  PROVE  ServedWireInv'
BY DEF ServedWireInv

LEMMA ServedPieceTaken ==
  ASSUME NEW w \in Seq(ServedParts), w # <<>>, NEW n \in Nat, NEW a \in Seq(ServedAnswers), NEW c,
    NEW d,
         ServedCoherent(w, Len(a), n), \A i \in DOMAIN a : a[i].line \in {i, 0},
         d.at = IF w[1].ends THEN "replying" ELSE "draining", d.line = 0
  PROVE  ServedOrderly(Tail(w), d, a, n)
<1>1. /\ ServedCoherent(Tail(w), IF w[1].ends THEN Len(a) + 1 ELSE Len(a), n)
      /\ ~w[1].ends => Tail(w) # <<>>
  BY ServedCoherentTail
<1>2. ServedTaken(d, a) = IF w[1].ends THEN Len(a) + 1 ELSE Len(a)
  BY DEF ServedTaken, ServedInHand
<1> QED  BY <1>1, <1>2 DEF ServedOrderly, ServedInHand

LEMMA ServedWireStep ==
  ASSUME ServedSensible, ServedTypeInv, ServedWireInv, Served!IsFiniteSet(servedRows),
    NEW s \in Servers, ServedByServer(s)
  PROVE  ServedWireInv'
<1>0. /\ servedWire[s] \in Seq(ServedParts) /\ servedCall[s] \in ServedCalls
      /\ servedReplies[s] \in Seq(ServedAnswers)
      /\ servedSent[s] \in Nat /\ ServedWireOf(servedWire[s], servedCall[s], servedReplies[s],
         servedSent[s])
  BY DEF ServedTypeInv, ServedWireInv, ServedSensible
<1>1. CASE \E kind \in Sends[s] : Served!Send(s, kind)
  <2> PICK kind \in Sends[s] : Served!Send(s, kind)
    BY <1>1
  <2>1. PICK u \in Seq(ServedParts) :
          /\ servedWire' = [servedWire EXCEPT ![s] = servedWire[s] \o u] /\ u # <<>>
          /\ \A i \in 1..Len(u) : u[i].line = servedSent[s] + 1 /\ (u[i].ends <=> i = Len(u))
                                  /\ (u[i].ends \/ u[i].kind = "long")
    BY ServedSendPieces
  <2>2. servedSent' = [servedSent EXCEPT ![s] = servedSent[s] + 1]
        /\ UNCHANGED <<servedCall, servedReplies>>
    BY ServedSendPieces DEF Served!Send
  <2>3. ServedOrderly(servedWire[s], servedCall[s], servedReplies[s], servedSent[s])
    BY <1>0 DEF ServedWireOf, ServedSettled, Served!Send, ServedSensible
  <2>4. ServedTaken(servedCall[s], servedReplies[s]) \in Nat
    BY <1>0 DEF ServedTaken
  <2>5. ServedCoherent(servedWire[s] \o u, ServedTaken(servedCall[s], servedReplies[s]),
        servedSent[s] + 1)
    BY <1>0, <2>1, <2>3, <2>4, ServedCoherentSend DEF ServedOrderly
  <2>6. servedWire[s] # <<>> => servedWire[s] \o u # <<>>
    BY <1>0, <2>1
  <2>7. ServedOrderly(servedWire[s] \o u, servedCall[s], servedReplies[s], servedSent[s] + 1)
    BY <2>3, <2>5, <2>6 DEF ServedOrderly
  <2>8. /\ servedWire'[s] = servedWire[s] \o u /\ servedSent'[s] = servedSent[s] + 1
        /\ \A t \in Servers \ {s} : servedWire'[t] = servedWire[t] /\ servedSent'[t] = servedSent[t]
    BY <2>1, <2>2 DEF ServedTypeInv
  <2> QED  BY <2>2, <2>7, <2>8, ServedOthersWait DEF ServedWireOf
<1>2. CASE Served!ReadLine(s)
  <2>1. /\ servedWire[s] # <<>> /\ servedWire[s][1] \in ServedParts /\ ServedOnly(s)
        /\ servedCall'[s] = ServedOpened(servedWire[s][1])
        /\ UNCHANGED <<servedSent, servedReplies>>
    <3>1. /\ servedWire[s] # <<>> /\ servedWire[s][1] \in ServedParts
          /\ ServedBecomes(s, ServedOpened(servedWire[s][1]))
      BY <1>2, ServedReadBecomes
    <3>2. ServedOnly(s) /\ servedCall'[s] = ServedOpened(servedWire[s][1])
      BY <3>1, ServedBecomesOnly
    <3>3. UNCHANGED <<servedSent, servedReplies>>
      BY <1>2 DEF Served!ReadLine
    <3> QED  BY <3>1, <3>2, <3>3
  <2>2. servedWire'[s] = Tail(servedWire[s])
        /\ \A t \in Servers \ {s} : servedWire'[t] = servedWire[t]
    BY <1>2 DEF Served!ReadLine, ServedTypeInv
  <2>3. ServedOrderly(servedWire[s], servedCall[s], servedReplies[s], servedSent[s])
    BY <1>0, <2>1 DEF ServedWireOf, ServedSettled
  <2>4. ServedCoherent(servedWire[s], Len(servedReplies[s]), servedSent[s])
    BY <1>2, <2>3 DEF ServedOrderly, ServedTaken, ServedInHand, Served!ReadLine
  <2>5. servedWire[s][1].line = Len(servedReplies[s]) + 1
        /\ (servedWire[s][1].ends \/ servedWire[s][1].kind = "long")
    BY <1>0, <2>1, <2>4 DEF ServedCoherent
  <2>6. ServedOrderly(Tail(servedWire[s]), servedCall'[s], servedReplies[s], servedSent[s])
    <3>1. /\ ServedCoherent(Tail(servedWire[s]),
             IF servedWire[s][1].ends THEN Len(servedReplies[s]) + 1 ELSE Len(servedReplies[s]),
               servedSent[s])
          /\ ~servedWire[s][1].ends => Tail(servedWire[s]) # <<>>
      <4>1. Len(servedReplies[s]) \in Nat
        BY <1>0
      <4> QED  BY <1>0, <2>1, <2>4, <4>1, ServedCoherentTail
    <3>2. /\ servedWire[s][1].ends <=> ServedInHand(servedCall'[s])
          /\ ~servedWire[s][1].ends => servedCall'[s].at = "draining" /\ servedCall'[s].line = 0
          /\ servedCall'[s].line \in {0, Len(servedReplies[s]) + 1} /\ servedCall'[s].at # "reading"
      BY <2>1, <2>5 DEF ServedOpened, ServedInHand
    <3> QED  BY <2>3, <3>1, <3>2 DEF ServedOrderly, ServedTaken, ServedInHand
  <2> QED  BY <2>1, <2>2, <2>6, ServedOthersWait DEF ServedWireOf, ServedOnly
<1>3. CASE Served!Drain(s)
  <2>1. /\ ServedOnly(s) /\ servedCall'[s].line = servedCall[s].line
        /\ UNCHANGED <<servedSent, servedReplies>>
        /\ servedCall'[s].at = IF servedWire[s][1].ends THEN "replying" ELSE "draining"
    BY <1>3, ServedDrainSteps DEF Served!Drain
  <2>2. /\ servedWire'[s] = Tail(servedWire[s]) /\ servedWire[s] # <<>>
        /\ servedCall[s].at = "draining"
        /\ \A t \in Servers \ {s} : servedWire'[t] = servedWire[t]
    BY <1>3 DEF Served!Drain, ServedTypeInv
  <2>3. ServedOrderly(servedWire[s], servedCall[s], servedReplies[s], servedSent[s])
    BY <1>0, <2>2 DEF ServedWireOf, ServedSettled
  <2>4. ServedCoherent(servedWire[s], Len(servedReplies[s]), servedSent[s])
        /\ servedCall[s].line = 0
        /\ \A i \in DOMAIN servedReplies[s] : servedReplies[s][i].line \in {i, 0}
    BY <2>2, <2>3 DEF ServedOrderly, ServedTaken, ServedInHand
  <2>5. ServedOrderly(Tail(servedWire[s]), servedCall'[s], servedReplies[s], servedSent[s])
    BY <1>0, <2>1, <2>2, <2>4, ServedPieceTaken
  <2> QED  BY <2>1, <2>2, <2>5, ServedOthersWait DEF ServedWireOf, ServedOnly
<1>4. CASE ServedHandles(s)
  <2>1. ServedHandStep(s) /\ UNCHANGED <<servedWire, servedSent, servedReplies>>
    BY <1>4, ServedHandled
  <2>2. ServedInHand(servedCall[s]) /\ ServedInHand(servedCall'[s])
        /\ servedCall'[s].line = servedCall[s].line
    BY <2>1 DEF ServedHandStep, ServedFollows, ServedInHand
  <2>3. ServedOrderly(servedWire[s], servedCall[s], servedReplies[s], servedSent[s])
    BY <1>0, <2>2 DEF ServedWireOf, ServedSettled, ServedInHand, Served!Waiting
  <2>4. ServedOrderly(servedWire[s], servedCall'[s], servedReplies[s], servedSent[s])
    BY <2>2, <2>3 DEF ServedOrderly, ServedTaken, ServedInHand
  <2> QED  BY <2>1, <2>4, ServedOthersWait DEF ServedWireOf, ServedHandStep, ServedOnly
<1>5. CASE Served!Reply(s)
  <2> DEFINE e == [line |-> servedCall[s].line, ok |-> servedCall[s].ok]
             a == Append(servedReplies[s], e)
  <2>1. /\ ServedOnly(s) /\ servedCall'[s] = Served!Waiting /\ UNCHANGED <<servedWire, servedSent>>
        /\ servedCall[s].at = "replying"
        /\ servedReplies'[s] = a /\ \A t \in Servers \ {s} : servedReplies'[t] = servedReplies[t]
    BY <1>5, ServedRestSteps DEF Served!Reply, ServedTypeInv
  <2>2. ServedOrderly(servedWire[s], servedCall[s], servedReplies[s], servedSent[s])
    BY <1>0, <2>1 DEF ServedWireOf, ServedSettled, Served!Waiting
  <2>3. e \in ServedAnswers /\ e.line = servedCall[s].line
    BY <1>0 DEF ServedCalls, ServedAnswers
  <2> HIDE DEF e
  <2>4. Len(a) = Len(servedReplies[s]) + 1
        /\ \A i \in 1..Len(a) : a[i] = IF i = Len(a) THEN e ELSE servedReplies[s][i]
    BY <1>0, <2>3
  <2>5. DOMAIN a = 1..Len(a) /\ DOMAIN servedReplies[s] = 1..Len(servedReplies[s])
        /\ Len(servedReplies[s]) \in Nat
    BY <1>0, <2>3
  <2> HIDE DEF a
  <2>6. \A i \in DOMAIN a : a[i].line \in {i, 0}
    <3>1. e.line \in {0, Len(servedReplies[s]) + 1}
          /\ \A i \in DOMAIN servedReplies[s] : servedReplies[s][i].line \in {i, 0}
      BY <2>1, <2>2, <2>3 DEF ServedOrderly, ServedInHand
    <3>2. \A i \in DOMAIN a : i = Len(a) \/ (i # Len(a) /\ i \in DOMAIN servedReplies[s])
      BY <2>4, <2>5
    <3> QED  BY <2>4, <2>5, <3>1, <3>2
  <2>7. ServedOrderly(servedWire[s], Served!Waiting, a, servedSent[s])
    BY <2>1, <2>2, <2>4, <2>6 DEF ServedOrderly, ServedTaken, ServedInHand, Served!Waiting
  <2> QED  BY <2>1, <2>7, ServedOthersWait DEF ServedWireOf, ServedOnly
<1>6. CASE Served!Crash(s)
  <2>1. /\ servedWire'[s] = <<>> /\ servedReplies'[s] = <<>> /\ servedSent'[s] = MaxLines
        /\ servedCall'[s] = Served!Waiting
        /\ ServedOnly(s)
        /\ \A t \in Servers \ {s} : servedWire'[t] = servedWire[t]
           /\ servedReplies'[t] = servedReplies[t] /\ servedSent'[t] = servedSent[t]
    BY <1>6, ServedRestSteps DEF Served!Crash, ServedTypeInv
  <2> QED  BY <2>1, ServedOthersWait DEF ServedWireOf, ServedSettled, ServedOnly
<1> QED  BY <1>1, <1>2, <1>3, <1>4, <1>5, <1>6 DEF ServedByServer

-----------------------------------------------------------------------------
(* Activity                                                                *)

(* The row that Emit adds, if it adds one. *)
ServedRow(s, phase) == [by |-> s, line |-> servedCall'[s].line, phase |-> phase]

LEMMA ServedEmitAdds ==
  ASSUME ServedSensible, ServedTypeInv, NEW s \in Servers, NEW kind,
    NEW phase \in {"started", "completed"},
         ServedOnly(s), Served!Emit(s, kind, phase)
  PROVE  /\ Served!Silent(kind) => servedActivity' = servedActivity
         /\ ~Served!Silent(kind) => /\ servedActivity' \in Seq(ServedEvents) /\ Len(servedActivity') = Len(servedActivity) + 1
                                    /\ servedActivity'[Len(servedActivity) + 1] = ServedRow(s,
                                       phase)
         /\ \A i \in DOMAIN servedActivity : i \in DOMAIN servedActivity'
            /\ servedActivity'[i] = servedActivity[i]
         /\ ServedRow(s, phase).by = s /\ ServedRow(s, phase).line = servedCall'[s].line
         /\ ServedRow(s, phase).phase = phase
<1>1. servedActivity \in Seq(ServedEvents) /\ ServedRow(s, phase) \in ServedEvents
  BY DEF ServedTypeInv, ServedRow, ServedOnly, ServedCalls, ServedEvents
<1>2. servedActivity' = IF Served!Silent(kind) THEN servedActivity ELSE Append(servedActivity,
      ServedRow(s, phase))
  BY DEF Served!Emit, ServedRow
<1>3. ServedRow(s, phase).by = s /\ ServedRow(s, phase).line = servedCall'[s].line
      /\ ServedRow(s, phase).phase = phase
  BY DEF ServedRow
<1> QED  BY <1>1, <1>2, <1>3

(* What was closed stays closed. *)
LEMMA ServedClosedStays ==
  ASSUME \A i \in DOMAIN servedActivity : i \in DOMAIN servedActivity'
    /\ servedActivity'[i] = servedActivity[i],
         servedDead \subseteq servedDead', NEW i \in DOMAIN servedActivity, ServedClosed(i)
  PROVE  ServedClosed(i)'
BY DEF ServedClosed

(* Only a line that is too long takes more than one read. *)
LEMMA ServedPieceEnds ==
  ASSUME ServedTypeInv, ServedWireInv, NEW s \in Servers, Served!ReadLine(s),
    servedWire[s][1].kind # "long"
  PROVE  servedWire[s][1].ends
<1>1. servedWire[s] \in Seq(ServedParts) /\ servedWire[s] # <<>>
  BY DEF ServedTypeInv, Served!ReadLine
<1>2. ServedOrderly(servedWire[s], servedCall[s], servedReplies[s], servedSent[s])
  BY <1>1 DEF ServedWireInv, ServedWireOf, ServedSettled
<1>3. 1 \in 1..Len(servedWire[s])
  BY <1>1
<1> QED  BY <1>2, <1>3 DEF ServedOrderly, ServedCoherent

LEMMA ServedActivityStep ==
  ASSUME ServedSensible, ServedTypeInv, ServedWireInv, ServedActivityInv,
    Served!IsFiniteSet(servedRows), NEW s \in Servers, ServedByServer(s)
  PROVE  ServedActivityInv'
<1>0. servedActivity \in Seq(ServedEvents) /\ servedCall[s] \in ServedCalls
  BY DEF ServedTypeInv
<1>1. ASSUME ~Served!ReadLine(s), ~Served!Complete(s)
      PROVE  ServedActivityInv'
  <2>1. UNCHANGED servedActivity
    BY <1>1 DEF ServedByServer, ServedHandles, Served!Send, Served!Drain, Served!Reply,
      Served!Crash, Served!Work, Served!StartTrace, Served!CreateTrace,
         Served!StopTrace, Served!PlanCompact, Served!Compact, Served!FindTrace, Served!Record
  <2>2. SUFFICES ASSUME NEW i \in DOMAIN servedActivity, servedActivity[i].phase = "started"
                 PROVE  (ServedClosed(i) \/ ServedUnderWay(servedCall[servedActivity[i].by],
                   servedActivity[i].line))'
    BY <2>1 DEF ServedActivityInv
  <2>3. servedDead \subseteq servedDead'
    BY <1>1 DEF ServedByServer, ServedHandles, Served!Send, Served!Drain, Served!Reply,
      Served!Crash, Served!Work, Served!StartTrace, Served!CreateTrace,
         Served!StopTrace, Served!PlanCompact, Served!Compact, Served!FindTrace, Served!Record
  <2>4. CASE ServedClosed(i)
    BY <2>1, <2>3, <2>4, ServedClosedStays
  <2>5. CASE ServedUnderWay(servedCall[servedActivity[i].by], servedActivity[i].line)
    <3> DEFINE t == servedActivity[i].by
    <3>1. servedActivity[i] \in ServedEvents
      BY <1>0
    <3>2. t \in Servers
      BY <3>1 DEF ServedEvents
    <3> HIDE DEF t
    <3>3. CASE servedCall'[t] = servedCall[t]
      BY <2>1, <2>5, <3>3 DEF t
    <3>4. CASE servedCall'[t] # servedCall[t]
      <4>1. t = s /\ ServedOnly(s) /\ (ServedHandles(s) \/ Served!Crash(s))
        <5>1. CASE \E kind \in Sends[s] : Served!Send(s, kind)
          BY <3>4, <5>1 DEF Served!Send
        <5>2. CASE Served!Drain(s)
          BY <2>5, <3>2, <3>4, <5>2, ServedDrainSteps
            DEF Served!Drain, ServedOnly, ServedUnderWay, t
        <5>3. CASE ServedHandles(s)
          BY <3>2, <3>4, <5>3, ServedHandled DEF ServedHandStep, ServedOnly
        <5>4. CASE Served!Reply(s)
          BY <2>5, <3>2, <3>4, <5>4, ServedRestSteps DEF Served!Reply, ServedOnly, ServedUnderWay, t
        <5>5. CASE Served!Crash(s)
          BY <3>2, <3>4, <5>5, ServedRestSteps DEF ServedOnly
        <5> QED  BY <1>1, <5>1, <5>2, <5>3, <5>4, <5>5 DEF ServedByServer
      <4>2. CASE ServedHandles(s)
        <5>1. ServedHandStep(s) /\ servedCall[s].at \in {"dispatching", "starting", "compacting",
              "completing"}
          BY <2>5, <4>1, <4>2, ServedHandled DEF ServedUnderWay, t
        <5>2. servedCall[s].at # "completing"
          BY <1>1, <4>2, <5>1
            DEF ServedHandles, Served!Work, Served!StartTrace, Served!CreateTrace, Served!StopTrace,
              Served!PlanCompact,
               Served!Compact, Served!FindTrace, Served!Record, Served!Dispatching
        <5>3. servedCall'[s].at \in {"dispatching", "starting", "compacting", "completing"}
          BY <5>1, <5>2 DEF ServedHandStep, ServedFollows
        <5> QED  BY <2>1, <2>5, <4>1, <5>1, <5>3 DEF ServedUnderWay, ServedHandStep, t
      <4>3. CASE Served!Crash(s)
        BY <2>1, <2>5, <4>1, <4>3 DEF ServedUnderWay, Served!Crash, ServedClosed, t
      <4> QED  BY <4>1, <4>2, <4>3
    <3> QED  BY <3>3, <3>4
  <2> QED  BY <2>2, <2>4, <2>5 DEF ServedActivityInv
<1>2. CASE Served!ReadLine(s)
  <2> DEFINE p == servedWire[s][1]
  <2>1. ServedOnly(s) /\ servedCall'[s] = ServedOpened(p) /\ p \in ServedParts
        /\ servedCall[s].at = "reading" /\ servedDead' = servedDead
    <3>1. p \in ServedParts /\ ServedBecomes(s, ServedOpened(p))
      BY <1>2, ServedReadBecomes
    <3>2. ServedOnly(s) /\ servedCall'[s] = ServedOpened(p)
      BY <3>1, ServedBecomesOnly
    <3>3. servedCall[s].at = "reading" /\ servedDead' = servedDead
      BY <1>2 DEF Served!ReadLine
    <3> QED  BY <3>1, <3>2, <3>3
  <2> DEFINE refused == p.kind \in {"malformed", "long"}
  <2>2. IF refused THEN servedActivity' = servedActivity ELSE Served!Emit(s, p.kind, "started")
    BY <1>2 DEF Served!ReadLine
  <2> HIDE DEF p
  <2>3. \A i \in DOMAIN servedActivity : i \in DOMAIN servedActivity'
        /\ servedActivity'[i] = servedActivity[i]
    BY <2>1, <2>2, ServedEmitAdds
  <2>4. ASSUME NEW i \in DOMAIN servedActivity, servedActivity[i].phase = "started"
        PROVE  (ServedClosed(i) \/ ServedUnderWay(servedCall[servedActivity[i].by],
          servedActivity[i].line))'
    <3>1. CASE ServedClosed(i)
      BY <2>1, <2>3, <3>1, ServedClosedStays
    <3>2. CASE ServedUnderWay(servedCall[servedActivity[i].by], servedActivity[i].line)
      <4>1. servedActivity[i] \in ServedEvents
        BY <1>0
      <4>2. servedActivity[i].by \in Servers \ {s}
        BY <2>1, <3>2, <4>1 DEF ServedEvents, ServedUnderWay
      <4> QED  BY <2>1, <2>3, <3>2, <4>2 DEF ServedOnly
    <3> QED  BY <2>4, <3>1, <3>2 DEF ServedActivityInv
  <2>5. CASE servedActivity' = servedActivity
    BY <2>3, <2>4, <2>5 DEF ServedActivityInv
  <2>6. CASE servedActivity' # servedActivity
    <3>1. ~refused /\ ~Served!Silent(p.kind)
      BY <2>1, <2>2, <2>6, ServedEmitAdds
    <3>2. /\ servedActivity' \in Seq(ServedEvents) /\ Len(servedActivity') = Len(servedActivity) + 1
          /\ servedActivity'[Len(servedActivity) + 1] = ServedRow(s, "started")
          /\ ServedRow(s, "started").by = s /\ ServedRow(s, "started").line = servedCall'[s].line
      BY <2>1, <2>2, <3>1, ServedEmitAdds
    <3>3. p.ends => ServedUnderWay(servedCall[s], servedCall[s].line)'
      BY <2>1, <3>1 DEF ServedUnderWay, ServedOpened, Served!Silent
    <3>4. p.ends
      BY <1>2, <2>1, <3>1, ServedPieceEnds DEF p
    <3>5. \A i \in DOMAIN servedActivity' : i \in DOMAIN servedActivity
          \/ i = Len(servedActivity) + 1
      BY <1>0, <3>2
    <3>6. PICK n \in Nat : n = Len(servedActivity) + 1
      BY <1>0
    <3>7. servedActivity'[n].by = s /\ servedActivity'[n].line = servedCall'[s].line
      BY <3>2, <3>6
    <3>8. ServedUnderWay(servedCall'[servedActivity'[n].by], servedActivity'[n].line)
      BY <3>3, <3>4, <3>7
    <3>9. \A i \in DOMAIN servedActivity' : i \in DOMAIN servedActivity \/ i = n
      BY <3>5, <3>6
    <3> SUFFICES ASSUME NEW i \in DOMAIN servedActivity', servedActivity'[i].phase = "started"
                 PROVE  (ServedClosed(i) \/ ServedUnderWay(servedCall[servedActivity[i].by],
                   servedActivity[i].line))'
      BY DEF ServedActivityInv
    <3>10. CASE i = n
      BY <3>8, <3>10
    <3>11. CASE i # n
      BY <2>3, <2>4, <3>9, <3>11
    <3> QED  BY <3>10, <3>11
  <2> QED  BY <2>5, <2>6
<1>3. CASE Served!Complete(s)
  <2>1. /\ ServedHandStep(s) /\ servedCall[s].at = "completing" /\ servedDead' = servedDead
        /\ Served!Emit(s, servedCall[s].kind, "completed")
    BY <1>3, ServedHandled DEF ServedHandles, Served!Complete
  <2>2. ServedOnly(s) /\ servedCall'[s].line = servedCall[s].line
    BY <2>1 DEF ServedHandStep
  <2>3. \A i \in DOMAIN servedActivity : i \in DOMAIN servedActivity'
        /\ servedActivity'[i] = servedActivity[i]
    BY <2>1, <2>2, ServedEmitAdds
  <2>4. ASSUME NEW i \in DOMAIN servedActivity, servedActivity[i].phase = "started"
        PROVE  (ServedClosed(i) \/ ServedUnderWay(servedCall[servedActivity[i].by],
          servedActivity[i].line))'
    <3>1. CASE ServedClosed(i)
      BY <2>1, <2>3, <3>1, ServedClosedStays
    <3>2. CASE ServedUnderWay(servedCall[servedActivity[i].by], servedActivity[i].line)
      <4>1. servedActivity[i] \in ServedEvents
        BY <1>0
      <4>2. CASE servedActivity[i].by # s
        BY <2>2, <2>3, <3>2, <4>1, <4>2 DEF ServedEvents, ServedOnly
      <4>3. CASE servedActivity[i].by = s
        <5>1. ~Served!Silent(servedCall[s].kind) /\ servedActivity[i].line = servedCall[s].line
          BY <3>2, <4>3 DEF ServedUnderWay
        <5>2. /\ servedActivity' \in Seq(ServedEvents)
              /\ Len(servedActivity') = Len(servedActivity) + 1
              /\ servedActivity'[Len(servedActivity) + 1] = ServedRow(s, "completed")
          BY <2>1, <2>2, <5>1, ServedEmitAdds
        <5>3. [servedActivity[i] EXCEPT !.phase = "completed"] = ServedRow(s, "completed")
          BY <2>2, <4>1, <4>3, <5>1 DEF ServedEvents, ServedRow
        <5>4. Len(servedActivity) + 1 \in DOMAIN servedActivity' /\ Len(servedActivity) + 1 > i
          BY <1>0, <5>2
        <5> QED  BY <2>3, <5>2, <5>3, <5>4 DEF ServedClosed
      <4> QED  BY <4>2, <4>3
    <3> QED  BY <2>4, <3>1, <3>2 DEF ServedActivityInv
  <2>5. CASE Served!Silent(servedCall[s].kind)
    BY <2>1, <2>2, <2>3, <2>4, <2>5, ServedEmitAdds DEF ServedActivityInv
  <2>6. CASE ~Served!Silent(servedCall[s].kind)
    <3>1. /\ servedActivity' \in Seq(ServedEvents) /\ Len(servedActivity') = Len(servedActivity) + 1
          /\ servedActivity'[Len(servedActivity) + 1] = ServedRow(s, "completed")
          /\ ServedRow(s, "completed").phase = "completed"
      BY <2>1, <2>2, <2>6, ServedEmitAdds
    <3>2. \A i \in DOMAIN servedActivity' : i \in DOMAIN servedActivity
          \/ i = Len(servedActivity) + 1
      BY <1>0, <3>1
    <3> QED  BY <2>3, <2>4, <3>1, <3>2 DEF ServedActivityInv
  <2> QED  BY <2>5, <2>6
<1> QED  BY <1>1, <1>2, <1>3

-----------------------------------------------------------------------------
(* Traces                                                                  *)

(* Where a step leaves a server, and that it is by its handling only that  *)
(* it starts, compacts or records.                                         *)
LEMMA ServedOnlyOne ==
  ASSUME ServedSensible, ServedTypeInv, Served!IsFiniteSet(servedRows), NEW s \in Servers,
    ServedByServer(s)
  PROVE  /\ \A t \in Servers \ {s} : servedCall'[t] = servedCall[t]
         /\ ~ServedHandles(s) => \/ servedCall' = servedCall
                                 \/ servedCall'[s].at \notin {"starting", "compacting", "recording"}
<1>1. CASE \E kind \in Sends[s] : Served!Send(s, kind)
  BY <1>1 DEF Served!Send
<1>2. CASE Served!ReadLine(s)
  <2>1. ServedOnly(s) /\ servedCall'[s] = ServedOpened(servedWire[s][1])
    BY <1>2, ServedReadBecomes, ServedBecomesOnly
  <2> QED  BY <2>1 DEF ServedOnly, ServedOpened
<1>3. CASE Served!Drain(s)
  BY <1>3, ServedDrainSteps DEF ServedOnly
<1>4. CASE ServedHandles(s)
  BY <1>4, ServedHandled DEF ServedHandStep, ServedOnly
<1>5. CASE Served!Reply(s) \/ Served!Crash(s)
  BY <1>5, ServedRestSteps DEF ServedOnly, Served!Waiting
<1> QED  BY <1>1, <1>2, <1>3, <1>4, <1>5 DEF ServedByServer

LEMMA ServedRestUnchanged ==
  ASSUME NEW s \in Servers, ServedByServer(s)
  PROVE  /\ ~Served!CreateTrace(s) /\ ~Served!StopTrace(s) => servedTraces' = servedTraces
         /\ ~Served!Compact(s) /\ ~Served!Record(s) => servedRows' = servedRows
         /\ ~Served!Record(s) => servedMade' = servedMade
BY DEF ServedByServer, ServedHandles, Served!Send, Served!ReadLine, Served!Drain, Served!Reply,
  Served!Crash, Served!Work, Served!StartTrace, Served!CreateTrace,
   Served!StopTrace, Served!PlanCompact, Served!Compact, Served!Complete, Served!FindTrace,
     Served!Record

LEMMA ServedStarted ==
  ASSUME ServedTypeInv, NEW s \in Servers, Served!CreateTrace(s)
  PROVE  /\ Len(servedTraces) \in Nat /\ DOMAIN servedTraces = 1..Len(servedTraces)
         /\ DOMAIN servedTraces' = 1..Len(servedTraces) + 1
         /\ \A t \in DOMAIN servedTraces : servedTraces'[t] = servedTraces[t]
<1>1. servedTraces \in Seq([active : BOOLEAN])
      /\ servedTraces' = Append(servedTraces, [active |-> TRUE])
  BY DEF ServedTypeInv, Served!CreateTrace
<1> QED  BY <1>1

LEMMA ServedStopped ==
  ASSUME ServedTypeInv, NEW s \in Servers, Served!StopTrace(s)
  PROVE  /\ DOMAIN servedTraces' = DOMAIN servedTraces
         /\ \A t \in DOMAIN servedTraces : servedTraces'[t].active => servedTraces[t].active
<1>1. servedTraces' = servedTraces
      \/ servedTraces' = [servedTraces EXCEPT ![Served!Active].active = FALSE]
  BY DEF Served!StopTrace
<1>2. servedTraces \in Seq([active : BOOLEAN])
  BY DEF ServedTypeInv
<1>3. ASSUME NEW t \in DOMAIN servedTraces,
      servedTraces' = [servedTraces EXCEPT ![Served!Active].active = FALSE],
             servedTraces'[t].active
      PROVE  servedTraces[t].active
  <2>1. servedTraces[t] \in [active : BOOLEAN]
    BY <1>2, ServedElementOf, Zenon
  <2> QED  BY <1>3, <2>1
<1> QED  BY <1>1, <1>3

LEMMA ServedTraceStep ==
  ASSUME ServedSensible, ServedTypeInv, ServedTraceInv, Served!IsFiniteSet(servedRows),
    NEW s \in Servers, ServedByServer(s)
  PROVE  ServedTraceInv'
<1>1. DOMAIN servedTraces \subseteq DOMAIN servedTraces'
  BY ServedRestUnchanged, ServedStarted, ServedStopped
<1>2. ASSUME NEW t \in Servers, servedCall'[t].at = "recording"
      PROVE  ~Served!Silent(servedCall'[t].kind) /\ servedCall'[t].trace \in DOMAIN servedTraces'
  <2>1. CASE servedCall'[t] = servedCall[t]
    BY <1>1, <1>2, <2>1 DEF ServedTraceInv
  <2>2. CASE servedCall'[t] # servedCall[t]
    <3>1. t = s /\ ServedHandles(s)
      BY <1>2, <2>2, ServedOnlyOne
    <3>2. ServedHandStep(s)
      BY <3>1, ServedHandled
    <3>3. servedCall[s].at = "tracing"
      BY <1>2, <3>1, <3>2 DEF ServedHandStep, ServedFollows
    <3>4. Served!FindTrace(s)
      BY <3>1, <3>3
        DEF ServedHandles, Served!Work, Served!StartTrace, Served!CreateTrace, Served!StopTrace,
          Served!PlanCompact, Served!Compact,
           Served!Complete, Served!Record, Served!Dispatching
    <3>5. servedCall'[s].trace = Served!Active /\ Served!Active # 0
          /\ ~Served!Silent(servedCall[s].kind)
      BY <1>2, <3>1, <3>4, ServedFindSteps
    <3> QED  BY <1>1, <3>1, <3>2, <3>5, ServedActiveIsOne DEF ServedHandStep
  <2> QED  BY <2>1, <2>2
<1>3. ASSUME NEW r \in servedRows' PROVE ~Served!Silent(r.kind) /\ r.trace \in DOMAIN servedTraces'
  <2>1. CASE r \in servedRows
    BY <1>1, <2>1 DEF ServedTraceInv
  <2>2. CASE r \notin servedRows
    <3>1. Served!Record(s)
      BY <2>2, ServedRestUnchanged DEF Served!Compact
    <3>2. r.trace = servedCall[s].trace /\ r.kind = servedCall[s].kind
      BY <2>2, <3>1 DEF Served!Record
    <3> QED  BY <1>1, <3>1, <3>2 DEF ServedTraceInv, Served!Record
  <2> QED  BY <2>1, <2>2
<1> QED  BY <1>2, <1>3 DEF ServedTraceInv

LEMMA ServedOneStep ==
  ASSUME ServedSensible, ServedNoTwoTracers, ServedTypeInv, ServedOneInv,
    Served!IsFiniteSet(servedRows), NEW s \in Servers, ServedByServer(s)
  PROVE  ServedOneInv'
<1>1. ASSUME NEW t \in Servers, servedCall'[t].at = "starting"
      PROVE  Served!Alone(t, "starting")'
        /\ \A u \in DOMAIN servedTraces' : ~servedTraces'[u].active
  <2>1. CASE Served!StartTrace(s)
    <3>1. ServedHandStep(s) /\ UNCHANGED servedTraces
      BY <2>1, ServedStartSteps DEF Served!StartTrace
    <3>2. \A u \in Servers \ {s} : servedCall'[u] = servedCall[u]
      BY <3>1 DEF ServedHandStep, ServedOnly
    <3>3. CASE servedCall'[s].at = "starting"
      <4>1. Served!Active = 0 /\ Served!Alone(s, "starting")
        BY <2>1, <3>3, ServedStartSteps DEF ServedNoTwoTracers
      <4>2. t = s
        BY <1>1, <3>2, <4>1 DEF Served!Alone
      <4> QED  BY <3>1, <3>2, <4>1, <4>2, ServedActiveIsOne DEF Served!Alone
    <3>4. CASE servedCall'[s].at # "starting"
      <4>1. t # s /\ servedCall[t].at = "starting"
        BY <1>1, <3>2, <3>4
      <4> QED  BY <3>1, <3>2, <3>4, <4>1 DEF ServedOneInv, Served!Alone
    <3> QED  BY <3>3, <3>4
  <2>2. CASE ~Served!StartTrace(s)
    <3>1. \A u \in Servers : servedCall'[u].at = "starting" => servedCall[u].at = "starting"
      <4>1. CASE ServedHandles(s)
        <5>1. ServedHandStep(s)
          BY <4>1, ServedHandled
        <5>2. servedCall[s].at = "dispatching" => Served!Work(s) \/ Served!StopTrace(s)
              \/ Served!PlanCompact(s)
          BY <2>2, <4>1
            DEF ServedHandles, Served!CreateTrace, Served!Compact, Served!Complete,
              Served!FindTrace, Served!Record
        <5>3. servedCall[s].at = "dispatching" => servedCall'[s].at # "starting"
          <6>1. CASE Served!Work(s) \/ Served!StopTrace(s)
            <7>1. \E ok \in BOOLEAN : Served!Done(s, ok)
              BY <6>1 DEF Served!Work, Served!StopTrace
            <7>2. servedCall[s].at = "dispatching"
              BY <6>1 DEF Served!Work, Served!StopTrace, Served!Dispatching
            <7> QED  BY <7>1, <7>2, ServedDoneSteps
          <6>2. CASE Served!PlanCompact(s)
            BY <6>2, ServedPlanSteps
          <6> QED  BY <5>2, <6>1, <6>2
        <5> QED  BY <5>1, <5>3 DEF ServedHandStep, ServedFollows, ServedOnly
      <4>2. CASE ~ServedHandles(s)
        BY <4>2, ServedOnlyOne
      <4> QED  BY <4>1, <4>2
    <3>2. servedCall[t].at = "starting"
      BY <1>1, <3>1
    <3>3. Served!Alone(t, "starting")'
      BY <3>1, <3>2 DEF ServedOneInv, Served!Alone
    <3>4. ~Served!CreateTrace(s)
      <4>1. SUFFICES ASSUME Served!CreateTrace(s) PROVE FALSE
        OBVIOUS
      <4>2. servedCall[s].at = "starting" /\ servedCall'[s].at = "completing"
        BY <4>1, ServedDoneSteps DEF Served!CreateTrace
      <4> QED  BY <1>1, <3>2, <4>2 DEF ServedOneInv, Served!Alone
    <3>5. DOMAIN servedTraces' = DOMAIN servedTraces
          /\ \A u \in DOMAIN servedTraces : servedTraces'[u].active => servedTraces[u].active
      BY <3>4, ServedRestUnchanged, ServedStopped
    <3> QED  BY <3>2, <3>3, <3>5 DEF ServedOneInv
  <2> QED  BY <2>1, <2>2
<1>2. ASSUME NEW t \in DOMAIN servedTraces', NEW u \in DOMAIN servedTraces',
      servedTraces'[t].active, servedTraces'[u].active
      PROVE  t = u
  <2>1. CASE Served!CreateTrace(s)
    <3>1. \A v \in DOMAIN servedTraces : ~servedTraces[v].active
      BY <2>1 DEF ServedOneInv, Served!CreateTrace
    <3>2. t = Len(servedTraces) + 1 /\ u = Len(servedTraces) + 1
      BY <1>2, <2>1, <3>1, ServedStarted
    <3> QED  BY <3>2
  <2>2. CASE ~Served!CreateTrace(s)
    <3>1. DOMAIN servedTraces' = DOMAIN servedTraces
          /\ \A v \in DOMAIN servedTraces : servedTraces'[v].active => servedTraces[v].active
      BY <2>2, ServedRestUnchanged, ServedStopped
    <3> QED  BY <1>2, <3>1 DEF ServedOneInv
  <2> QED  BY <2>1, <2>2
<1> QED  BY <1>1, <1>2 DEF ServedOneInv

-----------------------------------------------------------------------------
(* Rows                                                                    *)

(* Rows with the numbers after a up to b, each once, are b - a.            *)
LEMMA ServedCountRows ==
  ASSUME NEW R, NEW a \in Nat, NEW b \in Nat, a <= b,
         \A r \in R : r.seq \in a + 1..b, \A n \in a + 1..b : \E r \in R : r.seq = n,
         \A q, r \in R : q.seq = r.seq => q = r
  PROVE  Served!IsFiniteSet(R) /\ Served!Cardinality(R) = b - a
<1> DEFINE f == [n \in a + 1..b |-> CHOOSE r \in R : r.seq = n]
<1>1. \A n \in a + 1..b : f[n] \in R /\ f[n].seq = n
  OBVIOUS
<1>2. \A r \in R : f[r.seq] = r
  BY <1>1
<1>3. f \in [a + 1..b -> R]
  BY <1>1
<1> HIDE DEF f
<1>4. \A m, n \in a + 1..b : f[m] = f[n] => m = n
  BY <1>1
<1>5. \A r \in R : \E n \in a + 1..b : f[n] = r
  BY <1>2
<1>6. f \in Bijection(a + 1..b, R)
  BY <1>3, <1>4, <1>5 DEF Bijection, Injection, Surjection, IsInjective
<1>7. ExistsBijection(a + 1..b, R)
  BY <1>6 DEF ExistsBijection
<1>8. a + 1 \in Int /\ b \in Int
  OBVIOUS
<1>9. Served!IsFiniteSet(a + 1..b)
      /\ Served!Cardinality(a + 1..b) = IF a + 1 > b THEN 0 ELSE b - (a + 1) + 1
  BY <1>8, ServedCounts, FS_Interval
<1>10. Served!IsFiniteSet(R) /\ Served!Cardinality(R) = Served!Cardinality(a + 1..b)
  BY <1>7, <1>9, ServedCounts, FS_Bijection
<1> QED  BY <1>9, <1>10

LEMMA ServedHowMany ==
  ASSUME ServedSensible, ServedTypeInv, NEW k \in 0..servedMade, ServedNewest(k)
  PROVE  Served!IsFiniteSet(servedRows) /\ Served!Cardinality(servedRows) = servedMade - k
<1>1. servedMade \in Nat /\ k \in Nat /\ k <= servedMade
  BY DEF ServedSensible, ServedTypeInv
<1> QED  BY <1>1, ServedCountRows DEF ServedNewest

LEMMA ServedRowsAreFinite == ASSUME ServedSensible, ServedTypeInv, ServedRowInv
  PROVE Served!IsFiniteSet(servedRows)
BY ServedHowMany DEF ServedRowInv

(* The oldest d of them are those with the first d numbers.                *)
LEMMA ServedOldestAre ==
  ASSUME ServedSensible, ServedTypeInv, NEW k \in 0..servedMade, ServedNewest(k), NEW d \in Nat
  PROVE  \A r \in servedRows : r \in Served!Oldest(d) <=> r.seq <= k + d
<1>1. servedMade \in Nat /\ k \in Nat /\ k <= servedMade
  BY DEF ServedSensible, ServedTypeInv
<1> SUFFICES ASSUME NEW r \in servedRows PROVE r \in Served!Oldest(d) <=> r.seq <= k + d
  OBVIOUS
<1> DEFINE R == {q \in servedRows : q.seq < r.seq}
<1>2. r.seq \in k + 1..servedMade
  BY DEF ServedNewest
<1>3. PICK b \in Nat : b = r.seq - 1
  BY <1>1, <1>2
<1>4. k <= b /\ b <= servedMade
  BY <1>1, <1>2, <1>3
<1>5. \A q \in R : q.seq \in k + 1..b
  BY <1>1, <1>2, <1>3 DEF ServedNewest
<1>6. \A n \in k + 1..b : \E q \in R : q.seq = n
  BY <1>1, <1>2, <1>3 DEF ServedNewest
<1>7. \A p, q \in R : p.seq = q.seq => p = q
  BY DEF ServedNewest
<1>8. Served!Cardinality(R) = b - k
  <2> HIDE DEF R
  <2> QED  BY <1>1, <1>4, <1>5, <1>6, <1>7, ServedCountRows
<1>9. r \in Served!Oldest(d) <=> b - k < d
  BY <1>8 DEF Served!Oldest
<1> QED  BY <1>1, <1>2, <1>3, <1>9

LEMMA ServedRowStep ==
  ASSUME ServedSensible, ServedNoTwoCompactors, ServedTypeInv, ServedRowInv, NEW s \in Servers,
    ServedByServer(s)
  PROVE  ServedRowInv'
<1>1. Served!IsFiniteSet(servedRows) /\ servedMade \in Nat /\ KeptRows \in Nat
      /\ \A t \in Servers : servedCall[t].drop \in Nat
  BY ServedRowsAreFinite DEF ServedSensible, ServedTypeInv, ServedCalls
<1>2. PICK k \in 0..servedMade :
        /\ ServedNewest(k) /\ (k = 0 \/ k + KeptRows <= servedMade)
        /\ \A t \in Servers : servedCall[t].at = "compacting" =>
             Served!Alone(t, "compacting") /\ (servedCall[t].drop = 0
               \/ k + servedCall[t].drop + KeptRows <= servedMade)
  BY DEF ServedRowInv
<1>3. CASE Served!PlanCompact(s)
  <2>1. UNCHANGED <<servedRows, servedMade>> /\ ServedHandStep(s)
    BY <1>1, <1>3, ServedPlanSteps DEF Served!PlanCompact
  <2>2. servedCall'[s].drop = IF servedMade - k > KeptRows THEN servedMade - k - KeptRows ELSE 0
    BY <1>1, <1>2, <1>3, ServedPlanSteps, ServedHowMany
  <2>3. servedCall'[s].drop = 0 \/ k + servedCall'[s].drop + KeptRows <= servedMade
    BY <1>1, <1>2, <2>2
  <2>4. \A t \in Servers \ {s} : servedCall'[t] = servedCall[t] /\ servedCall[t].at # "compacting"
    BY <1>3, <2>1
      DEF ServedHandStep, ServedOnly, Served!PlanCompact, Served!Alone, ServedNoTwoCompactors
  <2>5. ServedNewest(k)' /\ k \in 0..servedMade'
    BY <1>2, <2>1 DEF ServedNewest
  <2> QED  BY <1>1, <1>2, <2>1, <2>3, <2>4, <2>5 DEF ServedRowInv, Served!Alone
<1>4. CASE ~Served!PlanCompact(s)
  <2>1. \A t \in Servers : servedCall'[t].at = "compacting" => servedCall'[t] = servedCall[t]
    <3>1. CASE ServedHandles(s)
      <4>1. ServedHandStep(s)
        BY <1>1, <3>1, ServedHandled
      <4>2. servedCall'[s].at # "compacting"
        <5>1. CASE servedCall[s].at # "dispatching"
          BY <4>1, <5>1 DEF ServedHandStep, ServedFollows
        <5>2. CASE servedCall[s].at = "dispatching"
          <6>1. (\E ok \in BOOLEAN : Served!Done(s, ok)) \/ Served!StartTrace(s)
            BY <1>4, <3>1, <5>2
              DEF ServedHandles, Served!Work, Served!CreateTrace, Served!StopTrace, Served!Compact,
                Served!Complete,
                 Served!FindTrace, Served!Record
          <6> QED  BY <5>2, <6>1, ServedDoneSteps, ServedStartSteps
        <5> QED  BY <5>1, <5>2
      <4> QED  BY <4>1, <4>2 DEF ServedHandStep, ServedOnly
    <3>2. CASE ~ServedHandles(s)
      BY <1>1, <3>2, ServedOnlyOne
    <3> QED  BY <3>1, <3>2
  <2>2. \A t \in Servers : servedCall'[t].at = "compacting" =>
          /\ Served!Alone(t, "compacting")' /\ Served!Alone(t, "compacting")
          /\ servedCall'[t] = servedCall[t]
          /\ servedCall[t].drop = 0 \/ k + servedCall[t].drop + KeptRows <= servedMade
    BY <1>2, <2>1 DEF Served!Alone
  <2>3. CASE Served!Compact(s)
    <3>1. /\ servedCall[s].at = "compacting"
          /\ servedRows' = servedRows \ Served!Oldest(servedCall[s].drop)
          /\ servedMade' = servedMade
          /\ servedCall'[s].at = "completing"
      BY <2>3, ServedDoneSteps DEF Served!Compact
    <3>2. \A t \in Servers : servedCall'[t].at # "compacting"
      BY <2>2, <3>1 DEF Served!Alone
    <3> DEFINE d == servedCall[s].drop
    <3>3. d \in Nat /\ (d = 0 \/ k + d + KeptRows <= servedMade)
      BY <1>1, <1>2, <3>1
    <3> HIDE DEF d
    <3>4. \A r \in servedRows : r \in Served!Oldest(d) <=> r.seq <= k + d
      BY <1>2, <3>3, ServedOldestAre
    <3>5. \A r : r \in servedRows' <=> r \in servedRows /\ ~(r.seq <= k + d)
      BY <3>1, <3>4 DEF d
    <3>6. PICK j \in Nat : j = k + d
      BY <1>1, <1>2, <3>3
    <3>7. j \in 0..servedMade' /\ (j = 0 \/ j + KeptRows <= servedMade')
      BY <1>1, <1>2, <3>1, <3>3, <3>6
    <3>8. \A r \in servedRows' : r.seq \in j + 1..servedMade'
      BY <1>1, <1>2, <3>1, <3>5, <3>6 DEF ServedNewest
    <3>9. \A n \in j + 1..servedMade' : \E r \in servedRows' : r.seq = n
      <4> SUFFICES ASSUME NEW n \in j + 1..servedMade' PROVE \E r \in servedRows' : r.seq = n
        OBVIOUS
      <4>1. n \in k + 1..servedMade
        BY <1>1, <1>2, <3>1, <3>3, <3>6
      <4>2. PICK r \in servedRows : r.seq = n
        BY <1>2, <4>1 DEF ServedNewest
      <4>3. ~(r.seq <= k + d)
        BY <1>1, <1>2, <3>3, <3>6, <4>1, <4>2
      <4> QED  BY <3>5, <4>2, <4>3
    <3>10. \A q, r \in servedRows' : q.seq = r.seq => q = r
      BY <1>2, <3>5 DEF ServedNewest
    <3>11. ServedNewest(j)'
      BY <3>8, <3>9, <3>10 DEF ServedNewest
    <3> QED  BY <3>2, <3>7, <3>11 DEF ServedRowInv
  <2>4. CASE Served!Record(s)
    <3>1. /\ servedMade' = servedMade + 1
          /\ servedRows' = servedRows \cup {[seq |-> servedMade + 1, trace |-> servedCall[s].trace,
             kind |-> servedCall[s].kind]}
      BY <2>4 DEF Served!Record
    <3>2. k \in 0..servedMade' /\ (k = 0 \/ k + KeptRows <= servedMade')
      BY <1>1, <1>2, <3>1
    <3>3. \A t \in Servers : servedCall'[t].at = "compacting" =>
            Served!Alone(t, "compacting")' /\ (servedCall'[t].drop = 0
              \/ k + servedCall'[t].drop + KeptRows <= servedMade')
      BY <1>1, <1>2, <2>2, <3>1
    <3> DEFINE e == [seq |-> servedMade + 1, trace |-> servedCall[s].trace,
        kind |-> servedCall[s].kind]
    <3>4. e.seq = servedMade + 1
      OBVIOUS
    <3>5. servedRows' = servedRows \cup {e}
      BY <3>1
    <3> HIDE DEF e
    <3>6. \A r \in servedRows : r.seq \in k + 1..servedMade
      BY <1>2 DEF ServedNewest
    <3>7. \A r \in servedRows' : r.seq \in k + 1..servedMade'
      BY <1>1, <1>2, <3>1, <3>4, <3>5, <3>6
    <3>8. \A n \in k + 1..servedMade' : \E r \in servedRows' : r.seq = n
      <4> SUFFICES ASSUME NEW n \in k + 1..servedMade' PROVE \E r \in servedRows' : r.seq = n
        OBVIOUS
      <4>1. n = servedMade + 1 \/ n \in k + 1..servedMade
        BY <1>1, <1>2, <3>1
      <4> QED  BY <1>2, <3>4, <3>5, <4>1 DEF ServedNewest
    <3>9. \A q, r \in servedRows' : q.seq = r.seq => q = r
      BY <1>1, <1>2, <3>4, <3>5, <3>6 DEF ServedNewest
    <3>10. ServedNewest(k)'
      BY <3>7, <3>8, <3>9 DEF ServedNewest
    <3> QED  BY <3>2, <3>3, <3>10 DEF ServedRowInv
  <2>5. CASE ~Served!Compact(s) /\ ~Served!Record(s)
    <3>1. UNCHANGED <<servedRows, servedMade>>
      BY <2>5, ServedRestUnchanged
    <3>2. ServedNewest(k)' /\ k \in 0..servedMade'
      BY <1>2, <3>1 DEF ServedNewest
    <3> QED  BY <1>2, <2>2, <3>1, <3>2 DEF ServedRowInv
  <2> QED  BY <2>3, <2>4, <2>5
<1> QED  BY <1>3, <1>4

-----------------------------------------------------------------------------
(* The page                                                                *)

ServedGrows == /\ servedActivity' \in Seq(ServedEvents) /\ Len(servedActivity) <= Len(servedActivity')
               /\ \A i \in DOMAIN servedActivity : servedActivity'[i] = servedActivity[i]

LEMMA ServedSame == ASSUME servedActivity \in Seq(ServedEvents), servedActivity' = servedActivity
  PROVE ServedGrows
<1>1. Len(servedActivity) \in Nat
  OBVIOUS
<1> QED  BY <1>1 DEF ServedGrows

LEMMA ServedServerGrows ==
  ASSUME ServedSensible, ServedTypeInv, Served!IsFiniteSet(servedRows), NEW s \in Servers,
    ServedByServer(s)
  PROVE  ServedGrows /\ UNCHANGED servedViewer
<1>1. servedActivity \in Seq(ServedEvents)
  BY DEF ServedTypeInv
<1>2. UNCHANGED servedViewer
  BY DEF ServedByServer, ServedHandles, Served!Send, Served!ReadLine, Served!Drain, Served!Reply,
    Served!Crash, Served!Work, Served!StartTrace, Served!CreateTrace,
     Served!StopTrace, Served!PlanCompact, Served!Compact, Served!Complete, Served!FindTrace,
       Served!Record
<1>3. CASE Served!ReadLine(s) \/ Served!Complete(s)
  <2>1. ServedOnly(s)
    BY <1>3, ServedReadBecomes, ServedBecomesOnly, ServedHandled DEF ServedHandStep, ServedHandles
  <2>2. servedActivity' = servedActivity \/ \E kind \in Served!Kinds,
        phase \in {"started", "completed"} : Served!Emit(s, kind, phase)
    <3>1. CASE Served!ReadLine(s)
      <4>1. servedWire[s][1].kind \in Served!Kinds
        BY <3>1, ServedReadBecomes DEF ServedParts
      <4> QED  BY <3>1, <4>1 DEF Served!ReadLine
    <3>2. CASE Served!Complete(s)
      BY <3>2 DEF Served!Complete, ServedTypeInv, ServedCalls
    <3> QED  BY <1>3, <3>1, <3>2
  <2>3. CASE servedActivity' = servedActivity
    BY <1>1, <1>2, <2>3, ServedSame
  <2>4. CASE servedActivity' # servedActivity
    <3>1. PICK kind \in Served!Kinds, phase \in {"started", "completed"} : Served!Emit(s, kind,
          phase)
      BY <2>2, <2>4
    <3>2. /\ servedActivity' \in Seq(ServedEvents) /\ Len(servedActivity') = Len(servedActivity) + 1
          /\ \A i \in DOMAIN servedActivity : servedActivity'[i] = servedActivity[i]
      BY <2>1, <2>4, <3>1, ServedEmitAdds
    <3>3. Len(servedActivity) \in Nat
      BY <1>1
    <3> QED  BY <1>2, <3>2, <3>3 DEF ServedGrows
  <2> QED  BY <1>2, <2>3, <2>4
<1>4. CASE ~(Served!ReadLine(s) \/ Served!Complete(s))
  <2>1. servedActivity' = servedActivity
    BY <1>4 DEF ServedByServer, ServedHandles, Served!Send, Served!Drain, Served!Reply,
      Served!Crash, Served!Work, Served!StartTrace, Served!CreateTrace,
       Served!StopTrace, Served!PlanCompact, Served!Compact, Served!FindTrace, Served!Record
  <2> QED  BY <1>1, <1>2, <2>1, ServedSame
<1> QED  BY <1>3, <1>4

(* What was shown is of a longer activity what it was.                     *)
LEMMA ServedPageStays ==
  ASSUME ServedTypeInv, ServedViewInv, ServedGrows, UNCHANGED servedViewer
  PROVE  ServedViewInv'
<1>1. servedActivity \in Seq(ServedEvents) /\ servedActivity' \in Seq(ServedEvents)
      /\ Len(servedActivity) <= Len(servedActivity')
      /\ \A i \in 1..Len(servedActivity) : servedActivity'[i] = servedActivity[i]
  BY DEF ServedTypeInv, ServedGrows
<1>2. servedViewer.base \in Nat /\ servedViewer.seq \in Nat
      /\ servedViewer.seq <= Len(servedActivity)
  BY DEF ServedViewInv
<1>3. \A i \in servedViewer.base + 1..servedViewer.seq : servedActivity'[i] = servedActivity[i]
      /\ servedActivity[i] \in ServedEvents
  BY <1>1, <1>2
<1> DEFINE p == SubSeq(servedActivity, servedViewer.base + 1, servedViewer.seq)
           q == SubSeq(servedActivity', servedViewer.base + 1, servedViewer.seq)
           m == servedViewer.base + 1
           n == servedViewer.seq
<1>4. m \in Int /\ n \in Int
  BY <1>2
<1>5. /\ p \in Seq(ServedEvents) /\ Len(p) = (IF m <= n THEN n - m + 1 ELSE 0)
      /\ \A i \in 1..n - m + 1 : p[i] = servedActivity[m + i - 1]
  BY <1>3, <1>4, SubSeqProperties
<1>6. /\ q \in Seq(ServedEvents) /\ Len(q) = (IF m <= n THEN n - m + 1 ELSE 0)
      /\ \A i \in 1..n - m + 1 : q[i] = servedActivity'[m + i - 1]
  BY <1>3, <1>4, SubSeqProperties
<1>7. p = q
  <2> HIDE DEF p, q
  <2>1. \A i \in 1..n - m + 1 : m + i - 1 \in m..n
    BY <1>4
  <2>2. \A i \in 1..n - m + 1 : p[i] = q[i]
    BY <1>3, <1>5, <1>6, <2>1
  <2>3. Len(p) = Len(q) /\ \A i \in 1..Len(p) : i \in 1..n - m + 1
    BY <1>4, <1>5, <1>6
  <2> QED  BY <1>5, <1>6, <2>2, <2>3
<1>8. Served!PageShowsActivity'
  BY <1>7 DEF ServedViewInv, Served!PageShowsActivity
<1> QED  BY <1>1, <1>2, <1>8 DEF ServedViewInv

LEMMA ServedFirstOfThem ==
  ASSUME NEW S, NEW a \in Seq(S), NEW q \in Nat, NEW top \in Nat, q <= top, top <= Len(a),
         NEW n \in Nat, q + n <= top
  PROVE  SubSeq(SubSeq(a, q + 1, top), 1, n) = SubSeq(a, q + 1, q + n)
<1> DEFINE p == SubSeq(a, q + 1, top)
           u == SubSeq(p, 1, n)
           v == SubSeq(a, q + 1, q + n)
<1>1. \A i \in q + 1..top : a[i] \in S
  OBVIOUS
<1>2. /\ p \in Seq(S) /\ Len(p) = top - q
      /\ \A i \in 1..top - (q + 1) + 1 : p[i] = a[(q + 1) + i - 1]
  BY <1>1, SubSeqProperties
<1> HIDE DEF p
<1>3. \A i \in 1..n : p[i] \in S /\ p[i] = a[q + i]
  BY <1>2
<1>4. u \in Seq(S) /\ Len(u) = n /\ \A i \in 1..n : u[i] = p[i]
  BY <1>3, SubSeqProperties
<1>5. \A i \in q + 1..q + n : a[i] \in S
  BY <1>1
<1>6. /\ v \in Seq(S) /\ Len(v) = n
      /\ \A i \in 1..(q + n) - (q + 1) + 1 : v[i] = a[(q + 1) + i - 1]
  BY <1>5, SubSeqProperties
<1> HIDE DEF u, v
<1>7. \A i \in 1..n : v[i] = a[q + i]
  BY <1>6
<1>8. u = v
  <2>1. Len(u) = Len(v) /\ \A i \in 1..Len(u) : u[i] = v[i]
    BY <1>3, <1>4, <1>6, <1>7
  <2> QED  BY <1>4, <1>6, <2>1
<1> QED  BY <1>8 DEF p, u, v

(* A poll shows a stretch of the activity after the last row shown.        *)
LEMMA ServedPollStep ==
  ASSUME ServedSensible, ServedTypeInv, ServedViewInv, Served!Poll
  PROVE  ServedViewInv'
<1> DEFINE b == servedViewer.base
           q == servedViewer.seq
           len == Len(servedActivity)
           top == Served!Min({len, q + Batch})
<1>1. servedActivity \in Seq(ServedEvents) /\ b \in Nat /\ q \in Nat /\ len \in Nat /\ b <= q
      /\ q < len
      /\ Batch \in Nat
  BY DEF ServedTypeInv, ServedViewInv, Served!Poll, ServedSensible
<1>2. top \in Nat /\ q <= top /\ top <= len
  BY <1>1 DEF Served!Min
<1> HIDE DEF top
<1>3. Served!Since(q) = SubSeq(servedActivity, q + 1, top)
  BY DEF Served!Since, top
<1>4. \A i \in q + 1..top : servedActivity[i] \in ServedEvents
  BY <1>1, <1>2
<1>5. Served!Since(q) \in Seq(ServedEvents) /\ Len(Served!Since(q)) = top - q
  BY <1>1, <1>2, <1>3, <1>4, SubSeqProperties
<1>6. PICK n \in 0..Len(Served!Since(q)) :
        servedViewer' = [servedViewer EXCEPT !.seq = @ + n,
          !.shown = @ \o SubSeq(Served!Since(q), 1, n),
                                 !.linked = (n = Len(Served!Since(q)))]
  BY DEF Served!Poll
<1>7. n \in Nat /\ q + n <= top
  BY <1>1, <1>2, <1>5, <1>6
<1> DEFINE more == SubSeq(Served!Since(q), 1, n)
<1>8. more = SubSeq(servedActivity, q + 1, q + n)
  <2>1. SubSeq(SubSeq(servedActivity, q + 1, top), 1, n) = SubSeq(servedActivity, q + 1, q + n)
    <3>1. servedActivity \in Seq(ServedEvents) /\ q \in Nat /\ top \in Nat /\ q <= top
          /\ top <= Len(servedActivity)
          /\ n \in Nat /\ q + n <= top
      BY <1>1, <1>2, <1>7
    <3> HIDE DEF q
    <3> QED  BY <3>1, ServedFirstOfThem
  <2> QED  BY <1>3, <2>1
<1> HIDE DEF more
<1>9. servedViewer.shown = SubSeq(servedActivity, b + 1, q)
  BY DEF ServedViewInv, Served!PageShowsActivity
<1>10. servedViewer.shown \o more = SubSeq(servedActivity, b + 1, q + n)
  <2>1. b + 1 \in 1..len + 1 /\ q \in (b + 1) - 1..len /\ q + n \in q..len
    BY <1>1, <1>2, <1>7
  <2> QED  BY <1>1, <1>8, <1>9, <2>1, ConcatAdjacentSubSeq
<1>11. servedViewer \in [base : Nat, seq : Nat, shown : Seq(ServedEvents), linked : BOOLEAN]
  BY DEF ServedViewInv
<1>12. servedViewer' = [base |-> b, seq |-> q + n, shown |-> servedViewer.shown \o more,
       linked |-> n = Len(Served!Since(q))]
  BY <1>6, <1>11 DEF more
<1>13. \A i \in b + 1..q + n : servedActivity[i] \in ServedEvents
  BY <1>1, <1>2, <1>7
<1>14. servedViewer.shown \o more \in Seq(ServedEvents)
  BY <1>1, <1>7, <1>10, <1>13, SubSeqProperties
<1>15. UNCHANGED servedActivity
  BY DEF Served!Poll
<1>16. servedViewer'.base = b /\ servedViewer'.seq = q + n
       /\ servedViewer'.shown = servedViewer.shown \o more
  BY <1>12
<1>17. servedViewer' \in [base : Nat, seq : Nat, shown : Seq(ServedEvents), linked : BOOLEAN]
  BY <1>1, <1>7, <1>12, <1>14
<1>18. b <= q + n /\ q + n <= len
  BY <1>1, <1>2, <1>7
<1> QED  BY <1>10, <1>15, <1>16, <1>17, <1>18 DEF ServedViewInv, Served!PageShowsActivity

-----------------------------------------------------------------------------
LEMMA ServedInitInv == ASSUME ServedSensible, Served!Init
  PROVE ServedInv /\ ServedOneInv /\ ServedRowInv
<1>1. ServedTypeInv
  BY ServedInitTypes
<1>2. /\ servedRows = {} /\ servedMade = 0 /\ servedActivity = <<>> /\ servedTraces = <<>>
      /\ servedViewer = [base |-> 0, seq |-> 0, shown |-> <<>>, linked |-> TRUE]
      /\ \A s \in Servers : servedWire[s] = <<>> /\ servedCall[s] = Served!Waiting
         /\ servedReplies[s] = <<>> /\ servedSent[s] = 0
  BY DEF Served!Init
<1>3. Served!IsFiniteSet(servedRows)
  BY <1>2, ServedCounts, FS_EmptySet
<1>4. ServedWireInv
  <2> SUFFICES ASSUME NEW s \in Servers
      PROVE ServedOrderly(servedWire[s], servedCall[s], servedReplies[s], servedSent[s])
    BY DEF ServedWireInv, ServedWireOf
  <2>1. ServedTaken(servedCall[s], servedReplies[s]) = 0
    BY <1>2 DEF ServedTaken, ServedInHand, Served!Waiting
  <2>2. ServedCoherent(<<>>, 0, 0)
    BY DEF ServedCoherent
  <2>3. ServedCoherent(servedWire[s], ServedTaken(servedCall[s], servedReplies[s]), servedSent[s])
    BY <1>2, <2>1, <2>2
  <2> QED  BY <1>2, <2>3 DEF ServedOrderly, ServedInHand, Served!Waiting
<1>5. ServedActivityInv /\ ServedTraceInv /\ ServedOneInv
  BY <1>2 DEF ServedActivityInv, ServedTraceInv, ServedOneInv, Served!Waiting
<1>6. ServedRowInv
  <2>1. 0 \in 0..servedMade /\ ServedNewest(0)
    BY <1>2 DEF ServedNewest
  <2> QED  BY <1>2, <2>1 DEF ServedRowInv, Served!Waiting
<1>7. ServedViewInv
  <2>1. SubSeq(servedActivity, servedViewer.base + 1, servedViewer.seq) = <<>>
    BY <1>2, SubSeqEmpty
  <2> QED  BY <1>2, <2>1 DEF ServedViewInv, Served!PageShowsActivity
<1> QED  BY <1>1, <1>3, <1>4, <1>5, <1>6, <1>7 DEF ServedInv

LEMMA ServedFiniteStep ==
  ASSUME Served!IsFiniteSet(servedRows), NEW s \in Servers, ServedByServer(s)
  PROVE  Served!IsFiniteSet(servedRows')
<1>1. CASE Served!Compact(s)
  <2>1. servedRows' \in SUBSET servedRows
    BY <1>1 DEF Served!Compact
  <2> QED  BY <2>1, ServedCounts, FS_Subset
<1>2. CASE Served!Record(s)
  <2>1. PICK r : servedRows' = servedRows \cup {r}
    BY <1>2 DEF Served!Record
  <2> QED  BY <2>1, ServedCounts, FS_AddElement
<1>3. CASE ~Served!Compact(s) /\ ~Served!Record(s)
  BY <1>3, ServedRestUnchanged
<1> QED  BY <1>1, <1>2, <1>3

(* The page moves, and nothing else does. *)
LEMMA ServedPageStep ==
  ASSUME ServedSensible, ServedInv, Served!Snapshot \/ Served!Poll \/ Served!Reconnect
  PROVE  ServedViewInv' /\ UNCHANGED <<servedWire, servedSent, servedCall, servedReplies,
    servedActivity, servedTraces, servedRows, servedMade, servedDead, servedCrashes>>
<1>1. UNCHANGED <<servedWire, servedSent, servedCall, servedReplies, servedActivity, servedTraces,
      servedRows, servedMade, servedDead, servedCrashes>>
  BY DEF Served!Snapshot, Served!Poll, Served!Reconnect
<1>2. CASE Served!Snapshot
  <2>1. servedActivity \in Seq(ServedEvents) /\ Len(servedActivity) \in Nat
    BY DEF ServedInv, ServedTypeInv
  <2>2. servedViewer' = [base |-> Len(servedActivity), seq |-> Len(servedActivity), shown |-> <<>>,
        linked |-> TRUE]
    BY <1>2 DEF Served!Snapshot
  <2>3. SubSeq(servedActivity, Len(servedActivity) + 1, Len(servedActivity)) = <<>>
    BY <2>1, SubSeqEmpty
  <2> QED  BY <1>1, <2>1, <2>2, <2>3 DEF ServedViewInv, Served!PageShowsActivity
<1>3. CASE Served!Poll
  BY <1>1, <1>3, ServedPollStep DEF ServedInv
<1>4. CASE Served!Reconnect
  BY <1>1, <1>4 DEF Served!Reconnect, ServedInv, ServedViewInv, Served!PageShowsActivity
<1> QED  BY <1>1, <1>2, <1>3, <1>4

LEMMA ServedStillStep ==
  ASSUME ServedInv, UNCHANGED <<servedWire, servedSent, servedCall, servedReplies, servedActivity,
    servedTraces, servedRows, servedMade, servedDead, servedCrashes>>
  PROVE  /\ ServedTypeInv' /\ Served!IsFiniteSet(servedRows)' /\ ServedWireInv' /\ ServedActivityInv' /\ ServedTraceInv'
         /\ ServedOneInv => ServedOneInv'
         /\ ServedRowInv => ServedRowInv'
<1>1. ServedTypeInv' /\ Served!IsFiniteSet(servedRows)' /\ ServedWireInv'
  BY DEF ServedInv, ServedTypeInv, ServedWireInv
<1>2. ServedActivityInv' /\ ServedTraceInv'
  BY DEF ServedInv, ServedActivityInv, ServedTraceInv, ServedClosed
<1>3. ServedOneInv => ServedOneInv'
  BY DEF ServedOneInv, Served!Alone
<1>4. ServedRowInv => ServedRowInv'
  BY DEF ServedRowInv, ServedNewest, Served!Alone
<1> QED  BY <1>1, <1>2, <1>3, <1>4

LEMMA ServedStepOf ==
  ASSUME ServedSensible, ServedInv, [Served!Next]_Served!vars
  PROVE  /\ ServedInv'
         /\ ServedNoTwoTracers /\ ServedOneInv => ServedOneInv'
         /\ ServedNoTwoCompactors /\ ServedRowInv => ServedRowInv'
<1>1. ASSUME NEW s \in Servers, ServedByServer(s)
      PROVE  /\ ServedInv'
             /\ ServedNoTwoTracers /\ ServedOneInv => ServedOneInv'
             /\ ServedNoTwoCompactors /\ ServedRowInv => ServedRowInv'
  <2>1. ServedTypeInv' /\ Served!IsFiniteSet(servedRows)'
    BY <1>1, ServedServerTypes, ServedFiniteStep DEF ServedInv
  <2>2. ServedWireInv' /\ ServedActivityInv' /\ ServedTraceInv'
    BY <1>1, ServedWireStep, ServedActivityStep, ServedTraceStep DEF ServedInv
  <2>3. ServedViewInv'
    BY <1>1, ServedServerGrows, ServedPageStays DEF ServedInv
  <2>4. (ServedNoTwoTracers /\ ServedOneInv => ServedOneInv')
        /\ (ServedNoTwoCompactors /\ ServedRowInv => ServedRowInv')
    BY <1>1, ServedOneStep, ServedRowStep DEF ServedInv
  <2> QED  BY <2>1, <2>2, <2>3, <2>4 DEF ServedInv
<1>2. CASE Served!Snapshot \/ Served!Poll \/ Served!Reconnect
  BY <1>2, ServedPageStep, ServedStillStep DEF ServedInv
<1>3. CASE UNCHANGED Served!vars
  <2>1. ServedViewInv'
    BY <1>3 DEF ServedInv, ServedViewInv, Served!PageShowsActivity, Served!vars
  <2> QED  BY <1>3, <2>1, ServedStillStep DEF ServedInv, Served!vars
<1> QED  BY <1>1, <1>2, <1>3, ServedNextIs

LEMMA ServedInvariant == ASSUME ServedSensible PROVE Served!Spec => []ServedInv
<1>1. Served!Init => ServedInv
  BY ServedInitInv
<1>2. ServedInv /\ [Served!Next]_Served!vars => ServedInv'
  BY ServedStepOf
<1> QED  BY <1>1, <1>2, PTL DEF Served!Spec

(* Every variable keeps its type. *)
THEOREM ServedTypeCorrect == ASSUME ServedSensible PROVE Served!Spec => []Served!TypeOK
<1>1. ServedInv => Served!TypeOK
  BY DEF ServedInv, ServedTypeInv, ServedTraceInv, Served!TypeOK, ServedCalls
<1> QED  BY <1>1, ServedInvariant, PTL

(* Every line gets one answer, in order. *)
THEOREM ServedEveryLineIsAnsweredOnce == ASSUME ServedSensible
  PROVE Served!Spec => []Served!OneReplyPerLine
<1>1. ServedInv => Served!OneReplyPerLine
  <2> SUFFICES ASSUME ServedInv, NEW s \in Servers, servedWire[s] = <<>>,
      servedCall[s] = Served!Waiting, servedReplies[s] # <<>>
               PROVE  /\ Len(servedReplies[s]) = servedSent[s]
                      /\ \A i \in DOMAIN servedReplies[s] : servedReplies[s][i].line \in {i, 0}
    BY DEF Served!OneReplyPerLine
  <2>1. ServedOrderly(servedWire[s], servedCall[s], servedReplies[s], servedSent[s])
    BY DEF ServedInv, ServedWireInv, ServedWireOf, ServedSettled
  <2> QED  BY <2>1 DEF ServedOrderly, ServedCoherent, ServedTaken, ServedInHand, Served!Waiting
<1> QED  BY <1>1, ServedInvariant, PTL

(* A read leaves no rows, and a call that does is closed. *)
THEOREM ServedReadsAlwaysLeaveNothing == ASSUME ServedSensible
  PROVE Served!Spec => []Served!ReadsLeaveNothing
<1>1. ServedInv => Served!ReadsLeaveNothing
  BY DEF ServedInv, ServedTraceInv, ServedActivityInv, ServedClosed, ServedUnderWay, Served!Silent,
    Served!ReadsLeaveNothing
<1> QED  BY <1>1, ServedInvariant, PTL

(* The page shows the activity since its snapshot. *)
THEOREM ServedPageAlwaysShowsActivity == ASSUME ServedSensible
  PROVE Served!Spec => []Served!PageShowsActivity
<1>1. ServedInv => Served!PageShowsActivity
  BY DEF ServedInv, ServedViewInv
<1> QED  BY <1>1, ServedInvariant, PTL

(* Without two tracers, at most one trace is active. *)
THEOREM ServedOneTraceAtATime == ASSUME ServedSensible, ServedNoTwoTracers
  PROVE Served!Spec => []Served!OneTrace
<1>1. Served!Init => ServedOneInv
  BY ServedInitInv
<1>2. ServedInv /\ ServedOneInv /\ [Served!Next]_Served!vars => ServedOneInv'
  BY ServedStepOf
<1>3. ServedOneInv => Served!OneTrace
  <2> DEFINE T == {t \in DOMAIN servedTraces : servedTraces[t].active}
  <2> SUFFICES ASSUME ServedOneInv PROVE Served!Cardinality(T) <= 1
    BY DEF Served!OneTrace
  <2>1. CASE T = {}
    BY <2>1, ServedCounts, FS_EmptySet
  <2>2. CASE T # {}
    <3>1. PICK t : T = {t}
      BY <2>2 DEF ServedOneInv
    <3> HIDE DEF T
    <3> QED  BY <3>1, ServedCounts, FS_Singleton
  <2> QED  BY <2>1, <2>2
<1> QED  BY <1>1, <1>2, <1>3, ServedInvariant, PTL DEF Served!Spec

(* Without two compactors, retention keeps the newest rows and enough.     *)
THEOREM ServedNewestAreAlwaysKept == ASSUME ServedSensible, ServedNoTwoCompactors
  PROVE Served!Spec => []Served!NewestAreKept
<1>1. Served!Init => ServedRowInv
  BY ServedInitInv
<1>2. ServedInv /\ ServedRowInv /\ [Served!Next]_Served!vars => ServedRowInv'
  BY ServedStepOf
<1>3. ServedInv /\ ServedRowInv => Served!NewestAreKept
  <2> SUFFICES ASSUME ServedInv, ServedRowInv PROVE Served!NewestAreKept
    OBVIOUS
  <2>1. PICK k \in 0..servedMade : ServedNewest(k) /\ (k = 0 \/ k + KeptRows <= servedMade)
    BY DEF ServedRowInv
  <2>2. servedMade \in Nat /\ KeptRows \in Nat
    BY DEF ServedInv, ServedTypeInv, ServedSensible
  <2>3. Served!Cardinality(servedRows) = servedMade - k
    BY <2>1, ServedHowMany DEF ServedInv
  <2>4. Served!Min({servedMade, KeptRows}) \in {servedMade, KeptRows}
        /\ Served!Min({servedMade, KeptRows}) <= servedMade
        /\ Served!Min({servedMade, KeptRows}) <= KeptRows
    BY <2>2 DEF Served!Min
  <2>5. Served!Cardinality(servedRows) >= Served!Min({servedMade, KeptRows})
    BY <2>1, <2>2, <2>3, <2>4
  <2>6. \A r \in servedRows, n \in 1..servedMade : n > r.seq => \E q \in servedRows : q.seq = n
    BY <2>1, <2>2 DEF ServedNewest
  <2> QED  BY <2>5, <2>6 DEF Served!NewestAreKept
<1> QED  BY <1>1, <1>2, <1>3, ServedInvariant, PTL DEF Served!Spec

(* The variables of the instance, by either name. *)
LEMMA ServedVarsAre == ServedVars' = ServedVars <=> Served!vars' = Served!vars
BY DEF ServedVars, Served!vars

-----------------------------------------------------------------------------
(***************************************************************************)
(* The pool of services and the cache of their answers, for any workspaces *)
(* on any roots and any size of the pool.                                  *)
(*                                                                         *)
(* Why it holds: while a service may still be asked, what it was asked and *)
(* has not answered, or has answered and nobody read, is the request of    *)
(* the one who holds its lock; a service that is closed is asked nothing   *)
(* more; and the file of a root is as it was hashed while a caller is at   *)
(* work on it.                                                             *)
(***************************************************************************)
(* What the theorems assume of the constants, and of the hazards that none *)
(* occurs.                                                                 *)
TypesSensible ==
  /\ RootOf \in [Tenants -> Types!Roots] /\ NoText \notin Texts
  /\ Types!None \notin Tenants /\ "close" \notin Tenants
  /\ MaxServices \in Nat \ {0} /\ MaxProcs \in Nat /\ MaxTypeEdits \in Nat
  /\ TypeScriptHazards = {}

TypesTexts == Texts \cup {NoText, Types!Empty}
TypesVersions == Texts \cup {NoText}
TypesRequests == [by : Tenants \cup {"close"}, version : TypesVersions]
TypesAnswers == [by : Tenants \cup {"close"}, text : TypesTexts]
TypesProcs == [root : Types!Roots, running : BOOLEAN, closed : BOOLEAN, open : BOOLEAN,
          lock : Tenants \cup {Types!None}, doc : [version : TypesVersions, text : TypesVersions],
          requests : Seq(TypesRequests), answers : Seq(TypesAnswers)]
TypesSteps == {"idle", "getting", "evicting", "checking", "writing", "waiting", "timing out",
  "leaving"}

TypesTypeInv ==
  /\ typesSource \in [Types!Roots -> TypesVersions] /\ typesHashed \in [Tenants -> TypesVersions]
  /\ typesPart \in [Types!Roots -> [digest : TypesVersions, text : TypesTexts]]
  /\ typesStep \in [Tenants -> TypesSteps] /\ typesMine \in [Tenants -> 0..MaxProcs]
  /\ typesClosing \in [Tenants -> 0..MaxProcs]
  /\ typesPool \in Seq(Nat) /\ typesPoolLock \in Tenants \cup {Types!None}
  /\ typesChanges \in 0..MaxTypeEdits
  /\ typesProcs \in Seq(TypesProcs) /\ Len(typesProcs) <= MaxProcs

(* Who has a service, who talks to it, and who closes one.                 *)
TypesAsking(c) == typesStep[c] \in {"checking", "writing", "waiting", "timing out"}
TypesHolds(c, p) == typesMine[c] = p /\ typesStep[c] \in {"writing", "waiting", "timing out"}
TypesEnding(c) == typesStep[c] \in {"evicting", "timing out", "leaving"}

TypesBindInv ==
  \A c \in Tenants :
    /\ TypesAsking(c) => typesMine[c] \in DOMAIN typesProcs
       /\ typesProcs[typesMine[c]].root = RootOf[c]
    /\ TypesEnding(c) => typesClosing[c] \in DOMAIN typesProcs /\ typesProcs[typesClosing[c]].closed
    /\ typesStep[c] = "timing out" => typesClosing[c] = typesMine[c]

TypesLockInv == \A p \in DOMAIN typesProcs, c \in Tenants : typesProcs[p].lock = c
  <=> TypesHolds(c, p)

TypesFreshInv ==
  \A c \in Tenants : typesStep[c] \notin {"idle", "leaving"} =>
    typesHashed[c] = typesSource[RootOf[c]] /\ typesHashed[c] # NoText

(* A service that is closed and held by nobody is asked nothing more.      *)
TypesMatters(p) == typesProcs[p].closed => typesProcs[p].lock # Types!None

TypesDocOf(p) == typesProcs[p].doc.text = typesProcs[p].doc.version

TypesRequestsOf(p) ==
  typesProcs[p].running => \A i \in DOMAIN typesProcs[p].requests :
    LET r == typesProcs[p].requests[i] IN
    r.by = "close" \/ (TypesHolds(r.by, p) /\ typesStep[r.by] # "writing"
      /\ r.version = typesHashed[r.by])

TypesAnswersOf(p) ==
  \A c \in Tenants : TypesHolds(c, p) => \A i \in DOMAIN typesProcs[p].answers :
    LET a == typesProcs[p].answers[i] IN
    a.by = "close" \/ (typesStep[c] # "writing" /\ a.text \in {typesHashed[c], Types!Empty})

TypesOneOf(p) ==
  typesProcs[p].running /\ ~typesProcs[p].closed =>
    \/ typesProcs[p].requests = <<>> /\ typesProcs[p].answers = <<>>
    \/ /\ Len(typesProcs[p].requests) + Len(typesProcs[p].answers) = 1
       /\ \E c \in Tenants : typesProcs[p].lock = c /\ typesStep[c] = "waiting"

TypesAskOf(p) == TypesMatters(p) => TypesDocOf(p) /\ TypesRequestsOf(p) /\ TypesAnswersOf(p)
  /\ TypesOneOf(p)
TypesAskInv == \A p \in DOMAIN typesProcs : TypesAskOf(p)

TypesPoolInv ==
  /\ \A i \in DOMAIN typesPool : typesPool[i] \in DOMAIN typesProcs
  /\ Types!PoolIsBounded
  /\ \A c \in Tenants : typesStep[c] = "evicting" =>
       /\ typesPoolLock = c /\ Len(typesPool) < MaxServices
       /\ \A i \in DOMAIN typesPool : typesProcs[typesPool[i]].root # RootOf[c]

TypesInv == TypesTypeInv /\ TypesBindInv /\ TypesLockInv /\ TypesFreshInv /\ TypesAskInv
  /\ TypesPoolInv /\ Types!PartIsOfItsText

-----------------------------------------------------------------------------
(* Services                                                                *)

LEMMA TypesReplaced ==
  ASSUME NEW S, NEW all \in Seq(S), NEW p \in DOMAIN all, NEW e \in S
  PROVE  /\ [all EXCEPT ![p] = e] \in Seq(S) /\ Len([all EXCEPT ![p] = e]) = Len(all)
         /\ DOMAIN [all EXCEPT ![p] = e] = DOMAIN all
         /\ [all EXCEPT ![p] = e][p] = e
         /\ \A q \in DOMAIN all : q # p => [all EXCEPT ![p] = e][q] = all[q]
OBVIOUS

LEMMA TypesReplacedIs ==
  ASSUME NEW S
  PROVE  \A all \in Seq(S), e \in S : \A p \in DOMAIN all : \A new : new = [all EXCEPT ![p] = e] =>
           /\ new \in Seq(S) /\ Len(new) = Len(all) /\ DOMAIN new = DOMAIN all
           /\ new[p] = e /\ \A q \in DOMAIN all : q # p => new[q] = all[q]
BY TypesReplaced

LEMMA TypesElementOf == ASSUME NEW S, NEW q \in Seq(S), NEW a \in DOMAIN q PROVE q[a] \in S
OBVIOUS

(* A service is as it was, but that it may have been told to end, or may   *)
(* have ended.                                                             *)
TypesTold(old, new) ==
  /\ new.root = old.root /\ new.lock = old.lock /\ new.doc = old.doc /\ new.answers = old.answers
  /\ old.closed => new.closed
  /\ new.running => old.running /\ new.closed
  /\ \A i \in DOMAIN new.requests :
       new.requests[i].by = "close"
         \/ \E j \in DOMAIN old.requests : old.requests[j] = new.requests[i]

(* Services are told, and new ones started. *)
TypesGrown(old, new) ==
  /\ new \in Seq(TypesProcs) /\ DOMAIN old \subseteq DOMAIN new
  /\ \A p \in DOMAIN old : new[p] = old[p] \/ TypesTold(old[p], new[p])
  /\ \A p \in DOMAIN new \ DOMAIN old : \E root \in Types!Roots : new[p] = Types!Started(root)

LEMMA TypesStartedIsProc == ASSUME NEW root \in Types!Roots PROVE Types!Started(root) \in TypesProcs
BY DEF Types!Started, TypesProcs, Types!NoDoc, TypesVersions

LEMMA TypesMarkedTells ==
  ASSUME NEW all \in Seq(TypesProcs), NEW p \in DOMAIN all
  PROVE  /\ Types!Marked(all, p) \in Seq(TypesProcs) /\ Len(Types!Marked(all, p)) = Len(all)
         /\ Types!Marked(all, p)[p].closed
         /\ Types!Marked(all, p)[p] = all[p] \/ TypesTold(all[p], Types!Marked(all, p)[p])
         /\ \A q \in DOMAIN all : q # p => Types!Marked(all, p)[q] = all[q]
<1> DEFINE d == all[p]
           m == IF d.running THEN Append(d.requests,
             [by |-> "close", version |-> NoText]) ELSE d.requests
           e == [d EXCEPT !.closed = TRUE, !.requests = m, !.open = d.running]
<1>1. d \in TypesProcs
  BY TypesElementOf, Zenon
<1>2. m \in Seq(TypesRequests) /\ \A i \in DOMAIN m : m[i].by = "close"
      \/ \E j \in DOMAIN d.requests : d.requests[j] = m[i]
  <2> DEFINE r == [by |-> "close", version |-> NoText]
  <2>1. r \in TypesRequests /\ d.requests \in Seq(TypesRequests) /\ r.by = "close"
    BY <1>1 DEF TypesProcs, TypesRequests, TypesVersions
  <2> HIDE DEF r
  <2>2. m = d.requests \/ m = Append(d.requests, r)
    BY DEF r
  <2> HIDE DEF d, m
  <2>3. CASE m = d.requests
    BY <2>1, <2>3
  <2>4. CASE m = Append(d.requests, r)
    BY <2>1, <2>4
  <2> QED  BY <2>2, <2>3, <2>4
<1>3. Types!Marked(all, p) = IF d.closed THEN all ELSE [all EXCEPT ![p] = e]
  BY DEF Types!Marked
<1> HIDE DEF m
<1>4. /\ e \in TypesProcs /\ e.root = d.root /\ e.running = d.running /\ e.closed = TRUE
      /\ e.lock = d.lock /\ e.doc = d.doc /\ e.requests = m /\ e.answers = d.answers
  <2> HIDE DEF d
  <2> QED  BY <1>1, <1>2 DEF TypesProcs
<1>5. TypesTold(d, e)
  BY <1>2, <1>4 DEF TypesTold
<1> HIDE DEF e
<1>6. CASE d.closed
  BY <1>3, <1>6
<1>7. CASE ~d.closed
  BY <1>3, <1>4, <1>5, <1>7, TypesReplaced
<1> QED  BY <1>6, <1>7

LEMMA TypesMarkedGrows ==
  ASSUME NEW all \in Seq(TypesProcs), NEW p \in DOMAIN all
  PROVE  TypesGrown(all, Types!Marked(all, p)) /\ DOMAIN Types!Marked(all, p) = DOMAIN all
BY TypesMarkedTells DEF TypesGrown

LEMMA TypesClosedGrows ==
  ASSUME typesProcs \in Seq(TypesProcs), NEW p \in DOMAIN typesProcs, typesProcs[p].closed
  PROVE  /\ TypesGrown(typesProcs, Types!Closed(p)) /\ DOMAIN Types!Closed(p) = DOMAIN typesProcs /\ ~Types!Closed(p)[p].running
         /\ Types!Closed(p)[p].closed
<1> DEFINE d == typesProcs[p]
           e == [d EXCEPT !.running = FALSE, !.open = FALSE]
<1>1. d \in TypesProcs
  BY TypesElementOf, Zenon
<1>2. Types!Closed(p) = [typesProcs EXCEPT ![p] = e]
  BY DEF Types!Closed
<1>3. /\ e \in TypesProcs /\ e.root = d.root /\ e.running = FALSE /\ e.closed = d.closed
      /\ e.lock = d.lock /\ e.doc = d.doc /\ e.requests = d.requests /\ e.answers = d.answers
  <2> HIDE DEF d
  <2> QED  BY <1>1 DEF TypesProcs
<1>4. TypesTold(d, e)
  BY <1>3 DEF TypesTold
<1>5. ~e.running /\ e.closed
  BY <1>3
<1> HIDE DEF e, d
<1>6. /\ Types!Closed(p) \in Seq(TypesProcs) /\ DOMAIN Types!Closed(p) = DOMAIN typesProcs
      /\ Types!Closed(p)[p] = e
      /\ \A q \in DOMAIN typesProcs : q # p => Types!Closed(p)[q] = typesProcs[q]
  BY <1>2, <1>3, TypesReplaced
<1> QED  BY <1>4, <1>5, <1>6 DEF TypesGrown, d

LEMMA TypesGrownTwice ==
  ASSUME NEW a, NEW b, NEW c, TypesGrown(a, b), TypesGrown(b, c), DOMAIN a = DOMAIN b
  PROVE  TypesGrown(a, c)
<1>1. ASSUME NEW p \in DOMAIN a PROVE c[p] = a[p] \/ TypesTold(a[p], c[p])
  <2>1. (b[p] = a[p] \/ TypesTold(a[p], b[p])) /\ (c[p] = b[p] \/ TypesTold(b[p], c[p]))
    BY DEF TypesGrown
  <2>2. TypesTold(a[p], b[p]) /\ TypesTold(b[p], c[p]) => TypesTold(a[p], c[p])
    BY DEF TypesTold
  <2> QED  BY <2>1, <2>2
<1> QED  BY <1>1 DEF TypesGrown

LEMMA TypesStartGrows ==
  ASSUME NEW old, NEW all \in Seq(TypesProcs), TypesGrown(old, all), DOMAIN old = DOMAIN all,
    NEW root \in Types!Roots
  PROVE  /\ TypesGrown(old, Append(all, Types!Started(root)))
         /\ Append(all, Types!Started(root))[Len(all) + 1] = Types!Started(root)
         /\ DOMAIN Append(all, Types!Started(root)) = DOMAIN all \cup {Len(all) + 1}
         /\ Len(all) + 1 \notin DOMAIN all
<1>1. Types!Started(root) \in TypesProcs
  BY TypesStartedIsProc
<1> DEFINE e == Types!Started(root)
<1> HIDE DEF e
<1>2. /\ Append(all, e) \in Seq(TypesProcs) /\ Len(Append(all, e)) = Len(all) + 1
      /\ Append(all, e)[Len(all) + 1] = e
      /\ \A p \in DOMAIN all : Append(all, e)[p] = all[p]
      /\ DOMAIN Append(all, e) = DOMAIN all \cup {Len(all) + 1} /\ Len(all) + 1 \notin DOMAIN all
  BY <1>1 DEF e
<1> QED  BY <1>2 DEF TypesGrown, e

-----------------------------------------------------------------------------
(* The pool                                                                *)

(* The services all in the pool s. *)
TypesPooled(s, all) ==
  /\ \A i \in DOMAIN s : s[i] \in DOMAIN all
  /\ Len(s) <= MaxServices
  /\ \A i, j \in DOMAIN s : all[s[i]].root = all[s[j]].root => i = j
  /\ \A p \in DOMAIN all : all[p].running /\ (\A i \in DOMAIN s : s[i] # p) => all[p].closed

LEMMA TypesPoolIsPooled ==
  (\A i \in DOMAIN typesPool : typesPool[i] \in DOMAIN typesProcs) /\ Types!PoolIsBounded
    <=> TypesPooled(typesPool, typesProcs)
BY DEF Types!PoolIsBounded, TypesPooled, Types!InPool

LEMMA TypesPooledGrows ==
  ASSUME NEW s, NEW old, NEW new, TypesPooled(s, old), TypesGrown(old, new), DOMAIN old = DOMAIN new
  PROVE  TypesPooled(s, new)
<1>1. \A p \in DOMAIN old : /\ new[p].root = old[p].root /\ (new[p].running => old[p].running)
                            /\ (old[p].closed => new[p].closed)
  BY DEF TypesGrown, TypesTold
<1> QED  BY <1>1 DEF TypesPooled

(* w is s but for an element v. *)
TypesSkips(s, v, w) ==
  \E at \in DOMAIN s : s[at] = v
    /\ \A i \in 1..Len(s) - 1 : w[i] = IF i < at THEN s[i] ELSE s[i + 1]

LEMMA TypesWithoutIs ==
  ASSUME NEW s \in Seq(Nat), NEW k \in DOMAIN s
  PROVE  /\ Types!Without(s, s[k]) \in Seq(Nat) /\ Len(Types!Without(s, s[k])) = Len(s) - 1
         /\ DOMAIN Types!Without(s, s[k]) = 1..Len(s) - 1
         /\ TypesSkips(s, s[k], Types!Without(s, s[k]))
<1> DEFINE at == CHOOSE i \in DOMAIN s : s[i] = s[k]
           w == [i \in 1..Len(s) - 1 |-> IF i < at THEN s[i] ELSE s[i + 1]]
<1>1. at \in DOMAIN s /\ s[at] = s[k]
  OBVIOUS
<1>2. Types!Without(s, s[k]) = w
  BY DEF Types!Without
<1> HIDE DEF at
<1>3. \A i \in 1..Len(s) - 1 : (IF i < at THEN s[i] ELSE s[i + 1]) \in Nat
  OBVIOUS
<1>4. w \in Seq(Nat) /\ Len(w) = Len(s) - 1 /\ DOMAIN w = 1..Len(s) - 1
  BY <1>1, <1>3
<1>5. TypesSkips(s, s[k], w)
  BY <1>1 DEF TypesSkips
<1> HIDE DEF w
<1> QED  BY <1>2, <1>4, <1>5

(* Of the places after another, each has one before it that is not before  *)
(* that other.                                                             *)
LEMMA TypesPlaceBefore ==
  ASSUME NEW x \in Nat, NEW y \in Nat, NEW n \in Nat, 1 <= x, x < y, y <= n
  PROVE  y - 1 \in 1..n - 1 /\ ~(y - 1 < x) /\ (y - 1) + 1 = y
OBVIOUS

LEMMA TypesPooledWithout ==
  ASSUME TypesSensible, NEW s \in Seq(Nat), NEW k \in DOMAIN s, NEW all, TypesPooled(s, all),
         all[s[k]].running => all[s[k]].closed
  PROVE  /\ TypesPooled(Types!Without(s, s[k]), all) /\ Types!Without(s, s[k]) \in Seq(Nat)
         /\ \A i \in DOMAIN Types!Without(s, s[k]) : all[Types!Without(s,
            s[k])[i]].root # all[s[k]].root
<1> DEFINE w == Types!Without(s, s[k])
<1>1. PICK at \in DOMAIN s :
        s[at] = s[k] /\ \A i \in 1..Len(s) - 1 : w[i] = IF i < at THEN s[i] ELSE s[i + 1]
  <2>1. TypesSkips(s, s[k], w)
    BY TypesWithoutIs
  <2> HIDE DEF w
  <2> QED  BY <2>1 DEF TypesSkips
<1>2. w \in Seq(Nat) /\ Len(w) = Len(s) - 1 /\ DOMAIN w = 1..Len(s) - 1
  BY TypesWithoutIs
<1>b. Len(s) \in Nat /\ DOMAIN s = 1..Len(s)
  OBVIOUS
<1> HIDE DEF w
<1>d. at \in Nat /\ 1 <= at /\ at <= Len(s)
  BY <1>b
<1>a. at \in Nat /\ at <= Len(s) /\ s[at] = s[k]
      /\ \A i \in DOMAIN w : i \in Nat /\ i + 1 <= Len(s) /\ 1 <= i
                              /\ w[i] = IF i < at THEN s[i] ELSE s[i + 1]
  <2>1. \A i \in DOMAIN w : i \in 1..Len(s) - 1
    BY <1>2
  <2>2. \A i \in 1..Len(s) - 1 : i \in Nat /\ i + 1 <= Len(s) /\ 1 <= i
    BY <1>b
  <2>3. \A i \in DOMAIN w : w[i] = IF i < at THEN s[i] ELSE s[i + 1]
    BY <1>1, <2>1, Zenon
  <2> QED  BY <1>1, <1>d, <2>1, <2>2, <2>3, Zenon
<1> DEFINE from(i) == IF i < at THEN i ELSE i + 1
<1>3. \A i \in DOMAIN w : from(i) \in DOMAIN s /\ from(i) # at /\ w[i] = s[from(i)]
  BY <1>a, <1>b
<1>c. \A i, j \in DOMAIN w : from(i) = from(j) => i = j
  BY <1>a
<1>4. \A j \in DOMAIN s : j # at => \E i \in DOMAIN w : w[i] = s[j]
  <2> TAKE j \in DOMAIN s
  <2> HAVE j # at
  <2>1. CASE j < at
    <3>1. j \in DOMAIN w
      BY <1>1, <1>2, <1>b, <2>1
    <3> QED  BY <1>1, <1>2, <2>1, <3>1
  <2>2. CASE j > at
    <3>2. j \in Nat /\ j <= Len(s)
      BY <1>b
    <3>3. at < j
      BY <1>d, <2>2, <3>2
    <3>1. j - 1 \in DOMAIN w /\ ~(j - 1 < at) /\ (j - 1) + 1 = j
      <4>1. j - 1 \in 1..Len(s) - 1 /\ ~(j - 1 < at) /\ (j - 1) + 1 = j
        BY <1>b, <1>d, <3>2, <3>3, TypesPlaceBefore, Zenon
      <4> QED  BY <1>2, <4>1, Zenon
    <3> QED  BY <1>1, <1>2, <3>1
  <2> QED  BY <1>1, <1>b, <2>1, <2>2
<1> HIDE DEF from
<1>5. \A i \in DOMAIN w : w[i] \in DOMAIN all /\ all[w[i]].root # all[s[k]].root
  BY <1>1, <1>3 DEF TypesPooled
<1>6. \A i, j \in DOMAIN w : all[w[i]].root = all[w[j]].root => i = j
  BY <1>3, <1>c DEF TypesPooled
<1>7. Len(w) <= MaxServices
  BY <1>2, <1>b DEF TypesPooled, TypesSensible
<1>8. ASSUME NEW p \in DOMAIN all, all[p].running, \A i \in DOMAIN w : w[i] # p
      PROVE  all[p].closed
  <2>1. CASE p = s[k]
    BY <1>8, <2>1
  <2>2. CASE p # s[k]
    <3>1. \A j \in DOMAIN s : s[j] # p
      BY <1>8, <1>4, <1>a, <2>2
    <3> QED  BY <1>8, <3>1 DEF TypesPooled
  <2> QED  BY <2>1, <2>2
<1> QED  BY <1>2, <1>5, <1>6, <1>7, <1>8 DEF TypesPooled, w

LEMMA TypesPooledTail ==
  ASSUME TypesSensible, NEW s \in Seq(Nat), s # <<>>, NEW all, TypesPooled(s, all), all[s[1]].closed
  PROVE  TypesPooled(Tail(s), all) /\ Tail(s) \in Seq(Nat) /\ Len(Tail(s)) < MaxServices
         /\ \A i \in DOMAIN Tail(s) : \E j \in DOMAIN s : Tail(s)[i] = s[j]
<1> DEFINE t == Tail(s)
<1>1. t \in Seq(Nat) /\ Len(t) = Len(s) - 1 /\ Len(s) \in Nat /\ Len(s) > 0
      /\ \A i \in 1..Len(t) : t[i] = s[i + 1]
  BY HeadTailProperties
<1> HIDE DEF t
<1>b. DOMAIN t = 1..Len(t) /\ DOMAIN s = 1..Len(s)
  BY <1>1
<1>2. \A i \in DOMAIN t : i \in Nat /\ i + 1 \in DOMAIN s /\ t[i] = s[i + 1]
  BY <1>1, <1>b
<1>3. \A j \in DOMAIN s : j # 1 => j - 1 \in DOMAIN t /\ t[j - 1] = s[j]
  BY <1>1, <1>b
<1>4. Len(t) < MaxServices
  BY <1>1 DEF TypesPooled, TypesSensible
<1>5. \A i, j \in DOMAIN t : all[t[i]].root = all[t[j]].root => i = j
  <2> TAKE i, j \in DOMAIN t
  <2>1. all[s[i + 1]].root = all[s[j + 1]].root => i + 1 = j + 1
    BY <1>2 DEF TypesPooled
  <2> QED  BY <1>2, <2>1
<1>6. \A p \in DOMAIN all : all[p].running /\ (\A i \in DOMAIN t : t[i] # p) => all[p].closed
  BY <1>3 DEF TypesPooled
<1> QED  BY <1>1, <1>2, <1>4, <1>5, <1>6 DEF TypesPooled, TypesSensible, t

LEMMA TypesPooledStart ==
  ASSUME TypesSensible, NEW s \in Seq(Nat), NEW all \in Seq(TypesProcs), TypesPooled(s, all),
    Len(s) < MaxServices,
         NEW root \in Types!Roots, \A i \in DOMAIN s : all[s[i]].root # root
  PROVE  TypesPooled(Append(s, Len(all) + 1), Append(all, Types!Started(root)))
         /\ Append(s, Len(all) + 1) \in Seq(Nat)
<1> DEFINE n == Len(all) + 1
           u == Append(s, n)
           new == Append(all, Types!Started(root))
<1>1. Types!Started(root) \in TypesProcs /\ Types!Started(root).root = root
  BY TypesStartedIsProc DEF Types!Started
<1>2. /\ n \in Nat /\ n \notin DOMAIN all /\ DOMAIN new = DOMAIN all \cup {n}
      /\ new[n] = Types!Started(root) /\ \A p \in DOMAIN all : new[p] = all[p]
  BY <1>1
<1> HIDE DEF n, new
<1>3. /\ u \in Seq(Nat) /\ Len(u) = Len(s) + 1 /\ Len(s) \in Nat /\ DOMAIN s = 1..Len(s)
      /\ DOMAIN u = DOMAIN s \cup {Len(s) + 1} /\ u[Len(s) + 1] = n
      /\ \A i \in DOMAIN s : u[i] = s[i]
  BY <1>2
<1> HIDE DEF u
<1>4. \A i \in DOMAIN u : u[i] \in DOMAIN new
  BY <1>2, <1>3 DEF TypesPooled
<1>5. Len(u) <= MaxServices
  BY <1>3 DEF TypesSensible
<1>6. \A i, j \in DOMAIN u : new[u[i]].root = new[u[j]].root => i = j
  BY <1>1, <1>2, <1>3 DEF TypesPooled
<1>7. ASSUME NEW p \in DOMAIN new, new[p].running, \A i \in DOMAIN u : u[i] # p
      PROVE  new[p].closed
  <2>1. p # n /\ \A i \in DOMAIN s : s[i] # p
    BY <1>3, <1>7
  <2>2. p \in DOMAIN all /\ new[p] = all[p]
    BY <1>2, <2>1
  <2> QED  BY <1>7, <2>1, <2>2 DEF TypesPooled
<1> QED  BY <1>3, <1>4, <1>5, <1>6, <1>7 DEF TypesPooled, n, u, new

-----------------------------------------------------------------------------
LEMMA TypesInitInv == ASSUME TypesSensible, Types!Init PROVE TypesInv
<1>1. typesProcs = <<>> /\ typesPool = <<>> /\ Len(typesProcs) = 0 /\ Len(typesPool) = 0
      /\ DOMAIN typesProcs = {} /\ DOMAIN typesPool = {}
  BY DEF Types!Init
<1>2. \A c \in Tenants : typesStep[c] = "idle"
  BY DEF Types!Init
<1>3. typesProcs \in Seq(TypesProcs) /\ typesPool \in Seq(Nat)
  BY <1>1
<1>4. typesSource \in [Types!Roots -> TypesVersions] /\ typesHashed \in [Tenants -> TypesVersions]
      /\ typesPart \in [Types!Roots -> [digest : TypesVersions, text : TypesTexts]]
  BY DEF Types!Init, TypesVersions, TypesTexts, Types!NoPart
<1>5. typesStep \in [Tenants -> TypesSteps] /\ typesMine \in [Tenants -> 0..MaxProcs]
      /\ typesClosing \in [Tenants -> 0..MaxProcs]
  BY DEF Types!Init, TypesSteps, TypesSensible
<1>6. TypesTypeInv
  BY <1>1, <1>3, <1>4, <1>5 DEF TypesTypeInv, Types!Init, TypesSensible
<1>7. TypesBindInv /\ TypesLockInv /\ TypesFreshInv /\ TypesAskInv
  BY <1>1, <1>2 DEF TypesBindInv, TypesLockInv, TypesFreshInv, TypesAskInv, TypesAsking, TypesEnding
<1>8. TypesPoolInv
  BY <1>1, <1>2 DEF TypesPoolInv, Types!PoolIsBounded, TypesSensible
<1>9. Types!PartIsOfItsText
  BY DEF Types!Init, Types!NoPart, Types!PartIsOfItsText
<1> QED  BY <1>6, <1>7, <1>8, <1>9 DEF TypesInv

-----------------------------------------------------------------------------
(* Steps in which services are told to end, end or are started: who talks  *)
(* to which does not change, but that who waits may give up on one closed. *)

TypesSame(p) ==
  \A c \in Tenants :
    /\ TypesHolds(c, p)' <=> TypesHolds(c, p)
    /\ TypesHolds(c, p) => /\ typesHashed'[c] = typesHashed[c]
                           /\ \/ typesStep'[c] = typesStep[c]
                              \/ typesStep[c] = "waiting" /\ typesStep'[c] = "timing out"
                                 /\ typesProcs'[p].closed

LEMMA TypesAskOfSame ==
  ASSUME TypesTypeInv, TypesLockInv, NEW p \in DOMAIN typesProcs, TypesAskOf(p), TypesSame(p),
         typesProcs'[p] = typesProcs[p] \/ TypesTold(typesProcs[p], typesProcs'[p])
  PROVE  TypesAskOf(p)'
<1> SUFFICES ASSUME TypesMatters(p)'
    PROVE (TypesDocOf(p) /\ TypesRequestsOf(p) /\ TypesAnswersOf(p) /\ TypesOneOf(p))'
  BY DEF TypesAskOf
<1>1. TypesMatters(p)
  BY DEF TypesMatters, TypesTold
<1>2. TypesDocOf(p) /\ TypesRequestsOf(p) /\ TypesAnswersOf(p) /\ TypesOneOf(p)
  BY <1>1 DEF TypesAskOf
<1>3. TypesDocOf(p)'
  BY <1>2 DEF TypesDocOf, TypesTold
<1>4. TypesRequestsOf(p)'
  <2> SUFFICES ASSUME typesProcs'[p].running, NEW i \in DOMAIN typesProcs'[p].requests,
                      typesProcs'[p].requests[i].by # "close"
               PROVE  LET r == typesProcs'[p].requests[i] IN
                      typesMine'[r.by] = p /\ typesStep'[r.by] \in {"waiting", "timing out"}
                        /\ r.version = typesHashed'[r.by]
    BY DEF TypesRequestsOf, TypesHolds
  <2>1. typesProcs[p].running
        /\ \E j \in DOMAIN typesProcs[p].requests : typesProcs[p].requests[j] = typesProcs'[p].requests[i]
    BY DEF TypesTold
  <2> DEFINE r == typesProcs'[p].requests[i]
  <2>2. TypesHolds(r.by, p) /\ typesStep[r.by] # "writing" /\ r.version = typesHashed[r.by]
    BY <1>2, <2>1 DEF TypesRequestsOf
  <2> HIDE DEF r
  <2>3. r.by \in Tenants
    <3>1. typesProcs[p] \in TypesProcs
      BY TypesElementOf, Zenon DEF TypesTypeInv
    <3>2. PICK j \in DOMAIN typesProcs[p].requests : typesProcs[p].requests[j] = r
      BY <2>1 DEF r
    <3>3. typesProcs[p].requests \in Seq(TypesRequests)
      BY <3>1 DEF TypesProcs
    <3>4. r \in TypesRequests
      BY <3>2, <3>3, TypesElementOf
    <3> QED  BY <3>4 DEF TypesRequests, r
  <2>4. PICK c \in Tenants : c = r.by
    BY <2>3
  <2>5. TypesHolds(c, p)' /\ typesStep'[c] # "writing" /\ r.version = typesHashed'[c]
    BY <2>2, <2>4 DEF TypesSame
  <2> QED  BY <2>4, <2>5 DEF TypesHolds, r
<1>5. TypesAnswersOf(p)'
  <2>1. typesProcs'[p].answers = typesProcs[p].answers
    BY DEF TypesTold
  <2> QED  BY <1>2, <2>1 DEF TypesAnswersOf, TypesSame
<1>6. TypesOneOf(p)'
  <2> SUFFICES ASSUME typesProcs'[p].running, ~typesProcs'[p].closed
               PROVE  \/ typesProcs'[p].requests = <<>> /\ typesProcs'[p].answers = <<>>
                      \/ /\ Len(typesProcs'[p].requests) + Len(typesProcs'[p].answers) = 1
                         /\ \E c \in Tenants : typesProcs'[p].lock = c /\ typesStep'[c] = "waiting"
    BY DEF TypesOneOf
  <2>1. typesProcs'[p] = typesProcs[p]
    BY DEF TypesTold
  <2>2. \A c \in Tenants : typesProcs[p].lock = c => typesStep'[c] = typesStep[c]
    BY <2>1 DEF TypesLockInv, TypesSame
  <2> QED  BY <1>2, <2>1, <2>2 DEF TypesOneOf
<1> QED  BY <1>3, <1>4, <1>5, <1>6

LEMMA TypesGrownStep ==
  ASSUME TypesSensible, TypesTypeInv, TypesLockInv, TypesAskInv,
    TypesGrown(typesProcs, typesProcs'),
         \A p \in DOMAIN typesProcs : TypesSame(p),
         \A p \in DOMAIN typesProcs' \ DOMAIN typesProcs, c \in Tenants : ~TypesHolds(c, p)'
  PROVE  TypesLockInv' /\ TypesAskInv'
<1>1. ASSUME NEW p \in DOMAIN typesProcs' \ DOMAIN typesProcs
      PROVE  TypesAskOf(p)' /\ typesProcs'[p].lock = Types!None
  <2>1. PICK root \in Types!Roots : typesProcs'[p] = Types!Started(root)
    BY DEF TypesGrown
  <2>2. /\ typesProcs'[p].doc = Types!NoDoc /\ typesProcs'[p].requests = <<>>
        /\ typesProcs'[p].answers = <<>>
        /\ typesProcs'[p].lock = Types!None
    BY <2>1 DEF Types!Started
  <2> QED  BY <2>2
      DEF TypesAskOf, TypesDocOf, TypesRequestsOf, TypesAnswersOf, TypesOneOf, Types!NoDoc
<1>2. ASSUME NEW p \in DOMAIN typesProcs
      PROVE  TypesAskOf(p)' /\ typesProcs'[p].lock = typesProcs[p].lock
  <2>1. typesProcs'[p] = typesProcs[p] \/ TypesTold(typesProcs[p], typesProcs'[p])
    BY DEF TypesGrown
  <2> QED  BY <2>1, TypesAskOfSame DEF TypesAskInv, TypesTold
<1>3. TypesAskInv'
  BY <1>1, <1>2 DEF TypesAskInv
<1>4. TypesLockInv'
  <2> SUFFICES ASSUME NEW p \in DOMAIN typesProcs', NEW c \in Tenants
               PROVE  typesProcs'[p].lock = c <=> TypesHolds(c, p)'
    BY DEF TypesLockInv
  <2>1. CASE p \in DOMAIN typesProcs
    BY <1>2, <2>1 DEF TypesLockInv, TypesSame
  <2>2. CASE p \notin DOMAIN typesProcs
    BY <1>1, <2>2 DEF TypesSensible
  <2> QED  BY <2>1, <2>2
<1> QED  BY <1>3, <1>4

(* Services end and are told to, and none begins again. *)
TypesSofter(old, new) ==
  /\ DOMAIN old \subseteq DOMAIN new
  /\ \A p \in DOMAIN old : /\ new[p].root = old[p].root
                           /\ old[p].closed => new[p].closed
                           /\ new[p].running => old[p].running

LEMMA TypesGrownIsSofter == ASSUME NEW old, NEW new, TypesGrown(old, new)
  PROVE TypesSofter(old, new)
BY DEF TypesGrown, TypesTold, TypesSofter

(* Callers but c stand where they stood. *)
TypesOnlyCaller(c, to) ==
  /\ typesStep' = [typesStep EXCEPT ![c] = to] /\ UNCHANGED typesSource
  /\ typesMine' \in [Tenants -> 0..MaxProcs] /\ typesClosing' \in [Tenants -> 0..MaxProcs]
  /\ \A d \in Tenants \ {c} : typesMine'[d] = typesMine[d] /\ typesClosing'[d] = typesClosing[d]
     /\ typesHashed'[d] = typesHashed[d]

LEMMA TypesBindStays ==
  ASSUME TypesTypeInv, TypesBindInv, NEW c \in Tenants, NEW to \in TypesSteps,
    TypesOnlyCaller(c, to),
         TypesSofter(typesProcs, typesProcs'),
         to \in {"checking", "writing", "waiting", "timing out"} =>
           typesMine'[c] \in DOMAIN typesProcs' /\ typesProcs'[typesMine'[c]].root = RootOf[c],
         to \in {"evicting", "timing out", "leaving"} =>
           typesClosing'[c] \in DOMAIN typesProcs' /\ typesProcs'[typesClosing'[c]].closed,
         to = "timing out" => typesClosing'[c] = typesMine'[c]
  PROVE  TypesBindInv'
<1>1. \A p \in DOMAIN typesProcs : p \in DOMAIN typesProcs'
      /\ typesProcs'[p].root = typesProcs[p].root
                              /\ (typesProcs[p].closed => typesProcs'[p].closed)
  BY DEF TypesSofter
<1>2. typesStep'[c] = to /\ \A d \in Tenants \ {c} : typesStep'[d] = typesStep[d]
  BY DEF TypesOnlyCaller, TypesTypeInv
<1> SUFFICES ASSUME NEW d \in Tenants
             PROVE  /\ TypesAsking(d)' => typesMine'[d] \in DOMAIN typesProcs' /\ typesProcs'[typesMine'[d]].root = RootOf[d]
                    /\ TypesEnding(d)' => typesClosing'[d] \in DOMAIN typesProcs'
                       /\ typesProcs'[typesClosing'[d]].closed
                    /\ typesStep'[d] = "timing out" => typesClosing'[d] = typesMine'[d]
  BY DEF TypesBindInv
<1>3. CASE d = c
  BY <1>2, <1>3 DEF TypesAsking, TypesEnding
<1>4. CASE d # c
  <2>1. typesMine'[d] = typesMine[d] /\ typesClosing'[d] = typesClosing[d]
        /\ typesStep'[d] = typesStep[d]
    BY <1>2, <1>4 DEF TypesOnlyCaller
  <2>2. /\ TypesAsking(d) => typesMine[d] \in DOMAIN typesProcs
           /\ typesProcs[typesMine[d]].root = RootOf[d]
        /\ TypesEnding(d) => typesClosing[d] \in DOMAIN typesProcs
           /\ typesProcs[typesClosing[d]].closed
        /\ typesStep[d] = "timing out" => typesClosing[d] = typesMine[d]
    BY DEF TypesBindInv
  <2> QED  BY <1>1, <2>1, <2>2 DEF TypesAsking, TypesEnding
<1> QED  BY <1>3, <1>4

LEMMA TypesFreshStays ==
  ASSUME TypesTypeInv, TypesFreshInv, NEW c \in Tenants, NEW to \in TypesSteps,
    TypesOnlyCaller(c, to),
         typesHashed'[c] = typesHashed[c], to \in {"idle", "leaving"}
           \/ typesStep[c] \notin {"idle", "leaving"}
  PROVE  TypesFreshInv'
<1>1. typesStep'[c] = to /\ \A d \in Tenants \ {c} : typesStep'[d] = typesStep[d]
  BY DEF TypesOnlyCaller, TypesTypeInv
<1> QED  BY <1>1 DEF TypesOnlyCaller, TypesFreshInv

(* A caller that talks to no service before or after leaves all as they were. *)
LEMMA TypesQuietSame ==
  ASSUME TypesTypeInv, NEW c \in Tenants, NEW to \in TypesSteps, TypesOnlyCaller(c, to),
         typesStep[c] \notin {"writing", "waiting", "timing out"},
           to \notin {"writing", "waiting", "timing out"}
  PROVE  /\ \A p \in DOMAIN typesProcs : TypesSame(p)
         /\ \A p : ~TypesHolds(c, p)'
<1>1. typesStep'[c] = to /\ \A d \in Tenants \ {c} : typesStep'[d] = typesStep[d]
  BY DEF TypesOnlyCaller, TypesTypeInv
<1> QED  BY <1>1 DEF TypesOnlyCaller, TypesSame, TypesHolds

(* Nobody talks to a service that is started in this step. *)
LEMMA TypesNewIsFree ==
  ASSUME TypesTypeInv, TypesBindInv, NEW c \in Tenants, NEW to \in TypesSteps,
    TypesOnlyCaller(c, to),
         to \notin {"writing", "waiting", "timing out"}
  PROVE  \A p \in DOMAIN typesProcs' \ DOMAIN typesProcs, d \in Tenants : ~TypesHolds(d, p)'
<1>1. typesStep'[c] = to /\ \A d \in Tenants \ {c} : typesStep'[d] = typesStep[d]
  BY DEF TypesOnlyCaller, TypesTypeInv
<1> SUFFICES ASSUME NEW p \in DOMAIN typesProcs', p \notin DOMAIN typesProcs, NEW d \in Tenants
    PROVE ~TypesHolds(d, p)'
  OBVIOUS
<1>2. CASE d = c
  BY <1>1, <1>2 DEF TypesHolds
<1>3. CASE d # c
  <2>1. typesMine'[d] = typesMine[d] /\ typesStep'[d] = typesStep[d]
    BY <1>1, <1>3 DEF TypesOnlyCaller
  <2>2. TypesHolds(d, p) => p \in DOMAIN typesProcs
    BY DEF TypesHolds, TypesBindInv, TypesAsking
  <2> QED  BY <2>1, <2>2 DEF TypesHolds
<1> QED  BY <1>2, <1>3

LEMMA TypesPoolStays ==
  ASSUME TypesPoolInv, TypesSofter(typesProcs, typesProcs'), DOMAIN typesProcs' = DOMAIN typesProcs,
    UNCHANGED <<typesPool, typesPoolLock>>,
         \A d \in Tenants : typesStep'[d] = "evicting" => typesStep[d] = "evicting"
  PROVE  TypesPoolInv'
<1>1. \A p \in DOMAIN typesProcs : /\ typesProcs'[p].root = typesProcs[p].root
                                   /\ typesProcs[p].closed => typesProcs'[p].closed
                                   /\ typesProcs'[p].running => typesProcs[p].running
  BY DEF TypesSofter
<1>2. \A i \in DOMAIN typesPool : typesPool'[i] \in DOMAIN typesProcs'
      /\ typesProcs'[typesPool'[i]].root = typesProcs[typesPool[i]].root
  BY <1>1 DEF TypesPoolInv
<1>3. Types!PoolIsBounded'
  <2>1. Len(typesPool') <= MaxServices
    BY DEF TypesPoolInv, Types!PoolIsBounded
  <2>2. \A i, j \in DOMAIN typesPool' : typesProcs'[typesPool'[i]].root = typesProcs'[typesPool'[j]].root => i = j
    BY <1>2 DEF TypesPoolInv, Types!PoolIsBounded
  <2>3. \A p \in DOMAIN typesProcs' : typesProcs'[p].running /\ ~Types!InPool(p)'
        => typesProcs'[p].closed
    BY <1>1 DEF TypesPoolInv, Types!PoolIsBounded, Types!InPool
  <2> QED  BY <2>1, <2>2, <2>3 DEF Types!PoolIsBounded
<1> QED  BY <1>2, <1>3 DEF TypesPoolInv

LEMMA TypesAskStep ==
  ASSUME TypesSensible, TypesInv, NEW c \in Tenants, Types!Ask(c)
  PROVE  TypesInv'
<1>1. /\ TypesOnlyCaller(c, "getting") /\ "getting" \in TypesSteps /\ typesStep[c] = "idle"
      /\ typesHashed' = [typesHashed EXCEPT ![c] = typesSource[RootOf[c]]]
      /\ typesSource[RootOf[c]] # NoText
      /\ UNCHANGED <<typesSource, typesPart, typesMine, typesClosing, typesPool, typesPoolLock,
         typesProcs, typesChanges>>
  BY DEF Types!Ask, Types!Go, TypesOnlyCaller, TypesInv, TypesTypeInv, TypesSteps
<1>2. typesSource[RootOf[c]] \in TypesVersions
  BY DEF TypesInv, TypesTypeInv, TypesSensible
<1>3. TypesTypeInv'
  <2>1. typesHashed' \in [Tenants -> TypesVersions] /\ typesStep' \in [Tenants -> TypesSteps]
    BY <1>1, <1>2 DEF TypesInv, TypesTypeInv, TypesOnlyCaller
  <2> QED  BY <1>1, <2>1 DEF TypesInv, TypesTypeInv
<1>4. TypesGrown(typesProcs, typesProcs') /\ TypesSofter(typesProcs, typesProcs')
  BY <1>1, TypesGrownIsSofter DEF TypesGrown, TypesInv, TypesTypeInv
<1>5. TypesBindInv'
  BY <1>1, <1>4, TypesBindStays DEF TypesInv
<1>6. TypesLockInv' /\ TypesAskInv'
  BY <1>1, <1>4, TypesGrownStep, TypesQuietSame DEF TypesInv
<1>7. typesStep'[c] = "getting" /\ \A d \in Tenants \ {c} : typesStep'[d] = typesStep[d]
  BY <1>1 DEF TypesOnlyCaller, TypesInv, TypesTypeInv
<1>8. TypesFreshInv'
  <2>1. typesHashed'[c] = typesSource[RootOf[c]]
        /\ \A d \in Tenants \ {c} : typesHashed'[d] = typesHashed[d]
    BY <1>1 DEF TypesInv, TypesTypeInv
  <2> QED  BY <1>1, <1>7, <2>1 DEF TypesInv, TypesFreshInv
<1>9. TypesPoolInv'
  BY <1>1, <1>4, <1>7, TypesPoolStays DEF TypesInv
<1> QED  BY <1>1, <1>3, <1>5, <1>6, <1>8, <1>9 DEF TypesInv, Types!PartIsOfItsText

LEMMA TypesNobodyElse ==
  ASSUME TypesSensible, TypesInv, NEW c \in Tenants,
         (typesStep[c] = "getting" /\ typesPoolLock = Types!None) \/ typesStep[c] = "evicting"
  PROVE  \A d \in Tenants \ {c} : typesStep[d] # "evicting"
BY DEF TypesInv, TypesPoolInv, TypesSensible

LEMMA TypesSpawnStep ==
  ASSUME TypesSensible, TypesInv, NEW c \in Tenants, typesStep[c] \in {"getting", "evicting"},
         \A d \in Tenants \ {c} : typesStep[d] # "evicting",
         NEW all \in Seq(TypesProcs), TypesGrown(typesProcs, all), DOMAIN all = DOMAIN typesProcs,
         NEW others \in Seq(Nat), TypesPooled(others, all), Len(others) < MaxServices,
         \A i \in DOMAIN others : all[others[i]].root # RootOf[c],
         Types!Spawn(c, all, others), typesClosing' \in [Tenants -> 0..MaxProcs],
         \A d \in Tenants \ {c} : typesClosing'[d] = typesClosing[d],
         UNCHANGED <<typesSource, typesHashed, typesPart, typesChanges>>
  PROVE  TypesInv'
<1> DEFINE n == Len(all) + 1
<1>1. RootOf[c] \in Types!Roots /\ Len(all) < MaxProcs /\ Len(all) \in Nat /\ n \in 0..MaxProcs
  BY DEF Types!Spawn, TypesSensible
<1>2. /\ typesProcs' = Append(all, Types!Started(RootOf[c])) /\ typesPool' = Append(others, n)
      /\ typesMine' = [typesMine EXCEPT ![c] = n] /\ typesPoolLock' = Types!None
      /\ typesStep' = [typesStep EXCEPT ![c] = "checking"]
  BY DEF Types!Spawn, Types!Go
<1>3. /\ TypesGrown(typesProcs, typesProcs') /\ typesProcs'[n] = Types!Started(RootOf[c])
      /\ DOMAIN typesProcs' = DOMAIN typesProcs \cup {n} /\ Len(typesProcs') = n
      /\ typesProcs' \in Seq(TypesProcs)
  <2>1. Types!Started(RootOf[c]) \in TypesProcs
    BY <1>1, TypesStartedIsProc
  <2>2. Len(typesProcs') = n /\ typesProcs' \in Seq(TypesProcs)
    BY <1>2, <2>1
  <2> QED  BY <1>1, <1>2, <2>2, TypesStartGrows
<1>4. TypesPooled(typesPool', typesProcs') /\ typesPool' \in Seq(Nat)
  BY <1>1, <1>2, TypesPooledStart
<1> HIDE DEF n
<1>5. typesMine' \in [Tenants -> 0..MaxProcs] /\ typesStep' \in [Tenants -> TypesSteps]
      /\ typesMine'[c] = n
      /\ typesStep'[c] = "checking" /\ "checking" \in TypesSteps
      /\ \A d \in Tenants \ {c} : typesStep'[d] = typesStep[d] /\ typesMine'[d] = typesMine[d]
  BY <1>1, <1>2 DEF TypesInv, TypesTypeInv, TypesSteps
<1>6. TypesOnlyCaller(c, "checking")
  BY <1>2, <1>5 DEF TypesOnlyCaller
<1>7. TypesTypeInv'
  BY <1>1, <1>2, <1>3, <1>4, <1>5 DEF TypesInv, TypesTypeInv, n
<1>8. TypesBindInv'
  <2>1. typesProcs'[typesMine'[c]].root = RootOf[c] /\ typesMine'[c] \in DOMAIN typesProcs'
    BY <1>3, <1>5 DEF Types!Started
  <2> QED  BY <1>3, <1>5, <1>6, <2>1, TypesBindStays, TypesGrownIsSofter DEF TypesInv
<1>9. TypesLockInv' /\ TypesAskInv'
  BY <1>3, <1>5, <1>6, TypesGrownStep, TypesQuietSame, TypesNewIsFree DEF TypesInv
<1>10. TypesFreshInv'
  BY <1>5, <1>6, TypesFreshStays DEF TypesInv
<1>11. TypesPoolInv'
  <2>1. (\A i \in DOMAIN typesPool' : typesPool'[i] \in DOMAIN typesProcs') /\ Types!PoolIsBounded'
    BY <1>4 DEF Types!PoolIsBounded, TypesPooled, Types!InPool
  <2> QED  BY <1>5, <2>1 DEF TypesPoolInv
<1> QED  BY <1>7, <1>8, <1>9, <1>10, <1>11 DEF TypesInv, Types!PartIsOfItsText

LEMMA TypesMakeStep ==
  ASSUME TypesSensible, TypesInv, NEW c \in Tenants, typesStep[c] = "getting",
    typesPoolLock = Types!None,
         NEW all \in Seq(TypesProcs), TypesGrown(typesProcs, all), DOMAIN all = DOMAIN typesProcs,
         NEW others \in Seq(Nat), TypesPooled(others, all),
         \A i \in DOMAIN others : all[others[i]].root # RootOf[c],
         Types!Make(c, all, others), UNCHANGED <<typesSource, typesHashed, typesPart, typesChanges>>
  PROVE  TypesInv'
<1>1. \A d \in Tenants \ {c} : typesStep[d] # "evicting"
  BY TypesNobodyElse
<1>2. CASE Len(others) < MaxServices
  <2>1. Types!Spawn(c, all, others) /\ typesClosing' = typesClosing
    BY <1>2 DEF Types!Make
  <2>2. typesClosing' \in [Tenants -> 0..MaxProcs]
    BY <2>1 DEF TypesInv, TypesTypeInv
  <2> QED  BY <1>1, <1>2, <2>1, <2>2, TypesSpawnStep
<1>3. CASE ~(Len(others) < MaxServices)
  <2> DEFINE p == others[1]
  <2>1. others # <<>> /\ 1 \in DOMAIN others
    BY <1>3 DEF TypesSensible
  <2>2. p \in DOMAIN all
    BY <2>1 DEF TypesPooled
  <2>3. /\ typesProcs' = Types!Marked(all, p) /\ typesPool' = Tail(others)
        /\ typesClosing' = [typesClosing EXCEPT ![c] = p]
        /\ typesPoolLock' = c /\ typesStep' = [typesStep EXCEPT ![c] = "evicting"]
        /\ typesMine' = typesMine
    BY <1>3 DEF Types!Make, Types!Go
  <2> HIDE DEF p
  <2>4. /\ typesProcs' \in Seq(TypesProcs) /\ Len(typesProcs') = Len(all) /\ typesProcs'[p].closed
        /\ TypesGrown(all, typesProcs') /\ DOMAIN typesProcs' = DOMAIN all
    BY <2>2, <2>3, TypesMarkedTells, TypesMarkedGrows
  <2>5. TypesGrown(typesProcs, typesProcs')
    BY <2>4, TypesGrownTwice
  <2>6. TypesPooled(others, typesProcs')
    BY <2>4, TypesPooledGrows
  <2>7. /\ TypesPooled(typesPool', typesProcs') /\ typesPool' \in Seq(Nat)
        /\ Len(typesPool') < MaxServices
        /\ \A i \in DOMAIN typesPool' : \E j \in DOMAIN others : typesPool'[i] = others[j]
    BY <2>1, <2>3, <2>4, <2>6, TypesPooledTail DEF p
  <2>8. p \in 0..MaxProcs /\ Len(typesProcs') <= MaxProcs
    <3>1. /\ DOMAIN typesProcs = 1..Len(typesProcs) /\ Len(typesProcs) \in Nat
          /\ Len(typesProcs) <= MaxProcs /\ MaxProcs \in Nat
          /\ DOMAIN all = 1..Len(all) /\ Len(all) \in Nat
      BY DEF TypesInv, TypesTypeInv, TypesSensible
    <3>2. Len(all) = 0 \/ Len(all) \in DOMAIN all
      BY <3>1
    <3>3. Len(all) <= Len(typesProcs)
      BY <3>1, <3>2
    <3> QED  BY <2>2, <2>4, <3>1, <3>3
  <2>9. typesClosing' \in [Tenants -> 0..MaxProcs] /\ typesStep' \in [Tenants -> TypesSteps]
        /\ typesClosing'[c] = p
        /\ typesStep'[c] = "evicting" /\ "evicting" \in TypesSteps
        /\ \A d \in Tenants \ {c} : typesStep'[d] = typesStep[d]
           /\ typesClosing'[d] = typesClosing[d]
    BY <2>3, <2>8 DEF TypesInv, TypesTypeInv, TypesSteps
  <2>10. TypesOnlyCaller(c, "evicting")
    BY <2>3, <2>9 DEF TypesOnlyCaller, TypesInv, TypesTypeInv
  <2>11. TypesTypeInv'
    BY <2>3, <2>4, <2>7, <2>8, <2>9 DEF TypesInv, TypesTypeInv
  <2>12. TypesBindInv'
    BY <2>2, <2>4, <2>5, <2>9, <2>10, TypesBindStays, TypesGrownIsSofter DEF TypesInv
  <2>13. TypesLockInv' /\ TypesAskInv'
    BY <2>4, <2>5, <2>9, <2>10, TypesGrownStep, TypesQuietSame DEF TypesInv
  <2>14. TypesFreshInv'
    BY <2>9, <2>10, TypesFreshStays DEF TypesInv
  <2>15. TypesPoolInv'
    <3>1. (\A i \in DOMAIN typesPool' : typesPool'[i] \in DOMAIN typesProcs')
          /\ Types!PoolIsBounded'
      BY <2>7 DEF Types!PoolIsBounded, TypesPooled, Types!InPool
    <3>2. \A i \in DOMAIN typesPool' : typesProcs'[typesPool'[i]].root # RootOf[c]
      <4>1. \A q \in DOMAIN all : typesProcs'[q].root = all[q].root
        BY <2>4 DEF TypesGrown, TypesTold
      <4>2. \A j \in DOMAIN others : others[j] \in DOMAIN all
        BY DEF TypesPooled
      <4>3. \A j \in DOMAIN others : typesProcs'[others[j]].root # RootOf[c]
        BY <4>1, <4>2
      <4> QED  BY <2>7, <4>3
    <3> QED  BY <1>1, <2>3, <2>7, <2>9, <3>1, <3>2 DEF TypesPoolInv
  <2> QED  BY <2>11, <2>12, <2>13, <2>14, <2>15 DEF TypesInv, Types!PartIsOfItsText
<1> QED  BY <1>2, <1>3

LEMMA TypesGetStep ==
  ASSUME TypesSensible, TypesInv, NEW c \in Tenants, Types!Get(c)
  PROVE  TypesInv'
<1>1. /\ typesProcs \in Seq(TypesProcs) /\ typesPool \in Seq(Nat)
      /\ TypesPooled(typesPool, typesProcs)
      /\ typesStep[c] = "getting" /\ typesPoolLock = Types!None
      /\ UNCHANGED <<typesSource, typesHashed, typesPart, typesChanges>>
  BY TypesPoolIsPooled DEF TypesInv, TypesTypeInv, TypesPoolInv, Types!Get
<1>2. ASSUME NEW k \in DOMAIN typesPool, typesProcs[typesPool[k]].root = RootOf[c],
      typesProcs[typesPool[k]].running,
             typesMine' = [typesMine EXCEPT ![c] = typesPool[k]], Types!Go(c, "checking"),
             UNCHANGED <<typesClosing, typesPool, typesPoolLock, typesProcs>>
      PROVE  TypesInv'
  <2>1. typesPool[k] \in DOMAIN typesProcs /\ typesPool[k] \in 0..MaxProcs
    <3>1. typesPool[k] \in DOMAIN typesProcs
      BY <1>1 DEF TypesPooled
    <3> QED  BY <3>1 DEF TypesInv, TypesTypeInv, TypesSensible
  <2>2. /\ typesMine' \in [Tenants -> 0..MaxProcs] /\ typesStep' \in [Tenants -> TypesSteps]
        /\ typesMine'[c] = typesPool[k]
        /\ typesStep'[c] = "checking" /\ "checking" \in TypesSteps
        /\ \A d \in Tenants \ {c} : typesStep'[d] = typesStep[d] /\ typesMine'[d] = typesMine[d]
    BY <1>2, <2>1 DEF TypesInv, TypesTypeInv, TypesSteps, Types!Go
  <2>3. TypesOnlyCaller(c, "checking") /\ typesClosing' \in [Tenants -> 0..MaxProcs]
    BY <1>1, <1>2, <2>2 DEF TypesOnlyCaller, Types!Go, TypesInv, TypesTypeInv
  <2>4. TypesGrown(typesProcs, typesProcs') /\ TypesSofter(typesProcs, typesProcs')
        /\ DOMAIN typesProcs' = DOMAIN typesProcs
    BY <1>1, <1>2, TypesGrownIsSofter DEF TypesGrown
  <2>5. TypesTypeInv'
    BY <1>1, <1>2, <2>2 DEF TypesInv, TypesTypeInv
  <2>6. TypesBindInv'
    BY <1>2, <2>1, <2>2, <2>3, <2>4, TypesBindStays DEF TypesInv
  <2>7. TypesLockInv' /\ TypesAskInv'
    BY <1>1, <2>2, <2>3, <2>4, TypesGrownStep, TypesQuietSame DEF TypesInv
  <2>8. TypesFreshInv'
    BY <1>1, <2>2, <2>3, TypesFreshStays DEF TypesInv
  <2>9. TypesPoolInv'
    BY <1>2, <2>2, <2>4, TypesPoolStays DEF TypesInv
  <2> QED  BY <1>1, <2>5, <2>6, <2>7, <2>8, <2>9 DEF TypesInv, Types!PartIsOfItsText
<1>3. ASSUME NEW k \in DOMAIN typesPool, typesProcs[typesPool[k]].root = RootOf[c],
      ~typesProcs[typesPool[k]].running,
             Types!Make(c, Types!Marked(typesProcs, typesPool[k]),
               Types!Without(typesPool, typesPool[k]))
      PROVE  TypesInv'
  <2> DEFINE p == typesPool[k]
             all == Types!Marked(typesProcs, p)
             others == Types!Without(typesPool, p)
  <2>1. p \in DOMAIN typesProcs
    BY <1>1 DEF TypesPooled
  <2>2. all \in Seq(TypesProcs) /\ TypesGrown(typesProcs, all) /\ DOMAIN all = DOMAIN typesProcs
        /\ all[p].closed
    BY <1>1, <2>1, TypesMarkedTells, TypesMarkedGrows
  <2>3. TypesPooled(typesPool, all)
    BY <1>1, <2>2, TypesPooledGrows
  <2>4. TypesPooled(others, all) /\ others \in Seq(Nat)
        /\ \A i \in DOMAIN others : all[others[i]].root # all[p].root
    <3> HIDE DEF all
    <3> QED  BY <1>1, <2>2, <2>3, TypesPooledWithout
  <2>5. all[p].root = RootOf[c]
    BY <1>3, <2>1, <2>2 DEF TypesGrown, TypesTold
  <2>6. Types!Make(c, all, others)
    BY <1>3
  <2> HIDE DEF all, others
  <2> QED  BY <1>1, <2>2, <2>4, <2>5, <2>6, TypesMakeStep
<1>4. ASSUME Types!ForRoot(RootOf[c]) = {}, Types!Make(c, typesProcs, typesPool)
      PROVE  TypesInv'
  <2>1. TypesGrown(typesProcs, typesProcs)
    BY <1>1 DEF TypesGrown
  <2>2. \A i \in DOMAIN typesPool : typesProcs[typesPool[i]].root # RootOf[c]
    BY <1>4 DEF Types!ForRoot
  <2> QED  BY <1>1, <1>4, <2>1, <2>2, TypesMakeStep
<1> QED  BY <1>1, <1>2, <1>3, <1>4 DEF Types!Get, Types!ForRoot

LEMMA TypesEvictStep ==
  ASSUME TypesSensible, TypesInv, NEW c \in Tenants, Types!Evict(c)
  PROVE  TypesInv'
<1> DEFINE p == typesClosing[c]
           all == Types!Closed(p)
<1>1. /\ typesStep[c] = "evicting" /\ Types!Spawn(c, all, typesPool)
      /\ typesClosing' = [typesClosing EXCEPT ![c] = 0]
      /\ UNCHANGED <<typesSource, typesHashed, typesPart, typesChanges>>
  BY DEF Types!Evict
<1>2. typesProcs \in Seq(TypesProcs) /\ typesPool \in Seq(Nat) /\ TypesPooled(typesPool, typesProcs)
      /\ Len(typesPool) < MaxServices
      /\ \A i \in DOMAIN typesPool : typesProcs[typesPool[i]].root # RootOf[c]
  BY <1>1, TypesPoolIsPooled DEF TypesInv, TypesTypeInv, TypesPoolInv
<1>3. p \in DOMAIN typesProcs /\ typesProcs[p].closed
  BY <1>1 DEF TypesInv, TypesBindInv, TypesEnding
<1>4. TypesGrown(typesProcs, all) /\ DOMAIN all = DOMAIN typesProcs /\ all \in Seq(TypesProcs)
  BY <1>2, <1>3, TypesClosedGrows DEF TypesGrown
<1> HIDE DEF all
<1>5. TypesPooled(typesPool, all)
  BY <1>2, <1>4, TypesPooledGrows
<1>6. \A i \in DOMAIN typesPool : all[typesPool[i]].root # RootOf[c]
  <2>1. \A i \in DOMAIN typesPool : typesPool[i] \in DOMAIN typesProcs
    BY <1>2 DEF TypesPooled
  <2>2. \A q \in DOMAIN typesProcs : all[q].root = typesProcs[q].root
    BY <1>4 DEF TypesGrown, TypesTold
  <2> QED  BY <1>2, <2>1, <2>2
<1>7. typesClosing' \in [Tenants -> 0..MaxProcs]
      /\ \A d \in Tenants \ {c} : typesClosing'[d] = typesClosing[d]
  BY <1>1 DEF TypesInv, TypesTypeInv, TypesSensible
<1>8. \A d \in Tenants \ {c} : typesStep[d] # "evicting"
  BY <1>1, TypesNobodyElse
<1> QED  BY <1>1, <1>2, <1>4, <1>5, <1>6, <1>7, <1>8, TypesSpawnStep

LEMMA TypesTimeOutStep ==
  ASSUME TypesSensible, TypesInv, NEW c \in Tenants, Types!TimeOut(c)
  PROVE  TypesInv'
<1> DEFINE p == typesMine[c]
<1>1. /\ typesStep[c] = "waiting" /\ typesProcs' = Types!Marked(typesProcs, p)
      /\ typesClosing' = [typesClosing EXCEPT ![c] = p]
      /\ typesStep' = [typesStep EXCEPT ![c] = "timing out"]
      /\ UNCHANGED <<typesSource, typesHashed, typesPart, typesMine, typesPool, typesPoolLock,
         typesChanges>>
  BY DEF Types!TimeOut, Types!Go
<1>2. p \in DOMAIN typesProcs /\ typesProcs \in Seq(TypesProcs) /\ typesProcs[p].root = RootOf[c]
      /\ p \in 0..MaxProcs
  BY <1>1 DEF TypesInv, TypesTypeInv, TypesBindInv, TypesAsking
<1>3. /\ typesProcs' \in Seq(TypesProcs) /\ Len(typesProcs') = Len(typesProcs)
      /\ typesProcs'[p].closed
      /\ TypesGrown(typesProcs, typesProcs') /\ TypesSofter(typesProcs, typesProcs')
      /\ DOMAIN typesProcs' = DOMAIN typesProcs
  BY <1>1, <1>2, TypesMarkedTells, TypesMarkedGrows, TypesGrownIsSofter
<1>4. /\ typesClosing' \in [Tenants -> 0..MaxProcs] /\ typesStep' \in [Tenants -> TypesSteps]
      /\ typesClosing'[c] = p
      /\ typesStep'[c] = "timing out" /\ "timing out" \in TypesSteps
      /\ \A d \in Tenants \ {c} : typesStep'[d] = typesStep[d] /\ typesClosing'[d] = typesClosing[d]
  BY <1>1, <1>2 DEF TypesInv, TypesTypeInv, TypesSteps
<1>5. TypesOnlyCaller(c, "timing out") /\ typesMine' = typesMine /\ typesHashed' = typesHashed
  BY <1>1, <1>4 DEF TypesOnlyCaller, TypesInv, TypesTypeInv
<1>6. TypesTypeInv'
  BY <1>1, <1>3, <1>4 DEF TypesInv, TypesTypeInv
<1>7. TypesBindInv'
  BY <1>2, <1>3, <1>4, <1>5, TypesBindStays DEF TypesInv, TypesSofter
<1>8. TypesLockInv' /\ TypesAskInv'
  <2>1. \A q \in DOMAIN typesProcs : TypesSame(q)
    BY <1>1, <1>3, <1>4, <1>5 DEF TypesSame, TypesHolds
  <2> QED  BY <1>3, <2>1, TypesGrownStep DEF TypesInv
<1>9. TypesFreshInv'
  BY <1>1, <1>4, <1>5, TypesFreshStays DEF TypesInv
<1>10. TypesPoolInv'
  BY <1>1, <1>3, <1>4, TypesPoolStays DEF TypesInv
<1> QED  BY <1>1, <1>6, <1>7, <1>8, <1>9, <1>10 DEF TypesInv, Types!PartIsOfItsText

LEMMA TypesLeaveStep ==
  ASSUME TypesSensible, TypesInv, NEW c \in Tenants, Types!Leave(c)
  PROVE  TypesInv'
<1>1. /\ typesProcs \in Seq(TypesProcs) /\ typesPool \in Seq(Nat)
      /\ TypesPooled(typesPool, typesProcs) /\ typesStep[c] = "idle"
      /\ typesPoolLock = Types!None /\ UNCHANGED <<typesSource, typesHashed, typesPart, typesMine,
         typesPoolLock, typesChanges>>
  BY TypesPoolIsPooled DEF TypesInv, TypesTypeInv, TypesPoolInv, Types!Leave
<1>2. PICK k \in DOMAIN typesPool :
        /\ typesPool' = Types!Without(typesPool, typesPool[k])
        /\ typesProcs' = Types!Marked(typesProcs, typesPool[k])
        /\ typesClosing' = [typesClosing EXCEPT ![c] = typesPool[k]]
        /\ typesStep' = [typesStep EXCEPT ![c] = "leaving"]
  BY DEF Types!Leave, Types!ForRoot, Types!Go
<1> DEFINE p == typesPool[k]
<1>3. p \in DOMAIN typesProcs /\ p \in 0..MaxProcs
  <2>1. p \in DOMAIN typesProcs
    BY <1>1 DEF TypesPooled
  <2> QED  BY <2>1 DEF TypesInv, TypesTypeInv, TypesSensible
<1>4. /\ typesProcs' \in Seq(TypesProcs) /\ Len(typesProcs') = Len(typesProcs)
      /\ typesProcs'[p].closed
      /\ TypesGrown(typesProcs, typesProcs') /\ TypesSofter(typesProcs, typesProcs')
      /\ DOMAIN typesProcs' = DOMAIN typesProcs
  BY <1>1, <1>2, <1>3, TypesMarkedTells, TypesMarkedGrows, TypesGrownIsSofter
<1>5. TypesPooled(typesPool', typesProcs') /\ typesPool' \in Seq(Nat)
  <2>1. TypesPooled(typesPool, typesProcs')
    BY <1>1, <1>4, TypesPooledGrows
  <2> QED  BY <1>1, <1>2, <1>4, <2>1, TypesPooledWithout
<1> HIDE DEF p
<1>6. /\ typesClosing' \in [Tenants -> 0..MaxProcs] /\ typesStep' \in [Tenants -> TypesSteps]
      /\ typesClosing'[c] = p
      /\ typesStep'[c] = "leaving" /\ "leaving" \in TypesSteps
      /\ \A d \in Tenants \ {c} : typesStep'[d] = typesStep[d] /\ typesClosing'[d] = typesClosing[d]
  BY <1>2, <1>3 DEF TypesInv, TypesTypeInv, TypesSteps, p
<1>7. TypesOnlyCaller(c, "leaving")
  BY <1>1, <1>2, <1>6 DEF TypesOnlyCaller, TypesInv, TypesTypeInv
<1>8. TypesTypeInv'
  BY <1>1, <1>4, <1>5, <1>6 DEF TypesInv, TypesTypeInv
<1>9. TypesBindInv'
  BY <1>3, <1>4, <1>6, <1>7, TypesBindStays DEF TypesInv
<1>10. TypesLockInv' /\ TypesAskInv'
  BY <1>1, <1>4, <1>6, <1>7, TypesGrownStep, TypesQuietSame DEF TypesInv
<1>11. TypesFreshInv'
  BY <1>1, <1>6, <1>7, TypesFreshStays DEF TypesInv
<1>12. TypesPoolInv'
  <2>1. (\A i \in DOMAIN typesPool' : typesPool'[i] \in DOMAIN typesProcs') /\ Types!PoolIsBounded'
    BY <1>5 DEF Types!PoolIsBounded, TypesPooled, Types!InPool
  <2>2. \A d \in Tenants : typesStep'[d] # "evicting"
    BY <1>1, <1>6 DEF TypesInv, TypesPoolInv, TypesSensible
  <2> QED  BY <2>1, <2>2 DEF TypesPoolInv
<1> QED  BY <1>1, <1>8, <1>9, <1>10, <1>11, <1>12 DEF TypesInv, Types!PartIsOfItsText

LEMMA TypesLeftStep ==
  ASSUME TypesSensible, TypesInv, NEW c \in Tenants, Types!Left(c)
  PROVE  TypesInv'
<1> DEFINE p == typesClosing[c]
<1>1. /\ typesStep[c] = "leaving" /\ typesProcs' = Types!Closed(p)
      /\ typesClosing' = [typesClosing EXCEPT ![c] = 0]
      /\ typesStep' = [typesStep EXCEPT ![c] = "idle"]
      /\ UNCHANGED <<typesSource, typesHashed, typesPart, typesMine, typesPool, typesPoolLock,
         typesChanges>>
  BY DEF Types!Left, Types!Go
<1>2. p \in DOMAIN typesProcs /\ typesProcs[p].closed /\ typesProcs \in Seq(TypesProcs)
  BY <1>1 DEF TypesInv, TypesTypeInv, TypesBindInv, TypesEnding
<1>3. TypesGrown(typesProcs, typesProcs') /\ TypesSofter(typesProcs, typesProcs')
      /\ DOMAIN typesProcs' = DOMAIN typesProcs /\ typesProcs' \in Seq(TypesProcs)
  BY <1>1, <1>2, TypesClosedGrows, TypesGrownIsSofter DEF TypesGrown
<1>4. Len(typesProcs') = Len(typesProcs)
  BY <1>1 DEF TypesInv, TypesTypeInv, Types!Closed
<1>5. /\ typesClosing' \in [Tenants -> 0..MaxProcs] /\ typesStep' \in [Tenants -> TypesSteps]
      /\ typesStep'[c] = "idle" /\ "idle" \in TypesSteps
      /\ \A d \in Tenants \ {c} : typesStep'[d] = typesStep[d] /\ typesClosing'[d] = typesClosing[d]
  <2>1. 0 \in 0..MaxProcs /\ "idle" \in TypesSteps
    BY DEF TypesSensible, TypesSteps
  <2>2. typesClosing' \in [Tenants -> 0..MaxProcs]
        /\ \A d \in Tenants \ {c} : typesClosing'[d] = typesClosing[d]
    BY <1>1, <2>1 DEF TypesInv, TypesTypeInv
  <2>3. /\ typesStep' \in [Tenants -> TypesSteps] /\ typesStep'[c] = "idle"
        /\ \A d \in Tenants \ {c} : typesStep'[d] = typesStep[d]
    BY <1>1, <2>1 DEF TypesInv, TypesTypeInv
  <2> QED  BY <2>1, <2>2, <2>3
<1>6. TypesOnlyCaller(c, "idle")
  BY <1>1, <1>5 DEF TypesOnlyCaller, TypesInv, TypesTypeInv
<1>7. TypesTypeInv'
  BY <1>1, <1>3, <1>4, <1>5 DEF TypesInv, TypesTypeInv
<1>8. TypesBindInv'
  BY <1>3, <1>5, <1>6, TypesBindStays DEF TypesInv
<1>9. TypesLockInv' /\ TypesAskInv'
  BY <1>1, <1>3, <1>5, <1>6, TypesGrownStep, TypesQuietSame DEF TypesInv
<1>10. TypesFreshInv'
  BY <1>1, <1>5, <1>6, TypesFreshStays DEF TypesInv
<1>11. TypesPoolInv'
  BY <1>1, <1>3, <1>5, TypesPoolStays DEF TypesInv
<1> QED  BY <1>1, <1>7, <1>8, <1>9, <1>10, <1>11 DEF TypesInv, Types!PartIsOfItsText

-----------------------------------------------------------------------------
(* A caller and the service it was given                                   *)

LEMMA TypesKept ==
  ASSUME TypesSensible, TypesInv, NEW c \in Tenants, NEW text \in {typesHashed[c], Types!Empty},
    Types!Keep(c, text)
  PROVE  /\ typesPart' \in [Types!Roots -> [digest : TypesVersions, text : TypesTexts]] /\ Types!PartIsOfItsText'
         /\ typesStep' = [typesStep EXCEPT ![c] = "idle"]
<1>1. RootOf[c] \in Types!Roots /\ typesHashed[c] \in TypesVersions /\ text \in TypesTexts
  BY DEF TypesSensible, TypesInv, TypesTypeInv, TypesVersions, TypesTexts
<1> DEFINE e == [digest |-> typesHashed[c], text |-> text]
<1>2. typesPart' = [typesPart EXCEPT ![RootOf[c]] = e]
      /\ typesStep' = [typesStep EXCEPT ![c] = "idle"]
  BY DEF Types!Keep, Types!Go
<1>3. e \in [digest : TypesVersions, text : TypesTexts] /\ e.text \in {e.digest, Types!Empty}
  BY <1>1
<1> HIDE DEF e
<1>4. typesPart \in [Types!Roots -> [digest : TypesVersions, text : TypesTexts]]
  BY DEF TypesInv, TypesTypeInv
<1>5. typesPart'[RootOf[c]] = e /\ \A r \in Types!Roots : r # RootOf[c]
      => typesPart'[r] = typesPart[r]
  BY <1>1, <1>2, <1>4
<1>6. Types!PartIsOfItsText'
  BY <1>3, <1>5 DEF Types!PartIsOfItsText, TypesInv
<1> QED  BY <1>1, <1>2, <1>3, <1>4, <1>6

LEMMA TypesOneReplaced ==
  ASSUME NEW p \in DOMAIN typesProcs, NEW e \in TypesProcs, typesProcs \in Seq(TypesProcs),
    typesProcs' = [typesProcs EXCEPT ![p] = e]
  PROVE  /\ typesProcs' \in Seq(TypesProcs) /\ Len(typesProcs') = Len(typesProcs) /\ DOMAIN typesProcs' = DOMAIN typesProcs
         /\ typesProcs'[p] = e /\ \A q \in DOMAIN typesProcs : q # p
            => typesProcs'[q] = typesProcs[q]
BY TypesReplacedIs

(* A caller changes the service it was given, which nobody else holds.     *)
LEMMA TypesExchange ==
  ASSUME TypesSensible, TypesInv, NEW c \in Tenants, NEW to \in {"idle", "writing", "waiting"},
         typesStep[c] \in {"checking", "writing", "waiting", "timing out"},
         typesStep' = [typesStep EXCEPT ![c] = to],
           UNCHANGED <<typesSource, typesHashed, typesMine, typesPool, typesPoolLock,
             typesChanges>>,
         typesClosing' \in [Tenants -> 0..MaxProcs],
           \A d \in Tenants \ {c} : typesClosing'[d] = typesClosing[d],
         NEW p \in DOMAIN typesProcs, p = typesMine[c], NEW e \in TypesProcs,
           typesProcs' = [typesProcs EXCEPT ![p] = e],
         e.root = typesProcs[p].root, typesProcs[p].closed => e.closed, e.running
           => typesProcs[p].running,
         typesProcs[p].lock \in {c, Types!None}, e.lock = IF to = "idle" THEN Types!None ELSE c,
         TypesAskOf(p)',
         typesPart' \in [Types!Roots -> [digest : TypesVersions, text : TypesTexts]],
           Types!PartIsOfItsText'
  PROVE  TypesInv'
<1>1. typesMine[c] \in DOMAIN typesProcs /\ typesProcs[typesMine[c]].root = RootOf[c]
      /\ typesProcs \in Seq(TypesProcs)
  BY DEF TypesInv, TypesTypeInv, TypesBindInv, TypesAsking
<1>2. p = typesMine[c]
  OBVIOUS
<1>3. /\ typesProcs' \in Seq(TypesProcs) /\ Len(typesProcs') = Len(typesProcs)
      /\ DOMAIN typesProcs' = DOMAIN typesProcs
      /\ typesProcs'[p] = e /\ \A q \in DOMAIN typesProcs : q # p => typesProcs'[q] = typesProcs[q]
  BY <1>1, TypesOneReplaced, Zenon
<1>4. to \in TypesSteps /\ typesStep' \in [Tenants -> TypesSteps] /\ typesStep'[c] = to
      /\ \A d \in Tenants \ {c} : typesStep'[d] = typesStep[d]
  <2>1. to \in TypesSteps
    BY DEF TypesSteps
  <2> QED  BY <2>1 DEF TypesInv, TypesTypeInv
<1>5. TypesOnlyCaller(c, to)
  BY <1>4 DEF TypesOnlyCaller, TypesInv, TypesTypeInv
<1>6. TypesSofter(typesProcs, typesProcs')
  BY <1>2, <1>3 DEF TypesSofter
<1>7. TypesTypeInv'
  BY <1>3, <1>4 DEF TypesInv, TypesTypeInv
<1>8. TypesBindInv'
  <2>1. typesMine'[c] \in DOMAIN typesProcs' /\ typesProcs'[typesMine'[c]].root = RootOf[c]
    BY <1>1, <1>2, <1>3
  <2>2. to \notin {"evicting", "timing out", "leaving"}
    OBVIOUS
  <2> QED  BY <1>4, <1>5, <1>6, <2>1, <2>2, TypesBindStays DEF TypesInv
<1>9. ASSUME NEW q \in DOMAIN typesProcs, q # p
      PROVE  TypesAskOf(q)' /\ \A d \in Tenants : (TypesHolds(d, q)' <=> TypesHolds(d, q))
  <2>1. TypesSame(q)
    BY <1>2, <1>4, <1>9 DEF TypesSame, TypesHolds
  <2>2. typesProcs'[q] = typesProcs[q]
    BY <1>3, <1>9
  <2>3. TypesAskOf(q)
    BY DEF TypesInv, TypesAskInv
  <2> QED  BY <2>1, <2>2, <2>3, TypesAskOfSame DEF TypesInv, TypesSame
<1>10. TypesAskInv'
  BY <1>2, <1>3, <1>9 DEF TypesAskInv
<1>11. TypesLockInv'
  <2> SUFFICES ASSUME NEW q \in DOMAIN typesProcs, NEW d \in Tenants
               PROVE  typesProcs'[q].lock = d <=> TypesHolds(d, q)'
    BY <1>3 DEF TypesLockInv
  <2>a. (typesProcs[q].lock = d) <=> TypesHolds(d, q)
    BY DEF TypesInv, TypesLockInv
  <2>1. CASE q # p
    <3>1. typesProcs'[q] = typesProcs[q]
      BY <1>3, <2>1
    <3>2. TypesHolds(d, q)' <=> TypesHolds(d, q)
      BY <1>9, <2>1
    <3> QED  BY <2>a, <3>1, <3>2
  <2>2. CASE q = p
    <3>1. typesProcs'[q].lock = (IF to = "idle" THEN Types!None ELSE c) /\ c # Types!None
          /\ d # Types!None
      BY <1>3, <2>2 DEF TypesSensible
    <3>2. CASE d = c
      <4>1. typesMine'[d] = q /\ typesStep'[d] = to
        BY <1>2, <1>4, <2>2, <3>2
      <4>2. CASE to = "idle"
        BY <3>1, <3>2, <4>1, <4>2 DEF TypesHolds
      <4>3. CASE to # "idle"
        <5>1. typesProcs'[q].lock = d /\ typesStep'[d] \in {"writing", "waiting", "timing out"}
          BY <3>1, <3>2, <4>1, <4>3
        <5> QED  BY <4>1, <5>1 DEF TypesHolds
      <4> QED  BY <4>2, <4>3
    <3>3. CASE d # c
      <4>1. typesProcs[q].lock # d
        BY <1>2, <2>2, <3>1, <3>3
      <4>2. typesMine'[d] = typesMine[d] /\ typesStep'[d] = typesStep[d]
        BY <1>4, <3>3
      <4>3. ~TypesHolds(d, q)'
        BY <2>a, <4>1, <4>2 DEF TypesHolds
      <4> QED  BY <3>1, <3>3, <4>3
    <3> QED  BY <3>2, <3>3
  <2> QED  BY <2>1, <2>2
<1>12. TypesFreshInv'
  <2>1. typesHashed'[c] = typesHashed[c] /\ typesStep[c] \notin {"idle", "leaving"}
    OBVIOUS
  <2> QED  BY <1>4, <1>5, <2>1, TypesFreshStays DEF TypesInv
<1>13. TypesPoolInv'
  BY <1>3, <1>4, <1>6, TypesPoolStays DEF TypesInv
<1> QED  BY <1>7, <1>8, <1>10, <1>11, <1>12, <1>13 DEF TypesInv

(* The service a caller holds, and what the invariants say of it.          *)
LEMMA TypesHeld ==
  ASSUME TypesSensible, TypesInv, NEW c \in Tenants,
    typesStep[c] \in {"writing", "waiting", "timing out"}
  PROVE  \E p \in DOMAIN typesProcs :
         /\ p = typesMine[c] /\ typesProcs[p] \in TypesProcs /\ typesProcs \in Seq(TypesProcs)
         /\ typesProcs[p].lock = c /\ TypesHolds(c, p)
         /\ TypesDocOf(p) /\ TypesRequestsOf(p) /\ TypesAnswersOf(p) /\ TypesOneOf(p)
         /\ \A d \in Tenants \ {c} : ~TypesHolds(d, p)
<1>1. typesMine[c] \in DOMAIN typesProcs /\ typesProcs \in Seq(TypesProcs)
      /\ TypesHolds(c, typesMine[c])
  BY DEF TypesInv, TypesTypeInv, TypesBindInv, TypesAsking, TypesHolds
<1>2. PICK p \in DOMAIN typesProcs : p = typesMine[c]
  BY <1>1
<1>3. typesProcs[p] \in TypesProcs
  BY <1>1, TypesElementOf, Zenon
<1>4. typesProcs[p].lock = c /\ \A d \in Tenants \ {c} : ~TypesHolds(d, p)
  <2>1. \A d \in Tenants : (typesProcs[p].lock = d) <=> TypesHolds(d, p)
    BY DEF TypesInv, TypesLockInv
  <2> QED  BY <1>1, <1>2, <2>1
<1>5. TypesMatters(p) /\ TypesAskOf(p)
  BY <1>4 DEF TypesMatters, TypesInv, TypesAskInv, TypesSensible
<1> QED  BY <1>1, <1>2, <1>3, <1>4, <1>5 DEF TypesAskOf

LEMMA TypesLockSet ==
  ASSUME NEW d \in TypesProcs, NEW c \in Tenants \cup {Types!None}
  PROVE  LET e == [d EXCEPT !.lock = c] IN
         /\ e \in TypesProcs /\ e.root = d.root /\ e.running = d.running /\ e.closed = d.closed
         /\ e.doc = d.doc
         /\ e.open = d.open /\ e.lock = c /\ e.requests = d.requests /\ e.answers = d.answers
BY DEF TypesProcs

LEMMA TypesCheckStep ==
  ASSUME TypesSensible, TypesInv, NEW c \in Tenants, Types!Check(c)
  PROVE  TypesInv'
<1>1. PICK p \in DOMAIN typesProcs : p = typesMine[c]
  BY DEF Types!Check, TypesInv, TypesBindInv, TypesAsking
<1>2. /\ typesStep[c] = "checking" /\ typesProcs[p].lock = Types!None
      /\ UNCHANGED <<typesSource, typesHashed, typesMine, typesClosing, typesPool, typesPoolLock,
         typesChanges>>
  BY <1>1 DEF Types!Check
<1>3. typesProcs \in Seq(TypesProcs) /\ typesProcs[p] \in TypesProcs
  <2>1. typesProcs \in Seq(TypesProcs)
    BY DEF TypesInv, TypesTypeInv
  <2> QED  BY <2>1, TypesElementOf, Zenon
<1>4. typesClosing' \in [Tenants -> 0..MaxProcs]
  BY <1>2 DEF TypesInv, TypesTypeInv
<1>5. CASE typesProcs[p].closed \/ ~typesProcs[p].running
  <2>1. Types!Keep(c, Types!Empty) /\ typesProcs' = typesProcs
    BY <1>1, <1>5 DEF Types!Check
  <2>2. /\ typesPart' \in [Types!Roots -> [digest : TypesVersions, text : TypesTexts]]
        /\ Types!PartIsOfItsText'
        /\ typesStep' = [typesStep EXCEPT ![c] = "idle"]
    BY <2>1, TypesKept
  <2>3. "idle" \in TypesSteps /\ typesStep' \in [Tenants -> TypesSteps]
        /\ \A d \in Tenants : typesStep'[d] = "evicting" => typesStep[d] = "evicting"
    <3>1. "idle" \in TypesSteps
      BY DEF TypesSteps
    <3> QED  BY <2>2, <3>1 DEF TypesInv, TypesTypeInv
  <2>4. TypesOnlyCaller(c, "idle")
    BY <1>2, <2>2 DEF TypesOnlyCaller, TypesInv, TypesTypeInv
  <2>5. TypesGrown(typesProcs, typesProcs') /\ TypesSofter(typesProcs, typesProcs')
        /\ DOMAIN typesProcs' = DOMAIN typesProcs
    BY <1>3, <2>1, TypesGrownIsSofter DEF TypesGrown
  <2>6. TypesTypeInv'
    BY <1>2, <2>1, <2>2, <2>3 DEF TypesInv, TypesTypeInv
  <2>7. TypesBindInv'
    BY <2>3, <2>4, <2>5, TypesBindStays DEF TypesInv
  <2>8. TypesLockInv' /\ TypesAskInv'
    BY <1>2, <2>3, <2>4, <2>5, TypesGrownStep, TypesQuietSame DEF TypesInv
  <2>9. TypesFreshInv'
    BY <1>2, <2>3, <2>4, TypesFreshStays DEF TypesInv
  <2>10. TypesPoolInv'
    BY <1>2, <2>3, <2>5, TypesPoolStays DEF TypesInv
  <2> QED  BY <2>2, <2>6, <2>7, <2>8, <2>9, <2>10 DEF TypesInv
<1>6. CASE ~typesProcs[p].closed /\ typesProcs[p].running
  <2> DEFINE d == typesProcs[p]
             e == [d EXCEPT !.lock = c]
  <2>1. typesProcs' = [typesProcs EXCEPT ![p] = e]
        /\ typesStep' = [typesStep EXCEPT ![c] = "writing"] /\ typesPart' = typesPart
    BY <1>1, <1>6 DEF Types!Check, Types!Go
  <2>2. /\ e \in TypesProcs /\ e.root = d.root /\ e.running = d.running /\ e.closed = d.closed
        /\ e.doc = d.doc
        /\ e.lock = c /\ e.requests = d.requests /\ e.answers = d.answers
    <3> HIDE DEF d
    <3> QED  BY <1>3, TypesLockSet DEF d
  <2>3. TypesDocOf(p) /\ d.requests = <<>> /\ d.answers = <<>>
    <3>1. TypesAskOf(p) /\ TypesMatters(p)
      BY <1>6 DEF TypesInv, TypesAskInv, TypesMatters
    <3> QED  BY <1>2, <1>6, <3>1 DEF TypesAskOf, TypesOneOf, TypesSensible
  <2> HIDE DEF e
  <2>4. typesProcs'[p] = e
    BY <1>3, <2>1, <2>2, TypesOneReplaced, Zenon
  <2>5. TypesAskOf(p)'
    <3>1. /\ typesProcs'[p].doc = d.doc /\ typesProcs'[p].requests = <<>>
          /\ typesProcs'[p].answers = <<>>
          /\ DOMAIN typesProcs'[p].requests = {} /\ DOMAIN typesProcs'[p].answers = {}
      BY <2>2, <2>3, <2>4
    <3>2. TypesDocOf(p)'
      BY <2>3, <3>1 DEF TypesDocOf
    <3>3. TypesRequestsOf(p)' /\ TypesAnswersOf(p)' /\ TypesOneOf(p)'
      BY <3>1 DEF TypesRequestsOf, TypesAnswersOf, TypesOneOf
    <3> QED  BY <3>2, <3>3 DEF TypesAskOf
  <2>6. typesPart' \in [Types!Roots -> [digest : TypesVersions, text : TypesTexts]]
        /\ Types!PartIsOfItsText'
    BY <2>1 DEF TypesInv, TypesTypeInv, Types!PartIsOfItsText
  <2>7. e.lock = IF "writing" = "idle" THEN Types!None ELSE c
    BY <2>2
  <2> QED  BY <1>1, <1>2, <1>4, <1>6, <2>1, <2>2, <2>5, <2>6, <2>7, TypesExchange
<1> QED  BY <1>5, <1>6

(* A caller lets go of a service that does not run.                        *)
LEMMA TypesGiveUp ==
  ASSUME TypesSensible, TypesInv, NEW c \in Tenants,
    typesStep[c] \in {"writing", "waiting", "timing out"},
         NEW p \in DOMAIN typesProcs, p = typesMine[c],
         NEW e \in TypesProcs, typesProcs' = [typesProcs EXCEPT ![p] = e],
         e.root = typesProcs[p].root, e.closed = typesProcs[p].closed, e.doc = typesProcs[p].doc,
         e.lock = Types!None, ~e.running, Types!Keep(c, Types!Empty),
         typesClosing' \in [Tenants -> 0..MaxProcs],
           \A d \in Tenants \ {c} : typesClosing'[d] = typesClosing[d],
         UNCHANGED <<typesSource, typesHashed, typesMine, typesPool, typesPoolLock, typesChanges>>
  PROVE  TypesInv'
<1>1. /\ typesPart' \in [Types!Roots -> [digest : TypesVersions, text : TypesTexts]]
      /\ Types!PartIsOfItsText'
      /\ typesStep' = [typesStep EXCEPT ![c] = "idle"]
  BY TypesKept
<1>2. typesProcs[p].lock = c /\ TypesDocOf(p) /\ \A d \in Tenants \ {c} : ~TypesHolds(d, p)
  <2>1. PICK q \in DOMAIN typesProcs : /\ q = typesMine[c] /\ typesProcs[q].lock = c /\ TypesDocOf(q)
                                 /\ \A d \in Tenants \ {c} : ~TypesHolds(d, q)
    BY TypesHeld, Zenon
  <2>2. q = p
    BY <2>1
  <2> QED  BY <2>1, <2>2, Zenon
<1>3. typesProcs'[p] = e
  <2>1. typesProcs \in Seq(TypesProcs)
    BY DEF TypesInv, TypesTypeInv
  <2> QED  BY <2>1, TypesOneReplaced, Zenon
<1>4. \A d \in Tenants : ~TypesHolds(d, p)'
  <2>1. typesStep'[c] = "idle" /\ \A d \in Tenants \ {c} : typesStep'[d] = typesStep[d]
    BY <1>1 DEF TypesInv, TypesTypeInv
  <2> QED  BY <1>2, <2>1 DEF TypesHolds
<1>5. TypesDocOf(p)' /\ TypesRequestsOf(p)' /\ TypesAnswersOf(p)' /\ TypesOneOf(p)'
  BY <1>2, <1>3, <1>4 DEF TypesDocOf, TypesRequestsOf, TypesAnswersOf, TypesOneOf
<1>6. TypesAskOf(p)'
  BY <1>5 DEF TypesAskOf
<1>7. e.lock = IF "idle" = "idle" THEN Types!None ELSE c
  OBVIOUS
<1> QED  BY <1>1, <1>2, <1>6, <1>7, TypesExchange

LEMMA TypesWriteStep ==
  ASSUME TypesSensible, TypesInv, NEW c \in Tenants, Types!Write(c)
  PROVE  TypesInv'
<1>1. typesStep[c] = "writing" /\ UNCHANGED <<typesSource, typesHashed, typesMine, typesClosing,
      typesPool, typesPoolLock, typesChanges>>
  BY DEF Types!Write
<1>2. PICK p \in DOMAIN typesProcs :
         /\ p = typesMine[c] /\ typesProcs[p] \in TypesProcs /\ typesProcs \in Seq(TypesProcs)
         /\ typesProcs[p].lock = c /\ TypesHolds(c, p)
         /\ TypesDocOf(p) /\ TypesRequestsOf(p) /\ TypesAnswersOf(p) /\ TypesOneOf(p)
         /\ \A d \in Tenants \ {c} : ~TypesHolds(d, p)
  BY <1>1, TypesHeld
<1>3. typesClosing' \in [Tenants -> 0..MaxProcs]
  BY <1>1 DEF TypesInv, TypesTypeInv
<1> DEFINE d == typesProcs[p]
<1>4. CASE ~d.running
  <2> DEFINE e == [d EXCEPT !.lock = Types!None]
  <2>1. typesProcs' = [typesProcs EXCEPT ![p] = e] /\ Types!Keep(c, Types!Empty)
    BY <1>2, <1>4 DEF Types!Write
  <2>2. e \in TypesProcs /\ e.root = d.root /\ e.running = d.running /\ e.closed = d.closed
        /\ e.doc = d.doc /\ e.lock = Types!None
    <3>1. d \in TypesProcs
      BY <1>2
    <3> HIDE DEF d
    <3> QED  BY <3>1, TypesLockSet
  <2> HIDE DEF e
  <2> QED  BY <1>1, <1>2, <1>3, <1>4, <2>1, <2>2, TypesGiveUp
<1>5. CASE d.running
  <2> DEFINE r == [by |-> c, version |-> typesHashed[c]]
             qs == Append(d.requests, r)
             e == [d EXCEPT !.requests = qs]
  <2>1. typesProcs' = [typesProcs EXCEPT ![p] = e]
        /\ typesStep' = [typesStep EXCEPT ![c] = "waiting"] /\ typesPart' = typesPart
    BY <1>2, <1>5 DEF Types!Write, Types!Go
  <2>2. r \in TypesRequests /\ r.by = c /\ r.version = typesHashed[c]
        /\ d.requests \in Seq(TypesRequests) /\ d.answers \in Seq(TypesAnswers)
    <3>1. typesHashed[c] \in TypesVersions
      BY DEF TypesInv, TypesTypeInv
    <3> QED  BY <1>2, <3>1 DEF TypesProcs, TypesRequests
  <2> HIDE DEF r
  <2>3. qs \in Seq(TypesRequests) /\ Len(qs) = Len(d.requests) + 1 /\ qs[Len(qs)] = r
        /\ DOMAIN qs = 1..Len(qs)
        /\ Len(d.requests) \in Nat /\ DOMAIN d.requests = 1..Len(d.requests)
        /\ \A i \in 1..Len(d.requests) : qs[i] = d.requests[i]
    BY <2>2
  <2> HIDE DEF qs
  <2>4. /\ e \in TypesProcs /\ e.root = d.root /\ e.running = d.running /\ e.closed = d.closed
        /\ e.doc = d.doc
        /\ e.lock = d.lock /\ e.requests = qs /\ e.answers = d.answers
    <3>1. d \in TypesProcs
      BY <1>2
    <3> HIDE DEF d
    <3> QED  BY <2>3, <3>1 DEF TypesProcs
  <2> HIDE DEF e
  <2>5. typesProcs'[p] = e
    BY <1>2, <2>1, <2>4, TypesOneReplaced, Zenon
  <2>6. typesStep'[c] = "waiting" /\ typesMine'[c] = p /\ typesHashed' = typesHashed
        /\ \A o \in Tenants \ {c} : ~TypesHolds(o, p)'
    <3>1. typesStep'[c] = "waiting" /\ \A o \in Tenants \ {c} : typesStep'[o] = typesStep[o]
      BY <2>1 DEF TypesInv, TypesTypeInv
    <3> QED  BY <1>1, <1>2, <3>1 DEF TypesHolds
  <2>7. TypesDocOf(p)'
    BY <1>2, <2>4, <2>5 DEF TypesDocOf
  <2>8. TypesRequestsOf(p)'
    <3> SUFFICES ASSUME NEW i \in DOMAIN qs, qs[i].by # "close"
                 PROVE  /\ typesMine'[qs[i].by] = p /\ typesStep'[qs[i].by] = "waiting"
                        /\ qs[i].version = typesHashed'[qs[i].by]
      BY <2>4, <2>5 DEF TypesRequestsOf, TypesHolds
    <3>1. CASE i \in DOMAIN d.requests
      <4>1. d.requests \in Seq(TypesRequests) /\ qs[i] = d.requests[i]
        BY <2>2, <2>3, <3>1
      <4>2. qs[i] \in TypesRequests
        BY <3>1, <4>1, TypesElementOf
      <4>3. qs[i].by \in Tenants
        BY <4>2 DEF TypesRequests
      <4>4. TypesHolds(qs[i].by, p) /\ typesStep[qs[i].by] # "writing"
        BY <1>2, <1>5, <3>1, <4>1 DEF TypesRequestsOf
      <4>5. qs[i].by = c
        BY <1>2, <4>3, <4>4
      <4> QED  BY <1>1, <4>4, <4>5
    <3>2. CASE i \notin DOMAIN d.requests
      <4>1. i = Len(qs)
        BY <2>3, <3>2
      <4>2. qs[i] = r
        BY <2>3, <4>1
      <4> QED  BY <2>2, <2>6, <4>2
    <3> QED  BY <3>1, <3>2
  <2>9. TypesAnswersOf(p)'
    <3>1. \A i \in DOMAIN d.answers : d.answers[i].by = "close"
      BY <1>1, <1>2 DEF TypesAnswersOf
    <3> QED  BY <2>4, <2>5, <3>1 DEF TypesAnswersOf
  <2>10. TypesOneOf(p)'
    <3> SUFFICES ASSUME ~d.closed
                 PROVE  Len(e.requests) + Len(e.answers) = 1
      BY <1>2, <2>4, <2>5, <2>6 DEF TypesOneOf
    <3>1. d.requests = <<>> /\ d.answers = <<>>
      BY <1>1, <1>2, <1>5 DEF TypesOneOf
    <3> QED  BY <2>3, <2>4, <3>1
  <2>11. TypesAskOf(p)'
    BY <2>7, <2>8, <2>9, <2>10 DEF TypesAskOf
  <2>12. typesPart' \in [Types!Roots -> [digest : TypesVersions, text : TypesTexts]]
         /\ Types!PartIsOfItsText'
    BY <2>1 DEF TypesInv, TypesTypeInv, Types!PartIsOfItsText
  <2>13. e.lock = IF "waiting" = "idle" THEN Types!None ELSE c
    BY <1>2, <2>4
  <2> QED  BY <1>1, <1>2, <1>3, <1>5, <2>1, <2>4, <2>11, <2>12, <2>13, TypesExchange
<1> QED  BY <1>4, <1>5

LEMMA TypesReceiveStep ==
  ASSUME TypesSensible, TypesInv, NEW c \in Tenants, Types!Receive(c)
  PROVE  TypesInv'
<1>1. typesStep[c] = "waiting" /\ UNCHANGED <<typesSource, typesHashed, typesMine, typesClosing,
      typesPool, typesPoolLock, typesChanges>>
  BY DEF Types!Receive
<1>2. PICK p \in DOMAIN typesProcs :
         /\ p = typesMine[c] /\ typesProcs[p] \in TypesProcs /\ typesProcs \in Seq(TypesProcs)
         /\ typesProcs[p].lock = c /\ TypesHolds(c, p)
         /\ TypesDocOf(p) /\ TypesRequestsOf(p) /\ TypesAnswersOf(p) /\ TypesOneOf(p)
         /\ \A d \in Tenants \ {c} : ~TypesHolds(d, p)
  BY <1>1, TypesHeld
<1>3. typesClosing' \in [Tenants -> 0..MaxProcs]
  BY <1>1 DEF TypesInv, TypesTypeInv
<1> DEFINE d == typesProcs[p]
<1>4. CASE ~d.running /\ typesProcs' = [typesProcs EXCEPT ![p].lock = Types!None]
      /\ Types!Keep(c, Types!Empty)
  <2> DEFINE e == [d EXCEPT !.lock = Types!None]
  <2>1. typesProcs' = [typesProcs EXCEPT ![p] = e] /\ Types!Keep(c, Types!Empty)
    BY <1>4
  <2>2. e \in TypesProcs /\ e.root = d.root /\ e.running = d.running /\ e.closed = d.closed
        /\ e.doc = d.doc /\ e.lock = Types!None
    <3>1. d \in TypesProcs
      BY <1>2
    <3> HIDE DEF d
    <3> QED  BY <3>1, TypesLockSet
  <2> HIDE DEF e
  <2> QED  BY <1>1, <1>2, <1>3, <1>4, <2>1, <2>2, TypesGiveUp
<1>5. CASE /\ d.answers # <<>>
           /\ LET a == d.answers[1] IN Types!Keep(c, IF a.by = "close" THEN Types!Empty ELSE a.text)
           /\ typesProcs' = [typesProcs EXCEPT ![p].lock = Types!None, ![p].answers = Tail(@)]
  <2> DEFINE a == d.answers[1]
             text == IF a.by = "close" THEN Types!Empty ELSE a.text
             rest == Tail(d.answers)
             e == [d EXCEPT !.lock = Types!None, !.answers = rest]
  <2>1. d.answers \in Seq(TypesAnswers) /\ 1 \in DOMAIN d.answers /\ rest \in Seq(TypesAnswers)
        /\ Len(rest) = Len(d.answers) - 1 /\ Len(d.answers) \in Nat /\ Len(d.answers) > 0
    <3>1. d.answers \in Seq(TypesAnswers)
      BY <1>2 DEF TypesProcs
    <3>2. rest \in Seq(TypesAnswers) /\ Len(rest) = Len(d.answers) - 1
      BY <1>5, <3>1, HeadTailProperties
    <3> QED  BY <1>5, <3>1, <3>2
  <2>2. text \in {typesHashed[c], Types!Empty} /\ Types!Keep(c, text)
    BY <1>2, <1>5, <2>1 DEF TypesAnswersOf
  <2>3. typesProcs' = [typesProcs EXCEPT ![p] = e]
    BY <1>5
  <2> HIDE DEF text, rest
  <2>4. /\ e \in TypesProcs /\ e.root = d.root /\ e.running = d.running /\ e.closed = d.closed
        /\ e.doc = d.doc
        /\ e.lock = Types!None /\ e.requests = d.requests /\ e.answers = rest
    <3>1. d \in TypesProcs
      BY <1>2
    <3> HIDE DEF d
    <3> QED  BY <2>1, <3>1 DEF TypesProcs
  <2> HIDE DEF e
  <2>5. typesProcs'[p] = e
    BY <1>2, <2>3, <2>4, TypesOneReplaced, Zenon
  <2>6. /\ typesPart' \in [Types!Roots -> [digest : TypesVersions, text : TypesTexts]]
        /\ Types!PartIsOfItsText'
        /\ typesStep' = [typesStep EXCEPT ![c] = "idle"]
    BY <2>2, TypesKept
  <2>7. \A o \in Tenants : ~TypesHolds(o, p)'
    <3>1. typesStep'[c] = "idle" /\ \A o \in Tenants \ {c} : typesStep'[o] = typesStep[o]
      BY <2>6 DEF TypesInv, TypesTypeInv
    <3> QED  BY <1>1, <1>2, <3>1 DEF TypesHolds
  <2>8. TypesDocOf(p)' /\ TypesAnswersOf(p)'
    BY <1>2, <2>4, <2>5, <2>7 DEF TypesDocOf, TypesAnswersOf
  <2>9. TypesMatters(p)' => TypesRequestsOf(p)' /\ TypesOneOf(p)'
    <3> SUFFICES ASSUME TypesMatters(p)', d.running PROVE TypesRequestsOf(p)' /\ TypesOneOf(p)'
      BY <2>4, <2>5 DEF TypesRequestsOf, TypesOneOf
    <3>1. ~d.closed
      BY <2>4, <2>5 DEF TypesMatters
    <3>2. Len(d.requests) + Len(d.answers) = 1
      BY <1>2, <1>5, <3>1 DEF TypesOneOf
    <3>3. d.requests \in Seq(TypesRequests)
      BY <1>2 DEF TypesProcs
    <3>4. Len(d.requests) \in Nat
      BY <3>3
    <3>5. Len(d.requests) = 0 /\ Len(rest) = 0
      <4>1. \A m, n \in Nat : m + n = 1 /\ n > 0 => m = 0 /\ n - 1 = 0
        OBVIOUS
      <4>2. Len(d.requests) = 0 /\ Len(d.answers) - 1 = 0
        BY <2>1, <3>2, <3>4, <4>1, Zenon
      <4> QED  BY <2>1, <4>2, Zenon
    <3>6. d.requests = <<>> /\ rest = <<>>
      BY <2>1, <3>3, <3>5
    <3>7. typesProcs'[p].requests = <<>> /\ typesProcs'[p].answers = <<>>
          /\ DOMAIN typesProcs'[p].requests = {}
      BY <2>4, <2>5, <3>6
    <3> QED  BY <3>7 DEF TypesRequestsOf, TypesOneOf
  <2>10. TypesAskOf(p)'
    BY <2>8, <2>9 DEF TypesAskOf
  <2>11. e.lock = IF "idle" = "idle" THEN Types!None ELSE c
    BY <2>4
  <2> QED  BY <1>1, <1>2, <1>3, <2>3, <2>4, <2>6, <2>10, <2>11, TypesExchange
<1> QED  BY <1>2, <1>4, <1>5 DEF Types!Receive

LEMMA TypesTimedOutStep ==
  ASSUME TypesSensible, TypesInv, NEW c \in Tenants, Types!TimedOut(c)
  PROVE  TypesInv'
<1>1. typesStep[c] = "timing out" /\ UNCHANGED <<typesSource, typesHashed, typesMine, typesPool,
      typesPoolLock, typesChanges>>
      /\ typesClosing' = [typesClosing EXCEPT ![c] = 0] /\ Types!Keep(c, Types!Empty)
  BY DEF Types!TimedOut
<1>2. PICK p \in DOMAIN typesProcs :
         /\ p = typesMine[c] /\ typesProcs[p] \in TypesProcs /\ typesProcs \in Seq(TypesProcs)
         /\ typesProcs[p].lock = c /\ TypesHolds(c, p)
         /\ TypesDocOf(p) /\ TypesRequestsOf(p) /\ TypesAnswersOf(p) /\ TypesOneOf(p)
         /\ \A d \in Tenants \ {c} : ~TypesHolds(d, p)
  BY <1>1, TypesHeld
<1>3. typesClosing[c] = p
  BY <1>1, <1>2 DEF TypesInv, TypesBindInv
<1>4. typesClosing' \in [Tenants -> 0..MaxProcs]
      /\ \A d \in Tenants \ {c} : typesClosing'[d] = typesClosing[d]
  <2>1. 0 \in 0..MaxProcs
    BY DEF TypesSensible
  <2> QED  BY <1>1, <2>1 DEF TypesInv, TypesTypeInv
<1> DEFINE d == typesProcs[p]
           e == [d EXCEPT !.running = FALSE, !.open = FALSE, !.lock = Types!None]
<1>5. typesProcs' = [typesProcs EXCEPT ![p] = e]
  BY <1>3 DEF Types!TimedOut, Types!Closed
<1>6. e \in TypesProcs /\ e.root = d.root /\ e.running = FALSE /\ e.closed = d.closed
      /\ e.doc = d.doc /\ e.lock = Types!None
  <2>1. d \in TypesProcs
    BY <1>2
  <2> HIDE DEF d
  <2> QED  BY <2>1 DEF TypesProcs
<1> HIDE DEF e
<1> QED  BY <1>1, <1>2, <1>4, <1>5, <1>6, TypesGiveUp

-----------------------------------------------------------------------------
(* A service by itself, and who edits a file                               *)

TypesCallersStay == UNCHANGED <<typesSource, typesHashed, typesPart, typesStep, typesMine,
  typesClosing, typesPool, typesPoolLock, typesChanges>>

LEMMA TypesServiceStep ==
  ASSUME TypesSensible, TypesInv, NEW p \in DOMAIN typesProcs, NEW e \in TypesProcs,
    typesProcs' = [typesProcs EXCEPT ![p] = e],
         e.root = typesProcs[p].root, typesProcs[p].closed => e.closed, e.running
           => typesProcs[p].running,
         e.lock = typesProcs[p].lock, TypesAskOf(p)', TypesCallersStay
  PROVE  TypesInv'
<1>1. typesProcs \in Seq(TypesProcs)
  BY DEF TypesInv, TypesTypeInv
<1>2. /\ typesProcs' \in Seq(TypesProcs) /\ Len(typesProcs') = Len(typesProcs)
      /\ DOMAIN typesProcs' = DOMAIN typesProcs
      /\ typesProcs'[p] = e /\ \A q \in DOMAIN typesProcs : q # p => typesProcs'[q] = typesProcs[q]
  BY <1>1, TypesOneReplaced, Zenon
<1>3. TypesSofter(typesProcs, typesProcs')
  BY <1>2 DEF TypesSofter
<1>4. TypesTypeInv'
  BY <1>2 DEF TypesInv, TypesTypeInv, TypesCallersStay
<1>5. TypesBindInv'
  <2>1. TypesBindInv
    BY DEF TypesInv
  <2>2. /\ typesStep' = typesStep /\ typesMine' = typesMine /\ typesClosing' = typesClosing
        /\ \A c : (TypesAsking(c)' <=> TypesAsking(c)) /\ (TypesEnding(c)' <=> TypesEnding(c))
    BY DEF TypesCallersStay, TypesAsking, TypesEnding
  <2>3. \A q \in DOMAIN typesProcs :
          /\ q \in DOMAIN typesProcs' /\ typesProcs'[q].root = typesProcs[q].root
          /\ typesProcs[q].closed => typesProcs'[q].closed
    BY <1>3 DEF TypesSofter
  <2> SUFFICES ASSUME NEW c \in Tenants
      PROVE /\ TypesAsking(c)' => typesMine'[c] \in DOMAIN typesProcs'
               /\ typesProcs'[typesMine'[c]].root = RootOf[c]
            /\ TypesEnding(c)' => typesClosing'[c] \in DOMAIN typesProcs'
               /\ typesProcs'[typesClosing'[c]].closed
            /\ typesStep'[c] = "timing out" => typesClosing'[c] = typesMine'[c]
    BY DEF TypesBindInv
  <2>4. /\ TypesAsking(c) => typesMine[c] \in DOMAIN typesProcs
           /\ typesProcs[typesMine[c]].root = RootOf[c]
        /\ TypesEnding(c) => typesClosing[c] \in DOMAIN typesProcs
           /\ typesProcs[typesClosing[c]].closed
        /\ typesStep[c] = "timing out" => typesClosing[c] = typesMine[c]
    BY <2>1 DEF TypesBindInv
  <2>5. TypesAsking(c)' => typesMine'[c] \in DOMAIN typesProcs'
        /\ typesProcs'[typesMine'[c]].root = RootOf[c]
    BY <2>2, <2>3, <2>4
  <2>6. TypesEnding(c)' => typesClosing'[c] \in DOMAIN typesProcs'
        /\ typesProcs'[typesClosing'[c]].closed
    BY <2>2, <2>3, <2>4
  <2>7. typesStep'[c] = "timing out" => typesClosing'[c] = typesMine'[c]
    BY <2>2, <2>4
  <2> QED  BY <2>5, <2>6, <2>7
<1>6. \A q \in DOMAIN typesProcs : typesProcs'[q].lock = typesProcs[q].lock
  BY <1>2
<1>7. TypesLockInv'
  <2>1. TypesLockInv
    BY DEF TypesInv
  <2>2. \A q, c : TypesHolds(c, q)' <=> TypesHolds(c, q)
    BY DEF TypesCallersStay, TypesHolds
  <2> QED  BY <1>2, <1>6, <2>1, <2>2 DEF TypesLockInv
<1>8. TypesAskInv'
  <2> SUFFICES ASSUME NEW q \in DOMAIN typesProcs PROVE TypesAskOf(q)'
    BY <1>2 DEF TypesAskInv
  <2>1. CASE q = p
    BY <2>1
  <2>2. CASE q # p
    <3>1. typesProcs'[q] = typesProcs[q] /\ TypesAskOf(q) /\ TypesSame(q)
      BY <1>2, <2>2 DEF TypesInv, TypesAskInv, TypesSame, TypesCallersStay, TypesHolds
    <3> QED  BY <3>1, TypesAskOfSame DEF TypesInv
  <2> QED  BY <2>1, <2>2
<1>9. TypesFreshInv' /\ Types!PartIsOfItsText'
  BY DEF TypesInv, TypesFreshInv, Types!PartIsOfItsText, TypesCallersStay
<1>10. TypesPoolInv'
  BY <1>2, <1>3, TypesPoolStays DEF TypesInv, TypesCallersStay
<1> QED  BY <1>4, <1>5, <1>7, <1>8, <1>9, <1>10 DEF TypesInv

LEMMA TypesDiesStep ==
  ASSUME TypesSensible, TypesInv, NEW p \in DOMAIN typesProcs, Types!Dies(p)
  PROVE  TypesInv'
<1> DEFINE d == typesProcs[p]
           e == [d EXCEPT !.running = FALSE]
<1>1. typesProcs' = [typesProcs EXCEPT ![p] = e] /\ TypesCallersStay
  BY DEF Types!Dies, TypesCallersStay
<1>2. typesProcs \in Seq(TypesProcs) /\ d \in TypesProcs
  <2>1. typesProcs \in Seq(TypesProcs)
    BY DEF TypesInv, TypesTypeInv
  <2> QED  BY <2>1, TypesElementOf, Zenon
<1>3. /\ e \in TypesProcs /\ e.root = d.root /\ e.running = FALSE /\ e.closed = d.closed
      /\ e.lock = d.lock
      /\ e.doc = d.doc /\ e.requests = d.requests /\ e.answers = d.answers
  <2> HIDE DEF d
  <2> QED  BY <1>2 DEF TypesProcs
<1> HIDE DEF e
<1>4. typesProcs'[p] = e
  BY <1>1, <1>2, <1>3, TypesOneReplaced, Zenon
<1>5. TypesSame(p) /\ TypesTold(typesProcs[p], typesProcs'[p])
  <2>1. TypesSame(p)
    BY <1>1 DEF TypesSame, TypesCallersStay, TypesHolds
  <2> QED  BY <1>3, <1>4, <2>1 DEF TypesTold
<1>6. TypesAskOf(p)'
  BY <1>5, TypesAskOfSame DEF TypesInv, TypesAskInv
<1> QED  BY <1>1, <1>3, <1>6, TypesServiceStep

LEMMA TypesServeStep ==
  ASSUME TypesSensible, TypesInv, NEW p \in DOMAIN typesProcs, Types!Serve(p)
  PROVE  TypesInv'
<1> DEFINE d == typesProcs[p]
           r == d.requests[1]
           rest == Tail(d.requests)
<1>1. d.running /\ d.requests # <<>> /\ TypesCallersStay
  BY DEF Types!Serve, TypesCallersStay
<1>2. typesProcs \in Seq(TypesProcs) /\ d \in TypesProcs
  <2>1. typesProcs \in Seq(TypesProcs)
    BY DEF TypesInv, TypesTypeInv
  <2> QED  BY <2>1, TypesElementOf, Zenon
<1>3. /\ d.requests \in Seq(TypesRequests) /\ d.answers \in Seq(TypesAnswers)
      /\ d.root \in Types!Roots
      /\ d.doc \in [version : TypesVersions, text : TypesVersions]
      /\ d.lock \in Tenants \cup {Types!None}
  <2> HIDE DEF d
  <2> QED  BY <1>2 DEF TypesProcs
<1>4. /\ rest \in Seq(TypesRequests) /\ Len(rest) = Len(d.requests) - 1 /\ 1 \in DOMAIN d.requests
      /\ Len(d.requests) \in Nat /\ Len(d.requests) > 0
      /\ \A i \in DOMAIN rest : \E j \in DOMAIN d.requests : rest[i] = d.requests[j]
  <2> HIDE DEF d
  <2>1. rest \in Seq(TypesRequests) /\ Len(rest) = Len(d.requests) - 1
        /\ \A i \in 1..Len(rest) : rest[i] = d.requests[i + 1]
    BY <1>1, <1>3, HeadTailProperties
  <2>2. Len(d.requests) \in Nat /\ Len(d.requests) > 0 /\ DOMAIN d.requests = 1..Len(d.requests)
    BY <1>1, <1>3
  <2>3. DOMAIN rest = 1..Len(rest)
    BY <2>1
  <2>4. \A i \in DOMAIN rest : i + 1 \in DOMAIN d.requests
    BY <2>1, <2>2, <2>3
  <2> QED  BY <2>1, <2>2, <2>3, <2>4
<1>5. r \in TypesRequests
  BY <1>3, <1>4, TypesElementOf, Zenon
<1>6. ASSUME NEW a \in TypesAnswers, NEW doc \in [version : TypesVersions, text : TypesVersions],
      NEW run \in {d.running, FALSE},
             typesProcs' = [typesProcs EXCEPT ![p] = [d EXCEPT !.requests = rest, !.running = run,
               !.doc = doc,
                                                     !.answers = Append(d.answers, a)]],
             TypesMatters(p) => /\ doc.text = doc.version
                                /\ \/ a.by = "close" /\ ~run
                                   \/ /\ r.by \in Tenants /\ TypesHolds(r.by, p)
                                         /\ typesStep[r.by] # "writing"
                                      /\ a.text \in {typesHashed[r.by], Types!Empty}
      PROVE  TypesInv'
  <2> DEFINE as == Append(d.answers, a)
             e == [d EXCEPT !.requests = rest, !.running = run, !.doc = doc, !.answers = as]
  <2>1. /\ as \in Seq(TypesAnswers) /\ Len(as) = Len(d.answers) + 1 /\ Len(d.answers) \in Nat
        /\ \A i \in DOMAIN as : as[i] = a \/ \E j \in DOMAIN d.answers : as[i] = d.answers[j]
    <3> HIDE DEF d
    <3> QED  BY <1>3
  <2>2. run \in BOOLEAN /\ (run => d.running)
    BY <1>1
  <2>3. typesProcs' = [typesProcs EXCEPT ![p] = e]
    BY <1>6
  <2> HIDE DEF as, rest
  <2>4. /\ e \in TypesProcs /\ e.root = d.root /\ e.closed = d.closed /\ e.lock = d.lock
        /\ e.running = run /\ e.doc = doc /\ e.requests = rest /\ e.answers = as
    <3> HIDE DEF d
    <3> QED  BY <1>2, <1>4, <2>1, <2>2 DEF TypesProcs
  <2> HIDE DEF e
  <2>5. typesProcs'[p] = e
    BY <1>2, <2>3, <2>4, TypesOneReplaced, Zenon
  <2>6. TypesAskOf(p)'
    <3> SUFFICES ASSUME TypesMatters(p)
        PROVE TypesDocOf(p)' /\ TypesRequestsOf(p)' /\ TypesAnswersOf(p)' /\ TypesOneOf(p)'
      BY <2>4, <2>5 DEF TypesAskOf, TypesMatters
    <3>1. TypesDocOf(p) /\ TypesRequestsOf(p) /\ TypesAnswersOf(p) /\ TypesOneOf(p)
      BY DEF TypesInv, TypesAskInv, TypesAskOf
    <3>2. TypesDocOf(p)'
      BY <1>6, <2>4, <2>5 DEF TypesDocOf
    <3>3. \A c \in Tenants : TypesHolds(c, p)' <=> TypesHolds(c, p)
      BY <1>1 DEF TypesHolds, TypesCallersStay
    <3>4. TypesRequestsOf(p)'
      <4>1. PICK rs \in Seq(TypesRequests) : rs = rest
        BY <1>4
      <4> SUFFICES ASSUME NEW i \in DOMAIN rs, rs[i].by # "close"
                   PROVE  TypesHolds(rs[i].by, p)' /\ typesStep'[rs[i].by] # "writing"
                     /\ rs[i].version = typesHashed'[rs[i].by]
        BY <2>4, <2>5, <4>1 DEF TypesRequestsOf
      <4>2. PICK j \in DOMAIN d.requests : rs[i] = d.requests[j]
        BY <1>4, <4>1
      <4>3. TypesHolds(rs[i].by, p) /\ typesStep[rs[i].by] # "writing"
            /\ rs[i].version = typesHashed[rs[i].by]
        BY <1>1, <3>1, <4>2 DEF TypesRequestsOf
      <4> QED  BY <1>1, <4>3 DEF TypesHolds, TypesCallersStay
    <3>5. TypesAnswersOf(p)'
      <4> SUFFICES ASSUME NEW c \in Tenants, TypesHolds(c, p), NEW i \in DOMAIN as,
          as[i].by # "close"
                   PROVE  typesStep[c] # "writing" /\ as[i].text \in {typesHashed[c], Types!Empty}
        BY <1>1, <2>4, <2>5, <3>3 DEF TypesAnswersOf, TypesCallersStay
      <4>1. CASE as[i] = a
        <5>1. r.by \in Tenants /\ TypesHolds(r.by, p) /\ typesStep[r.by] # "writing"
              /\ a.text \in {typesHashed[r.by], Types!Empty}
          BY <1>6, <4>1
        <5>2. \A o \in Tenants : (typesProcs[p].lock = o) <=> TypesHolds(o, p)
          BY DEF TypesInv, TypesLockInv
        <5>3. r.by = c
          BY <5>1, <5>2
        <5> QED  BY <4>1, <5>1, <5>3
      <4>2. CASE as[i] # a
        <5>1. PICK j \in DOMAIN d.answers : as[i] = d.answers[j]
          BY <2>1, <4>2
        <5> QED  BY <3>1, <5>1 DEF TypesAnswersOf
      <4> QED  BY <4>1, <4>2
    <3>6. TypesOneOf(p)'
      <4> SUFFICES ASSUME run, ~d.closed
                   PROVE  /\ Len(rest) + Len(as) = 1
                          /\ \E c \in Tenants : d.lock = c /\ typesStep[c] = "waiting"
        BY <1>1, <2>4, <2>5 DEF TypesOneOf, TypesCallersStay
      <4>1. Len(d.requests) + Len(d.answers) = 1 /\ \E c \in Tenants : d.lock = c
            /\ typesStep[c] = "waiting"
        BY <1>1, <3>1 DEF TypesOneOf
      <4>2. \A l, m, n, k \in Int : l = m - 1 /\ n = k + 1 /\ m + k = 1 => l + n = 1
        OBVIOUS
      <4>3. Len(rest) \in Int /\ Len(as) \in Int /\ Len(d.requests) \in Int
            /\ Len(d.answers) \in Int
        <5> HIDE DEF d
        <5> QED  BY <1>4, <2>1
      <4>4. PICK l, m, n, k \in Int : l = Len(rest) /\ m = Len(d.requests) /\ n = Len(as)
            /\ k = Len(d.answers)
        BY <4>3
      <4>5. l = m - 1 /\ n = k + 1 /\ m + k = 1
        BY <1>4, <2>1, <4>1, <4>4, Zenon
      <4>6. l + n = 1
        BY <4>2, <4>5
      <4> QED  BY <4>1, <4>4, <4>6, Zenon
    <3> QED  BY <3>2, <3>4, <3>5, <3>6
  <2> QED  BY <1>1, <2>2, <2>3, <2>4, <2>6, TypesServiceStep
<1>7. CASE r.by = "close"
  <2> DEFINE a == [by |-> "close", text |-> Types!Empty]
  <2>1. a \in TypesAnswers /\ a.by = "close"
    BY DEF TypesAnswers, TypesTexts
  <2>2. typesProcs' = [typesProcs EXCEPT ![p] = [d EXCEPT !.requests = rest, !.running = FALSE,
        !.answers = Append(d.answers, a)]]
    BY <1>7 DEF Types!Serve
  <2>3. [d EXCEPT !.requests = rest, !.running = FALSE, !.answers = Append(d.answers, a)]
         = [d EXCEPT !.requests = rest, !.running = FALSE, !.doc = d.doc,
           !.answers = Append(d.answers, a)]
    <3> DEFINE as == Append(d.answers, a)
    <3>1. d \in TypesProcs
      BY <1>2
    <3> HIDE DEF d, rest, as
    <3> QED  BY <3>1 DEF TypesProcs
  <2>4. TypesMatters(p) => d.doc.text = d.doc.version
    BY DEF TypesInv, TypesAskInv, TypesAskOf, TypesDocOf
  <2>5. typesProcs' = [typesProcs EXCEPT ![p] = [d EXCEPT !.requests = rest, !.running = FALSE,
        !.doc = d.doc,
                                                !.answers = Append(d.answers, a)]]
    BY <2>2, <2>3, Zenon
  <2> HIDE DEF a
  <2> QED  BY <1>3, <2>1, <2>4, <2>5, <1>6
<1>8. CASE r.by # "close"
  <2> DEFINE doc == Types!Hydrated(p, r.version)
             result == IF doc.text = NoText THEN Types!Empty ELSE doc.text
             new == IF doc.text = NoText THEN d.doc ELSE doc
             a == [by |-> r.by, text |-> result]
  <2>1. r.by \in Tenants /\ r.version \in TypesVersions
    BY <1>5, <1>8 DEF TypesRequests
  <2>2. typesSource[d.root] \in TypesVersions
    BY <1>3 DEF TypesInv, TypesTypeInv
  <2>3. doc \in [version : TypesVersions, text : TypesVersions]
    BY <1>3, <2>1, <2>2 DEF Types!Hydrated
  <2>4. doc.version = r.version
    BY DEF Types!Hydrated
  <2>5. TypesMatters(p) => /\ TypesHolds(r.by, p) /\ typesStep[r.by] # "writing" /\ r.version = typesHashed[r.by]
                           /\ d.doc.text = d.doc.version /\ doc.text = r.version
    <3> SUFFICES ASSUME TypesMatters(p)
                 PROVE  /\ TypesHolds(r.by, p) /\ typesStep[r.by] # "writing" /\ r.version = typesHashed[r.by]
                        /\ d.doc.text = d.doc.version /\ doc.text = r.version
      OBVIOUS
    <3>1. TypesDocOf(p) /\ TypesRequestsOf(p)
      BY DEF TypesInv, TypesAskInv, TypesAskOf
    <3>2. TypesHolds(r.by, p) /\ typesStep[r.by] # "writing" /\ r.version = typesHashed[r.by]
      BY <1>1, <1>4, <1>8, <3>1 DEF TypesRequestsOf
    <3>3. typesMine[r.by] = p /\ typesStep[r.by] \notin {"idle", "leaving"} /\ TypesAsking(r.by)
      BY <3>2 DEF TypesHolds, TypesAsking
    <3>4. typesSource[d.root] = typesHashed[r.by]
      <4>1. PICK c \in Tenants : c = r.by
        BY <2>1
      <4>2. typesHashed[c] = typesSource[RootOf[c]] /\ typesProcs[typesMine[c]].root = RootOf[c]
            /\ typesMine[c] = p
        BY <3>3, <4>1 DEF TypesInv, TypesFreshInv, TypesBindInv
      <4> QED  BY <4>1, <4>2
    <3> QED  BY <3>1, <3>2, <3>4 DEF TypesDocOf, Types!Hydrated
  <2>6. result \in TypesTexts /\ new \in [version : TypesVersions, text : TypesVersions]
    BY <1>3, <2>3 DEF TypesTexts, TypesVersions
  <2>7. TypesMatters(p) => new.text = new.version /\ result \in {typesHashed[r.by], Types!Empty}
    BY <2>4, <2>5
  <2>8. a \in TypesAnswers /\ a.text = result
    BY <2>1, <2>6 DEF TypesAnswers
  <2>9. typesProcs' = [typesProcs EXCEPT ![p] = [d EXCEPT !.requests = rest, !.doc = new,
        !.answers = Append(d.answers, a)]]
    BY <1>8 DEF Types!Serve
  <2> HIDE DEF new, a, result, doc
  <2>10. [d EXCEPT !.requests = rest, !.doc = new, !.answers = Append(d.answers, a)]
          = [d EXCEPT !.requests = rest, !.running = d.running, !.doc = new,
            !.answers = Append(d.answers, a)]
    <3> DEFINE as == Append(d.answers, a)
    <3>1. d \in TypesProcs
      BY <1>2
    <3> HIDE DEF d, rest, as
    <3> QED  BY <3>1 DEF TypesProcs
  <2>11. typesProcs' = [typesProcs EXCEPT ![p] = [d EXCEPT !.requests = rest, !.running = d.running,
         !.doc = new,
                                                 !.answers = Append(d.answers, a)]]
    BY <2>9, <2>10, Zenon
  <2> QED  BY <2>1, <2>5, <2>6, <2>7, <2>8, <2>11, <1>6
<1> QED  BY <1>7, <1>8

LEMMA TypesEditStep ==
  ASSUME TypesSensible, TypesInv, NEW r \in Types!Roots, NEW text \in Texts \cup {NoText},
    Types!Edit(r, text)
  PROVE  TypesInv'
<1>1. /\ typesChanges < MaxTypeEdits /\ typesChanges' = typesChanges + 1
      /\ typesSource' = [typesSource EXCEPT ![r] = text]
      /\ UNCHANGED <<typesHashed, typesPart, typesStep, typesMine, typesClosing, typesPool,
         typesPoolLock, typesProcs>>
      /\ \A c \in Tenants : RootOf[c] = r => typesStep[c] = "idle"
  BY DEF Types!Edit, TypesSensible
<1>2. TypesTypeInv'
  BY <1>1 DEF TypesInv, TypesTypeInv, TypesVersions, TypesSensible
<1>3. TypesFreshInv'
  BY <1>1 DEF TypesInv, TypesTypeInv, TypesFreshInv
<1>4. TypesBindInv' /\ TypesLockInv' /\ Types!PartIsOfItsText'
  BY <1>1 DEF TypesInv, TypesBindInv, TypesLockInv, TypesHolds, TypesAsking, TypesEnding,
    Types!PartIsOfItsText
<1>5. TypesAskInv'
  <2> SUFFICES ASSUME NEW p \in DOMAIN typesProcs PROVE TypesAskOf(p)'
    BY <1>1 DEF TypesAskInv
  <2>1. TypesSame(p) /\ TypesAskOf(p)
    BY <1>1 DEF TypesInv, TypesAskInv, TypesSame, TypesHolds
  <2> QED  BY <1>1, <2>1, TypesAskOfSame DEF TypesInv
<1>6. TypesPoolInv'
  BY <1>1 DEF TypesInv, TypesPoolInv, Types!PoolIsBounded, Types!InPool
<1> QED  BY <1>2, <1>3, <1>4, <1>5, <1>6 DEF TypesInv

LEMMA TypesStepOf == ASSUME TypesSensible, TypesInv, Types!Next PROVE TypesInv'
BY TypesAskStep, TypesGetStep, TypesEvictStep, TypesCheckStep, TypesWriteStep, TypesReceiveStep,
  TypesTimeOutStep, TypesTimedOutStep, TypesLeaveStep,
   TypesLeftStep, TypesServeStep, TypesDiesStep, TypesEditStep DEF Types!Next

LEMMA TypesStutterOf == ASSUME TypesInv, UNCHANGED Types!vars PROVE TypesInv'
<1>1. /\ TypesCallersStay /\ UNCHANGED typesProcs
  BY DEF Types!vars, TypesCallersStay
<1>2. TypesTypeInv' /\ TypesBindInv' /\ TypesLockInv' /\ TypesFreshInv' /\ Types!PartIsOfItsText'
  <2>1. TypesTypeInv'
    BY <1>1 DEF TypesInv, TypesCallersStay, TypesTypeInv
  <2>2. TypesBindInv'
    BY <1>1 DEF TypesInv, TypesCallersStay, TypesBindInv, TypesAsking, TypesEnding
  <2>3. TypesLockInv'
    BY <1>1 DEF TypesInv, TypesCallersStay, TypesLockInv, TypesHolds
  <2>4. TypesFreshInv'
    BY <1>1 DEF TypesInv, TypesCallersStay, TypesFreshInv
  <2>5. Types!PartIsOfItsText'
    BY <1>1 DEF TypesInv, TypesCallersStay, Types!PartIsOfItsText
  <2> QED  BY <2>1, <2>2, <2>3, <2>4, <2>5
<1>3. TypesAskInv'
  <2> SUFFICES ASSUME NEW p \in DOMAIN typesProcs PROVE TypesAskOf(p)'
    BY <1>1 DEF TypesAskInv
  <2>1. TypesSame(p) /\ TypesAskOf(p)
    BY <1>1 DEF TypesInv, TypesAskInv, TypesSame, TypesHolds, TypesCallersStay
  <2> QED  BY <1>1, <2>1, TypesAskOfSame DEF TypesInv
<1>4. TypesPoolInv'
  BY <1>1 DEF TypesCallersStay, TypesInv, TypesPoolInv, Types!PoolIsBounded, Types!InPool
<1> QED  BY <1>2, <1>3, <1>4 DEF TypesInv

LEMMA TypesInvariant == ASSUME TypesSensible PROVE Types!Spec => []TypesInv
<1>1. Types!Init => TypesInv
  BY TypesInitInv
<1>2. TypesInv /\ [Types!Next]_Types!vars => TypesInv'
  BY TypesStepOf, TypesStutterOf
<1> QED  BY <1>1, <1>2, PTL DEF Types!Spec

(* Every variable keeps its type. *)
THEOREM TypesTypeCorrect == ASSUME TypesSensible PROVE Types!Spec => []Types!TypeOK
<1>1. TypesInv => Types!TypeOK
  <2> SUFFICES ASSUME TypesInv PROVE Types!TypeOK
    OBVIOUS
  <2>1. \A p \in DOMAIN typesProcs : typesProcs[p].lock \in Tenants \cup {Types!None}
    <3> TAKE p \in DOMAIN typesProcs
    <3>1. typesProcs[p] \in TypesProcs
      <4>1. typesProcs \in Seq(TypesProcs)
        BY DEF TypesInv, TypesTypeInv
      <4> QED  BY <4>1, TypesElementOf, Zenon
    <3> QED  BY <3>1 DEF TypesProcs
  <2> QED  BY <2>1 DEF TypesInv, TypesTypeInv, Types!TypeOK, TypesVersions, TypesTexts, TypesSteps
<1> QED  BY <1>1, TypesInvariant, PTL

(* What is cached for a digest is what a service found in that very text,  *)
(* or nothing: no answer is taken by a request it does not answer, however *)
(* services are closed, evicted and started again under a request.         *)
THEOREM TypesPartIsAlwaysOfItsText == ASSUME TypesSensible
  PROVE Types!Spec => []Types!PartIsOfItsText
<1>1. TypesInv => Types!PartIsOfItsText
  BY DEF TypesInv
<1> QED  BY <1>1, TypesInvariant, PTL

(* The pool is never over its limit, has one service for a root, and no    *)
(* process that nobody told to end runs outside it.                        *)
THEOREM TypesPoolIsAlwaysBounded == ASSUME TypesSensible PROVE Types!Spec => []Types!PoolIsBounded
<1>1. TypesInv => Types!PoolIsBounded
  BY DEF TypesInv, TypesPoolInv
<1> QED  BY <1>1, TypesInvariant, PTL

(* The variables of the instance, by either name. *)
LEMMA TypesVarsAre == TypesVars' = TypesVars <=> Types!vars' = Types!vars
BY DEF TypesVars, Types!vars

-----------------------------------------------------------------------------
(* Side by side: the scene stays, and its component keeps its own laws.    *)

LEMMA ObserverScene ==
  HostSpec => /\ Playing("observer") => Observer!Spec /\ []Playing("observer")
              /\ ~Playing("observer") => []~Playing("observer")
<1>1. HostInit /\ Playing("observer") => Observer!Init
  BY DEF HostInit, Serves, Playing
<1>2. [HostNext]_HostVars /\ Playing("observer")
        => [Observer!Next]_Observer!vars /\ Playing("observer")'
  BY ObserverVarsAre, ServedVarsAre, TypesVarsAre DEF HostNext, HostVars, HostOwn, Serves, Playing
<1>3. [HostNext]_HostVars /\ ~Playing("observer") => ~Playing("observer")'
  BY DEF HostNext, HostVars, Serves, Playing
<1> QED  BY <1>1, <1>2, <1>3, PTL DEF HostSpec, Observer!Spec

LEMMA ServingScene ==
  HostSpec => /\ Serves => Served!Spec /\ []Serves
              /\ ~Serves => []~Serves
<1>1. HostInit /\ Serves => Served!Init
  BY DEF HostInit, Serves, Playing
<1>2. [HostNext]_HostVars /\ Serves
        => [Served!Next]_Served!vars /\ Serves'
  BY ObserverVarsAre, ServedVarsAre, TypesVarsAre DEF HostNext, HostVars, HostOwn, Serves, Playing
<1>3. [HostNext]_HostVars /\ ~Serves => ~Serves'
  BY DEF HostNext, HostVars, Serves, Playing
<1> QED  BY <1>1, <1>2, <1>3, PTL DEF HostSpec, Served!Spec

LEMMA TypesScene ==
  HostSpec => /\ Playing("types") => Types!Spec /\ []Playing("types")
              /\ ~Playing("types") => []~Playing("types")
<1>1. HostInit /\ Playing("types") => Types!Init
  BY DEF HostInit, Serves, Playing
<1>2. [HostNext]_HostVars /\ Playing("types")
        => [Types!Next]_Types!vars /\ Playing("types")'
  BY ObserverVarsAre, ServedVarsAre, TypesVarsAre DEF HostNext, HostVars, HostOwn, Serves, Playing
<1>3. [HostNext]_HostVars /\ ~Playing("types") => ~Playing("types")'
  BY DEF HostNext, HostVars, Serves, Playing
<1> QED  BY <1>1, <1>2, <1>3, PTL DEF HostSpec, Types!Spec

(* The page, the servers and the services of types keep their types,       *)
(* however many processes and callers there are.                           *)
THEOREM HostAlwaysTyped ==
  ASSUME ObserverSensible, ServedSensible, TypesSensible
  PROVE  HostSpec => []HostTyped
<1>1. /\ ~Playing("observer") \/ Observer!TypeOK
      /\ ~Serves \/ Served!TypeOK
      /\ ~Playing("types") \/ Types!TypeOK
      => HostTyped
  BY DEF HostTyped
<1>2. HostSpec => [](~Playing("observer") \/ Observer!TypeOK)
  BY ObserverScene, ObserverTypeCorrect, PTL
<1>3. HostSpec => [](~Serves \/ Served!TypeOK)
  BY ServingScene, ServedTypeCorrect, PTL
<1>4. HostSpec => [](~Playing("types") \/ Types!TypeOK)
  BY TypesScene, TypesTypeCorrect, PTL
<1> QED  BY <1>1, <1>2, <1>3, <1>4, PTL

(* The mirror, the stream and the lease of the browser are as they should, *)
(* if the worker ends when it is joined and does not die at its start, and *)
(* no observation raises after it took the events.                         *)
THEOREM BrowserAlwaysHolds ==
  ASSUME ObserverSensible
  PROVE  HostSpec => []BrowserHolds
<1>1. /\ Observer!FramesAreTheRing /\ Observer!NothingLeftBehind /\ Observer!ActiveIsReceived
      /\ Observer!EventsAreAccounted /\ Observer!BrowserIsLeased
      => BrowserHolds
  BY DEF BrowserHolds
<1>2. ~Playing("observer") => BrowserHolds
  BY DEF BrowserHolds
<1>3. Observer!Spec => /\ []Observer!FramesAreTheRing /\ []Observer!NothingLeftBehind
                       /\ []Observer!ActiveIsReceived /\ []Observer!EventsAreAccounted
                       /\ []Observer!BrowserIsLeased
  BY ObserverFramesAreAlwaysTheRing, ObserverNothingIsLeftBehind, ObserverActiveIsAlwaysReceived,
     ObserverEventsAreAlwaysAccounted, ObserverBrowserIsAlwaysLeased
<1> QED  BY <1>1, <1>2, <1>3, ObserverScene, PTL

(* Every line is answered once, and what an answer rests on is as it is    *)
(* said to be, if at most one server traces and one compacts.              *)
THEOREM ServingAlwaysHolds ==
  ASSUME ServedSensible, ServedNoTwoTracers, ServedNoTwoCompactors, TypesSensible
  PROVE  HostSpec => []ServingHolds
<1> DEFINE S == /\ Served!OneReplyPerLine /\ Served!ReadsLeaveNothing /\ Served!OneTrace
                /\ Served!NewestAreKept /\ Served!PageShowsActivity
           T == Types!PartIsOfItsText /\ Types!PoolIsBounded
<1>1. (~Serves \/ S) /\ (~Playing("types") \/ T) => ServingHolds
  BY DEF ServingHolds
<1>2. HostSpec => [](~Serves \/ S)
  BY ServingScene, ServedEveryLineIsAnsweredOnce, ServedReadsAlwaysLeaveNothing,
    ServedOneTraceAtATime,
     ServedNewestAreAlwaysKept, ServedPageAlwaysShowsActivity, PTL
<1>3. HostSpec => [](~Playing("types") \/ T)
  BY TypesScene, TypesPartIsAlwaysOfItsText, TypesPoolIsAlwaysBounded, PTL
<1> QED  BY <1>1, <1>2, <1>3, PTL
=============================================================================

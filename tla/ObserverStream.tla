--------------------------- MODULE ObserverStream ---------------------------
(***************************************************************************)
(* The browser twin of src/habitat/ui/browser_provider.py: runtimes that   *)
(* lease one shared browser, and the session of one of them, whose page is *)
(* mirrored to frame files by a worker thread, by callbacks, or by         *)
(* snapshots.                                                              *)
(*                                                                         *)
(* The main thread and the worker share the session record.  A frame is    *)
(* written under frame_lock; closed, the transport and the claim that the  *)
(* stream is active are assigned without it.                               *)
(***************************************************************************)
EXTENDS Integers, FiniteSets

CONSTANTS
  Runtimes,       \* the BrowserRuntimes of the process
  Main,           \* the one whose session is followed
  Ring,           \* _FRAME_RING
  Limit,          \* _EVENT_BUFFER_LIMIT
  Window,         \* how many events an observation returns
  MaxFrames, MaxEvents, MaxSessions, MaxCrashes,
  StreamHazards   \* "slow worker": the thread outlives its joins;
                  \* "dies at start": it fails between ready and the claim;
                  \* "failed capture": an observation raises after it took the events

VARIABLES
  browser,        \* "down", "bare" or "debuggable": with the DevTools port
  leased,         \* runtimes that count in _SHARED_USERS
  main,           \* where the call of the main thread stands
  opens,          \* sessions opened
  worker,         \* the screencast thread
  stopping,       \* _stop is set
  started,        \* the stream was confirmed
  lock,           \* the worker is inside frame_lock
  closed, mode, active,     \* of the session
  seq, streamSeq, last,     \* frame_seq, stream_seq, last_frame_path
  torn,           \* a frame of this session could not be written
  frames, meta,   \* the files: frame numbers, and whether there is a stream.json
  buffered, dropped, since, \* console events, those overflowed, those since the last observe
  seen,           \* what the last observation said of them
  crashes

vars == <<browser, leased, main, opens, worker, stopping, started, lock, closed, mode, active,
          seq, streamSeq, last, torn, frames, meta, buffered, dropped, since, seen, crashes>>

files == <<seq, streamSeq, last, torn, frames, meta>>
shared == <<browser, leased>>
console == <<buffered, dropped, since, seen>>

Quiet == [reported |-> 0, dropped |-> 0, since |-> 0]

Init ==
  /\ browser = "down" /\ leased = {} /\ main = "idle" /\ opens = 0 /\ crashes = 0
  /\ worker = "none" /\ stopping = FALSE /\ started = FALSE /\ lock = FALSE
  /\ closed = TRUE /\ mode = "snapshot" /\ active = FALSE
  /\ seq = 0 /\ streamSeq = 0 /\ last = 0 /\ torn = FALSE /\ frames = {} /\ meta = FALSE
  /\ buffered = 0 /\ dropped = 0 /\ since = 0 /\ seen = Quiet

(***************************************************************************)
(* The shared browser: _ensure_browser, close and _close_shared_browser.   *)
(* The launch with the port may fail and be repeated without it.           *)
(***************************************************************************)
Ensure(r) ==
  /\ browser' \in IF browser = "down" THEN {"bare", "debuggable"} ELSE {browser}
  /\ leased' = leased \cup {r}

Acquire(r) ==
  /\ r # Main /\ r \notin leased /\ main # "down"
  /\ Ensure(r)
  /\ UNCHANGED <<main, opens, worker, stopping, started, lock, closed, mode, active, files,
                 console, crashes>>

Release(r) ==
  /\ r \in leased /\ main # "down"
  /\ r = Main => main = "idle"
  /\ leased' = leased \ {r}
  /\ browser' = IF leased' = {} THEN "down" ELSE browser
  /\ UNCHANGED <<main, opens, worker, stopping, started, lock, closed, mode, active, files,
                 console, crashes>>

(* One frame: written, named, listed in stream.json; the one Ring before   *)
(* it is deleted.                                                          *)
Publish(n) ==
  /\ frames' = (frames \cup {n}) \ {n - Ring}
  /\ last' = n /\ meta' = TRUE /\ UNCHANGED torn

Tear == /\ torn' = TRUE /\ UNCHANGED <<frames, last, meta>>

(* The main thread writes a frame in one go: it holds the lock throughout. *)
WriteFrame(stream) ==
  /\ ~lock /\ seq < MaxFrames
  /\ seq' = seq + 1
  /\ streamSeq' = IF stream THEN streamSeq + 1 ELSE streamSeq

(***************************************************************************)
(* open: the page, its first observation, and the transport.               *)
(***************************************************************************)
Open ==
  /\ main = "idle" /\ opens < MaxSessions
  /\ Ensure(Main)
  /\ opens' = opens + 1 /\ main' = "loading"
  /\ worker' = "none" /\ stopping' = FALSE /\ started' = FALSE
  /\ closed' = FALSE /\ mode' = "snapshot" /\ active' = FALSE
  /\ seq' = 0 /\ streamSeq' = 0 /\ last' = 0 /\ torn' = FALSE
  /\ buffered' = 0 /\ dropped' = 0 /\ since' = 0 /\ seen' = Quiet
  /\ UNCHANGED <<lock, frames, meta, crashes>>

Least(a, b) == IF a < b THEN a ELSE b

(* The event part of observe.                                              *)
TakeEvents ==
  /\ seen' = [reported |-> Least(buffered, Window), dropped |-> dropped, since |-> since]
  /\ buffered' = 0 /\ dropped' = 0 /\ since' = 0

Loaded ==
  /\ main = "loading"
  /\ TakeEvents
  /\ WriteFrame(FALSE) /\ Publish(seq')
  /\ main' = "starting"
  /\ UNCHANGED <<shared, opens, worker, stopping, started, lock, closed, mode, active, crashes>>

(* The page, its observation or its first frame fails: open undoes itself. *)
LoadFails ==
  /\ main = "loading"
  /\ main' = "joining" /\ closed' = TRUE /\ active' = FALSE
  /\ UNCHANGED <<shared, opens, worker, stopping, started, lock, mode, files, console, crashes>>

StartWorker ==
  /\ main = "starting" /\ browser = "debuggable"
  /\ worker' = "connecting" /\ main' = "awaiting"
  /\ UNCHANGED <<shared, opens, stopping, started, lock, closed, mode, active, files, console,
                 crashes>>

(* start: ready in time, ready because it failed, or not ready in time.    *)
Await ==
  /\ main = "awaiting"
  /\ \/ started /\ main' = "claiming" /\ UNCHANGED stopping
     \/ ~started /\ main' = "stopping" /\ stopping' = TRUE
  /\ UNCHANGED <<shared, opens, worker, started, lock, closed, mode, active, files, console,
                 crashes>>

Joinable == worker \in {"none", "dead"} \/ "slow worker" \in StreamHazards

GiveUp ==
  /\ main = "stopping" /\ Joinable
  /\ main' = IF started THEN "claiming" ELSE "falling back"
  /\ UNCHANGED <<shared, opens, worker, stopping, started, lock, closed, mode, active, files,
                 console, crashes>>

Claim ==
  /\ main = "claiming"
  /\ mode' = "live" /\ active' = TRUE /\ meta' = TRUE /\ main' = "open"
  /\ UNCHANGED <<shared, opens, worker, stopping, started, lock, closed, seq, streamSeq, last,
                 torn, frames, console, crashes>>

(* The callbacks of Playwright, or nothing: snapshots only.                *)
FallBack ==
  /\ main = "falling back" \/ main = "starting"
  /\ \/ mode' = "cooperative" /\ active' = TRUE
     \/ mode' = "snapshot" /\ active' = FALSE
  /\ meta' = TRUE /\ main' = "open"
  /\ UNCHANGED <<shared, opens, worker, stopping, started, lock, closed, seq, streamSeq, last,
                 torn, frames, console, crashes>>

(***************************************************************************)
(* The worker: _RawCDPScreencast._run and the callbacks it is given.       *)
(***************************************************************************)
Connected ==
  /\ worker = "connecting"
  /\ IF stopping THEN worker' = "dead" /\ UNCHANGED started
     ELSE worker' = "receiving" /\ started' = TRUE
  /\ UNCHANGED <<shared, main, opens, stopping, lock, closed, mode, active, files, console, crashes>>

(* A recv under way may still deliver after the stop. *)
FrameArrives ==
  /\ worker = "receiving" /\ ~closed
  /\ WriteFrame(TRUE)
  /\ worker' = "writing" /\ lock' = TRUE
  /\ UNCHANGED <<shared, main, opens, stopping, started, closed, mode, active, last, torn, frames,
                 meta, console, crashes>>

FrameWritten ==
  /\ worker = "writing"
  /\ Publish(seq)
  /\ worker' = "receiving" /\ lock' = FALSE
  /\ UNCHANGED <<shared, main, opens, stopping, started, closed, mode, active, seq, streamSeq,
                 console, crashes>>

MayDie == \/ main \notin {"awaiting", "claiming", "stopping"}
          \/ "dies at start" \in StreamHazards \/ ~started

(* The socket or a write fails; on_error is called unless it was stopped.  *)
Fails ==
  /\ worker \in {"connecting", "receiving", "writing"} /\ MayDie
  /\ IF worker = "writing" THEN Tear ELSE UNCHANGED <<torn, frames, last, meta>>
  /\ lock' = FALSE
  /\ IF stopping
     THEN worker' = "dead" /\ started' = FALSE /\ UNCHANGED active
     ELSE worker' = "failing" /\ active' = FALSE /\ UNCHANGED started
  /\ UNCHANGED <<shared, main, opens, stopping, closed, mode, seq, streamSeq, console, crashes>>

(* The end of on_error: stream.json is written whether or not the session  *)
(* was closed meanwhile.                                                   *)
Degraded ==
  /\ worker = "failing"
  /\ meta' = TRUE /\ worker' = "dead" /\ started' = FALSE
  /\ UNCHANGED <<shared, main, opens, stopping, lock, closed, mode, active, seq, streamSeq, last,
                 torn, frames, console, crashes>>

SeesStop ==
  /\ worker = "receiving" /\ stopping
  /\ worker' = "dead" /\ started' = FALSE
  /\ UNCHANGED <<shared, main, opens, stopping, lock, closed, mode, active, files, console, crashes>>

(***************************************************************************)
(* A session that is open.                                                 *)
(***************************************************************************)
Event ==
  /\ main = "open" /\ since < MaxEvents
  /\ since' = since + 1
  /\ IF buffered >= Limit THEN dropped' = dropped + 1 /\ UNCHANGED buffered
     ELSE buffered' = buffered + 1 /\ UNCHANGED dropped
  /\ UNCHANGED <<shared, main, opens, worker, stopping, started, lock, closed, mode, active, files,
                 seen, crashes>>

(* _ensure_observer_frame: a stream that ever produced a frame is trusted  *)
(* with the next, a recent frame serves, else a snapshot is taken.         *)
Observe ==
  /\ main = "open"
  /\ \/ /\ TakeEvents
        /\ \/ mode = "live" /\ streamSeq > 0 /\ last # 0
           \/ last # 0 /\ active
        /\ UNCHANGED files
     \/ /\ ~(mode = "live" /\ streamSeq > 0 /\ last # 0)
        /\ WriteFrame(FALSE)
        /\ \/ TakeEvents /\ Publish(seq')
           \/ /\ "failed capture" \in StreamHazards
              /\ buffered' = 0 /\ dropped' = 0 /\ UNCHANGED <<since, seen>> /\ Tear
  /\ UNCHANGED <<shared, main, opens, worker, stopping, started, lock, closed, mode, active, crashes>>

(* A callback while the main thread pumps: its errors are swallowed.       *)
Callback ==
  /\ main = "open" /\ mode = "cooperative" /\ active
  /\ WriteFrame(TRUE)
  /\ Publish(seq') \/ Tear
  /\ UNCHANGED <<shared, main, opens, worker, stopping, started, lock, closed, mode, active,
                 console, crashes>>

Close ==
  /\ main = "open"
  /\ main' = "joining" /\ closed' = TRUE /\ active' = FALSE
  /\ stopping' = (mode = "live")
  /\ UNCHANGED <<shared, opens, worker, started, lock, mode, files, console, crashes>>

(* Sensitivity: the files are deleted while the thread may still write.    *)
CleanUpAtOnce ==
  /\ main = "joining"
  /\ main' = "idle" /\ frames' = {} /\ meta' = FALSE /\ last' = 0
  /\ UNCHANGED <<shared, opens, worker, stopping, started, lock, closed, mode, active, seq,
                 streamSeq, torn, console, crashes>>

(* The thread is joined, the context closed, and the files are deleted.    *)
CleanUp ==
  /\ main = "joining" /\ Joinable
  /\ main' = "idle" /\ frames' = {} /\ meta' = FALSE /\ last' = 0
  /\ UNCHANGED <<shared, opens, worker, stopping, started, lock, closed, mode, active, seq,
                 streamSeq, torn, console, crashes>>

(* The process dies; a new BrowserRuntime deletes what its mirror left.    *)
Crash ==
  /\ main # "down" /\ crashes < MaxCrashes
  /\ crashes' = crashes + 1 /\ main' = "down"
  /\ browser' = "down" /\ leased' = {} /\ worker' = "none" /\ lock' = FALSE
  /\ stopping' = FALSE /\ started' = FALSE /\ closed' = TRUE /\ active' = FALSE
  /\ mode' = "snapshot" /\ last' = 0
  /\ UNCHANGED <<opens, seq, streamSeq, torn, frames, meta, console>>

Restart ==
  /\ main = "down"
  /\ main' = "idle" /\ frames' = {} /\ meta' = FALSE
  /\ UNCHANGED <<shared, opens, worker, stopping, started, lock, closed, mode, active, seq,
                 streamSeq, last, torn, console, crashes>>

Next ==
  \/ \E r \in Runtimes : Acquire(r) \/ Release(r)
  \/ Open \/ Loaded \/ LoadFails \/ StartWorker \/ Await \/ GiveUp \/ Claim \/ FallBack
  \/ Connected \/ FrameArrives \/ FrameWritten \/ Fails \/ Degraded \/ SeesStop
  \/ Event \/ Observe \/ Callback \/ Close \/ CleanUp \/ Crash \/ Restart

Spec == Init /\ [][Next]_vars

-----------------------------------------------------------------------------
(* Every variable keeps its type. *)
TypeOK ==
  /\ browser \in {"down", "bare", "debuggable"} /\ leased \subseteq Runtimes
  /\ main \in {"idle", "loading", "starting", "awaiting", "stopping", "claiming",
               "falling back", "open", "joining", "down"}
  /\ worker \in {"none", "connecting", "receiving", "writing", "failing", "dead"}
  /\ {stopping, started, lock, closed, active, torn, meta} \subseteq BOOLEAN
  /\ mode \in {"snapshot", "cooperative", "live"}
  /\ {seq, streamSeq, last} \subseteq 0..MaxFrames /\ frames \subseteq 1..MaxFrames
  /\ {buffered, dropped, since} \subseteq 0..MaxEvents
  /\ opens \in 0..MaxSessions /\ crashes \in 0..MaxCrashes

(* The frame a session names is on disk, and while no write failed the     *)
(* files are exactly the last Ring frames: _write_observer_frame_bytes,    *)
(* called from two threads.                                                *)
FramesAreTheRing ==
  /\ last # 0 => last \in frames
  /\ (closed \/ torn \/ lock) \/ frames = {n \in 1..seq : n + Ring > seq}

(* When no session is open nothing of its screen is left on disk, whatever *)
(* the worker was doing: close_session, open's failure, BrowserRuntime().  *)
NothingLeftBehind == main = "idle" => frames = {} /\ ~meta

(* A live stream that is reported active has a thread receiving it.        *)
ActiveIsReceived == main = "open" /\ mode = "live" /\ active => worker \in {"receiving", "writing"}

(* An observation with fewer events than its window lists all there were.  *)
EventsAreAccounted == seen.reported < Window => seen.reported + seen.dropped = seen.since

(* The browser runs while a runtime leases it and not after; a session has *)
(* a browser under it.                                                     *)
BrowserIsLeased ==
  /\ (browser # "down") = (leased # {})
  /\ ~closed => Main \in leased
=============================================================================

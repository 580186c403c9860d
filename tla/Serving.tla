-------------------------------- MODULE Serving --------------------------------
(***************************************************************************)
(* The agent protocol over a pipe: serve_stdio of src/habitat/server.py    *)
(* and HabitatProtocol.handle of protocol.py, the activity and the trace   *)
(* rows a call leaves, the retention that deletes trace rows, and the      *)
(* Observatory that streams the activity (observatory_frontend.py).        *)
(*                                                                         *)
(* A server is a process; the processes of a workspace share its database. *)
(* A line arrives in pieces no longer than the reader asks for: one that   *)
(* is too long is refused and what is left of it is drained.               *)
(***************************************************************************)
EXTENDS Integers, Sequences, FiniteSets, FiniteSetsExt

CONSTANTS
  Servers,
  Sends,          \* [Servers -> the kinds of line its client sends]
  MaxLines,       \* lines a client sends to a server
  Pieces,         \* readline calls a line that is too long takes
  Kept,           \* max_trace_calls of the retention policy
  Watched,        \* whether a page of the Observatory is open
  Batch,          \* activity rows of one poll of the stream
  MaxCrashes, MaxRows,
  ServingHazards  \* "two tracers": start_trace of two servers at once;
                  \* "two compactors": compact of two servers at once

VARIABLES
  wire,           \* pieces not read yet, by server: [line, kind, ends]
  sent,           \* lines sent to a server
  call,           \* what a server is handling: [at, line, kind, ok, trace, drop]
  replies,        \* [line, ok], by server; line 0 for the id null
  activity,       \* activity_events
  traces,         \* trace_sessions: [active]
  rows, made,     \* trace_calls: [seq, trace, kind], and the last seq
  viewer,         \* the page: [base, seq, shown, linked]
  dead,           \* calls that were under way in a crash
  crashes

vars == <<wire, sent, call, replies, activity, traces, rows, made, viewer, dead, crashes>>

ReadOnly == {"read"}                      \* OPERATION_REGISTRY.read_only_names
Control == {"start", "stop"}              \* workspace.trace.*
Kinds == ReadOnly \cup Control \cup {"work", "compact", "malformed", "long"}
Silent(kind) == kind \in ReadOnly \cup Control
Waiting == [at |-> "reading", line |-> 0, kind |-> "read", ok |-> TRUE, trace |-> 0, drop |-> 0]

Init ==
  /\ wire = [s \in Servers |-> <<>>] /\ sent = [s \in Servers |-> 0]
  /\ call = [s \in Servers |-> Waiting] /\ replies = [s \in Servers |-> <<>>]
  /\ activity = <<>> /\ traces = <<>> /\ rows = {} /\ made = 0
  /\ viewer = [base |-> 0, seq |-> 0, shown |-> <<>>, linked |-> TRUE]
  /\ dead = {} /\ crashes = 0

Move(s, to) == call' = [call EXCEPT ![s].at = to]

(* A client writes a line.                                                 *)
Send(s, kind) ==
  /\ sent[s] < MaxLines
  /\ sent' = [sent EXCEPT ![s] = @ + 1]
  /\ wire' = [wire EXCEPT ![s] = @ \o
       IF kind = "long"
       THEN [i \in 1..Pieces |-> [line |-> sent'[s], kind |-> "long", ends |-> i = Pieces]]
       ELSE <<[line |-> sent'[s], kind |-> kind, ends |-> TRUE]>>]
  /\ UNCHANGED <<call, replies, activity, traces, rows, made, viewer, dead, crashes>>

(* _read_wire_line and parse_json_request; handle says what it starts.     *)
Emit(s, kind, phase) ==
  activity' = IF Silent(kind) THEN activity ELSE Append(activity, [by |-> s, line |-> call'[s].line, phase |-> phase])

ReadLine(s) ==
  /\ call[s].at = "reading" /\ wire[s] # <<>>
  /\ LET piece == wire[s][1]
         refused == piece.kind \in {"malformed", "long"}
     IN /\ call' = [call EXCEPT ![s] =
              [at |-> IF ~piece.ends THEN "draining" ELSE IF refused THEN "replying" ELSE "dispatching",
               line |-> IF refused THEN 0 ELSE piece.line, kind |-> piece.kind, ok |-> ~refused,
               trace |-> 0, drop |-> 0]]
        /\ wire' = [wire EXCEPT ![s] = Tail(@)]
        /\ IF refused THEN UNCHANGED activity ELSE Emit(s, piece.kind, "started")
  /\ UNCHANGED <<sent, replies, traces, rows, made, viewer, dead, crashes>>

(* Sensitivity: one more read is taken for the rest of the line.           *)
DrainOnce(s) ==
  /\ call[s].at = "draining" /\ wire[s] # <<>>
  /\ wire' = [wire EXCEPT ![s] = Tail(@)]
  /\ Move(s, "replying")
  /\ UNCHANGED <<sent, replies, activity, traces, rows, made, viewer, dead, crashes>>

(* _drain_wire_line. *)
Drain(s) ==
  /\ call[s].at = "draining" /\ wire[s] # <<>>
  /\ wire' = [wire EXCEPT ![s] = Tail(@)]
  /\ Move(s, IF wire[s][1].ends THEN "replying" ELSE "draining")
  /\ UNCHANGED <<sent, replies, activity, traces, rows, made, viewer, dead, crashes>>

-----------------------------------------------------------------------------
(* active_trace: the one that was started last.                            *)
Active == Max({t \in DOMAIN traces : traces[t].active} \cup {0})
Dispatching(s, kind) == call[s].at = "dispatching" /\ call[s].kind = kind
Done(s, ok) == call' = [call EXCEPT ![s].at = "completing", ![s].ok = ok]
Alone(s, step) == \A t \in Servers \ {s} : call[t].at # step

(* Any other operation, which may fail.                                    *)
Work(s) ==
  /\ call[s].at = "dispatching" /\ call[s].kind \in {"read", "work"}
  /\ \E ok \in BOOLEAN : Done(s, ok)
  /\ UNCHANGED <<wire, sent, replies, activity, traces, rows, made, viewer, dead, crashes>>

(* trace_start: no trace may be active, and then one is.                   *)
StartTrace(s) ==
  /\ Dispatching(s, "start")
  /\ IF Active # 0 THEN Done(s, FALSE)
     ELSE /\ "two tracers" \in ServingHazards \/ Alone(s, "starting")
          /\ Move(s, "starting")
  /\ UNCHANGED <<wire, sent, replies, activity, traces, rows, made, viewer, dead, crashes>>

CreateTrace(s) ==
  /\ call[s].at = "starting"
  /\ traces' = Append(traces, [active |-> TRUE]) /\ Done(s, TRUE)
  /\ UNCHANGED <<wire, sent, replies, activity, rows, made, viewer, dead, crashes>>

StopTrace(s) ==
  /\ Dispatching(s, "stop")
  /\ IF Active = 0 THEN Done(s, FALSE) /\ UNCHANGED traces
     ELSE traces' = [traces EXCEPT ![Active].active = FALSE] /\ Done(s, TRUE)
  /\ UNCHANGED <<wire, sent, replies, activity, rows, made, viewer, dead, crashes>>

(* retention.compact: what is too much is counted, then the oldest go.     *)
PlanCompact(s) ==
  /\ Dispatching(s, "compact")
  /\ "two compactors" \in ServingHazards \/ Alone(s, "compacting")
  /\ call' = [call EXCEPT ![s].at = "compacting",
                          ![s].drop = IF Cardinality(rows) > Kept THEN Cardinality(rows) - Kept ELSE 0]
  /\ UNCHANGED <<wire, sent, replies, activity, traces, rows, made, viewer, dead, crashes>>

Oldest(n) == {r \in rows : Cardinality({q \in rows : q.seq < r.seq}) < n}

Compact(s) ==
  /\ call[s].at = "compacting"
  /\ rows' = rows \ Oldest(call[s].drop) /\ Done(s, TRUE)
  /\ UNCHANGED <<wire, sent, replies, activity, traces, made, viewer, dead, crashes>>

-----------------------------------------------------------------------------
Complete(s) ==
  /\ call[s].at = "completing"
  /\ Move(s, "tracing") /\ Emit(s, call[s].kind, "completed")
  /\ UNCHANGED <<wire, sent, replies, traces, rows, made, viewer, dead, crashes>>

(* record_trace_call: the active trace is looked up, then its row written. *)
FindTrace(s) ==
  /\ call[s].at = "tracing"
  /\ IF Silent(call[s].kind) \/ Active = 0 THEN Move(s, "replying")
     ELSE call' = [call EXCEPT ![s].at = "recording", ![s].trace = Active]
  /\ UNCHANGED <<wire, sent, replies, activity, traces, rows, made, viewer, dead, crashes>>

Record(s) ==
  /\ call[s].at = "recording" /\ made < MaxRows
  /\ made' = made + 1
  /\ rows' = rows \cup {[seq |-> made', trace |-> call[s].trace, kind |-> call[s].kind]}
  /\ Move(s, "replying")
  /\ UNCHANGED <<wire, sent, replies, activity, traces, viewer, dead, crashes>>

Reply(s) ==
  /\ call[s].at = "replying"
  /\ replies' = [replies EXCEPT ![s] = Append(@, [line |-> call[s].line, ok |-> call[s].ok])]
  /\ call' = [call EXCEPT ![s] = Waiting]
  /\ UNCHANGED <<wire, sent, activity, traces, rows, made, viewer, dead, crashes>>

(* The process dies; its client opens another with a new pipe.             *)
Crash(s) ==
  /\ call[s].at # "reading" /\ crashes < MaxCrashes
  /\ crashes' = crashes + 1 /\ dead' = dead \cup {[by |-> s, line |-> call[s].line]}
  /\ call' = [call EXCEPT ![s] = Waiting]
  /\ wire' = [wire EXCEPT ![s] = <<>>] /\ replies' = [replies EXCEPT ![s] = <<>>]
  /\ sent' = [sent EXCEPT ![s] = MaxLines]
  /\ UNCHANGED <<activity, traces, rows, made, viewer>>

-----------------------------------------------------------------------------
(* The page takes a snapshot, then the events after it; a stream that      *)
(* breaks is opened again after the last one shown.                        *)
Snapshot ==
  /\ Watched /\ viewer.base < Len(activity) /\ viewer.shown = <<>>
  /\ viewer' = [base |-> Len(activity), seq |-> Len(activity), shown |-> <<>>, linked |-> TRUE]
  /\ UNCHANGED <<wire, sent, call, replies, activity, traces, rows, made, dead, crashes>>

(* activity_since, in one read transaction. *)
Since(seq) == SubSeq(activity, seq + 1, Min({Len(activity), seq + Batch}))

Poll ==
  /\ Watched /\ viewer.linked /\ viewer.seq < Len(activity)
  /\ \E n \in 0..Len(Since(viewer.seq)) :
       viewer' = [viewer EXCEPT !.seq = @ + n, !.shown = @ \o SubSeq(Since(viewer.seq), 1, n),
                                !.linked = (n = Len(Since(viewer.seq)))]
  /\ UNCHANGED <<wire, sent, call, replies, activity, traces, rows, made, dead, crashes>>

Reconnect ==
  /\ ~viewer.linked
  /\ viewer' = [viewer EXCEPT !.linked = TRUE]
  /\ UNCHANGED <<wire, sent, call, replies, activity, traces, rows, made, dead, crashes>>

Next ==
  \/ \E s \in Servers :
       \/ \E kind \in Sends[s] : Send(s, kind)
       \/ ReadLine(s) \/ Drain(s) \/ Work(s) \/ StartTrace(s) \/ CreateTrace(s) \/ StopTrace(s)
       \/ PlanCompact(s) \/ Compact(s) \/ Complete(s) \/ FindTrace(s) \/ Record(s) \/ Reply(s)
       \/ Crash(s)
  \/ Snapshot \/ Poll \/ Reconnect

Spec == Init /\ [][Next]_vars

-----------------------------------------------------------------------------
(* Every variable keeps its type. *)
TypeOK ==
  /\ sent \in [Servers -> 0..MaxLines] /\ made \in 0..MaxRows /\ crashes \in 0..MaxCrashes
  /\ \A s \in Servers : call[s].line \in 0..MaxLines /\ call[s].kind \in Kinds
  /\ \A r \in rows : r.trace \in DOMAIN traces

(* Every line gets one answer, in order, with its own id or with none: a   *)
(* line that is too long is one line, however many reads it took.          *)
OneReplyPerLine ==
  \A s \in Servers : wire[s] = <<>> /\ call[s] = Waiting /\ replies[s] # <<>> =>
    /\ Len(replies[s]) = sent[s]
    /\ \A i \in DOMAIN replies[s] : replies[s][i].line \in {i, 0}

(* A call that only reads leaves neither activity nor trace rows, and a    *)
(* call that does not is closed in the activity unless its process died.   *)
ReadsLeaveNothing ==
  /\ \A r \in rows : r.kind \notin ReadOnly \cup Control
  /\ \A i \in DOMAIN activity : activity[i].phase = "started" =>
       \/ [by |-> activity[i].by, line |-> activity[i].line] \in dead
       \/ \E j \in DOMAIN activity : j > i /\ activity[j] = [activity[i] EXCEPT !.phase = "completed"]
       \/ call[activity[i].by].line = activity[i].line /\ call[activity[i].by].at # "reading"

(* At most one trace is active. *)
OneTrace == Cardinality({t \in DOMAIN traces : traces[t].active}) <= 1

(* Retention leaves the newest rows, and as many as the policy keeps.      *)
NewestAreKept ==
  /\ \A r \in rows, n \in 1..made : n > r.seq => \E q \in rows : q.seq = n
  /\ Cardinality(rows) >= Min({made, Kept})

(* What the page shows is the activity since its snapshot: nothing is      *)
(* missing, repeated or out of order, however often the stream broke.      *)
PageShowsActivity == viewer.shown = SubSeq(activity, viewer.base + 1, viewer.seq)
=============================================================================

---------------------------- MODULE Verification ----------------------------
(***************************************************************************)
(* Running a project's commands: the policy decision, the provider and the *)
(* containment it attests to, the launch, the receipt, and the evidence of *)
(* failing tests that verify records and resolves.                         *)
(*                                                                         *)
(* One request runs at a time.  What the host can isolate may change       *)
(* between any two steps, and a probe may fail although the host can.      *)
(* Commands, tests and their output are external.                          *)
(***************************************************************************)
EXTENDS Naturals, FiniteSets

CONSTANTS
  PyTests,     \* test files of the project's Python suite
  JsTests,     \* tests of its npm script, which names no files
  Providers,   \* containment profiles that may be configured
  MaxNamed,    \* failures a receipt names (100)
  MaxFlips,    \* bound: changes of host, sources, policy and capabilities
  MaxRuns      \* bound: runs

Full == {"process", "filesystem", "network", "user", "capabilities"}
Partial == {"network", "user", "secrets"}
Profiles == {"trusted-local", "network-contained", "filesystem-contained"}
Capabilities == {"pytest", "unittest", "npm"}
NoPath == "none"
Idle == [pc |-> "idle"]

VARIABLES
  host,       \* what the host supports: subset of {"unshare", "bwrap", "rlimit"}
  profile,    \* containment_profile of the provider
  manifest,   \* what is configured: the provider after a restart
  mode,       \* mode of the policy
  detached,   \* is the execution root not the authoritative root
  installed,  \* available test capabilities
  broken,     \* tests that fail
  task,       \* the run under way
  evidence,   \* active test failures, with the tests they stand for
  flips, runs

world == <<host, mode, installed, broken, flips>>
setup == <<profile, manifest, detached>>
vars == <<world, setup, task, evidence, runs>>

Init ==
  /\ host = {"unshare", "bwrap", "rlimit"}
  /\ profile = "trusted-local" /\ manifest = "trusted-local"
  /\ mode \in {"trusted", "untrusted"} /\ detached \in BOOLEAN
  /\ installed \in SUBSET Capabilities /\ broken \in SUBSET (PyTests \cup JsTests)
  /\ task = Idle /\ evidence = {} /\ flips = 0 /\ runs = 0

(* The result of a probe: FALSE too when it times out.                     *)
Probe(feature) == IF feature \in host THEN {TRUE, FALSE} ELSE {FALSE}

Needs(p) == CASE p = "network-contained" -> "unshare" [] p = "filesystem-contained" -> "bwrap"

-----------------------------------------------------------------------------
(* execution_configure: probe, write the manifest, make the provider.  A   *)
(* Bubblewrap provider probes once more, and only then.                    *)
Configure(p) ==
  /\ task = Idle
  /\ p # "trusted-local" => TRUE \in Probe(Needs(p))
  /\ manifest' = p
  /\ profile' \in IF p = "filesystem-contained" THEN {p, profile} ELSE {p}
  /\ UNCHANGED <<world, detached, task, evidence, runs>>

(* Opening makes the provider of the manifest, or fails.                   *)
Restart ==
  /\ manifest = "filesystem-contained" => TRUE \in Probe("bwrap")
  /\ profile' = manifest /\ task' = Idle
  /\ UNCHANGED <<world, manifest, detached, evidence, runs>>

-----------------------------------------------------------------------------
(* evaluate_execution, of the provider that will run the command.          *)
Permitted == mode = "untrusted" => profile = "filesystem-contained"

(* The runner verify prefers.                                              *)
Preferred ==
  IF "pytest" \in installed THEN "pytest"
  ELSE IF "unittest" \in installed THEN "unittest" ELSE "npm"

Suite(cap) == IF cap = "npm" THEN JsTests ELSE PyTests

(* verify: selected are the test files the change reaches, none for the    *)
(* whole suite.  Only Python runners take files.                           *)
Verify(selected) ==
  /\ task = Idle /\ runs < MaxRuns /\ installed # {} /\ Permitted
  /\ Preferred = "npm" => selected = {}
  /\ runs' = runs + 1
  /\ task' = [pc |-> "attest", cap |-> Preferred, selected |-> selected,
              mode |-> mode, profile |-> profile]
  /\ UNCHANGED <<world, setup, evidence>>

(* containment_attestation: from probes made now, except that Bubblewrap's *)
(* own was made when the provider was.                                     *)
Claims(p, unshare, rlimit) ==
  CASE p = "trusted-local" -> {}
    [] p = "network-contained" ->
         {"secrets"} \cup (IF unshare THEN {"network", "user"} ELSE {})
           \cup (IF rlimit THEN {"limits"} ELSE {})
    [] p = "filesystem-contained" ->
         Full \cup {"secrets"} \cup (IF rlimit THEN {"limits"} ELSE {})

Attest ==
  /\ task.pc = "attest"
  /\ \E unshare \in Probe("unshare"), rlimit \in Probe("rlimit") :
       task' = [pc |-> "probe", cap |-> task.cap, selected |-> task.selected,
                mode |-> task.mode, profile |-> task.profile,
                claims |-> Claims(task.profile, unshare, rlimit)]
  /\ UNCHANGED <<world, setup, evidence, runs>>

(* The task, further on. *)
With(t, more) ==
  [f \in DOMAIN t \cup DOMAIN more |-> IF f \in DOMAIN more THEN more[f] ELSE t[f]]

LimitsRequested(t) ==
  \/ t.profile = "network-contained"
  \/ t.profile = "filesystem-contained" /\ "limits" \in t.claims

(* Sensitivity: the command runs unwrapped if it cannot be wrapped.        *)
WrappableOrNot(t, found) == TRUE

(* run_action and build_bwrap_command probe before they wrap a command.    *)
Wrappable(t, found) == t.profile = "trusted-local" \/ found

Wrap ==
  /\ task.pc = "probe"
  /\ \E found \in IF task.profile = "trusted-local" THEN {TRUE} ELSE Probe(Needs(task.profile)) :
       task' = IF /\ Wrappable(task, found)
                  /\ "limits" \in task.claims => LimitsRequested(task)
               THEN With(task, [pc |-> "launch", wrapped |-> found /\ task.profile # "trusted-local"])
               ELSE Idle
  /\ UNCHANGED <<world, setup, evidence, runs>>

(* What the process that is started is confined by.                        *)
Confined(t) ==
  (IF ~t.wrapped THEN {} ELSE IF t.profile = "network-contained" THEN Partial ELSE Full \cup {"secrets"})
    \cup (IF LimitsRequested(t) THEN {"limits"} ELSE {})

(* The limits are set in the child, or nothing starts; a wrapper the host  *)
(* no longer supports exits without starting the command.                  *)
Launch ==
  /\ task.pc = "launch"
  /\ task' = IF LimitsRequested(task) /\ "rlimit" \notin host THEN Idle
             ELSE With(task, [pc |-> "running", saw |-> broken,
                              ran |-> task.wrapped => Needs(task.profile) \in host,
                              confined |-> Confined(task)])
  /\ UNCHANGED <<world, setup, evidence, runs>>

Covered(t) == IF t.selected = {} THEN Suite(t.cap) ELSE t.selected

(* The command exits or is killed at its deadline.  Files may have changed *)
(* meanwhile: then Composite.run refuses a detached checkout's receipt.    *)
Exit(timedOut, changed) ==
  /\ task.pc = "running"
  /\ task' = IF changed /\ detached THEN Idle
             ELSE With(task, [
               pc |-> "receipt",
               failed |-> IF task.ran THEN Covered(task) \cap task.saw ELSE {},
               zero |-> task.ran /\ ~timedOut /\ Covered(task) \cap task.saw = {}])
  /\ UNCHANGED <<world, setup, evidence, runs>>

(* normalize_test_output does not know the output of an npm script.        *)
Passed(t) == t.zero /\ t.cap # "npm"

(* The path a failure is filed under: unittest does not name files.        *)
PathOf(t, test) ==
  IF t.cap = "pytest" THEN test
  ELSE IF Cardinality(t.selected) = 1 THEN CHOOSE s \in t.selected : TRUE ELSE NoPath

(* At most MaxNamed failures are named, and one record stands for the rest.*)
Failures(t, named) ==
  {[source |-> t.cap, path |-> PathOf(t, x), tests |-> {x}] : x \in named}
    \cup (IF named = t.failed THEN {}
          ELSE {[source |-> t.cap, path |-> NoPath, tests |-> t.failed \ named]})

(* An unnamed failure is filed for the exit code alone.                    *)
ExitFailure(t) ==
  [source |-> t.cap, path |-> IF Cardinality(t.selected) = 1 THEN CHOOSE s \in t.selected : TRUE ELSE NoPath,
   tests |-> t.failed]

(* Sensitivity: a whole suite that passes resolves every runner's failures.*)
ResolvedOfAnyRunner(t) ==
  {e \in evidence : t.selected = {} \/ e.path \in t.selected}

(* resolve_evidence: of the same runner for a whole suite, of the selected *)
(* files otherwise.                                                        *)
Resolved(t) ==
  {e \in evidence : IF t.selected = {} THEN e.source = t.cap ELSE e.path \in t.selected}

Record ==
  /\ task.pc = "receipt"
  /\ IF Passed(task) THEN evidence' = evidence \ Resolved(task)
     ELSE \E named \in SUBSET task.failed :
       /\ task.cap = "npm" => named = {}
       /\ task.cap # "npm" => Cardinality(named) =
            IF Cardinality(task.failed) < MaxNamed THEN Cardinality(task.failed) ELSE MaxNamed
       /\ evidence' = evidence \cup
            IF named # {} THEN Failures(task, named)
            ELSE IF task.zero THEN {} ELSE {ExitFailure(task)}
  /\ task' = Idle
  /\ UNCHANGED <<world, setup, runs>>

-----------------------------------------------------------------------------
Flip ==
  /\ flips < MaxFlips /\ flips' = flips + 1
  /\ \/ \E f \in {"unshare", "bwrap", "rlimit"} :
          host' = (IF f \in host THEN host \ {f} ELSE host \cup {f})
          /\ UNCHANGED <<mode, installed, broken>>
     \/ \E c \in Capabilities :
          installed' = (IF c \in installed THEN installed \ {c} ELSE installed \cup {c})
          /\ UNCHANGED <<host, mode, broken>>
     \/ \E x \in PyTests \cup JsTests :
          broken' = (IF x \in broken THEN broken \ {x} ELSE broken \cup {x})
          /\ UNCHANGED <<host, mode, installed>>
     \/ mode' = (IF mode = "trusted" THEN "untrusted" ELSE "trusted") /\ task = Idle
          /\ UNCHANGED <<host, installed, broken>>
  /\ UNCHANGED <<setup, task, evidence, runs>>

Next ==
  \/ \E p \in Providers : Configure(p)
  \/ \E selected \in SUBSET PyTests : Verify(selected)
  \/ Attest \/ Wrap \/ Launch \/ Record \/ Restart \/ Flip
  \/ \E timedOut, changed \in BOOLEAN : Exit(timedOut, changed)

Spec == Init /\ [][Next]_vars

-----------------------------------------------------------------------------
TypeOK ==
  /\ profile \in Profiles /\ manifest \in Profiles
  /\ mode \in {"trusted", "untrusted"}
  /\ task.pc \in {"idle", "attest", "probe", "launch", "running", "receipt"}
  /\ \A e \in evidence : e.source \in Capabilities /\ e.path \in PyTests \cup {NoPath}

(* A command that ran was confined by all that its receipt claims, and, if *)
(* the policy called the project untrusted, by a full sandbox, whatever    *)
(* the host stopped supporting between the probes and the launch.          *)
ContainmentIsReal ==
  task.pc \in {"running", "receipt"} /\ task.ran =>
    /\ task.claims \subseteq task.confined
    /\ task.mode = "untrusted" => Full \subseteq task.confined

(* The record of a failing test is resolved only by a run that ran that    *)
(* test and saw it pass.                                                   *)
FailureResolvedOnlyByPassStep ==
  \A e \in evidence \ evidence' : e.tests \cap task.saw = {} /\ e.tests \subseteq Covered(task)

FailureResolvedOnlyByPass == [][FailureResolvedOnlyByPassStep]_vars
=============================================================================

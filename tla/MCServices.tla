------------------------------ MODULE MCServices ------------------------------
(***************************************************************************)
(* The compositions of services, and two components that are in none of    *)
(* them, all side by side (Stage): one scene is one component.             *)
(***************************************************************************)
EXTENDS SourceServices, RuntimeServices, KnowledgeServices, HostServices, Naturals, Sequences

CONSTANT Scenes   \* the components checked

(* The other two share the variables, as many as the larger of them has: a *)
(* component has the first of them, in the order of its own declaration.   *)
VARIABLES v1, v2, v3, v4, v5, v6, v7, v8, v9, v10, v11

(* Five texts of a module: one that imports and calls another, one that    *)
(* handles an event, two that differ in nothing but their bodies, and one  *)
(* whose function has another name.                                        *)
Fact(type, name, module, line) == [kind |-> type, name |-> name, module |-> module, line |-> line]

MCParsedAs == [
  caller |-> [defs |-> [main |-> 1], makes |-> "main",
              facts |-> <<Fact("imports_symbol", "f", "b", 1), Fact("calls_qualified", "f", "b", 2),
                          Fact("calls_name", "h", "a", 3), Fact("calls_result", "run", "b", 4)>>],
  handler |-> [defs |-> [h |-> 1], makes |-> "h",
               facts |-> <<Fact("calls_name", "h", "a", 2), Fact("ui_handler_name", "f", "a", 3)>>],
  plain |-> [defs |-> [f |-> 1, h |-> 2], makes |-> "f", facts |-> <<>>],
  other |-> [defs |-> [f |-> 1, h |-> 2], makes |-> "f", facts |-> <<>>],
  renamed |-> [defs |-> [g |-> 1, h |-> 2], makes |-> "h", facts |-> <<Fact("calls_name", "g", "b", 4)>>]]

MCStartTree == [a |-> "caller", b |-> "plain", t |-> "handler"]

(* Claims of two bodies, one of them at two places.                        *)
MCClaimValues ==
  {[body |-> "b", place |-> 1], [body |-> "b", place |-> 2], [body |-> "c", place |-> 1]}

(* What a page of a text takes. *)
MCPageSize == [x |-> 1, y |-> 2]

(* What an element may be called by, one of them as _1 is after the other. *)
MCKeys == {<<"k">>, <<"k", 1>>}

(* Hosts that have everything, some of it, and no tool at all.             *)
MCHosts == {[tools |-> {"unshare", "bwrap", "scrub"}, limits |-> ResourceLimits],
            [tools |-> {"bwrap"}, limits |-> {"nproc"}],
            [tools |-> {}, limits |-> ResourceLimits \ {"nproc"}]}

(* Two workspaces on one root and one on another, with room for one       *)
(* TypeScript service.                                                     *)
MCRootOf == [c |-> "r", d |-> "s", e |-> "r"]

(* What a symbol refers to, by the text of its file. *)
MCTargets == [x |-> {"r"}, y |-> {"r", "s"}]

(* A report and two reviews as they should be, and what may be there       *)
(* instead: of another commit, failed, not sealed, or no file at all.      *)
Passed(text, type) ==
  [text |-> text, commit |-> "head", status |-> "passed", kind |-> type, sealed |-> TRUE]

MCPipelineFiles == {
  Passed(1, "report"), Passed(1, "review"), Passed(2, "review"),
  [Passed(1, "report") EXCEPT !.commit = "old"], [Passed(1, "report") EXCEPT !.status = "failed"],
  [Passed(1, "review") EXCEPT !.sealed = FALSE]}

MCNoFile == [Passed(0, "none") EXCEPT !.sealed = FALSE]

MCSampled == [scenario : {1, 2}, completed : BOOLEAN, latency : {0, 1, 3}, memory : {0, 1, 3}]

(* Two servers on one database: one whose activity a page of the           *)
(* Observatory follows, and another that traces and compacts.              *)
MCSends == [s |-> {"long", "malformed", "read", "work", "start"}, t |-> {"start", "stop", "compact"}]

(* A class, its method and another function in one file, and a file of     *)
(* tests.  What matches a task: words of a name, or nothing but what the   *)
(* agent had in view before.                                               *)
Finding(l, t, r) == [lexical |-> l, task |-> t, resident |-> r]
Unmatched == Finding(0, 0, FALSE)
Matched == Finding(320, 700, FALSE)
Remembered == Finding(0, 100, TRUE)

TaskFindings ==
  {[of |-> f, covered |-> TRUE] : f \in {
     <<Matched, Unmatched, Unmatched, Unmatched>>,
     <<Matched, Finding(320, 100, TRUE), Matched, Unmatched>>,
     <<Unmatched, Finding(320, 100, TRUE), Remembered, Remembered>>,
     <<Matched, Matched, Matched, Remembered>>}}
  \union {[of |-> <<Matched, Matched, Unmatched, Unmatched>>, covered |-> FALSE]}

Tie(from, to, type, trust) == [from |-> from, to |-> to, kind |-> type, trust |-> trust]
Contains == Tie(1, 2, "contains", "parser")
Calls == Tie(3, 1, "calls", "exact")
Perhaps == Tie(3, 2, "calls", "heuristic")
IsTestOf == Tie(4, 2, "tests", "exact")

NoLearning == [roots |-> 0, depth |-> 0, budget |-> 0, structural |-> 0, abstain |-> 0]

Select == INSTANCE ContextSelection WITH
  Size <- 4,
  Code <- <<[path |-> "p", kind |-> "symbol", first |-> 1, last |-> 3],
            [path |-> "p", kind |-> "symbol", first |-> 2, last |-> 2],
            [path |-> "p", kind |-> "symbol", first |-> 4, last |-> 4],
            [path |-> "t", kind |-> "file", first |-> 1, last |-> 1]>>,
  TestPaths <- {"t"}, Findings <- TaskFindings,
  Networks <- {<<>>, <<Contains, Calls>>, <<Perhaps, IsTestOf>>, <<Calls, Perhaps, IsTestOf>>,
               <<Contains, Perhaps>>},
  Policies <- {NoLearning, [roots |-> 1, depth |-> 1, budget |-> 2, structural |-> 2000, abstain |-> 900]},
  NoPolicy <- NoLearning, Budgets <- {2, 3}, MaxChanges <- 1,
  gone <- v1, matches <- v2, links <- v3, class <- v4, policy <- v5, utility <- v6, rounds <- v7,
  slice <- v8, shown <- v9, fetched <- v10, answer <- v11

Tree == INSTANCE StateTree WITH
  Paths <- {<<"a">>, <<"a", "b">>, <<"a", "c">>, <<"b">>}, Texts <- {"x", "y"},
  Size <- [x |-> 1, y |-> 2], MaxRevisions <- 2,
  trees <- v1, roots <- v2, objects <- v3, answer <- v4

afterTree == <<v5, v6, v7, v8, v9, v10, v11>>
OtherOwn == <<v1, v2, v3, v4, afterTree>>

TreeLeaves == /\ v5 = Unused /\ v6 = Unused /\ v7 = Unused /\ v8 = Unused /\ v9 = Unused
              /\ v10 = Unused /\ v11 = Unused
OthersIdle == v1 = Unused /\ v2 = Unused /\ v3 = Unused /\ v4 = Unused /\ TreeLeaves

ServicesIdle == SourceIdle /\ RuntimeIdle /\ KnowledgeIdle /\ HostIdle
ServicesOwn == <<SourceOwn, RuntimeOwn, KnowledgeOwn, HostOwn>>
vars == <<scene, ServicesOwn, OtherOwn>>

(* A component starts in one of its initial states, of those that differ   *)
(* by no more than the names of objects or texts in one of them; the first *)
(* object of a memory is a small one.                                      *)
ServicesInit ==
  \/ SourceInit /\ RuntimeIdle /\ KnowledgeIdle /\ HostIdle
  \/ RuntimeInit /\ SourceIdle /\ KnowledgeIdle /\ HostIdle
  \/ KnowledgeInit /\ SourceIdle /\ RuntimeIdle /\ HostIdle
  \/ HostInit /\ SourceIdle /\ RuntimeIdle /\ KnowledgeIdle

OthersInit ==
  \/ scene = "selection" /\ Select!Init
  \/ scene = "tree" /\ Tree!Init /\ TreeLeaves

Init ==
  /\ scene \in Scenes
  /\ \/ ServicesInit /\ OthersIdle
     \/ OthersInit /\ ServicesIdle
  /\ scene = "memory" => memoryDisk["p"] = "x"
  /\ scene = "resume" => resumedDisk["p"] = "x"
  /\ scene = "types" => typesSource = [r |-> "x", s |-> "x"]
  /\ scene = "tests" => testsMode = "trusted" /\ ("b" \in testsBroken => "a" \in testsBroken)
  /\ scene = "containment" => testsBroken \subseteq {"a"}
  /\ scene \in {"experiment", "slo"} => relShelf = [s \in Rel!Slots |-> Passed(1, "report")]

(* Elements are named in the order they come.                              *)
UiKnown == Ui!NodesOf(uiPage) \cup DOMAIN uiRegistry

(* What a scene leaves out.  Sources are read at one of two paths that are *)
(* alike, and watched or read.  A language server that took the place of   *)
(* another stays.  Runs of tests keep to the trusted profile, those of     *)
(* containment to one test and one run.  A receipt differs from what was   *)
(* bound where no capabilities are reported.  Of the workspaces that share *)
(* a TypeScript service one closes it or waits for it in vain.  A scene of *)
(* a release keeps to what it is about, a server that is followed is       *)
(* alone, and of two servers, neither followed, one is sent two lines and  *)
(* no more.                                                                *)
InScene ==
  /\ scene = "sources" =>
       /\ syncReader' = Sync!NoRead \/ syncReader'.path = "p"
       /\ syncWatch' = Sync!NoWatch \/ syncReads' = 0
  /\ scene = "server" => lspAlive' \/ lspGen' < 2
  /\ scene = "tests" => testsManifest' = "trusted-local"
  /\ scene = "containment" =>
       /\ testsRuns' <= 1 /\ testsBroken' \subseteq {"a"}
       /\ testsTask'.pc = "idle" \/ testsTask'.selected \subseteq {"a"}
  /\ scene = "proof" => proofChanges' = 0 \/ proofReport'.claims = {}
  /\ scene = "ui" => \A n \in Ui!NodesOf(uiPage') \ UiKnown : 1 .. n - 1 \subseteq UiKnown
  /\ scene = "types" =>
       /\ typesSource'["s"] = "x"
       /\ typesStep'["e"] \notin {"leaving", "timing out"} /\ typesStep'["d"] # "timing out"
  /\ scene = "promotion" => UNCHANGED <<relReceipts, relSamples>>
  /\ scene = "experiment" => UNCHANGED <<relShelf, relProgress, relSamples>>
  /\ scene = "slo" => UNCHANGED <<relShelf, relProgress, relReceipts>>
  /\ scene = "serving" => servedSent'["t"] = 0
  /\ scene = "shared" =>
       /\ UNCHANGED servedViewer
       /\ \A i \in DOMAIN servedWire'["s"] : servedWire'["s"][i].kind \in {"work", "long"}
       /\ \A s \in Servers : servedWire'[s] # <<>> => servedSent'[s] <= 2

ServicesNext ==
  /\ \/ SourceNext /\ UNCHANGED <<RuntimeOwn, KnowledgeOwn, HostOwn>>
     \/ RuntimeNext /\ UNCHANGED <<SourceOwn, KnowledgeOwn, HostOwn>>
     \/ KnowledgeNext /\ UNCHANGED <<SourceOwn, RuntimeOwn, HostOwn>>
     \/ HostNext /\ UNCHANGED <<SourceOwn, RuntimeOwn, KnowledgeOwn>>
  /\ UNCHANGED OtherOwn
  /\ InScene

OthersNext ==
  /\ UNCHANGED <<scene, ServicesOwn>>
  /\ \/ scene = "selection" /\ Select!Next
     \/ scene = "tree" /\ UNCHANGED afterTree /\ Tree!Next

Next == ServicesNext \/ OthersNext

Spec == Init /\ [][Next]_vars

(* Every component keeps its types. *)
TypeOK ==
  /\ scene \in Scenes
  /\ SourceTyped /\ RuntimeTyped /\ KnowledgeTyped /\ HostTyped
  /\ scene = "selection" => Select!TypeOK
  /\ scene = "tree" => Tree!TypeOK

(* What is computed is what it says: two trees compare as their files do,  *)
(* and what is chosen for a task is chosen on evidence.                    *)
ComputedAsDefined ==
  /\ scene = "tree" => Tree!StateHolds
  /\ scene = "selection" => Select!SelectionHolds
=============================================================================

----------------------------- MODULE ProgramIndex -----------------------------
(***************************************************************************)
(* The program graph a refresh leaves behind: resolve_relations_for_file   *)
(* of src/habitat/compiler.py, the partition caches and the merge of       *)
(* src/habitat/semantic/project.py, the Jedi partitions of                 *)
(* semantic/python_jedi.py, and the effect and dataflow facts of a path.   *)
(*                                                                         *)
(* A refresh recomputes only what its keys say has changed.  A source      *)
(* partition is keyed by its own facts and by the candidates those facts   *)
(* can see; a precise partition by the digest of its file and by a digest  *)
(* of every definition and import of the project, bodies left out; the     *)
(* effect facts of a path are recomputed when the path changed.            *)
(***************************************************************************)
EXTENDS Naturals, Sequences, FiniteSets

CONSTANTS
  Files,          \* modules: a file is named as it is imported
  Contents,       \* what a file can hold
  NoFile,         \* no such file
  Code,           \* [Contents -> what a parser finds]: see CodeFact
  StartTree,      \* the files at first
  MaxEdits,
  TestFiles,      \* files for which _is_test_path holds
  IndexHazards    \* "provider fails": the precise provider may fail on a file
                  \* that parses; "read fails": a file can be compiled and then
                  \* not be read for its effects

(* defs: the functions of a file and their lines; facts: what it refers    *)
(* to, in order; makes: the method owner its constructor returns.          *)
CodeFact == {"calls_name", "calls_qualified", "imports_symbol", "ui_handler_name", "calls_result"}

VARIABLES
  tree,           \* the files as they are
  rowOf,          \* the files table: what each file was when last indexed
  parts,          \* semantic-base-partition: [print, edges] by file
  precise,        \* semantic-python-jedi-part: [digest, surface, edges] by file
  relations,      \* the relations table
  effects,        \* whose text the effect and dataflow facts of a file are
  rewrites        \* edits so far

vars == <<tree, rowOf, parts, precise, relations, effects, rewrites>>

Present(t) == {f \in Files : t[f] # NoFile}
FactsOf(t, f) == Code[t[f]].facts
Defines(t, f, name) == f \in Present(t) /\ name \in DOMAIN Code[t[f]].defs

(* by_name and module_symbols of build_relation_resolver_index.            *)
ByName(t, name) == {[file |-> g, name |-> name] : g \in {g \in Files : Defines(t, g, name)}}
Qualified(t, fact) == {s \in ByName(t, fact.name) : s.file = fact.module}
Local(f, ids) == {s \in ids : s.file = f}
FileOf(g) == [file |-> g, name |-> ""]

Edge(f, s, kind, trust, line) ==
  [source |-> f, target |-> s, kind |-> kind, trust |-> trust, line |-> line]

(* What one fact of a file resolves to.                                    *)
Resolve(t, f, fact) ==
  LET ids == ByName(t, fact.name)
      to(set, kind, trust) == {Edge(f, s, kind, trust, fact.line) : s \in set}
      ambiguous(set, kind) == to(set, kind, "heuristic")
      imported == Qualified(t, fact)
      module == IF fact.module \in Present(t) THEN {FileOf(fact.module)} ELSE {}
  IN CASE fact.kind = "calls_qualified" ->
            IF Cardinality(imported) = 1 THEN to(imported, "calls", "semantic")
            ELSE ambiguous(imported, "calls")
       [] fact.kind = "calls_name" ->
            IF Cardinality(Local(f, ids)) = 1 THEN to(Local(f, ids), "calls", "parser")
            ELSE IF Cardinality(ids) > 1 THEN ambiguous(ids, "calls") ELSE {}
       [] fact.kind = "imports_symbol" ->
            to(imported, "imports_symbol", "semantic") \cup to(module, "imports", "semantic")
              \cup (IF f \in TestFiles THEN to(module, "tests", "derived") ELSE {})
       [] fact.kind = "ui_handler_name" ->
            LET near == IF Local(f, ids) # {} THEN Local(f, ids) ELSE ids IN
            IF Cardinality(near) = 1
            THEN to(near, "handles_event", IF Local(f, ids) # {} THEN "parser" ELSE "derived")
            ELSE ambiguous(near, "handles_event")
       [] OTHER -> {}

SameEdge(d, e) == d.source = e.source /\ d.target = e.target /\ d.kind = e.kind

(* resolve_relations_for_file: the first fact that yields an edge keeps it.*)
ResolveFile(t, f) ==
  LET found(i) == Resolve(t, f, FactsOf(t, f)[i]) IN
  UNION {{e \in found(i) : \A j \in 1..(i - 1) : \A d \in found(j) : ~SameEdge(d, e)}
           : i \in DOMAIN FactsOf(t, f)}

(* relation_partition_fingerprint: the facts and the candidates they see.  *)
Observed(t, f, fact) ==
  CASE fact.kind \in {"calls_qualified", "imports_symbol"} ->
         <<Qualified(t, fact), fact.module \in Present(t)>>
    [] fact.kind = "calls_name" ->
         <<ByName(t, fact.name), Local(f, ByName(t, fact.name)) # {}>>
    [] fact.kind = "ui_handler_name" -> <<ByName(t, fact.name), TRUE>>
    [] OTHER -> <<{}, TRUE>>

PartitionPrint(t, f) ==
  [i \in DOMAIN FactsOf(t, f) |-> <<FactsOf(t, f)[i], Observed(t, f, FactsOf(t, f)[i])>>]

NoPart == [print |-> <<>>, edges |-> {}]

(* _base_relations_cached, for a file with facts.                          *)
BasePart(t, f) ==
  LET print == PartitionPrint(t, f) IN
  IF parts[f] # NoPart /\ parts[f].print = print THEN parts[f]
  ELSE [print |-> print, edges |-> ResolveFile(t, f)]

(***************************************************************************)
(* The precise provider: _compile_jedi_file resolves the calls of a file   *)
(* on the whole project; a call of a result follows the body it came from. *)
(***************************************************************************)
Definition(t, f, fact) ==
  CASE fact.kind = "calls_qualified" -> Qualified(t, fact)
    [] fact.kind = "calls_name" -> Local(f, ByName(t, fact.name))
    [] fact.kind = "calls_result" ->
         IF fact.module \notin Present(t) THEN {}
         ELSE {s \in ByName(t, Code[t[fact.module]].makes) : s.file = fact.module}
    [] OTHER -> {}

PreciseFile(t, f) ==
  UNION {{Edge(f, s, "calls", "semantic", FactsOf(t, f)[i].line) : s \in Definition(t, f, FactsOf(t, f)[i])}
           : i \in DOMAIN FactsOf(t, f)}

(* _python_api_surface_digest: every definition with its line, and every   *)
(* import; the bodies and the calls are left out.                          *)
Surface(t) ==
  {[file |-> f, defs |-> Code[t[f]].defs,
    imports |-> {FactsOf(t, f)[i] : i \in {i \in DOMAIN FactsOf(t, f) :
                                             FactsOf(t, f)[i].kind = "imports_symbol"}}]
     : f \in Present(t)}

NoPrecise == [digest |-> NoFile, surface |-> {}, edges |-> {}]

(* A failure is an empty answer, and it is cached as the answer.           *)
PrecisePart(t, f, fails) ==
  LET cached == precise[f] IN
  IF cached.digest = t[f] /\ cached.surface = Surface(t) THEN cached
  ELSE [digest |-> t[f], surface |-> Surface(t),
        edges |-> IF fails THEN {} ELSE PreciseFile(t, f)]

(* compile_project_semantics: a precise call replaces what the parser made *)
(* of the same line, and the same edge of the resolver.                    *)
Merge(base, exact) ==
  LET kept == {e \in base :
        /\ ~(e.kind = "calls" /\ e.trust \in {"heuristic", "parser"}
               /\ \E p \in exact : p.source = e.source /\ p.line = e.line)
        /\ \A p \in exact : ~SameEdge(p, e)}
      first == {p \in exact : \A q \in exact : SameEdge(p, q) => q.line <= p.line}
  IN kept \cup first

(* The graph of a tree computed from nothing.                              *)
FromScratch(t) ==
  Merge(UNION {ResolveFile(t, f) : f \in Present(t)}, UNION {PreciseFile(t, f) : f \in Present(t)})

-----------------------------------------------------------------------------
Init ==
  /\ tree = StartTree /\ rowOf = [f \in Files |-> NoFile] /\ rewrites = 0
  /\ parts = [f \in Files |-> NoPart] /\ precise = [f \in Files |-> NoPrecise]
  /\ relations = {} /\ effects = rowOf

Edit(f, c) ==
  /\ c # tree[f] /\ rewrites < MaxEdits
  /\ tree' = [tree EXCEPT ![f] = c] /\ rewrites' = rewrites + 1
  /\ UNCHANGED <<rowOf, parts, precise, relations, effects>>

(* _finalize_refresh on the files as hashed: the caches, the merge, the    *)
(* relations set to the merge, and the facts of the changed paths.         *)
Refresh(failing, unread) ==
  LET changed == {f \in Files : rowOf[f] # tree[f]}
      newParts == [f \in Files |->
                    IF f \in Present(tree) /\ FactsOf(tree, f) # <<>> THEN BasePart(tree, f) ELSE NoPart]
      newPrecise == [f \in Files |->
                      IF f \in Present(tree) THEN PrecisePart(tree, f, f \in failing) ELSE precise[f]]
  IN
  /\ rowOf' = tree
  /\ parts' = newParts /\ precise' = newPrecise
  /\ relations' = Merge(UNION {newParts[f].edges : f \in Files},
                        UNION {newPrecise[f].edges : f \in Present(tree)})
  /\ effects' = [f \in Files |-> IF f \in changed \ unread THEN tree[f] ELSE effects[f]]
  /\ UNCHANGED <<tree, rewrites>>

Next ==
  \/ \E f \in Files, c \in Contents \cup {NoFile} : Edit(f, c)
  \/ \E failing \in SUBSET (IF "provider fails" \in IndexHazards THEN Files ELSE {}),
        unread \in SUBSET (IF "read fails" \in IndexHazards THEN Present(tree) ELSE {}) :
       Refresh(failing, unread)

Spec == Init /\ [][Next]_vars

-----------------------------------------------------------------------------
Ends == [file : Files, name : (UNION {DOMAIN Code[c].defs : c \in Contents}) \cup {""}]

(* Every variable keeps its type. *)
TypeOK ==
  /\ tree \in [Files -> Contents \cup {NoFile}] /\ rowOf \in [Files -> Contents \cup {NoFile}]
  /\ effects \in [Files -> Contents \cup {NoFile}] /\ rewrites \in 0..MaxEdits
  /\ \A e \in relations : e.source \in Files /\ e.target \in Ends

(* The graph on record is the one a computation from nothing would find in *)
(* the files on record: the partition fingerprints, the surface digest and *)
(* the reuse of compile_project_semantics lose nothing and keep nothing,   *)
(* as long as an edit of a body alone does not change what a call of its   *)
(* result means to another file.                                           *)
BodiesDoNotShow ==
  \A c, d \in Contents : Code[c].defs = Code[d].defs => Code[c].makes = Code[d].makes

GraphIsAsFromScratch == BodiesDoNotShow => relations = FromScratch(rowOf)

(* The effect and dataflow facts of a file are those of the text on record.*)
FactsAreOfTheRow == effects = rowOf
=============================================================================

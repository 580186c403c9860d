--------------------------- MODULE ContextSelection ---------------------------
(***************************************************************************)
(* How the context of a task is chosen: candidates scored by what matches  *)
(* the task, spread along the relations of the program, weighted by the    *)
(* promoted policy and by what agents said was useful, cut to a budget;    *)
(* then paged through, planned from, explored as regions, and refreshed    *)
(* when the program has changed.                                           *)
(*                                                                         *)
(* Scores are in thousandths and weights of feedback in hundredths, where  *)
(* the code has floats.  What matches the task is given: how words are     *)
(* compared with names is left out.  Requests of one agent, with no        *)
(* feedback of its own kept apart; requests run one at a time.             *)
(***************************************************************************)
EXTENDS Integers, Sequences, FiniteSets, SequencesExt, FiniteSetsExt

CONSTANTS
  Size,         \* the number of objects of the program
  Code,         \* [Objects -> [path, kind, first, last]]: paths are ordered
  TestPaths,    \* the paths that hold tests
  Findings,     \* what may match a task: [of: [Objects -> [lexical, task, resident]],
                \* covered: whether enough of its words are anywhere at all]
  Networks,     \* sequences of relations [from, to, kind, trust] of a program
  Policies,     \* learning policies: [roots, depth, budget, structural, abstain]
  NoPolicy,     \* no policy is promoted
  Budgets,      \* budgets of a compile and of estimated bytes
  MaxChanges    \* bound: feedback given and files deleted

Objects == 1..Size

VARIABLES
  gone,       \* the files deleted, oldest first: one revision each
  matches,    \* a member of Findings: what matches the task now
  links,      \* the relations of the program
  class,      \* the task class
  policy,     \* the promoted policy
  utility,    \* [Objects -> [used, unhelpful]]: context_utility
  rounds,     \* feedback records
  slice,      \* the context slice last compiled
  shown,      \* what page has shown of it, and the next offset
  fetched,    \* the pages the agent has asked plan_next to leave out
  answer      \* of the last plan, exploration or refresh

world == <<gone, matches, links, class, policy>>
experience == <<utility, rounds>>
vars == <<world, experience, slice, shown, fetched, answer>>

Least(a, b) == IF a < b THEN a ELSE b
Most(a, b) == IF a > b THEN a ELSE b

Weight(type) == CASE type = "calls" -> 620 [] type = "imports" -> 440 [] type = "contains" -> 460
                  [] type = "tests" -> 700 [] OTHER -> 300
Bonus(trust) == CASE trust = "exact" -> 90 [] trust = "parser" -> 40 [] trust = "heuristic" -> -60
Cap(trust) == CASE trust = "exact" -> 1000 [] trust = "parser" -> 780 [] trust = "heuristic" -> 300

Revision == Len(gone)
There == {o \in Objects : Code[o].path \notin Range(gone)}
InOrder(S) == SelectSeq([o \in Objects |-> o], LAMBDA o : o \in S)
IsTest(o) == Code[o].path \in TestPaths

NoSlice == [revision |-> -1, ranked |-> <<>>, selected |-> <<>>, low |-> TRUE, advised |-> TRUE,
            candidates |-> <<>>, primary |-> <<>>, weighed |-> <<>>]
Unseen == [ids |-> <<>>, next |-> 0]
NoAnswer == [kind |-> "none"]

Init ==
  /\ gone = <<>>
  /\ matches \in Findings /\ links \in Networks /\ class \in {"test", "implementation"}
  /\ policy \in Policies
  /\ utility = [o \in Objects |-> [used |-> 0, unhelpful |-> 0]] /\ rounds = 0
  /\ slice = NoSlice /\ shown = Unseen /\ fetched = {} /\ answer = NoAnswer

(***************************************************************************)
(* Candidates.  Independent lanes add up, but never linearly.              *)
(***************************************************************************)
Add(candidates, o, score, lane) ==
  IF score <= 0 THEN candidates
  ELSE IF o \notin DOMAIN candidates THEN candidates @@ (o :> [score |-> score, lanes |-> {lane}])
  ELSE LET old == candidates[o]
           combined == Most(old.score, score) + (Least(old.score, score) * 12) \div 100
       IN IF combined > old.score
          THEN [candidates EXCEPT ![o] = [score |-> combined, lanes |-> old.lanes \union {lane}]]
          ELSE candidates

(* Lexical hits, the symbol index, the lane of test files, and the         *)
(* residents that still match the task or are candidates already.          *)
Lanes(o) ==
  LET m == matches.of[o]
      file == Code[o].kind = "file"
  IN <<[lane |-> "lexical", score |-> m.lexical],
       [lane |-> "symbol", score |-> IF ~file /\ m.task >= 200 THEN m.task ELSE 0],
       [lane |-> "test", score |-> IF ~file \/ ~IsTest(o) \/ m.task = 0 THEN 0
          ELSE 240 + Least(320, m.task) + (IF class = "test" THEN 200 ELSE 0)],
       [lane |-> "resident",
        score |-> IF m.resident THEN Most(120, (m.task * 52) \div 100 + 200) ELSE 0]>>

Found(candidates, o) ==
  FoldLeft(LAMBDA c, found :
      IF found.lane = "resident" /\ o \notin DOMAIN c /\ matches.of[o].task < 200 THEN c
      ELSE Add(c, o, found.score, found.lane),
    candidates, Lanes(o))

Primary == FoldLeft(Found, <<>>, InOrder(There))

Ranked(candidates) ==
  SortSeq(InOrder(DOMAIN candidates),
    LAMBDA a, b : \/ candidates[a].score > candidates[b].score
                  \/ candidates[a].score = candidates[b].score /\ a < b)

(* Where the expansion starts: for an implementation, not from its tests.  *)
Roots(candidates, most) ==
  LET ranked == Ranked(candidates)
      production == SelectSeq(ranked, LAMBDA o : ~IsTest(o))
      from == IF class = "implementation" /\ production # <<>> THEN production ELSE ranked
  IN SubSeq(from, 1, Least(most, Len(from)))

Neighbor(link, o) == IF link.from = o THEN link.to ELSE link.from

(* One relation of an object taken from the queue.                         *)
Along(search, link, item, roots) ==
  LET n == Neighbor(link, item.object)
      spread == (item.score * Weight(link.kind) * (IF item.depth > 0 THEN 78 ELSE 100)) \div 100000
      score == Least(spread + Bonus(link.trust), Cap(link.trust))
      counts == n \notin search.visited \/ (n \in roots /\ n # item.origin)
  IN IF n \notin There THEN search
     ELSE [candidates |-> IF counts THEN Add(search.candidates, n, score, "graph")
                          ELSE search.candidates,
           visited |-> search.visited \union {n},
           queue |-> IF n \in search.visited THEN search.queue
                     ELSE Append(search.queue, [object |-> n, score |-> score,
                                                depth |-> item.depth + 1, origin |-> item.origin])]

RECURSIVE Spread(_, _, _)
Spread(search, roots, depth) ==
  IF search.queue = <<>> THEN search.candidates
  ELSE LET item == Head(search.queue)
           rest == [search EXCEPT !.queue = Tail(@)]
           mine == SelectSeq(links, LAMBDA l : item.object \in {l.from, l.to})
       IN Spread(IF item.depth >= depth THEN rest
                 ELSE FoldLeft(LAMBDA s, l : Along(s, l, item, roots), rest, mine),
                 roots, depth)

Start(candidates, roots) ==
  [candidates |-> candidates, visited |-> Range(roots),
   queue |-> [k \in DOMAIN roots |-> [object |-> roots[k], score |-> candidates[roots[k]].score,
                                     depth |-> 0, origin |-> roots[k]]]]

(* A promoted policy weighs the lanes of candidates there are.             *)
Weighed(c) ==
  IF policy = NoPolicy \/ c.lanes \intersect {"symbol", "graph"} = {} THEN c
  ELSE [c EXCEPT !.score = Least(1500, (@ * Least(policy.structural, 2000)) \div 1000)]

(* What agents said of an object, for tasks with these words.              *)
Adjustment(o) ==
  LET u == utility[o]
      size == (Most(u.used - u.unhelpful, u.unhelpful - u.used) * 160) \div (u.used + u.unhelpful + 200)
      bounded == Least(120, size)
  IN IF bounded < 5 THEN 0 ELSE IF u.used > u.unhelpful THEN bounded ELSE -bounded

WithUtility(c, o) == [c EXCEPT !.score = Most(0, Least(1500, @ + Adjustment(o)))]

(***************************************************************************)
(* The selection: at most so many of one path, so many files, so many in   *)
(* all; and for a task about tests, a test if there is one.                *)
(***************************************************************************)
Taken(selected, o, budget) ==
  LET path == {s \in Range(selected) : Code[s].path = Code[o].path}
      whole == {s \in Range(selected) : Code[s].kind = "file"}
  IN IF \/ Len(selected) >= budget
        \/ Cardinality(path) >= Most(2, Least(5, budget \div 4 + 1))
        \/ Code[o].kind = "file" /\ Cardinality(whole) >= Most(2, budget \div 3)
     THEN selected ELSE Append(selected, o)

Selected(candidates, ranked, budget) ==
  LET chosen == FoldLeft(LAMBDA s, o : Taken(s, o, budget), <<>>, ranked)
      IsOfTest(o) == "test" \in candidates[o].lanes
      spare == SelectSeq(ranked, LAMBDA o : IsOfTest(o) /\ o \notin Range(chosen))
  IN IF class = "test" /\ chosen # <<>> /\ spare # <<>> /\ ~\E o \in Range(chosen) : IsOfTest(o)
     THEN [chosen EXCEPT ![Len(chosen)] = Head(spare)]
     ELSE chosen

(* The confidence is low without candidates, with weak ones, or if too few *)
(* of the words of the task are anywhere at all.                           *)
Learned == policy # NoPolicy
Limited(most, learned) == IF Learned THEN Least(learned, most) ELSE most

Compiled(budget, primary, weighed, final, ranked) ==
  LET top == IF ranked = <<>> THEN 0 ELSE Least(1000, final[ranked[1]].score)
      low == top < 280 \/ ~matches.covered
  IN [revision |-> Revision, ranked |-> ranked, selected |-> Selected(final, ranked, budget),
      low |-> low, advised |-> low \/ (Learned /\ top < policy.abstain), candidates |-> final,
      primary |-> primary, weighed |-> weighed]

(* A compile.  It has one outcome: its steps are bound one after another.  *)
Compile(asked) ==
  /\ \E primary \in {Primary} :
     \E roots \in {Roots(primary, Limited(8, policy.roots))} :
     \E spread \in {Spread(Start(primary, roots), Range(roots), Limited(2, policy.depth))} :
     \E weighed \in {[o \in DOMAIN spread |-> Weighed(spread[o])]} :
     \E final \in {[o \in DOMAIN weighed |-> WithUtility(weighed[o], o)]} :
     \E ranked \in {Ranked(final)} :
       slice' = Compiled(Limited(asked, policy.budget), primary, weighed, final, ranked)
  /\ shown' = Unseen /\ fetched' = {}

(* The first request for a task; what follows refreshes its slice.         *)
Orient(budget) ==
  /\ slice = NoSlice
  /\ Compile(budget)
  /\ answer' = NoAnswer
  /\ UNCHANGED <<world, experience>>

Stale == slice.revision # Revision

(* What a changed program leaves of a slice: a new one, and how it differs.*)
(* What was read from the old one does not enter: it is refreshed unread.  *)
Refresh(budget) ==
  /\ slice # NoSlice /\ shown = Unseen /\ fetched = {}
  /\ Compile(budget)
  /\ LET old == Range(slice.selected)
         new == Range(slice'.selected)
     IN answer' = [kind |-> "delta", old |-> old, retained |-> new \intersect old,
          added |-> new \ old, removed |-> old \ new, missing |-> (old \ new) \ There,
          paths |-> {gone[k] : k \in slice.revision + 1 .. Revision}]
  /\ UNCHANGED <<world, experience>>

(* Of a stale slice nothing is shown.  An agent pages through a slice or   *)
(* plans from it: doing both is left out, the one does not touch the other.*)
Page(limit) ==
  /\ slice # NoSlice /\ fetched = {}
  /\ IF Stale THEN answer' = [kind |-> "stale"] /\ UNCHANGED shown
     ELSE /\ shown.next # -1
          /\ LET end == Least(shown.next + limit, Len(slice.ranked))
             IN shown' = [ids |-> shown.ids \o SubSeq(slice.ranked, shown.next + 1, end),
                          next |-> IF end < Len(slice.ranked) THEN end ELSE -1]
          /\ answer' = NoAnswer
  /\ UNCHANGED <<world, experience, slice, fetched>>

(***************************************************************************)
(* Planning.  A page is the lines of a symbol; a file is not a page.       *)
(***************************************************************************)
Lines(o) == Code[o].last - Code[o].first + 1
Fetchable(o) == o \in There /\ Code[o].kind = "symbol"

Value(o, most) ==
  LET c == slice.candidates[o]
      lanes == (IF "graph" \in c.lanes THEN 70 ELSE 0) + (IF "symbol" \in c.lanes THEN 55 ELSE 0)
               + (IF "resident" \in c.lanes THEN 40 ELSE 0)
  IN Least(c.score, 1000) + lanes - Least(160, (Lines(o) * 100) \div most)

Planned(selected, o, pages, most) ==
  LET used == FoldLeft(LAMBDA n, s : n + Lines(s), 0, selected)
  IN IF Len(selected) >= pages \/ (selected # <<>> /\ used + Lines(o) > most)
     THEN selected ELSE Append(selected, o)

PlanNext(pages, most) ==
  /\ slice # NoSlice /\ shown = Unseen
  /\ LET offered == {o \in Range(slice.ranked) : Fetchable(o) /\ o \notin fetched}
         order == SortSeq(InOrder(offered),
                    LAMBDA a, b : \/ Value(a, most) > Value(b, most)
                                  \/ Value(a, most) = Value(b, most) /\ a < b)
         plan == IF Stale \/ (slice.advised /\ slice.low) THEN <<>>
                 ELSE FoldLeft(LAMBDA s, o : Planned(s, o, pages, most), <<>>, order)
     IN /\ answer' = [kind |-> "plan", pages |-> plan, most |-> most, before |-> fetched]
        /\ fetched' = fetched \union Range(plan)
  /\ UNCHANGED <<world, experience, slice, shown>>

(* Regions of source for a task, under a budget of lines: none inside one  *)
(* that was chosen before it.                                              *)
Region(chosen, o, regions, lines) ==
  LET used == FoldLeft(LAMBDA n, r : n + r.last - r.first + 1, 0, chosen)
      inside == \E k \in DOMAIN chosen :
                  /\ chosen[k].path = Code[o].path
                  /\ chosen[k].first <= Code[o].first /\ Code[o].last <= chosen[k].last
  IN IF Len(chosen) >= regions \/ used >= lines \/ ~Fetchable(o) \/ inside THEN chosen
     ELSE Append(chosen, [path |-> Code[o].path, first |-> Code[o].first,
                          last |-> Least(Code[o].last, Code[o].first + (lines - used) - 1)])

Explore(budget, regions, lines) ==
  /\ slice = NoSlice
  /\ Compile(budget)
  /\ answer' = [kind |-> "regions", lines |-> lines,
       chosen |-> IF slice'.advised /\ slice'.low THEN <<>>
                  ELSE FoldLeft(LAMBDA s, o : Region(s, o, regions, lines), <<>>, slice'.ranked)]
  /\ UNCHANGED <<world, experience>>

(* Feedback on candidates of a slice that is not stale; what was said      *)
(* before counts a little less each time.                                  *)
Feedback(o, verdict, weight) ==
  /\ slice # NoSlice /\ ~Stale /\ o \in Range(slice.ranked) /\ rounds + Len(gone) < MaxChanges
  /\ LET u == utility[o]
         used == IF verdict = "used" THEN weight ELSE 0
         unhelpful == IF verdict = "unhelpful" THEN weight ELSE 0
     IN utility' = [utility EXCEPT ![o] =
                      [used |-> Least(1000, (u.used * 92) \div 100 + used),
                       unhelpful |-> Least(1000, (u.unhelpful * 92) \div 100 + unhelpful)]]
  /\ rounds' = rounds + 1
  /\ answer' = NoAnswer
  /\ UNCHANGED <<world, slice, shown, fetched>>

(* A file is deleted and the workspace reconciles.                         *)
Delete(path) ==
  /\ path \notin Range(gone) /\ rounds + Len(gone) < MaxChanges
  /\ gone' = Append(gone, path)
  /\ UNCHANGED <<matches, links, class, policy, experience, slice, shown, fetched, answer>>

Next ==
  \/ \E b \in Budgets : Orient(b)
  \/ \E b \in Budgets : Refresh(b)
  \/ \E limit \in {1, 2} : Page(limit)
  \/ \E most \in Budgets : PlanNext(2, most)
  \/ \E lines \in {2, 5} : Explore(Max(Budgets), 2, lines)
  \/ \E o \in Objects, verdict \in {"used", "unhelpful"} : Feedback(o, verdict, 500)
  \/ \E o \in Objects : Delete(Code[o].path)

Spec == Init /\ [][Next]_vars

-----------------------------------------------------------------------------

TypeOK ==
  /\ Range(gone) \subseteq {Code[o].path : o \in Objects} /\ matches \in Findings
  /\ utility \in [Objects -> [used : 0..1000, unhelpful : 0..1000]] /\ rounds \in 0..MaxChanges
  /\ slice.revision \in -1..Revision /\ Range(slice.ranked) = DOMAIN slice.candidates
  /\ Range(slice.selected) \subseteq Range(slice.ranked) /\ shown.next \in -1..Cardinality(Objects)
  /\ fetched \subseteq Objects

(* How far apart two objects are, counting at most two relations.          *)
Linked(a, b) == \E k \in DOMAIN links : {links[k].from, links[k].to} = {a, b}
Near(a, b) == Linked(a, b) \/ \E c \in Objects : Linked(a, c) /\ Linked(c, b)

(* A slice nobody has read from yet, compiled of the program as it is.     *)
IsNew == slice # NoSlice /\ ~Stale /\ shown = Unseen /\ fetched = {}

(* The expansion makes no object vouch for itself: one that started with a *)
(* score has a higher one only if another that did is within two           *)
(* relations of it (_expand_graph: no round trip reinforces a root).       *)
NoSelfReinforcement ==
  IsNew /\ policy = NoPolicy /\ rounds = 0 =>
    \A o \in DOMAIN slice.primary :
      slice.candidates[o].score > slice.primary[o].score =>
        \E p \in DOMAIN slice.primary \ {o} : Near(o, p)

(* What is known of an object only through relations scores no higher than *)
(* the trust of the best of them allows, and feedback adds no more than    *)
(* its bound to that (_TRUST_CAP, _apply_utility_prior).                   *)
HearsayIsCapped ==
  IsNew /\ policy = NoPolicy =>
    \A o \in DOMAIN slice.candidates \ DOMAIN slice.primary :
      \E k \in DOMAIN links :
        /\ o \in {links[k].from, links[k].to}
        /\ slice.candidates[o].score <= Cap(links[k].trust) + 120

(* Experience is a prior: neither what is resident nor feedback makes a    *)
(* candidate of what nothing else speaks for, and feedback never turns     *)
(* around two objects more than twice its bound apart.                     *)
ExperienceIsBounded ==
  IsNew =>
    /\ \A o \in DOMAIN slice.primary :
         matches.of[o].lexical > 0 \/ matches.of[o].task >= 200 \/ (IsTest(o) /\ matches.of[o].task > 0)
    /\ \A j, k \in DOMAIN slice.ranked :
         Least(slice.weighed[slice.ranked[j]].score, 1380) > slice.weighed[slice.ranked[k]].score + 240
           => j < k

(* Whoever follows next_offset to the end has seen every ranked object,    *)
(* once and in order.                                                      *)
PagingIsComplete ==
  /\ IsPrefix(shown.ids, slice.ranked)
  /\ shown.next = -1 => shown.ids = slice.ranked

(* A plan offers no page twice, takes more than the estimate allows only   *)
(* for a page on its own, and is empty only if nothing is left, the slice  *)
(* is stale or the confidence is low.                                      *)
PlansExhaustTheSlice ==
  answer.kind = "plan" =>
    LET bytes == FoldLeft(LAMBDA n, o : n + Lines(o), 0, answer.pages)
    IN /\ Range(answer.pages) \intersect answer.before = {}
       /\ IsInjective(answer.pages)
       /\ bytes > answer.most => Len(answer.pages) = 1
       /\ answer.pages = <<>> =>
            \/ slice.low \/ slice.revision # Revision
            \/ \A o \in Range(slice.ranked) : Code[o].kind = "symbol" => o \in answer.before

(* What a refresh says has gone was in a file whose change it names, and   *)
(* what it selects is there.                                               *)
RefreshDeltaIsExact ==
  answer.kind = "delta" =>
    /\ \A o \in answer.missing : Code[o].path \in answer.paths
    /\ slice.revision = Revision => Range(slice.selected) \subseteq There

(* Regions keep to the budget of lines, and a task about tests gets a test *)
(* if any was found.                                                       *)
RegionsKeepTheBudget ==
  answer.kind = "regions" =>
    /\ FoldLeft(LAMBDA n, r : n + r.last - r.first + 1, 0, answer.chosen) <= answer.lines
    /\ \A k \in DOMAIN answer.chosen : answer.chosen[k].first <= answer.chosen[k].last
    /\ \A j, k \in DOMAIN answer.chosen :
         j < k => ~(/\ answer.chosen[j].path = answer.chosen[k].path
                    /\ answer.chosen[j].first <= answer.chosen[k].first
                    /\ answer.chosen[k].last <= answer.chosen[j].last)

TestTaskSeesATest ==
  class = "test" /\ slice.selected # <<>> =>
    ((\E o \in DOMAIN slice.candidates : "test" \in slice.candidates[o].lanes)
      => \E o \in Range(slice.selected) : "test" \in slice.candidates[o].lanes)

SelectionHolds ==
  /\ NoSelfReinforcement /\ HearsayIsCapped /\ ExperienceIsBounded /\ PagingIsComplete
  /\ PlansExhaustTheSlice /\ RefreshDeltaIsExact /\ RegionsKeepTheBudget /\ TestTaskSeesATest
=============================================================================

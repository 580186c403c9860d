------------------------- MODULE SemanticComparison -------------------------
(***************************************************************************)
(* compare_parse_providers runs the admitted providers over one file and   *)
(* compare_claims records where their claims differ.  Everything is        *)
(* bounded (providers, claims, disagreements), and what a bound cuts off   *)
(* must not look like evidence.                                            *)
(*                                                                         *)
(* Providers and subjects are numbers: providers in the order they were    *)
(* registered, subjects in the order of their keys.  A provider's claims   *)
(* are a set of pairs <<subject, value>>; a value has a body and a place.  *)
(***************************************************************************)
EXTENDS Naturals, Sequences, FiniteSets

CONSTANTS
  ProviderCount, SubjectCount,
  Values,           \* what can be claimed of a subject: [body, place] records
  Relations,        \* subjects that are relations; the others are symbols
  MostClaims,       \* bound: claims of one provider
  MaxProviders, MaxClaims, MaxDisagreements

Subjects == 1 .. SubjectCount
ClaimSets == {claims \in SUBSET (Subjects \X Values) : Cardinality(claims) <= MostClaims}

VARIABLES
  admittedSet,  \* the providers that passed the gate
  fileChanged,  \* has the file or the revision moved since the file was read
  comparison    \* the comparison under way, and its report

vars == <<admittedSet, fileChanged, comparison>>

NoComparison == [at |-> "none"]

Init == admittedSet = {} /\ fileChanged = FALSE /\ comparison = NoComparison

Admit(i) ==
  /\ comparison = NoComparison
  /\ admittedSet' = admittedSet \cup {i}
  /\ UNCHANGED <<fileChanged, comparison>>

(* Somebody saves the file, or refreshes the workspace.                    *)
Change ==
  /\ comparison.at = "parsing" /\ ~fileChanged
  /\ fileChanged' = TRUE
  /\ UNCHANGED <<admittedSet, comparison>>

-----------------------------------------------------------------------------
(* providers_for, and the first of them, as many as a comparison takes.    *)
Selected == {i \in admittedSet : Cardinality({j \in admittedSet : j < i}) < MaxProviders}

Begin ==
  /\ comparison = NoComparison
  /\ comparison' = [at |-> "parsing", selected |-> Selected, cut |-> Selected # admittedSet,
                    complete |-> Cardinality(Selected) >= 2 /\ Selected = admittedSet,
                    found |-> <<>>, kept |-> <<>>]
  /\ UNCHANGED <<admittedSet, fileChanged>>

KeptCount(kept) == Cardinality(UNION {{i} \X kept[i] : i \in DOMAIN kept})

(* Of the claims, in the order of their subjects, as many as there is room.*)
Taken(claims, room) ==
  IF Cardinality(claims) <= room THEN {claims}
  ELSE {some \in SUBSET claims : /\ Cardinality(some) = room
                                 /\ \A c \in some, d \in claims \ some : c[1] <= d[1]}

(* One more provider parses the file, and some of its claims are kept.     *)
ParseWith(status, claims, some) ==
  LET run == comparison
      usable == status \in {"complete", "incomplete"}
      full == /\ KeptCount(run.kept) + Cardinality(some) >= MaxClaims
              /\ Len(run.found) + 1 # Cardinality(run.selected)
      cut == usable /\ (some # claims \/ full)
  IN
  /\ run.at = "parsing" /\ Len(run.found) < Cardinality(run.selected)
  /\ usable \/ claims = {}
  /\ some \in Taken(claims, MaxClaims - KeptCount(run.kept))
  /\ comparison' = [at |-> "parsing", selected |-> run.selected, cut |-> run.cut \/ cut,
                    complete |-> run.complete /\ status = "complete" /\ ~cut,
                    found |-> Append(run.found, [status |-> status, claims |-> claims]),
                    kept |-> Append(run.kept, some)]
  /\ UNCHANGED <<admittedSet, fileChanged>>

-----------------------------------------------------------------------------
(* compare_claims                                                          *)

ClaimedBy(i, s) == {v \in Values : <<s, v>> \in comparison.kept[i]}

AllClaimed(s) == UNION {ClaimedBy(i, s) : i \in DOMAIN comparison.kept}

Grouped == {s \in Subjects : AllClaimed(s) # {}}

Missing(s) == {i \in DOMAIN comparison.kept : ClaimedBy(i, s) = {}}

Several(S) == \E v, w \in S : v # w

(* Silence counts only in a complete comparison.                           *)
Conflicting(s) ==
  IF Missing(s) # {} THEN comparison.complete ELSE Several(AllClaimed(s))

ConflictKind(s) ==
  IF Missing(s) # {} THEN "presence-conflict"
  ELSE IF s \in Relations THEN "relation-conflict"
  ELSE IF ~Several({v.body : v \in AllClaimed(s)}) THEN "location-conflict"
  ELSE "attribute-conflict"

(* In the order of the subjects, until there are as many as there may be.  *)
Disagreements ==
  LET all == {s \in Grouped : Conflicting(s)}
      reached == {s \in Grouped : Cardinality({q \in all : q < s}) < MaxDisagreements}
  IN [records |-> {[subject |-> s, kind |-> ConflictKind(s), missing |-> Missing(s)] : s \in all \cap reached},
      cut |-> reached # Grouped]

Finish ==
  /\ comparison.at = "parsing" /\ Len(comparison.found) = Cardinality(comparison.selected)
  /\ comparison' = IF fileChanged THEN [at |-> "stale"]
       ELSE [at |-> "reported", found |-> comparison.found, complete |-> comparison.complete,
             records |-> Disagreements.records, truncated |-> comparison.cut \/ Disagreements.cut]
  /\ UNCHANGED <<admittedSet, fileChanged>>

Next ==
  \/ \E i \in 1 .. ProviderCount : Admit(i)
  \/ Change \/ Begin \/ Finish
  \/ \E status \in {"complete", "incomplete", "unavailable", "error"}, claims \in ClaimSets :
       \E some \in SUBSET claims : ParseWith(status, claims, some)

Spec == Init /\ [][Next]_vars

-----------------------------------------------------------------------------
TypeOK ==
  /\ admittedSet \subseteq 1 .. ProviderCount /\ fileChanged \in BOOLEAN
  /\ comparison.at \in {"none", "parsing", "stale", "reported"}
  /\ comparison.at = "parsing" => KeptCount(comparison.kept) <= MaxClaims
  /\ comparison.at = "reported" => Cardinality(comparison.records) <= MaxDisagreements

(* What the providers found, before any bound.                             *)
Found(i, s) == {v \in Values : <<s, v>> \in comparison.found[i].claims}

Silent(s) == {i \in DOMAIN comparison.found : Found(i, s) = {}}

FoundValues(s) == UNION {Found(i, s) : i \in DOMAIN comparison.found}

TrueRecord(r) ==
  /\ r.missing # {} => /\ r.missing = Silent(r.subject)
                       /\ \A i \in r.missing : comparison.found[i].status = "complete"
  /\ r.missing = {} => Several(FoundValues(r.subject))
  /\ r.kind = "location-conflict" => Several({v.place : v \in FoundValues(r.subject)})

(* A report never takes what a bound cut off, or a provider that failed,   *)
(* for disagreement: each record is borne out by the whole parses.  A      *)
(* complete report that is not truncated misses none.                      *)
ReportIsExact ==
  comparison.at = "reported" =>
    /\ \A r \in comparison.records : TrueRecord(r)
    /\ comparison.complete /\ ~comparison.truncated =>
         {r.subject : r \in comparison.records} =
         {s \in Subjects : FoundValues(s) # {} /\ (Silent(s) # {} \/ Several(FoundValues(s)))}
=============================================================================

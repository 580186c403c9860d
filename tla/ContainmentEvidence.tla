-------------------------- MODULE ContainmentEvidence --------------------------
(***************************************************************************)
(* What a receipt says of how its command was contained: the probes of the *)
(* host, the attestation made of them, its binding to the receipt, and the *)
(* validation of a receipt that has been stored, by which time any part of *)
(* it may differ from what was bound.                                      *)
(*                                                                         *)
(* Whether the command was confined as attested is in Verification.  A     *)
(* fingerprint is the attestation it is of: hashes do not collide.         *)
(***************************************************************************)
EXTENDS Naturals, Sequences, FiniteSets

CONSTANTS
  Limits,        \* the resource limits there are
  Hosts,         \* [tools: what can be launched, limits: those the host knows]
  MaxChanges     \* bound: parts of a stored receipt that change

(* CONTAINMENT_CONTROLS: the controls, and where each is in their order.   *)
Place == [process |-> 1, filesystem |-> 2, network |-> 3, user |-> 4, capabilities |-> 5,
          limits |-> 6, secrets |-> 7]

Sandbox == {"process", "filesystem", "network", "user", "capabilities"}
Required == Limits \ {"nproc"}
NoReceipt == [attestation |-> "none"]

VARIABLES
  host,      \* one of Hosts
  provider,  \* kind of the execution provider, and the probe it was made with
  bound,     \* the receipt as it was bound
  stored,    \* the receipt as it is now
  changes,   \* parts of it that changed
  verdict,   \* of its last validation
  report     \* the capability report

vars == <<host, provider, bound, stored, changes, verdict, report>>

Init ==
  /\ host \in Hosts
  /\ provider = [kind |-> "trusted-local", probe |-> FALSE]
  /\ bound = NoReceipt /\ stored = NoReceipt /\ changes = 0 /\ verdict = "none"
  /\ report = [sandboxed |-> FALSE, claims |-> {}]

-----------------------------------------------------------------------------
(* Probes.  One of a tool that works may fail all the same.                *)
Tool(name) == IF name \in host.tools THEN BOOLEAN ELSE {FALSE}

(* bubblewrap_probe: it succeeds if the launch did and no secret came      *)
(* through it.                                                             *)
BwrapProbe == {success \in Tool("bwrap") : success => TRUE \in Tool("scrub")}

(* resource_limit_probe: a child that is limited says which limits it has, *)
(* or fails; it is not started if the limits that are required are unknown.*)
LimitProbes ==
  IF ~(Required \subseteq host.limits) THEN {[attempted |-> FALSE, success |-> FALSE]}
  ELSE {[attempted |-> TRUE,
         success |-> Required \subseteq seen /\ ("nproc" \in host.limits => "nproc" \in seen)] :
           seen \in SUBSET host.limits}

-----------------------------------------------------------------------------
(* Attestations.  A probe receipt is of one control and one provider.      *)
Receipt(by, control, attempted, success) ==
  [id |-> control, by |-> by, control |-> control, attempted |-> attempted, success |-> success]

Sound(receipt) == receipt.success => receipt.attempted

(* Sorted by control and then by id.                                       *)
Before(r, s) ==
  \/ Place[r.control] < Place[s.control]
  \/ Place[r.control] = Place[s.control] /\ Place[r.id] < Place[s.id]

InOrder(receipts) ==
  LET first(k) == {j \in DOMAIN receipts : \/ Before(receipts[j], receipts[k])
                                           \/ ~Before(receipts[k], receipts[j]) /\ j <= k}
      rank == [k \in DOMAIN receipts |-> Cardinality(first(k))]
  IN [n \in DOMAIN receipts |-> receipts[CHOOSE k \in DOMAIN receipts : rank[k] = n]]

(* What ContainmentAttestation refuses to be made of.                      *)
Acceptable(a) ==
  /\ \A k \in DOMAIN a.receipts : Sound(a.receipts[k]) /\ a.receipts[k].by = a.by
  /\ \A j, k \in DOMAIN a.receipts : a.receipts[j].id = a.receipts[k].id => j = k
  /\ \A c \in a.claims : \E k \in DOMAIN a.receipts :
       a.receipts[k].control = c /\ a.receipts[k].success

Attestation(by, claims, receipts) == [by |-> by, claims |-> claims, receipts |-> InOrder(receipts)]

Unverified(by) == Attestation(by, {}, <<>>)

(* Of the namespaces of network-contained: for a provider, and for a run   *)
(* without one (_direct_network_attestation).                              *)
Namespaced(by, unshare, limit) ==
  Attestation(by,
    {"secrets"} \union (IF unshare THEN {"network", "user"} ELSE {})
      \union (IF limit.success THEN {"limits"} ELSE {}),
    <<Receipt(by, "network", "unshare" \in host.tools \/ unshare, unshare),
      Receipt(by, "user", "unshare" \in host.tools \/ unshare, unshare),
      Receipt(by, "limits", limit.attempted, limit.success),
      Receipt(by, "secrets", TRUE, TRUE)>>)

(* Of Bubblewrap: its own probe is the one its provider was made with.     *)
Wrapped(by, probe, limit) ==
  Attestation(by,
    (IF probe THEN Sandbox \union {"secrets"} ELSE {})
      \union (IF limit.success THEN {"limits"} ELSE {}),
    <<Receipt(by, "process", TRUE, probe), Receipt(by, "filesystem", TRUE, probe),
      Receipt(by, "network", TRUE, probe), Receipt(by, "user", TRUE, probe),
      Receipt(by, "capabilities", TRUE, probe),
      Receipt(by, "limits", limit.attempted, limit.success), Receipt(by, "secrets", TRUE, probe)>>)

Attested ==
  CASE provider.kind = "trusted-local" -> {Unverified("provider")}
    [] provider.kind = "network-contained" ->
         {Namespaced("provider", u, l) : u \in Tool("unshare"), l \in LimitProbes}
    [] provider.kind = "filesystem-contained" ->
         {Wrapped("provider", provider.probe, l) : l \in LimitProbes}

-----------------------------------------------------------------------------
(* bind_containment_attestation: the attestation, its fingerprint, and the *)
(* flags that older readers look at.                                       *)
Projection(a) == [sandboxed |-> Sandbox \subseteq a.claims, claims |-> a.claims]

Bind(a) == [attestation |-> a, print |-> a, projection |-> Projection(a)]

(* validate_containment_binding.                                           *)
Valid(receipt, expected) ==
  LET a == receipt.attestation
      canonical == Attestation(a.by, a.claims, a.receipts)
  IN /\ Acceptable(a)
     /\ canonical = a
     /\ receipt.print = canonical
     /\ expected = "any" \/ a.by = expected
     /\ receipt.projection = Projection(a)

Verdict(receipt, expected) == IF Valid(receipt, expected) THEN "accepted" ELSE "refused"

MakeProvider(kind) ==
  /\ IF kind = "filesystem-contained"
     THEN TRUE \in BwrapProbe /\ provider' = [kind |-> kind, probe |-> TRUE]
     ELSE provider' = [kind |-> kind, probe |-> FALSE]
  /\ UNCHANGED <<host, bound, stored, changes, verdict, report>>

Keep(receipt, expected) ==
  /\ bound' = receipt /\ stored' = receipt /\ changes' = 0
  /\ verdict' = Verdict(receipt, expected)

(* A run of the provider: what it attests it also asks for, and the        *)
(* receipt is validated before it is returned.  Bubblewrap probes once     *)
(* more before it launches, and namespaces do: without them nothing runs.  *)
Run ==
  /\ CASE provider.kind = "trusted-local" -> TRUE
       [] provider.kind = "network-contained" -> TRUE \in Tool("unshare")
       [] provider.kind = "filesystem-contained" -> TRUE \in BwrapProbe
  /\ \E a \in Attested : a.by = "provider" /\ Keep(Bind(a), "provider")
  /\ UNCHANGED <<host, provider, report>>

(* run_action and run_bwrap_action of a caller that has no provider.       *)
DirectRun(kind) ==
  /\ CASE kind = "trusted-local" -> Keep(Bind(Unverified("direct")), "direct")
       [] kind = "network-contained" ->
            /\ "unshare" \in host.tools
            /\ \E l \in LimitProbes : Keep(Bind(Namespaced("direct", TRUE, l)), "direct")
       [] kind = "filesystem-contained" ->
            TRUE \in BwrapProbe /\ Keep(Bind(Unverified("direct")), "direct")
  /\ UNCHANGED <<host, provider, report>>

(* capability_report, and what require_capability then finds in it.        *)
Report ==
  /\ \E a \in Attested :
       report' = [sandboxed |-> Sandbox \subseteq a.claims,
                  claims |-> a.claims \intersect {"network", "filesystem", "process"}]
  /\ UNCHANGED <<host, provider, bound, stored, changes, verdict>>

Granted(name) == IF name = "sandboxed" THEN report.sandboxed ELSE name \in report.claims

Validate(expected) ==
  /\ stored # NoReceipt
  /\ verdict' = Verdict(stored, expected)
  /\ UNCHANGED <<host, provider, bound, stored, changes, report>>

(* One part of a stored receipt is no longer what was bound.               *)
Toggle(set, x) == IF x \in set THEN set \ {x} ELSE set \union {x}

Differ ==
  LET a == stored.attestation
      n == Len(a.receipts)
  IN \/ \E c \in {"network", "limits"} : stored' = [stored EXCEPT !.attestation.claims = Toggle(@, c)]
     \/ \E c \in {"network", "limits"} : stored' = [stored EXCEPT !.projection.claims = Toggle(@, c)]
     \/ stored' = [stored EXCEPT !.projection.sandboxed = ~@]
     \/ stored' = [stored EXCEPT !.attestation.by = "another"]
     \/ stored' = [stored EXCEPT !.print = stored.attestation]
     \/ n > 0 /\ stored' = [stored EXCEPT !.attestation.receipts = Tail(@)]
     \/ n > 1 /\ stored' = [stored EXCEPT !.attestation.receipts = Tail(@) \o <<Head(@)>>]
     \/ n > 0 /\ stored' = [stored EXCEPT !.attestation.receipts = Append(@, @[n])]
     \/ n > 0 /\ stored' = [stored EXCEPT !.attestation.receipts[1].success = ~@]
     \/ n > 0 /\ stored' = [stored EXCEPT !.attestation.receipts[1].attempted = ~@]
     \/ n > 0 /\ stored' = [stored EXCEPT !.attestation.receipts[1].by = "another"]

Change ==
  /\ stored # NoReceipt /\ changes < MaxChanges
  /\ Differ /\ changes' = changes + 1 /\ verdict' = "none"
  /\ UNCHANGED <<host, provider, bound, report>>

Next ==
  \/ \E kind \in {"trusted-local", "network-contained", "filesystem-contained"} :
       MakeProvider(kind) \/ DirectRun(kind)
  \/ Run \/ Report \/ Change
  \/ \E expected \in {"any", "provider"} : Validate(expected)

Spec == Init /\ [][Next]_vars

-----------------------------------------------------------------------------

TypeOK ==
  /\ provider.kind \in {"trusted-local", "network-contained", "filesystem-contained"}
  /\ changes \in 0..MaxChanges /\ verdict \in {"none", "accepted", "refused"}
  /\ report.claims \subseteq DOMAIN Place

(* An accepted receipt shows no control, in its attestation or in its      *)
(* older flags, without a successful probe that was made by the provider   *)
(* of the attestation; and it says sandboxed only if it shows all of them. *)
AcceptedIsSupported ==
  verdict = "accepted" =>
    LET a == stored.attestation
    IN /\ stored.projection.claims = a.claims
       /\ stored.projection.sandboxed => Sandbox \subseteq a.claims
       /\ \A c \in a.claims : \E k \in DOMAIN a.receipts :
            /\ a.receipts[k].control = c /\ a.receipts[k].by = a.by
            /\ a.receipts[k].attempted /\ a.receipts[k].success

(* A receipt of which one part differs is refused.                         *)
OneDifferenceIsSeen == verdict = "accepted" /\ changes = 1 => stored = bound

(* A run never loses its receipt to the validation of what it bound itself.*)
OwnReceiptIsValid == verdict = "refused" => changes > 0 \/ stored.attestation.by # "provider"

(* What is required of the capabilities of a host is what a provider       *)
(* probed: a sandbox is reported only of one that was wrapped.             *)
ReportIsOfAProbe ==
  /\ Granted("sandboxed") => {"network", "filesystem", "process"} \subseteq report.claims
  /\ Granted("filesystem") => {"bwrap", "scrub"} \subseteq host.tools
  /\ Granted("network") => host.tools \intersect {"unshare", "bwrap"} # {}

EvidenceHolds ==
  AcceptedIsSupported /\ OneDifferenceIsSeen /\ OwnReceiptIsValid /\ ReportIsOfAProbe
=============================================================================

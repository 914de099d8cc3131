------------------------------- MODULE Resources -------------------------------
(***************************************************************************)
(* The resource registry (src/resources.rs): the last report of each       *)
(* backend on a node, and of each node as a whole.                         *)
(*                                                                         *)
(* The age of a report is measured with Instant against a fixed limit, so  *)
(* a report is fresh until, at some moment, it no longer is.  No decision  *)
(* looks at a report that is not, so the model keeps the fresh ones.       *)
(***************************************************************************)
EXTENDS BackendSelection

CONSTANTS
    ResourceAware,  \* resource_policy.enabled
    RequiredVram,   \* required_vram_mb, by workload
    ReportKeys,     \* who reports: <<node, backend>>, or <<node, NoBackend>> for the node
    VramSizes,      \* total_vram_mb and reserved_vram_mb
    Loads           \* current_load: values between 0.0 and 1.0, scaled, or NoLoad

\* Sizes are unsigned; what is left of one by another is one.
ASSUME SizesAssumption ==
    /\ VramSizes \subseteq Nat
    /\ \A total, reserved \in VramSizes : reserved <= total => total - reserved \in VramSizes
    /\ RequiredVram \in [DOMAIN RequiredVram -> Nat]
    /\ Loads \ {NoLoad} \subseteq Nat

\* f, in which x has the value v.
Put(f, x, v) == [y \in DOMAIN f \cup {x} |-> IF y = x THEN v ELSE f[y]]

VARIABLE reports    \* ResourceRegistryInner.reports: the fresh ones

\* ResourceReport, as far as ResourceRank takes it over.
ResourceReport == [available : VramSizes, load : Loads]

ResourcesTypeOK ==
    /\ DOMAIN reports \subseteq ReportKeys
    /\ \A key \in DOMAIN reports : reports[key] \in ResourceReport

InitResources == reports = <<>>

\* validate_report: the report it makes of a request.
Reported(total, reserved, load) == [available |-> total - reserved, load |-> load]

\* report: a valid report replaces the last one.  An invalid one changes nothing.
Report(key, total, reserved, load) ==
    /\ reserved <= total
    /\ reports' = Put(reports, key, Reported(total, reserved, load))

\* stale_after has passed since the report.
GoesStale(key) ==
    /\ key \in DOMAIN reports
    /\ reports' = Restrict(reports, DOMAIN reports \ {key})

\* fresh_report.
HasFreshReport(key) == key \in DOMAIN reports

ResourcesNext ==
    /\ ResourceAware
    /\ \E key \in ReportKeys :
           \/ \E total, reserved \in VramSizes, load \in Loads :
                  Report(key, total, reserved, load)
           \/ GoesStale(key)

--------------------------------------------------------------------------------
(* What a request concludes from a report (resource_selection_state). *)

\* Mutant: a report that is too small is ranked all the same.
JudgedUnchecked(q, b, report) ==
    [q EXCEPT !.ranks = Put(@, b, report)]

\* The backend is ranked if its report leaves enough memory, and ineligible otherwise.
Judged(q, b, report) ==
    IF report.available < RequiredVram[q.workload]
    THEN [q EXCEPT !.ineligible = @ \cup {b}]
    ELSE [q EXCEPT !.ranks = Put(@, b, report)]

================================================================================

----------------------------- MODULE EcuReports -----------------------------
(***************************************************************************)
(* What the tools conclude from an ECU's answers: which module it is       *)
(* (Identify), what its immobilizer is in and whether a flash broke it     *)
(* (the wizard), and whether a download may be sent (the console).         *)
(*                                                                         *)
(* The reads of one snapshot are separate requests.  The immobilizer may   *)
(* move once in between, and answers may be refused or short.              *)
(***************************************************************************)
EXTENDS Identify, ImmoRules

CONSTANTS
  Benches,       \* ECUs: module, channel, answers to the identification DIDs, immo
  Dumps,         \* secrets of the target and the donor, from their dumps
  MaxFaults,     \* bound on disturbed reads
  MaxDownloads   \* bound on downloads sent

\* A module answers on its own channel, the coupler alone on its own.  Its boot
\* loader names no other module's project, and its immobilizer, if it answers,
\* is in a state that such an immobilizer can be in.
Bench == [module : MODULES, kind : {"SimosEngine", "Transmission", "HaldexAwd"},
          immo : Immo \cup {Absent}, answers : Dids]
OnItsChannel(bench) ==
  /\ bench.module \in Supported => bench.module \in Range(channel_for(bench.kind).modules)
  /\ bench.kind = "HaldexAwd" => bench.module = "haldex"
Truthful(bench) ==
  LET project == boot_loader_project(from_dids(bench.answers)) IN
  project \in Range(Registry) => project = Registry[bench.module]
Possible(bench) ==
  /\ bench \in Bench /\ OnItsChannel(bench) /\ Truthful(bench)
  /\ bench.immo # Absent => Consistent(bench.immo)

ASSUME BenchAssumption == \A bench \in Benches : Possible(bench)
ASSUME DumpAssumption ==
  Dumps \subseteq [key : STRING, vin : STRING, idx_tun : Nat, flags : SUBSET STRING]
\* None is no immobilizer and no list of findings.
ASSUME ReportsAssumption ==
  /\ MaxFaults \in Nat /\ MaxDownloads \in Nat
  /\ None \notin Immo \cup {Absent} /\ \A found \in SUBSET Differences : None # found

VARIABLES
  tool,          \* "wizard" (mqb-flash-gui) or "console" (mqb-immo-gui)
  ecu,           \* the ECU on the channel; its immo Absent when it answers none of those DIDs
  candidates,    \* what identification offers
  module,        \* the module chosen among them
  before,        \* immo_before: the snapshot of the wizard, or the console's live reading
  report,        \* the assessment of it
  findings,      \* post_flash: the differences after the flash
  plan, blockers, \* the console's download and its preflight
  \* history
  faults, downloads,
  during,        \* states the immobilizer was in while it was read
  whole,         \* what the snapshot would have been, had every DID answered
  stands         \* the immobilizer as the snapshot has it, None once it has moved

wizard == <<candidates, module, report, findings>>
console == <<plan, blockers>>
vars == <<tool, ecu, wizard, before, console, faults, downloads, during, whole, stands>>

-----------------------------------------------------------------------------
(***************************************************************************)
(* Reading.                                                                *)
(***************************************************************************)
\* What an immobilizer does by itself: it learns, it authenticates, its key is
\* switched, a lockout runs out.
Moves(immo) ==
  {[immo EXCEPT !.state = IF @ = "AdaptationMode" THEN "Adapted" ELSE @]}
  \cup {[immo EXCEPT !.auth = a] : a \in IF immo.ignition THEN 0..3 ELSE {0}}
  \cup {[immo EXCEPT !.ignition = ~@, !.auth = 0, !.challenge = 3 - @]}
  \cup {[immo EXCEPT !.download_lockout = FALSE]}

\* An ECU without an immobilizer refuses its DIDs.
Given(immo, did) == IF immo = Absent THEN Absent ELSE Answer(immo, did)

\* read_dids over the list: the answers from the k-th on are the moved ECU's.
Answers(order, immo, moved, k) ==
  [did \in Range(order) |->
     Given(IF \E i \in 1..(k - 1) : order[i] = did THEN immo ELSE moved, did)]

\* One record is refused, and with it a checksum that depends on it; or cut short.
Refused(snapshot, did) ==
  [d \in DOMAIN snapshot |->
     IF d = did \/ (d = "IDENTITY_CKS" /\ did \in Prerequisites) THEN Absent ELSE snapshot[d]]
Shortened(snapshot, did) == [snapshot EXCEPT ![did] = Short]
ClippedAt(snapshot, did) == [snapshot EXCEPT ![did] = Clipped]

\* The snapshots a read may give, each with its history.
Reading(snapshot, immo, moved, full, cost) ==
  [snapshot |-> snapshot, moved |-> moved,
   during |-> IF immo = Absent THEN {} ELSE {immo.state, moved.state},
   whole |-> full, cost |-> cost]
Readings(order, immo) ==
  LET still == Answers(order, immo, immo, 1) IN
  {Reading(still, immo, immo, still, 0)} \cup IF immo = Absent THEN {} ELSE
  {Reading(Refused(still, did), immo, immo, still, 1) : did \in Range(order)}
  \cup {Reading(Shortened(still, did), immo, immo, still, 1) : did \in Range(order)}
  \cup {Reading(ClippedAt(still, did), immo, immo, still, 1) : did \in {"STATE", "STATUS_BITS"}}
  \cup {LET torn == Answers(order, immo, moved, k) IN Reading(torn, immo, moved, torn, 1) :
          moved \in Moves(immo), k \in 2..Len(order)}

-----------------------------------------------------------------------------
(***************************************************************************)
(* The wizard.                                                             *)
(***************************************************************************)
\* identify_on_channel: a channel with no readable record is silent.
Scan ==
  /\ tool = "wizard" /\ candidates = <<>>
  /\ candidates' = candidates_from_dids(ecu.answers, channel_for(ecu.kind))
  /\ UNCHANGED <<tool, ecu, module, before, report, findings, console, faults, downloads, during, whole, stands>>

\* Defect: the report stays when another module is chosen.
ChooseKeeps ==
  /\ \E i \in DOMAIN candidates : module' = candidates[i].module_name
  /\ module' # module
  /\ UNCHANGED <<tool, ecu, candidates, before, report, findings, console, faults, downloads,
                 during, whole, stands>>
\* A choice forgets the evidence of the module chosen before.
Choose ==
  /\ \E i \in DOMAIN candidates : module' = candidates[i].module_name
  /\ module' # module
  /\ before' = None /\ report' = None /\ findings' = None /\ during' = {} /\ whole' = None
  /\ stands' = None
  /\ UNCHANGED <<tool, ecu, candidates, console, faults, downloads>>

\* ImmoSupport::for_module.
for_module(name) == name # None /\ Registry[name] = "SC8"

Take(reading) ==
  /\ faults + reading.cost <= MaxFaults /\ faults' = faults + reading.cost
  /\ ecu' = [ecu EXCEPT !.immo = reading.moved]

\* read_immo_snapshot and its assessment.
ReadImmo ==
  /\ for_module(module) /\ before = None
  /\ \E reading \in Readings(IMMO_DIDS, ecu.immo) :
       /\ Take(reading)
       /\ before' = reading.snapshot /\ report' = assess(reading.snapshot)
       /\ during' = reading.during /\ whole' = reading.whole
       /\ stands' = IF reading.moved = ecu.immo THEN ecu.immo ELSE None
  /\ UNCHANGED <<tool, candidates, module, findings, console, downloads>>

\* A flash leaves the immobilizer as it was, or in any other condition.
Flash ==
  /\ before # None /\ report # None /\ findings = None
  /\ ecu.immo = stands /\ stands # Absent
  /\ \E state \in ImmoState, idx \in 0..1, list \in {{0}, {1}, ecu.immo.allow}, marker \in {"S", "A"} :
       LET after == [ecu.immo EXCEPT !.state = state, !.idx_tun = idx, !.allow = list,
                                     !.marker = marker]
       IN Consistent(after) /\ ecu' = [ecu EXCEPT !.immo = after]
  /\ UNCHANGED <<tool, wizard, before, console, faults, downloads, during, whole, stands>>

\* start_post_flash_check, after the ECU has come back up.
PostCheck ==
  /\ before # None /\ report # None /\ findings = None
  /\ \E reading \in Readings(IMMO_DIDS, ecu.immo) :
       /\ reading.moved = ecu.immo /\ Take(reading)
       /\ findings' = diff_after_flash(before, reading.snapshot)
       /\ whole' = reading.snapshot
  /\ UNCHANGED <<tool, candidates, module, before, report, console, downloads, during, stands>>

-----------------------------------------------------------------------------
(***************************************************************************)
(* The console, which takes the ECU for a Simos18.                         *)
(***************************************************************************)
ReadState ==
  /\ tool = "console" /\ before = None
  /\ \E reading \in Readings(IMMO_DIDS_FULL, ecu.immo) :
       /\ Take(reading) /\ before' = reading.snapshot
       /\ stands' = IF reading.moved = ecu.immo THEN ecu.immo ELSE None
  /\ UNCHANGED <<tool, wizard, console, downloads, during, whole>>

BuildPlan ==
  /\ tool = "console" /\ before # None /\ plan = None
  /\ \E target \in Dumps, donor \in Dumps, idx \in 0..2, typed \in BOOLEAN :
       LET vin == IF typed THEN BadVin ELSE donor.vin
           built == adapt_plan(target, donor, idx, vin) IN
       /\ built # Absent /\ plan' = built
       /\ blockers' = adapt_preflight(built, before, target)
  /\ UNCHANGED <<tool, ecu, wizard, before, faults, downloads, during, whole, stands>>

Download(hindered) ==
  /\ plan # None /\ blockers = {} /\ downloads < MaxDownloads
  /\ ecu' = [ecu EXCEPT !.immo = Adopt(@, plan, hindered)]
  /\ plan' = None /\ blockers' = None /\ stands' = None
  /\ downloads' = downloads + 1
  /\ UNCHANGED <<tool, wizard, before, faults, during, whole>>

-----------------------------------------------------------------------------
Init ==
  /\ ecu \in Benches
  /\ tool \in IF ecu.module = "simos18" THEN {"wizard", "console"} ELSE {"wizard"}
  /\ candidates = <<>> /\ module = None /\ before = None /\ report = None /\ findings = None
  /\ plan = None /\ blockers = None
  /\ faults = 0 /\ downloads = 0 /\ during = {} /\ whole = None /\ stands = None

Next ==
  \/ Scan \/ Choose \/ ReadImmo \/ Flash \/ PostCheck
  \/ ReadState \/ BuildPlan
  \/ \E hindered \in BOOLEAN : Download(hindered)

Spec == Init /\ [][Next]_vars

-----------------------------------------------------------------------------
(***************************************************************************)
(* Properties.                                                             *)
(***************************************************************************)
TypeOK ==
  /\ module \in {None} \cup Supported
  /\ ecu.immo # Absent => Consistent(ecu.immo)
  /\ report # None => report.severity \in {"Ok", "Unknown", "Warn"} /\ for_module(module)
  /\ findings # None => \A f \in findings : f.severity \in {"Unknown", "Warn"}
  /\ faults \in 0..MaxFaults

\* A truthful ECU is never mistaken: identification settles on one module only
\* if that is the one on the channel, whatever part number it reports, and one
\* that the channel can flash is always among those offered (identify.rs:685).
IdentifiedRight ==
  candidates # <<>> =>
    /\ ecu.module \in Supported =>
         \E i \in DOMAIN candidates : candidates[i].module_name = ecu.module
    /\ resolved(candidates) # None => resolved(candidates).module_name = ecu.module

\* The state in the report is one the immobilizer really was in while it was
\* read, though three states are reported as "adapted" and the records are read
\* one after the other (R5, state.rs:600).
StateIsTrue == report # None /\ report.state # Absent => report.state \in during

\* Fail-open: a record that was refused or short adds no risk, and a snapshot
\* in which nothing is missing hides none: every state but "adapted" is one
\* (state.rs:664).
FailsOpen ==
  report # None /\ findings = None =>
    /\ has_risk(report) => has_risk(assess(whole))
    /\ before = whole /\ during # {} /\ "Adapted" \notin during => has_risk(report)

\* The verdict the preflight shows is neither invented nor softened (assess).
ReportIsTrue == StateIsTrue /\ FailsOpen

\* A flash after which the immobilizer is no longer adapted is reported, if the
\* records R12 compares were all read (state.rs:960), except one that loses its
\* adaptation while zeroes pad its list: its zeroed index is found among them.
Complete(snapshot) == \A did \in {"STATE", "STATUS_BITS", "EXTENDED"} : usable(snapshot, did)
Broken == stands.state = "Adapted" /\ ecu.immo.state # "Adapted"
BricksAreSeen ==
  findings # None /\ stands \notin {None, Absent} /\ Complete(before) /\ Complete(whole) /\ Broken =>
    \/ ecu.immo.state = "NotAdapted" /\ 0 \in ecu.immo.allow \cap stands.allow
    \/ \E f \in findings : f.severity = "Warn"

\* A download without blockers, for an ECU that is as it was read.  It never arms
\* the lockout and never ends in the tuning lock (adapt.rs:232, "Everything that
\* would make the download fail, or make it succeed and leave a useless ECU"):
\* it is taken, or refused with nothing but the error code changed.  And it is
\* taken unless something refuses it that the preflight does not ask about: the
\* service is hindered, or the lockout timers or the state did not decode, which
\* blocks nothing (adapt.rs:288, 297).
Taken == ecu'.immo.state = "AdaptationMode" /\ ecu'.immo.key = plan.key
Declined == ecu'.immo = [ecu.immo EXCEPT !.last_error = TRUE]
Unasked == {did \in {"LOCKOUT", "STATE"} : ~usable(before, did)}
PreflightSound ==
  [][\A hindered \in BOOLEAN :
       Download(hindered) /\ stands = ecu.immo =>
         Taken \/ (Declined /\ (hindered \/ Unasked # {}))]_vars

\* state.rs:960, "compare a snapshot taken before the flash with one taken after
\* and report anything that indicates the flash bricked the immobilizer".
BrickIsReported ==
  findings # None /\ stands \notin {None, Absent} /\ Broken => findings # {}

-----------------------------------------------------------------------------
(***************************************************************************)
(* The invariant behind them.                                              *)
(***************************************************************************)
\* What the tool holds of an immobilizer that has not moved came from it.
Order == IF tool = "wizard" THEN IMMO_DIDS ELSE IMMO_DIDS_FULL
ReadFrom(snapshot, immo) ==
  \A did \in Range(Order) : snapshot[did] \in {Absent, Short, Clipped, Given(immo, did)}
Standing ==
  stands # None =>
    /\ stands \in Immo \cup {Absent} /\ (stands # Absent => Consistent(stands))
    /\ ReadFrom(before, stands)
Silent == ecu.immo = Absent /\ before # None => stands = Absent

\* Only the wizard reports, and compares the snapshot it reported on with one
\* of the ECU as it is now.
Compared ==
  /\ tool = "console" => candidates = <<>> /\ module = None /\ report = None
  /\ findings # None => /\ before # None /\ report # None
                        /\ findings = diff_after_flash(before, whole)
                        /\ ReadFrom(whole, ecu.immo)

\* Only the console plans, for a target among the dumps, by what it has read.
PlanFor(target) ==
  /\ plan.under = target.key /\ "adaptation" \in plan.flags
  /\ plan.key \in STRING /\ plan.vin \in STRING /\ plan.idx_tun \in 0..2
  /\ blockers = adapt_preflight(plan, before, target)
Planned ==
  plan # None => tool = "console" /\ before # None /\ \E target \in Dumps : PlanFor(target)

Inv ==
  /\ TypeOK /\ tool \in {"wizard", "console"} /\ Possible(ecu) /\ candidates \in Seq(Candidates)
  /\ IdentifiedRight /\ ReportIsTrue
  /\ Standing /\ Silent /\ Compared /\ Planned
=============================================================================

---------------------------- MODULE FlashWizard ----------------------------
(***************************************************************************)
(* The wizard of mqb-flash-gui/src/main.rs.                                *)
(*                                                                         *)
(* `update` handles one message at a time.  A message comes from a control *)
(* that the current screen renders (the guards Next, Back, ... below are   *)
(* those of can_advance, nav_row and the view_* functions), from a task    *)
(* that reports its result, or from a file dialog, which is not modal: its *)
(* answer arrives on whatever screen the user has moved to.                *)
(*                                                                         *)
(* Left out: error and progress texts, logging, stmin, op_id.  The value   *)
(* of an interface does not matter, only whether there is one.             *)
(***************************************************************************)
EXTENDS Integers, Sequences, FiniteSets

CONSTANTS
  Modules,          \* supported control modules
  Files,            \* files on disk
  None,
  Unlockable,       \* modules with patch_info
  ImmoCovered,      \* modules ImmoSupport::for_module covers
  CalBlock,         \* block_to_number("CAL")
  CbootBlock,       \* block_to_number("CBOOT"), 0 if there is none
  PatchBlock,       \* patch_block_index + 5
  Parsed,           \* Parsed[f][m]: blocks of file f read as module m, {} if unreadable
  Stock,            \* <<f, m>>: f has the box code the unlock patch of m is built for
  PromptUser        \* bound: the user answers a dialog before doing anything else

Operations == {"CalibrationFlash", "FullFlash", "Relock", "Unlock"}
Firmware == [file : Files, module : Modules]
Jobs == [module : Modules, firmware : Firmware, operation : Operations]

ASSUME ModuleAssumption ==
  /\ Unlockable \subseteq Modules /\ ImmoCovered \subseteq Modules
  /\ CalBlock \in [Modules -> 1..5] /\ CbootBlock \in [Modules -> 0..5]
  /\ \A m \in Unlockable : CalBlock[m] = 5
  /\ PatchBlock \in 6..9 /\ PromptUser \in BOOLEAN
ASSUME FileAssumption ==
  /\ Parsed \in [Files -> [Modules -> SUBSET (1..5)]]
  /\ Stock \subseteq Files \X Modules
  /\ \A s \in Stock : Parsed[s[1]][s[2]] # {}
ASSUME NoneAssumption ==
  None \notin Modules \cup Files \cup Firmware \cup Jobs \cup Operations

VARIABLES
  step,
  busy,                 \* is there a busy text?  disables navigation
  interface,            \* is interface() Some?
  scan_results,         \* the candidates found
  selected,             \* the candidate of chosen_channel/chosen_candidate
  unlock,               \* last unlock state read: [module, state]
  unlock_file,
  operation,
  firmware_path,
  firmware,             \* [file, module it was read as]
  prepared,             \* the job its blocks were prepared for
  immo_report,          \* "none", "clean" or "warn"; immo_before is set with it
  risk_acknowledged,
  flash_op,             \* the job being written
  finished_ok,
  post_flash_findings,  \* are there any?
  tasks,                \* results on their way: [kind, job]
  dialogs,              \* file dialogs on the screen
  acked                 \* history: was the last report acknowledged after it came?

choice == <<unlock_file, operation, firmware_path, firmware>>
outcome == <<flash_op, finished_ok, post_flash_findings>>
vars == <<step, busy, interface, scan_results, selected, unlock, choice, prepared,
          immo_report, risk_acknowledged, outcome, tasks, dialogs, acked>>

Screens == {"Interface", "Identify", "Unlock", "Operation", "Firmware", "Preflight",
            "Confirm", "Flashing", "Done"}
LockStates == {"Unlocked", "Locked", "Unknown"}
Task(kind, job) == [kind |-> kind, job |-> job]
BusTask(t) == t.kind # "postcheck"

\* The user presses a control of screen s.
On(s) == step = s /\ (PromptUser => dialogs = {})

Init ==
  /\ step = "Interface" /\ busy = FALSE /\ interface = TRUE
  /\ scan_results = {} /\ selected = None /\ unlock = None
  /\ unlock_file = None /\ operation = None /\ firmware_path = None /\ firmware = None
  /\ prepared = None /\ immo_report = "none" /\ risk_acknowledged = FALSE
  /\ flash_op = None /\ finished_ok = FALSE /\ post_flash_findings = FALSE
  /\ tasks = {} /\ dialogs = {} /\ acked = FALSE

-----------------------------------------------------------------------------
(***************************************************************************)
(* Predicates of State, and prepare_blocks.                                *)
(***************************************************************************)
full_flash_allowed == unlock_file = None
unlock_applies == selected \in Unlockable
preflight_has_risk == immo_report = "warn"

can_advance ==
  /\ ~busy
  /\ CASE step = "Interface" -> interface
       [] step = "Identify" -> selected # None
       [] step = "Unlock" -> unlock # None
       [] step = "Operation" ->
            operation # None /\ (operation = "FullFlash" => full_flash_allowed)
       [] step = "Firmware" -> firmware # None
       [] step = "Preflight" -> prepared # None /\ (preflight_has_risk => risk_acknowledged)
       [] step = "Confirm" -> prepared # None
       [] OTHER -> FALSE

Blocks(fw) == Parsed[fw.file][fw.module]

\* A file is read as a file of the module selected now; None is its Err.
inspect_firmware(f) ==
  IF Parsed[f][selected] # {} THEN [file |-> f, module |-> selected] ELSE None

\* Is f the stock file the unlock patch of the selected module is built for?
validate_unlock_file(f) == <<f, selected>> \in Stock /\ selected \in Unlockable

immo_check_applies(job) ==
  job.operation # "Unlock" /\ CalBlock[job.module] \in Blocks(job.firmware)

Only(n, blocks) == IF n \in blocks THEN <<n>> ELSE <<>>
Ascending(blocks) ==
  Only(1, blocks) \o Only(2, blocks) \o Only(3, blocks) \o Only(4, blocks) \o Only(5, blocks)

\* The block numbers prepare_blocks puts out, in order; <<>> is its Err.
Plan(job) ==
  LET blocks == Blocks(job.firmware)
      cal == CalBlock[job.module]
  IN  CASE job.operation = "CalibrationFlash" /\ cal \in blocks -> <<cal>>
        [] job.operation = "FullFlash" -> Ascending(blocks)
        [] job.operation = "Relock" /\ CbootBlock[job.module] \in blocks -> Ascending(blocks)
        [] job.operation = "Unlock" /\ job.module \in Unlockable /\ 1..5 \subseteq blocks ->
             <<1, 2, 3, 4, PatchBlock, 5>>
        [] OTHER -> <<>>

-----------------------------------------------------------------------------
(***************************************************************************)
(* Work that a screen starts when it is entered.                           *)
(***************************************************************************)
start_scan ==
  /\ interface
  /\ busy' = TRUE /\ tasks' = tasks \cup {Task("scan", None)}
  /\ scan_results' = {} /\ selected' = None

start_unlock_probe ==
  /\ interface
  /\ busy' = TRUE /\ tasks' = tasks \cup {Task("probe", None)}

\* What start_preflight hands to its task: clones, so that what changes later
\* is not seen.  Without an operation or a file nothing is started.
Preparable == interface /\ selected # None /\ firmware # None /\ operation # None
PreflightTask ==
  Task("preflight", [module |-> selected, firmware |-> firmware, operation |-> operation])

\* Defects: an early return is missing, the wizard does not become busy, or
\* the checkbox keeps its tick.
start_preflight_unguarded ==
  /\ busy' = TRUE /\ risk_acknowledged' = FALSE /\ tasks' = tasks \cup {PreflightTask}
start_preflight_not_busy ==
  IF Preparable
  THEN risk_acknowledged' = FALSE /\ tasks' = tasks \cup {PreflightTask} /\ UNCHANGED busy
  ELSE UNCHANGED <<busy, risk_acknowledged, tasks>>
start_preflight_keeps_ack ==
  IF Preparable
  THEN busy' = TRUE /\ tasks' = tasks \cup {PreflightTask} /\ UNCHANGED risk_acknowledged
  ELSE UNCHANGED <<busy, risk_acknowledged, tasks>>
start_preflight ==
  IF Preparable
  THEN busy' = TRUE /\ risk_acknowledged' = FALSE /\ tasks' = tasks \cup {PreflightTask}
  ELSE UNCHANGED <<busy, risk_acknowledged, tasks>>

-----------------------------------------------------------------------------
(***************************************************************************)
(* Next (advance), Back (previous_step) and StartOver.                     *)
(***************************************************************************)
NextInterface ==
  /\ can_advance /\ On("Interface") /\ step' = "Identify" /\ start_scan
  /\ UNCHANGED <<interface, unlock, choice, prepared, immo_report, risk_acknowledged,
                 outcome, dialogs, acked>>

NextIdentify ==
  /\ can_advance /\ On("Identify")
  /\ IF unlock_applies THEN step' = "Unlock" /\ start_unlock_probe
     ELSE step' = "Operation" /\ UNCHANGED <<busy, tasks>>
  /\ UNCHANGED <<interface, scan_results, selected, unlock, choice, prepared, immo_report,
                 risk_acknowledged, outcome, dialogs, acked>>

\* A pending unlock file settles the operation: its screen is skipped.
NextUnlock ==
  /\ can_advance /\ On("Unlock")
  /\ IF unlock_file # None /\ firmware # None
     THEN step' = "Preflight" /\ start_preflight
     ELSE step' = "Operation" /\ UNCHANGED <<busy, risk_acknowledged, tasks>>
  /\ UNCHANGED <<interface, scan_results, selected, unlock, choice, prepared, immo_report,
                 outcome, dialogs, acked>>

NextOperation ==
  /\ can_advance /\ On("Operation") /\ step' = "Firmware"
  /\ UNCHANGED <<busy, interface, scan_results, selected, unlock, choice, prepared,
                 immo_report, risk_acknowledged, outcome, tasks, dialogs, acked>>

NextFirmware ==
  /\ can_advance /\ On("Firmware") /\ step' = "Preflight" /\ start_preflight
  /\ UNCHANGED <<interface, scan_results, selected, unlock, choice, prepared, immo_report,
                 outcome, dialogs, acked>>

NextPreflight ==
  /\ can_advance /\ On("Preflight") /\ step' = "Confirm"
  /\ UNCHANGED <<busy, interface, scan_results, selected, unlock, choice, prepared,
                 immo_report, risk_acknowledged, outcome, tasks, dialogs, acked>>

\* start_flash
NextConfirm ==
  /\ can_advance /\ On("Confirm") /\ interface /\ selected # None
  /\ step' = "Flashing" /\ flash_op' = prepared
  /\ UNCHANGED <<busy, interface, scan_results, selected, unlock, choice, prepared,
                 immo_report, risk_acknowledged, finished_ok, post_flash_findings, tasks,
                 dialogs, acked>>

previous_step ==
  CASE step = "Identify" -> "Interface"
    [] step = "Unlock" -> "Identify"
    [] step = "Operation" -> IF unlock_applies THEN "Unlock" ELSE "Identify"
    [] step = "Firmware" -> "Operation"
    [] step = "Preflight" -> IF operation = "Unlock" THEN "Unlock" ELSE "Firmware"
    [] step = "Confirm" -> "Preflight"

Back ==
  /\ ~busy /\ On(step) /\ step \notin {"Interface", "Flashing", "Done"}
  /\ step' = previous_step
  /\ UNCHANGED <<busy, interface, scan_results, selected, unlock, choice, prepared,
                 immo_report, risk_acknowledged, outcome, tasks, dialogs, acked>>

\* Everything but the interface is reset; tasks and dialogs live on.
StartOver ==
  /\ On("Done") /\ step' = "Interface" /\ busy' = FALSE
  /\ scan_results' = {} /\ selected' = None /\ unlock' = None
  /\ unlock_file' = None /\ operation' = None /\ firmware_path' = None /\ firmware' = None
  /\ prepared' = None /\ immo_report' = "none" /\ risk_acknowledged' = FALSE
  /\ flash_op' = None /\ finished_ok' = FALSE /\ post_flash_findings' = FALSE
  /\ UNCHANGED <<interface, tasks, dialogs, acked>>

-----------------------------------------------------------------------------
(***************************************************************************)
(* Interface and Identify screens.                                         *)
(***************************************************************************)
InterfaceChanged ==
  /\ On("Interface") /\ interface' \in BOOLEAN
  /\ UNCHANGED <<step, busy, scan_results, selected, unlock, choice, prepared, immo_report,
                 risk_acknowledged, outcome, tasks, dialogs, acked>>

\* A single candidate of a single answer is selected without asking (an address
\* may answer without any candidate); nothing else is touched.
ScanFinished ==
  /\ Task("scan", None) \in tasks /\ tasks' = tasks \ {Task("scan", None)}
  /\ busy' = FALSE
  /\ scan_results' \in SUBSET Modules
  /\ \/ UNCHANGED selected
     \/ Cardinality(scan_results') = 1 /\ selected' \in scan_results'
  /\ UNCHANGED <<step, interface, unlock, choice, prepared, immo_report, risk_acknowledged,
                 outcome, dialogs, acked>>

CandidateChosen ==
  /\ On("Identify") /\ ~busy
  /\ selected' \in scan_results
  /\ unlock' = None /\ operation' = None /\ firmware' = None /\ prepared' = None
  /\ UNCHANGED <<step, busy, interface, scan_results, unlock_file, firmware_path, immo_report,
                 risk_acknowledged, outcome, tasks, dialogs, acked>>

-----------------------------------------------------------------------------
(***************************************************************************)
(* Unlock screen.                                                          *)
(***************************************************************************)
\* Defect: a failed probe leaves the wizard busy.
UnlockProbeStaysBusy ==
  /\ Task("probe", None) \in tasks /\ tasks' = tasks \ {Task("probe", None)}
  /\ \/ \E s \in LockStates : unlock' = [module |-> selected, state |-> s] /\ busy' = FALSE
     \/ UNCHANGED <<unlock, busy>>
  /\ UNCHANGED <<step, interface, scan_results, selected, choice, prepared, immo_report,
                 risk_acknowledged, outcome, dialogs, acked>>

\* A failed probe keeps whatever was read before.
UnlockProbeFinished ==
  /\ Task("probe", None) \in tasks /\ tasks' = tasks \ {Task("probe", None)}
  /\ busy' = FALSE
  /\ \/ \E s \in LockStates : unlock' = [module |-> selected, state |-> s]
     \/ UNCHANGED unlock
  /\ UNCHANGED <<step, interface, scan_results, selected, choice, prepared, immo_report,
                 risk_acknowledged, outcome, dialogs, acked>>

\* unlock_file_picker is rendered unless the module is known to be unlocked.
unlock_file_picker ==
  /\ On("Unlock") /\ ~busy /\ unlock # None /\ unlock.state # "Unlocked"
  /\ unlock_applies

BrowseUnlockFile ==
  /\ unlock_file_picker /\ dialogs' = dialogs \cup {"unlock"} /\ dialogs' # dialogs
  /\ UNCHANGED <<step, busy, interface, scan_results, selected, unlock, choice, prepared,
                 immo_report, risk_acknowledged, outcome, tasks, acked>>

\* The dialog was cancelled (or there is no module any more), or a file was
\* picked.  A file that is not the stock file of the module is refused; the
\* operation and the firmware of an earlier choice stay.
UnlockFileSelected ==
  /\ "unlock" \in dialogs /\ dialogs' = dialogs \ {"unlock"}
  /\ \/ UNCHANGED <<choice, prepared>>
     \/ \E f \in Files :
          /\ selected # None
          /\ \/ /\ inspect_firmware(f) # None /\ validate_unlock_file(f)
                /\ unlock_file' = f /\ firmware' = inspect_firmware(f)
                /\ operation' = "Unlock" /\ prepared' = None /\ UNCHANGED firmware_path
             \/ /\ inspect_firmware(f) = None \/ ~validate_unlock_file(f)
                /\ unlock_file' = None
                /\ UNCHANGED <<operation, firmware_path, firmware, prepared>>
  /\ UNCHANGED <<step, busy, interface, scan_results, selected, unlock, immo_report,
                 risk_acknowledged, outcome, tasks, acked>>

\* Clear is offered while a file is accepted.
ClearUnlockFile ==
  /\ unlock_file_picker /\ unlock_file # None
  /\ unlock_file' = None /\ prepared' = None
  /\ firmware' = IF firmware_path = None THEN None ELSE firmware
  /\ operation' = IF operation = "Unlock" THEN None ELSE operation
  /\ UNCHANGED <<step, busy, interface, scan_results, selected, unlock, firmware_path,
                 immo_report, risk_acknowledged, outcome, tasks, dialogs, acked>>

-----------------------------------------------------------------------------
(***************************************************************************)
(* Operation and Firmware screens.                                         *)
(***************************************************************************)
Offered ==
  {"CalibrationFlash"} \cup (IF full_flash_allowed THEN {"FullFlash"} ELSE {})
  \cup (IF selected # None /\ CbootBlock[selected] # 0 THEN {"Relock"} ELSE {})

\* An unlock file must not be reused by a flash operation.
OperationChosen ==
  /\ On("Operation")
  /\ operation' \in Offered
  /\ prepared' = None
  /\ firmware' = IF firmware_path = None THEN None ELSE firmware
  /\ UNCHANGED <<step, busy, interface, scan_results, selected, unlock, unlock_file,
                 firmware_path, immo_report, risk_acknowledged, outcome, tasks, dialogs, acked>>

BrowseFirmware ==
  /\ On("Firmware") /\ dialogs' = dialogs \cup {"firmware"} /\ dialogs' # dialogs
  /\ UNCHANGED <<step, busy, interface, scan_results, selected, unlock, choice, prepared,
                 immo_report, risk_acknowledged, outcome, tasks, acked>>

FirmwareSelected ==
  /\ "firmware" \in dialogs /\ dialogs' = dialogs \ {"firmware"}
  /\ \/ UNCHANGED <<choice, prepared>>
     \/ \E f \in Files :
          /\ selected # None
          /\ firmware_path' = f /\ firmware' = inspect_firmware(f) /\ prepared' = None
          /\ UNCHANGED <<unlock_file, operation>>
  /\ UNCHANGED <<step, busy, interface, scan_results, selected, unlock, immo_report,
                 risk_acknowledged, outcome, tasks, acked>>

-----------------------------------------------------------------------------
(***************************************************************************)
(* Preflight, flashing and afterwards.                                     *)
(***************************************************************************)
\* What the immobilizer probe of a preflight may report: nothing when it does
\* not apply, and nothing either when the module did not answer (fail open).
Reports(job) ==
  {"none"} \cup (IF immo_check_applies(job) /\ job.module \in ImmoCovered
                 THEN {"clean", "warn"} ELSE {})

\* Preparation fails when blocks are missing, and may fail in checksum_and_patch.
PreflightFinished ==
  \E t \in tasks :
    /\ t.kind = "preflight" /\ tasks' = tasks \ {t}
    /\ busy' = FALSE /\ immo_report' \in Reports(t.job) /\ acked' = FALSE
    /\ prepared' \in {None} \cup (IF Plan(t.job) = <<>> THEN {} ELSE {t.job})
    /\ UNCHANGED <<step, interface, scan_results, selected, unlock, choice,
                   risk_acknowledged, outcome, dialogs>>

AcknowledgeRisk ==
  /\ On("Preflight") /\ ~busy /\ preflight_has_risk
  /\ risk_acknowledged' = ~risk_acknowledged /\ acked' = risk_acknowledged'
  /\ UNCHANGED <<step, busy, interface, scan_results, selected, unlock, choice, prepared,
                 immo_report, outcome, tasks, dialogs>>

\* start_post_flash_check
post_flash_check ==
  interface /\ selected # None /\ immo_report # "none" /\ selected \in ImmoCovered

\* The last FlashProgress of the stream: Complete or Error.
FlashEnds ==
  /\ flash_op # None
  /\ flash_op' = None /\ step' = "Done" /\ finished_ok' \in BOOLEAN
  /\ tasks' = IF finished_ok' /\ post_flash_check
              THEN tasks \cup {Task("postcheck", None)} ELSE tasks
  /\ UNCHANGED <<busy, interface, scan_results, selected, unlock, choice, prepared,
                 immo_report, risk_acknowledged, post_flash_findings, dialogs, acked>>

PostFlashChecked ==
  /\ Task("postcheck", None) \in tasks /\ tasks' = tasks \ {Task("postcheck", None)}
  /\ post_flash_findings' \in BOOLEAN
  /\ UNCHANGED <<step, busy, interface, scan_results, selected, unlock, choice, prepared,
                 immo_report, risk_acknowledged, flash_op, finished_ok, dialogs, acked>>

Advance ==
  \/ NextInterface \/ NextIdentify \/ NextUnlock \/ NextOperation
  \/ NextFirmware \/ NextPreflight \/ NextConfirm

Next ==
  \/ Advance \/ Back \/ StartOver
  \/ InterfaceChanged \/ ScanFinished \/ CandidateChosen
  \/ UnlockProbeFinished \/ BrowseUnlockFile \/ UnlockFileSelected \/ ClearUnlockFile
  \/ OperationChosen \/ BrowseFirmware \/ FirmwareSelected
  \/ PreflightFinished \/ AcknowledgeRisk \/ FlashEnds \/ PostFlashChecked

Spec == Init /\ [][Next]_vars

\* Spawned tasks are polled by the runtime and every await in them has a
\* timer; what the user does is never assumed.
FairSpec ==
  /\ Spec /\ WF_vars(ScanFinished) /\ WF_vars(UnlockProbeFinished)
  /\ WF_vars(PreflightFinished) /\ WF_vars(FlashEnds) /\ WF_vars(PostFlashChecked)

-----------------------------------------------------------------------------
(***************************************************************************)
(* Properties.                                                             *)
(***************************************************************************)
TypeOK ==
  /\ step \in Screens /\ busy \in BOOLEAN /\ interface \in BOOLEAN
  /\ scan_results \subseteq Modules /\ selected \in Modules \cup {None}
  /\ unlock \in [module : Modules \cup {None}, state : LockStates] \cup {None}
  /\ unlock_file \in Files \cup {None} /\ operation \in Operations \cup {None}
  /\ firmware_path \in Files \cup {None} /\ firmware \in Firmware \cup {None}
  /\ prepared \in Jobs \cup {None} /\ immo_report \in {"none", "clean", "warn"}
  /\ risk_acknowledged \in BOOLEAN /\ flash_op \in Jobs \cup {None}
  /\ finished_ok \in BOOLEAN /\ post_flash_findings \in BOOLEAN
  /\ tasks \subseteq [kind : {"scan", "probe", "postcheck"}, job : {None}]
                     \cup [kind : {"preflight"}, job : Jobs]
  /\ dialogs \subseteq {"unlock", "firmware"} /\ acked \in BOOLEAN

\* Results of its own that the wizard waits for.
Waiting == {t \in tasks : BusTask(t)}

\* "Set when a step is waiting on the bus; disables navigation": the wizard is
\* busy exactly while a result of its own is outstanding, waits for one at a
\* time, on the screen that started it, and never while a flash is running.
BusyTracksWork ==
  /\ busy <=> Waiting # {}
  /\ \A t, u \in Waiting : t = u
  /\ busy => flash_op = None
  /\ \A t \in Waiting : /\ t.kind = "scan" => step = "Identify"
                        /\ t.kind = "probe" => step = "Unlock"
                        /\ t.kind = "preflight" => step = "Preflight"
  /\ flash_op # None <=> step = "Flashing"

\* full_flash_allowed: whatever screens and dialogs come in between, a full
\* flash and a pending unlock file never coexist.
FullFlashExcludesUnlockFile == operation = "FullFlash" => unlock_file = None

\* What Confirm offers to write, and what is being written, was prepared for
\* the module that is selected and shown, rescans and failed preflights included.
PreparedForSelected ==
  /\ step = "Confirm" /\ prepared # None => prepared.module = selected
  /\ flash_op # None => flash_op.module = selected

\* "A risky immobilizer verdict requires an explicit confirmation": while a
\* flash runs whose preflight warned, the user has acknowledged that very report.
RiskVetted == step = "Flashing" /\ preflight_has_risk => acked

\* Every plan the wizard can write meets what the UDS flash sequence relies on
\* (OrderAssumption of UdsFlash): "1..4, then the patch, then CAL last".
Writable(plan) ==
  /\ plan # <<>>
  /\ \A i, j \in DOMAIN plan : i < j =>
       /\ plan[i] # plan[j]
       /\ plan[j] > 5 => plan[i] # 5
       /\ plan[i] > 5 => plan[j] # plan[i] - 5
PlanWritable ==
  /\ prepared # None => Writable(Plan(prepared))
  /\ flash_op # None => Writable(Plan(flash_op))

\* What the wizard writes: a plan for the module shown that the flash sequence
\* can write, with the warnings about it acknowledged (start_flash).
VettedPlan == FullFlashExcludesUnlockFile /\ PreparedForSelected /\ PlanWritable /\ RiskVetted

\* Why it does.  Reached: what has been chosen by the time a screen is shown.
\* Current: what is prepared belongs to the module and is dropped with the
\* operation.  Told: the tick of the checkbox is one for the last report.
Reached ==
  /\ step \notin {"Interface", "Done"} => interface
  /\ step \notin {"Interface", "Identify", "Done"} => selected # None
Current ==
  /\ operation = None => prepared = None
  /\ prepared # None => Plan(prepared) # <<>>
  /\ flash_op # None => Plan(flash_op) # <<>> /\ flash_op.module = selected
  /\ step \in {"Preflight", "Confirm"} /\ ~busy /\ prepared # None =>
       prepared.module = selected
  /\ \A t \in tasks : t.kind = "preflight" =>
       t.job.module = selected /\ operation # None /\ ~risk_acknowledged
Told ==
  /\ risk_acknowledged => acked
  /\ step \in {"Confirm", "Flashing"} /\ preflight_has_risk => risk_acknowledged

Inv ==
  /\ TypeOK /\ BusyTracksWork /\ FullFlashExcludesUnlockFile
  /\ Reached /\ Current /\ Told

\* The wizard never hangs: waiting for the bus ends and a flash ends.
WorkEnds == busy \/ flash_op # None ~> ~busy /\ flash_op = None

\* What the repository says of the wizard and does not hold, see the README.

\* "Only one file works for this ECU" (view_unlock): an unlock is prepared
\* from the validated stock file only.
UnlockUsesValidatedFile ==
  prepared # None /\ prepared.operation = "Unlock" =>
    <<prepared.firmware.file, prepared.module>> \in Stock

\* "Switching to a flash operation must not silently reuse [the unlock file]":
\* what another operation writes was picked on the Firmware screen.
FlashUsesChosenFile ==
  prepared # None /\ prepared.operation # "Unlock" => prepared.firmware.file = firmware_path

\* "Choosing a different module invalidates everything downstream": what is
\* prepared for a module comes from a file that was read as a file of that module.
PreparedAsRead == prepared # None => prepared.firmware.module = prepared.module

\* All three: what is prepared was read from the file that is meant for it.
PreparedFromRightFile == UnlockUsesValidatedFile /\ FlashUsesChosenFile /\ PreparedAsRead

\* "Nothing is flashed that the user did not see described first": Confirm
\* shows the file and the operation its blocks were prepared from.
ConfirmDescribes ==
  step = "Confirm" /\ prepared # None =>
    prepared.firmware = firmware /\ prepared.operation = operation
=============================================================================

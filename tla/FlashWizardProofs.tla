-------------------------- MODULE FlashWizardProofs --------------------------
(***************************************************************************)
(* Proofs about the wizard, for every set of modules and files and every   *)
(* order in which dialogs and tasks answer.                                *)
(***************************************************************************)
EXTENDS FlashWizard, TLAPS

\* What is on its way to the wizard.
Tasks == [kind : {"scan", "probe", "postcheck"}, job : {None}]
         \cup [kind : {"preflight"}, job : Jobs]

\* None is none of the things the wizard chooses.
LEMMA NoneFacts ==
  /\ None \notin Modules /\ None \notin Files /\ None \notin Firmware
  /\ None \notin Jobs /\ None \notin Operations
  BY NoneAssumption

\* The tasks are tasks.
LEMMA TaskFacts ==
  /\ \A k \in {"scan", "probe", "postcheck"} : Task(k, None) \in Tasks
  /\ \A j \in Jobs : Task("preflight", j) \in Tasks
  BY DEF Tasks, Task

\* The screens are screens.
LEMMA ScreenFacts ==
  /\ {"Interface", "Identify", "Unlock", "Operation", "Firmware", "Preflight", "Confirm",
      "Flashing", "Done"} \subseteq Screens
  BY DEF Screens

-----------------------------------------------------------------------------
(***************************************************************************)
(* Types.                                                                  *)
(***************************************************************************)

\* The flags stay flags.
LEMMA Flags ==
  ASSUME TypeOK, [Next]_vars
  PROVE  /\ busy' \in BOOLEAN /\ interface' \in BOOLEAN /\ risk_acknowledged' \in BOOLEAN
         /\ finished_ok' \in BOOLEAN /\ post_flash_findings' \in BOOLEAN /\ acked' \in BOOLEAN
  <1> USE DEF TypeOK, outcome, choice
  <1>1. CASE Advance
    BY <1>1, Zenon DEF Advance, NextInterface, NextIdentify, NextUnlock, NextOperation,
       NextFirmware, NextPreflight, NextConfirm, start_scan, start_unlock_probe, start_preflight
  <1>2. CASE Back \/ StartOver \/ InterfaceChanged \/ ScanFinished \/ CandidateChosen
    BY <1>2, Zenon DEF Back, StartOver, InterfaceChanged, ScanFinished, CandidateChosen
  <1>3. CASE UnlockProbeFinished \/ BrowseUnlockFile \/ UnlockFileSelected \/ ClearUnlockFile
    BY <1>3, Zenon DEF UnlockProbeFinished, BrowseUnlockFile, UnlockFileSelected,
       ClearUnlockFile
  <1>4. CASE OperationChosen \/ BrowseFirmware \/ FirmwareSelected \/ FlashEnds
             \/ PostFlashChecked
    BY <1>4, Zenon DEF OperationChosen, BrowseFirmware, FirmwareSelected, FlashEnds,
       PostFlashChecked
  <1>5. CASE PreflightFinished
    BY <1>5, Zenon DEF PreflightFinished
  <1>6. CASE AcknowledgeRisk
    BY <1>6, Zenon DEF AcknowledgeRisk
  <1>7. CASE UNCHANGED vars
    BY <1>7, Zenon DEF vars
  <1> QED
    BY <1>1, <1>2, <1>3, <1>4, <1>5, <1>6, <1>7 DEF Next

\* A preflight is started for a job: everything it needs is there.
LEMMA PreflightJob ==
  ASSUME TypeOK, Preparable
  PROVE  PreflightTask \in Tasks
  <1>1. selected \in Modules /\ firmware \in Firmware /\ operation \in Operations
    BY DEF TypeOK, Preparable
  <1>2. [module |-> selected, firmware |-> firmware, operation |-> operation] \in Jobs
    BY <1>1 DEF Jobs
  <1> QED
    BY <1>2, TaskFacts DEF PreflightTask

\* What is on its way stays a set of tasks, whatever starts.
LEMMA TasksType ==
  ASSUME TypeOK, [Next]_vars
  PROVE  tasks' \subseteq Tasks
  <1>0. tasks \subseteq Tasks
    BY DEF TypeOK, Tasks
  <1>1. CASE NextInterface \/ NextIdentify
    BY <1>0, <1>1, TaskFacts DEF NextInterface, NextIdentify, start_scan, start_unlock_probe
  <1>2. CASE NextUnlock \/ NextFirmware
    BY <1>0, <1>2, PreflightJob DEF NextUnlock, NextFirmware, start_preflight
  <1>3. CASE NextOperation \/ NextPreflight \/ NextConfirm \/ Back \/ StartOver
             \/ InterfaceChanged \/ CandidateChosen \/ BrowseUnlockFile \/ UnlockFileSelected
             \/ ClearUnlockFile
    BY <1>0, <1>3 DEF NextOperation, NextPreflight, NextConfirm, Back, StartOver,
       InterfaceChanged, CandidateChosen, BrowseUnlockFile, UnlockFileSelected, ClearUnlockFile
  <1>4. CASE OperationChosen \/ BrowseFirmware \/ FirmwareSelected \/ AcknowledgeRisk
             \/ UNCHANGED vars
    BY <1>0, <1>4 DEF OperationChosen, BrowseFirmware, FirmwareSelected, AcknowledgeRisk, vars
  <1>5. CASE ScanFinished \/ UnlockProbeFinished \/ PreflightFinished \/ PostFlashChecked
    BY <1>0, <1>5 DEF ScanFinished, UnlockProbeFinished, PreflightFinished, PostFlashChecked
  <1>6. CASE FlashEnds
    BY <1>0, <1>6, TaskFacts DEF FlashEnds
  <1> QED
    BY <1>1, <1>2, <1>3, <1>4, <1>5, <1>6 DEF Next, Advance

\* What a file is read as is firmware.
LEMMA InspectType ==
  ASSUME TypeOK, NEW f \in Files, selected # None
  PROVE  inspect_firmware(f) \in Firmware \cup {None}
  BY DEF TypeOK, inspect_firmware, Firmware

\* The choices stay well typed.
LEMMA ChoiceType ==
  ASSUME TypeOK, [Next]_vars
  PROVE  /\ scan_results' \subseteq Modules /\ selected' \in Modules \cup {None}
         /\ unlock' \in [module : Modules \cup {None}, state : LockStates] \cup {None}
         /\ unlock_file' \in Files \cup {None} /\ operation' \in Operations \cup {None}
         /\ firmware_path' \in Files \cup {None} /\ firmware' \in Firmware \cup {None}
         /\ dialogs' \subseteq {"unlock", "firmware"}
  <1> USE DEF TypeOK, choice
  <1>1. CASE Advance
    BY <1>1 DEF Advance, NextInterface, NextIdentify, NextUnlock, NextOperation,
       NextFirmware, NextPreflight, NextConfirm, start_scan
  <1>2. CASE Back \/ StartOver \/ InterfaceChanged \/ ScanFinished \/ CandidateChosen
    BY <1>2 DEF Back, StartOver, InterfaceChanged, ScanFinished, CandidateChosen
  <1>3. CASE UnlockProbeFinished
    <2>1. \A s \in LockStates : [module |-> selected, state |-> s]
             \in [module : Modules \cup {None}, state : LockStates]
      OBVIOUS
    <2> QED
      BY <1>3, <2>1 DEF UnlockProbeFinished
  <1>8. CASE BrowseUnlockFile \/ ClearUnlockFile
    BY <1>8 DEF BrowseUnlockFile, ClearUnlockFile
  <1>4. CASE UnlockFileSelected
    <2>1. "Unlock" \in Operations
      BY DEF Operations
    <2> QED
      BY <1>4, <2>1, InspectType DEF UnlockFileSelected
  <1>5. CASE OperationChosen
    BY <1>5 DEF OperationChosen, Offered, Operations
  <1>6. CASE FirmwareSelected
    BY <1>6, InspectType DEF FirmwareSelected
  <1>7. CASE BrowseFirmware \/ FlashEnds \/ PostFlashChecked \/ PreflightFinished
             \/ AcknowledgeRisk \/ UNCHANGED vars
    BY <1>7 DEF BrowseFirmware, FlashEnds, PostFlashChecked, PreflightFinished,
       AcknowledgeRisk, vars
  <1> QED
    BY <1>1, <1>2, <1>3, <1>4, <1>5, <1>6, <1>7, <1>8 DEF Next

\* So do the screen, the prepared job, the report and the job being written.
LEMMA OutcomeType ==
  ASSUME TypeOK, [Next]_vars
  PROVE  /\ step' \in Screens
         /\ prepared' \in Jobs \cup {None} /\ immo_report' \in {"none", "clean", "warn"}
         /\ flash_op' \in Jobs \cup {None}
  <1> USE ScreenFacts DEF TypeOK, outcome
  <1>1. CASE Advance
    BY <1>1 DEF Advance, NextInterface, NextIdentify, NextUnlock, NextOperation,
       NextFirmware, NextPreflight, NextConfirm
  <1>2. CASE Back
    <2>1. previous_step \in Screens
      BY <1>2 DEF Back, previous_step, Screens
    <2> QED
      BY <1>2, <2>1 DEF Back
  <1>3. CASE StartOver \/ InterfaceChanged \/ ScanFinished \/ CandidateChosen
             \/ UnlockProbeFinished \/ BrowseUnlockFile \/ UnlockFileSelected
             \/ ClearUnlockFile
    BY <1>3 DEF StartOver, InterfaceChanged, ScanFinished, CandidateChosen,
       UnlockProbeFinished, BrowseUnlockFile, UnlockFileSelected, ClearUnlockFile
  <1>4. CASE OperationChosen \/ BrowseFirmware \/ FirmwareSelected \/ AcknowledgeRisk
             \/ FlashEnds \/ PostFlashChecked \/ UNCHANGED vars
    BY <1>4 DEF OperationChosen, BrowseFirmware, FirmwareSelected, AcknowledgeRisk, FlashEnds,
       PostFlashChecked, vars
  <1>5. CASE PreflightFinished
    <2>1. \A t \in tasks : t.kind = "preflight" => t.job \in Jobs
      OBVIOUS
    <2>2. \A j : Reports(j) \subseteq {"none", "clean", "warn"}
      BY DEF Reports
    <2> QED
      BY <1>5, <2>1, <2>2 DEF PreflightFinished
  <1> QED
    BY <1>1, <1>2, <1>3, <1>4, <1>5 DEF Next

\* Every step keeps the types.
LEMMA TypeStep == ASSUME TypeOK, [Next]_vars PROVE TypeOK'
  BY Flags, TasksType, ChoiceType, OutcomeType DEF TypeOK, Tasks

-----------------------------------------------------------------------------
(***************************************************************************)
(* BusyTracksWork.                                                         *)
(***************************************************************************)

\* Starting the only thing to wait for.
LEMMA WaitingAdd ==
  ASSUME Waiting = {}, NEW t, BusTask(t), tasks' = tasks \cup {t}
  PROVE  Waiting' = {t}
  BY DEF Waiting, BusTask

\* The only thing waited for has come.
LEMMA WaitingDone ==
  ASSUME \A t, u \in Waiting : t = u, NEW t \in tasks, BusTask(t), tasks' = tasks \ {t}
  PROVE  Waiting' = {}
  BY DEF Waiting, BusTask

\* The check after a flash is not waited for.
LEMMA WaitingSame ==
  ASSUME tasks' \in {tasks, tasks \cup {Task("postcheck", None)},
                     tasks \ {Task("postcheck", None)}}
  PROVE  Waiting' = Waiting
  BY DEF Waiting, BusTask, Task

\* The wizard is busy on three screens only.
LEMMA BusyScreens ==
  ASSUME Inv
  PROVE  /\ busy => step \in {"Identify", "Unlock", "Preflight"}
         /\ ~busy => Waiting = {}
  BY DEF Inv, BusyTracksWork, TypeOK, Waiting, BusTask, Tasks

\* Going to another screen, with or without starting something there.
LEMMA BusyAdvance == ASSUME Inv, Advance \/ Back PROVE BusyTracksWork'
  <1>0. ~busy /\ Waiting = {} /\ step # "Flashing" /\ flash_op = None
    <2>1. ~busy /\ step # "Flashing"
      BY DEF Advance, Back, On, NextInterface, NextIdentify, NextUnlock, NextOperation,
         NextFirmware, NextPreflight, NextConfirm, can_advance
    <2> QED
      BY <2>1, BusyScreens DEF Inv, BusyTracksWork
  <1>1. ASSUME NEW t, BusTask(t), tasks' = tasks \cup {t}, busy' = TRUE, flash_op' = flash_op,
               \/ t.kind = "scan" /\ step' = "Identify"
               \/ t.kind = "probe" /\ step' = "Unlock"
               \/ t.kind = "preflight" /\ step' = "Preflight"
        PROVE  BusyTracksWork'
    <2>1. Waiting' = {t}
      BY <1>0, <1>1, WaitingAdd
    <2> QED
      BY <1>0, <1>1, <2>1 DEF BusyTracksWork
  <1>2. ASSUME UNCHANGED <<busy, tasks>>, (flash_op' # None) <=> (step' = "Flashing")
        PROVE  BusyTracksWork'
    <2>1. Waiting' = {} /\ ~busy'
      BY <1>0, <1>2, WaitingSame
    <2> QED
      BY <1>2, <2>1 DEF BusyTracksWork
  <1>3. CASE NextInterface
    BY <1>1, <1>3 DEF NextInterface, start_scan, Task, BusTask, outcome
  <1>4. CASE NextIdentify
    BY <1>0, <1>1, <1>2, <1>4 DEF NextIdentify, start_unlock_probe, Task, BusTask, outcome
  <1>5. CASE NextUnlock \/ NextFirmware
    <2>1. step' \in {"Preflight", "Operation"} /\ flash_op' = flash_op
      BY <1>5 DEF NextUnlock, NextFirmware, outcome
    <2>2. CASE step' = "Preflight" /\ Preparable
      BY <1>1, <1>5, <2>1, <2>2
      DEF NextUnlock, NextFirmware, start_preflight, PreflightTask, Task, BusTask
    <2>3. CASE step' # "Preflight" \/ ~Preparable
      BY <1>0, <1>2, <1>5, <2>1, <2>3 DEF NextUnlock, NextFirmware, start_preflight
    <2> QED
      BY <2>2, <2>3
  <1>6. CASE NextOperation \/ NextPreflight
    BY <1>0, <1>2, <1>6 DEF NextOperation, NextPreflight, outcome
  <1>7. CASE NextConfirm
    <2>1. prepared # None
      BY <1>7 DEF NextConfirm, can_advance, On
    <2> QED
      BY <1>0, <1>2, <1>7, <2>1 DEF NextConfirm
  <1>8. CASE Back
    <2>1. previous_step # "Flashing"
      BY <1>8 DEF Back, previous_step, Inv, TypeOK, Screens
    <2> QED
      BY <1>0, <1>2, <1>8, <2>1 DEF Back, outcome
  <1> QED
    BY <1>3, <1>4, <1>5, <1>6, <1>7, <1>8 DEF Advance

\* What the wizard waited for has come.
LEMMA BusyFinished ==
  ASSUME Inv, ScanFinished \/ UnlockProbeFinished \/ PreflightFinished
  PROVE  BusyTracksWork'
  <1>1. PICK t \in tasks : t.kind \in {"scan", "probe", "preflight"} /\ tasks' = tasks \ {t}
    BY DEF ScanFinished, UnlockProbeFinished, PreflightFinished, Task
  <1>2. BusTask(t) /\ t \in Waiting
    BY <1>1 DEF BusTask, Waiting
  <1>3. Waiting' = {}
    BY <1>1, <1>2, WaitingDone DEF Inv, BusyTracksWork
  <1>4. busy' = FALSE /\ UNCHANGED <<step, flash_op>>
    BY DEF ScanFinished, UnlockProbeFinished, PreflightFinished, outcome
  <1> QED
    BY <1>3, <1>4 DEF Inv, BusyTracksWork

\* Every step keeps busy true to the tasks.
LEMMA BusyStep == ASSUME Inv, [Next]_vars PROVE BusyTracksWork'
  <1>1. CASE StartOver \/ FlashEnds
    <2>1. /\ step \in {"Done", "Flashing"} /\ step' \in {"Interface", "Done"}
          /\ flash_op' = None
      BY <1>1 DEF StartOver, On, FlashEnds, Inv, BusyTracksWork
    <2>2. ~busy /\ Waiting = {}
      BY <2>1, BusyScreens
    <2>3. ~busy' /\ Waiting' = {}
      BY <1>1, <2>2, WaitingSame DEF StartOver, FlashEnds
    <2> QED
      BY <2>1, <2>3 DEF BusyTracksWork
  <1>2. CASE UNCHANGED <<step, busy, flash_op>> /\ tasks' \in {tasks, tasks \ {Task("postcheck", None)}}
    <2>1. Waiting' = Waiting
      BY <1>2, WaitingSame
    <2> QED
      BY <1>2, <2>1 DEF Inv, BusyTracksWork
  <1>3. CASE InterfaceChanged \/ CandidateChosen \/ BrowseUnlockFile \/ UnlockFileSelected
             \/ ClearUnlockFile \/ OperationChosen \/ BrowseFirmware \/ FirmwareSelected
    BY <1>2, <1>3 DEF InterfaceChanged, CandidateChosen, BrowseUnlockFile, UnlockFileSelected,
       ClearUnlockFile, OperationChosen, BrowseFirmware, FirmwareSelected, outcome
  <1>4. CASE AcknowledgeRisk \/ PostFlashChecked \/ UNCHANGED vars
    BY <1>2, <1>4 DEF AcknowledgeRisk, PostFlashChecked, vars, outcome
  <1> QED
    BY <1>1, <1>3, <1>4, BusyAdvance, BusyFinished DEF Next

-----------------------------------------------------------------------------
(***************************************************************************)
(* Reached, Told and the unlock file.                                      *)
(***************************************************************************)

\* An unlock file and a full flash are never chosen together.
LEMMA FullFlashStep ==
  ASSUME FullFlashExcludesUnlockFile, [Next]_vars
  PROVE  FullFlashExcludesUnlockFile'
  <1> USE DEF FullFlashExcludesUnlockFile, choice
  <1>1. CASE Advance \/ Back \/ InterfaceChanged \/ ScanFinished \/ UnlockProbeFinished
             \/ BrowseUnlockFile \/ BrowseFirmware \/ AcknowledgeRisk \/ FlashEnds
             \/ PostFlashChecked \/ UNCHANGED vars
    <2>1. UNCHANGED choice
      BY <1>1 DEF Advance, NextInterface, NextIdentify, NextUnlock, NextOperation,
         NextFirmware, NextPreflight, NextConfirm, Back, InterfaceChanged, ScanFinished,
         UnlockProbeFinished, BrowseUnlockFile, BrowseFirmware, AcknowledgeRisk, FlashEnds,
         PostFlashChecked, vars
    <2> QED
      BY <2>1
  <1>2. CASE StartOver \/ CandidateChosen \/ UnlockFileSelected \/ ClearUnlockFile
    BY <1>2, NoneFacts
    DEF StartOver, CandidateChosen, UnlockFileSelected, ClearUnlockFile, Operations
  <1>3. CASE OperationChosen
    BY <1>3 DEF OperationChosen, Offered, full_flash_allowed
  <1>4. CASE FirmwareSelected \/ PreflightFinished
    BY <1>4 DEF FirmwareSelected, PreflightFinished
  <1> QED
    BY <1>1, <1>2, <1>3, <1>4 DEF Next

\* A screen is left only with what it asks for, and a rescan, which deselects,
\* goes back to its own screen.
LEMMA ReachedStep == ASSUME Inv, [Next]_vars PROVE Reached'
  <1> USE DEF Reached
  <1>0. TypeOK /\ Reached
    BY DEF Inv
  <1>1. CASE NextInterface
    BY <1>0, <1>1 DEF NextInterface, start_scan
  <1>2. CASE NextIdentify
    BY <1>0, <1>2 DEF NextIdentify, can_advance, On
  <1>3. CASE NextUnlock \/ NextOperation \/ NextFirmware \/ NextPreflight \/ NextConfirm
    <2>1. step \in {"Unlock", "Operation", "Firmware", "Preflight", "Confirm"}
          /\ UNCHANGED <<interface, selected>>
      BY <1>3 DEF NextUnlock, NextOperation, NextFirmware, NextPreflight, NextConfirm, On
    <2> QED
      BY <1>0, <2>1
  <1>4. CASE Back
    <2>1. /\ step \notin {"Interface", "Flashing", "Done"} /\ UNCHANGED <<interface, selected>>
          /\ step' = previous_step
      BY <1>4 DEF Back
    <2>2. step = "Identify" => step' = "Interface"
      BY <2>1 DEF previous_step
    <2>3. step = "Unlock" => step' = "Identify"
      BY <2>1 DEF previous_step
    <2> QED
      BY <1>0, <2>1, <2>2, <2>3
  <1>5. CASE StartOver \/ FlashEnds
    BY <1>5 DEF StartOver, FlashEnds
  <1>6. CASE InterfaceChanged
    BY <1>0, <1>6 DEF InterfaceChanged, On
  <1>7. CASE ScanFinished
    <2>1. step = "Identify"
      BY <1>7 DEF ScanFinished, Inv, BusyTracksWork, Waiting, BusTask, Task
    <2> QED
      BY <1>0, <1>7, <2>1 DEF ScanFinished
  <1>8. CASE CandidateChosen
    <2>1. step = "Identify"
      BY <1>8 DEF CandidateChosen, On
    <2> QED
      BY <1>0, <1>8, <2>1 DEF CandidateChosen
  <1>9. CASE UnlockProbeFinished \/ BrowseUnlockFile \/ UnlockFileSelected \/ ClearUnlockFile
             \/ OperationChosen \/ BrowseFirmware \/ FirmwareSelected
    BY <1>0, <1>9 DEF UnlockProbeFinished, BrowseUnlockFile, UnlockFileSelected,
       ClearUnlockFile, OperationChosen, BrowseFirmware, FirmwareSelected
  <1>10. CASE PreflightFinished \/ AcknowledgeRisk \/ PostFlashChecked \/ UNCHANGED vars
    BY <1>0, <1>10 DEF PreflightFinished, AcknowledgeRisk, PostFlashChecked, vars
  <1> QED
    BY <1>1, <1>2, <1>3, <1>4, <1>5, <1>6, <1>7, <1>8, <1>9, <1>10 DEF Next, Advance

\* A tick is one for the last report: it is taken away when a preflight starts
\* and cannot be set before that preflight has reported.
LEMMA ToldStep == ASSUME Inv, [Next]_vars PROVE Told'
  <1> USE DEF Told, preflight_has_risk
  <1>0. Told /\ (\A t \in tasks : t.kind = "preflight" => ~risk_acknowledged)
    BY DEF Inv, Current
  <1>1. CASE NextInterface \/ NextIdentify \/ NextOperation \/ Back
    <2>1. UNCHANGED <<immo_report, risk_acknowledged, acked>>
      BY <1>1 DEF NextInterface, NextIdentify, NextOperation, Back
    <2>2. step' \notin {"Confirm", "Flashing"}
      BY <1>1, BusyScreens DEF NextInterface, NextIdentify, NextOperation, Back, previous_step,
         Inv, TypeOK, Screens
    <2> QED
      BY <1>0, <2>1, <2>2
  <1>2. CASE NextUnlock \/ NextFirmware
    <2>1. step' \notin {"Confirm", "Flashing"} /\ UNCHANGED <<immo_report, acked>>
      BY <1>2 DEF NextUnlock, NextFirmware
    <2>2. risk_acknowledged' => risk_acknowledged
      BY <1>2 DEF NextUnlock, NextFirmware, start_preflight
    <2> QED
      BY <1>0, <2>1, <2>2
  <1>3. CASE NextPreflight
    BY <1>0, <1>3 DEF NextPreflight, can_advance, On
  <1>4. CASE NextConfirm
    BY <1>0, <1>4 DEF NextConfirm, On
  <1>5. CASE StartOver
    BY <1>5 DEF StartOver
  <1>6. CASE InterfaceChanged \/ ScanFinished \/ CandidateChosen \/ UnlockProbeFinished
             \/ BrowseUnlockFile \/ UnlockFileSelected \/ ClearUnlockFile \/ OperationChosen
    <2>1. UNCHANGED <<step, immo_report, risk_acknowledged, acked>>
      BY <1>6 DEF InterfaceChanged, ScanFinished, CandidateChosen, UnlockProbeFinished,
         BrowseUnlockFile, UnlockFileSelected, ClearUnlockFile, OperationChosen
    <2> QED
      BY <1>0, <2>1
  <1>7. CASE BrowseFirmware \/ FirmwareSelected \/ PostFlashChecked \/ UNCHANGED vars
    <2>1. UNCHANGED <<step, immo_report, risk_acknowledged, acked>>
      BY <1>7 DEF BrowseFirmware, FirmwareSelected, PostFlashChecked, vars
    <2> QED
      BY <1>0, <2>1
  <1>8. CASE PreflightFinished
    <2>1. PICK t \in tasks : t.kind = "preflight"
      BY <1>8 DEF PreflightFinished
    <2>2. step = "Preflight" /\ ~risk_acknowledged
      BY <1>0, <2>1 DEF Inv, BusyTracksWork, Waiting, BusTask
    <2>3. step' = "Preflight" /\ ~risk_acknowledged'
      BY <1>8, <2>2 DEF PreflightFinished
    <2> QED
      BY <2>3
  <1>9. CASE AcknowledgeRisk
    BY <1>9 DEF AcknowledgeRisk, On
  <1>10. CASE FlashEnds
    BY <1>0, <1>10 DEF FlashEnds
  <1> QED
    BY <1>1, <1>2, <1>3, <1>4, <1>5, <1>6, <1>7, <1>8, <1>9, <1>10 DEF Next, Advance

-----------------------------------------------------------------------------
(***************************************************************************)
(* Current.                                                                *)
(***************************************************************************)

\* Without being busy the wizard prepares nothing.
LEMMA NoPreflight ==
  ASSUME Inv, ~busy
  PROVE  \A t \in tasks : t.kind # "preflight"
  BY BusyScreens DEF Waiting, BusTask

\* Nothing that is prepared, written or being prepared changes, and neither
\* does what it was prepared for.
LEMMA CurrentKept ==
  ASSUME Inv, UNCHANGED <<selected, flash_op, risk_acknowledged>>,
         prepared' \in {prepared, None},
         operation' # operation => operation' # None \/ prepared' = None,
         operation' = None => operation = None \/ \A t \in tasks : t.kind # "preflight",
         \A t \in tasks' : t.kind = "preflight" => t \in tasks,
         step' \in {"Preflight", "Confirm"} /\ ~busy' => step \in {"Preflight", "Confirm"} /\ ~busy
  PROVE  Current'
  <1>1. Plan(prepared)' = Plan(prepared') /\ Plan(flash_op)' = Plan(flash_op')
    BY DEF Plan, Blocks
  <1> QED
    BY <1>1 DEF Inv, Current

\* Starting a preflight: what it prepares is for the module selected now, and
\* if it cannot start there is nothing prepared.
LEMMA CurrentPreflight ==
  ASSUME Inv, NextUnlock \/ NextFirmware
  PROVE  Current'
  <1>0. /\ ~busy /\ \A t \in tasks : t.kind # "preflight"
        /\ UNCHANGED <<selected, flash_op, prepared, operation>> /\ step \in {"Unlock", "Firmware"}
    BY NoPreflight DEF NextUnlock, NextFirmware, can_advance, choice, outcome, On
  <1>1. CASE step' = "Operation"
    <2>1. UNCHANGED <<tasks, risk_acknowledged>>
      BY <1>0, <1>1 DEF NextUnlock, NextFirmware
    <2> QED
      BY <1>0, <1>1, <2>1, CurrentKept
  <1>2. CASE step' = "Preflight" /\ ~Preparable
    <2>1. UNCHANGED <<tasks, risk_acknowledged>>
      BY <1>2 DEF NextUnlock, NextFirmware, start_preflight
    <2>2. firmware # None
      BY <1>2 DEF NextUnlock, NextFirmware, can_advance, On
    <2>3. operation = None
      BY <1>0, <1>2, <2>2 DEF Preparable, Inv, Reached
    <2>4. prepared = None /\ flash_op = None
      BY <1>0, <2>3 DEF Inv, Current, BusyTracksWork
    <2> QED
      BY <1>0, <2>1, <2>4 DEF Current
  <1>3. CASE step' = "Preflight" /\ Preparable
    <2>1. busy' = TRUE /\ risk_acknowledged' = FALSE /\ tasks' = tasks \cup {PreflightTask}
      BY <1>3 DEF NextUnlock, NextFirmware, start_preflight
    <2>2. PreflightTask.job.module = selected /\ operation # None
      BY <1>3 DEF PreflightTask, Task, Preparable
    <2>3. Plan(prepared)' = Plan(prepared) /\ Plan(flash_op)' = Plan(flash_op)
      BY <1>0 DEF Plan, Blocks
    <2> QED
      BY <1>0, <2>1, <2>2, <2>3 DEF Inv, Current
  <1> QED
    BY <1>1, <1>2, <1>3 DEF NextUnlock, NextFirmware

\* The other ways to another screen.
LEMMA CurrentAdvance ==
  ASSUME Inv, Advance \/ Back
  PROVE  Current'
  <1>0. ~busy /\ \A t \in tasks : t.kind # "preflight"
    BY NoPreflight DEF Advance, Back, NextInterface, NextIdentify, NextUnlock, NextOperation,
       NextFirmware, NextPreflight, NextConfirm, can_advance
  <1>1. CASE NextInterface
    <2>1. /\ UNCHANGED <<flash_op, prepared, operation>> /\ flash_op = None
          /\ step' = "Identify" /\ \A t \in tasks' : t.kind # "preflight"
      BY <1>0, <1>1 DEF NextInterface, start_scan, outcome, choice, On, Inv, BusyTracksWork, Task
    <2>2. Plan(prepared)' = Plan(prepared)
      BY <2>1 DEF Plan, Blocks
    <2> QED
      BY <2>1, <2>2 DEF Inv, Current
  <1>2. CASE NextIdentify
    <2>1. /\ UNCHANGED <<selected, flash_op, prepared, operation, risk_acknowledged>>
          /\ step' \in {"Unlock", "Operation"} /\ \A t \in tasks' : t.kind # "preflight"
      BY <1>0, <1>2 DEF NextIdentify, start_unlock_probe, outcome, choice, Task
    <2> QED
      BY <1>0, <2>1, CurrentKept
  <1>3. CASE NextOperation \/ NextPreflight \/ Back
    <2>1. UNCHANGED <<selected, flash_op, prepared, operation, risk_acknowledged, tasks, busy>>
      BY <1>3 DEF NextOperation, NextPreflight, Back, outcome, choice
    <2>2. step' \in {"Preflight", "Confirm"} => step \in {"Preflight", "Confirm"}
      BY <1>3 DEF NextOperation, NextPreflight, Back, previous_step, On, Inv, TypeOK, Screens
    <2> QED
      BY <1>0, <2>1, <2>2, CurrentKept
  <1>4. CASE NextConfirm
    <2>1. /\ UNCHANGED <<selected, prepared, operation, risk_acknowledged, tasks>>
          /\ flash_op' = prepared /\ step = "Confirm" /\ step' = "Flashing"
      BY <1>4 DEF NextConfirm, choice, On
    <2>2. /\ Plan(prepared)' = Plan(prepared) /\ Plan(flash_op)' = Plan(prepared)
      BY <2>1 DEF Plan, Blocks
    <2> QED
      BY <1>0, <2>1, <2>2 DEF Inv, Current
  <1> QED
    BY <1>1, <1>2, <1>3, <1>4, CurrentPreflight DEF Advance

\* A preflight that reports prepared its blocks for the module still selected.
LEMMA CurrentPrepared == ASSUME Inv, PreflightFinished PROVE Current'
  <1>1. PICK t \in tasks :
          /\ t.kind = "preflight" /\ tasks' = tasks \ {t}
          /\ busy' = FALSE /\ immo_report' \in Reports(t.job) /\ acked' = FALSE
          /\ prepared' \in {None} \cup (IF Plan(t.job) = <<>> THEN {} ELSE {t.job})
          /\ UNCHANGED <<step, interface, scan_results, selected, unlock, choice,
                   risk_acknowledged, outcome, dialogs>>
    BY DEF PreflightFinished
  <1>2. t.job.module = selected /\ operation # None
    BY <1>1 DEF Inv, Current
  <1>3. \A u \in tasks' : u.kind # "preflight"
    BY <1>1 DEF Inv, BusyTracksWork, Waiting, BusTask
  <1>4. UNCHANGED <<selected, operation, flash_op>>
    BY <1>1 DEF choice, outcome
  <1>5. prepared' = None \/ (prepared' = t.job /\ Plan(t.job) # <<>>)
    BY <1>1
  <1>6. /\ prepared' = t.job => Plan(prepared)' = Plan(t.job)
        /\ Plan(flash_op)' = Plan(flash_op)
    BY <1>4 DEF Plan, Blocks
  <1> QED
    BY <1>2, <1>3, <1>4, <1>5, <1>6 DEF Inv, Current

\* Every step keeps what is prepared current.
LEMMA CurrentStep == ASSUME Inv, [Next]_vars PROVE Current'
  <1>1. CASE StartOver
    <2>1. \A t \in tasks : t.kind # "preflight"
      BY <1>1, BusyScreens, NoPreflight DEF StartOver, On
    <2> QED
      BY <1>1, <2>1 DEF StartOver, Current
  <1>2. CASE ScanFinished
    <2>1. /\ step = "Identify" /\ UNCHANGED <<step, flash_op, prepared, operation>>
          /\ flash_op = None /\ \A t \in tasks' : t.kind # "preflight"
      BY <1>2 DEF ScanFinished, Inv, BusyTracksWork, Waiting, BusTask, Task, outcome, choice
    <2>2. Plan(prepared)' = Plan(prepared)
      BY <2>1 DEF Plan, Blocks
    <2> QED
      BY <2>1, <2>2 DEF Inv, Current
  <1>3. CASE CandidateChosen
    <2>1. /\ prepared' = None /\ operation' = None /\ UNCHANGED <<flash_op, tasks>>
          /\ flash_op = None /\ \A t \in tasks : t.kind # "preflight"
      BY <1>3, NoPreflight DEF CandidateChosen, On, outcome, Inv, BusyTracksWork
    <2> QED
      BY <2>1 DEF Current
  <1>4. CASE UnlockProbeFinished
    <2>1. /\ step = "Unlock" /\ tasks' \subseteq tasks
          /\ UNCHANGED <<step, selected, flash_op, prepared, operation, risk_acknowledged>>
      BY <1>4 DEF UnlockProbeFinished, Inv, BusyTracksWork, Waiting, BusTask, Task, outcome, choice
    <2> QED
      BY <2>1, CurrentKept
  <1>5. CASE InterfaceChanged \/ BrowseUnlockFile \/ BrowseFirmware \/ PostFlashChecked
             \/ UNCHANGED vars
    <2>1. /\ tasks' \subseteq tasks
          /\ UNCHANGED <<step, busy, selected, flash_op, prepared, operation, risk_acknowledged>>
      BY <1>5 DEF InterfaceChanged, BrowseUnlockFile, BrowseFirmware, PostFlashChecked, vars,
         outcome, choice
    <2> QED
      BY <2>1, CurrentKept
  <1>6. CASE UnlockFileSelected \/ FirmwareSelected
    <2>1. /\ UNCHANGED <<tasks, step, busy, selected, flash_op, risk_acknowledged>>
          /\ prepared' \in {prepared, None} /\ operation' \in {operation, "Unlock"}
      BY <1>6 DEF UnlockFileSelected, FirmwareSelected, outcome, choice
    <2>2. "Unlock" # None
      BY NoneFacts DEF Operations
    <2> QED
      BY <2>1, <2>2, CurrentKept
  <1>7. CASE ClearUnlockFile \/ OperationChosen
    <2>1. /\ UNCHANGED <<tasks, step, busy, selected, flash_op, risk_acknowledged>>
          /\ prepared' = None /\ step \notin {"Identify", "Preflight"}
          /\ step = "Unlock" => ~busy
      BY <1>7 DEF ClearUnlockFile, OperationChosen, On, unlock_file_picker, outcome
    <2>2. \A t \in tasks : t.kind # "preflight"
      BY <2>1, BusyScreens, NoPreflight
    <2> QED
      BY <2>1, <2>2, CurrentKept
  <1>8. CASE AcknowledgeRisk
    <2>1. /\ UNCHANGED <<tasks, step, busy, selected, flash_op, prepared, operation>>
          /\ \A t \in tasks : t.kind # "preflight"
      BY <1>8, NoPreflight DEF AcknowledgeRisk, outcome, choice
    <2>2. Plan(prepared)' = Plan(prepared) /\ Plan(flash_op)' = Plan(flash_op)
      BY <2>1 DEF Plan, Blocks
    <2> QED
      BY <2>1, <2>2 DEF Inv, Current
  <1>9. CASE FlashEnds
    <2>1. /\ flash_op' = None /\ step' = "Done"
          /\ UNCHANGED <<selected, prepared, operation, risk_acknowledged>>
          /\ \A t \in tasks' : t.kind = "preflight" => t \in tasks
      BY <1>9 DEF FlashEnds, Task, choice
    <2>2. Plan(prepared)' = Plan(prepared)
      BY <2>1 DEF Plan, Blocks
    <2> QED
      BY <2>1, <2>2 DEF Inv, Current
  <1> QED
    BY <1>1, <1>2, <1>3, <1>4, <1>5, <1>6, <1>7, <1>8, <1>9, CurrentAdvance, CurrentPrepared
    DEF Next

-----------------------------------------------------------------------------
(***************************************************************************)
(* Plans.                                                                  *)
(***************************************************************************)

\* Block numbers up to n, each once, in ascending order.
Increasing(s, n) ==
  /\ s \in Seq(1..n)
  /\ \A i, j \in DOMAIN s : i < j => s[i] < s[j]

\* A larger block number may follow.
LEMMA IncreasingAdd ==
  ASSUME NEW n \in 1..5, NEW s, Increasing(s, n - 1), NEW blocks
  PROVE  Increasing(s \o Only(n, blocks), n)
  <1>0. s \in Seq(1..(n - 1)) /\ s \in Seq(1..n)
    BY DEF Increasing
  <1>1. CASE n \notin blocks
    <2>1. s \o Only(n, blocks) = s
      BY <1>0, <1>1 DEF Only
    <2> QED
      BY <1>0, <2>1 DEF Increasing
  <1>2. CASE n \in blocks
    <2> DEFINE r == s \o <<n>>
    <2>1. s \o Only(n, blocks) = r
      BY <1>2 DEF Only
    <2>2. /\ r \in Seq(1..n) /\ DOMAIN s = 1..Len(s) /\ DOMAIN r = 1..(Len(s) + 1)
          /\ Len(s) \in Nat
          /\ \A i \in 1..Len(s) : r[i] = s[i] /\ s[i] \in 1..(n - 1)
          /\ r[Len(s) + 1] = n
      BY <1>0
    <2>3. ASSUME NEW i \in DOMAIN r, NEW j \in DOMAIN r, i < j PROVE r[i] < r[j]
      <3>1. CASE j = Len(s) + 1
        BY <2>2, <2>3, <3>1
      <3>2. CASE j # Len(s) + 1
        <4>1. i \in DOMAIN s /\ j \in DOMAIN s
          BY <2>2, <2>3, <3>2
        <4> QED
          BY <2>2, <2>3, <4>1 DEF Increasing
      <3> QED
        BY <3>1, <3>2
    <2> QED
      BY <2>1, <2>2, <2>3 DEF Increasing
  <1> QED
    BY <1>1, <1>2

\* The blocks of a file are put out in ascending order.
LEMMA AscendingIncreasing == ASSUME NEW blocks PROVE Increasing(Ascending(blocks), 5)
  <1> DEFINE s1 == Only(1, blocks)
             s2 == s1 \o Only(2, blocks)
             s3 == s2 \o Only(3, blocks)
             s4 == s3 \o Only(4, blocks)
  <1>1. Increasing(s1, 1)
    <2>1. s1 = <<>> \/ s1 = <<1>>
      BY DEF Only
    <2>2. Increasing(<<>>, 1) /\ Increasing(<<1>>, 1)
      BY DEF Increasing
    <2> QED
      BY <2>1, <2>2
  <1>2. Increasing(s2, 2)
    BY <1>1, IncreasingAdd
  <1>3. Increasing(s3, 3)
    BY <1>2, IncreasingAdd
  <1>4. Increasing(s4, 4)
    BY <1>3, IncreasingAdd
  <1>5. Increasing(s4 \o Only(5, blocks), 5)
    BY <1>4, IncreasingAdd
  <1> QED
    BY <1>5 DEF Ascending

\* A plan in ascending order has no patch and no block twice.
LEMMA IncreasingWritable ==
  ASSUME NEW s, Increasing(s, 5), s # <<>>
  PROVE  Writable(s)
  <1>1. \A i \in DOMAIN s : s[i] \in 1..5
    BY DEF Increasing
  <1> QED
    BY <1>1 DEF Increasing, Writable

\* prepare_blocks puts out nothing the flash sequence cannot write: with the
\* patch in front of CAL and behind the block it is made for.
LEMMA PlansWritable ==
  ASSUME NEW job \in Jobs, Plan(job) # <<>>
  PROVE  Writable(Plan(job))
  <1> DEFINE cal == CalBlock[job.module]
  <1>1. cal \in 1..5 /\ PatchBlock \in 6..9
    BY ModuleAssumption DEF Jobs
  <1>2. Plan(job) \in {<<cal>>, Ascending(Blocks(job.firmware)), <<1, 2, 3, 4, PatchBlock, 5>>}
    BY DEF Plan
  <1>3. CASE Plan(job) = <<cal>>
    BY <1>1, <1>3 DEF Writable
  <1>4. CASE Plan(job) = Ascending(Blocks(job.firmware))
    BY <1>4, AscendingIncreasing, IncreasingWritable
  <1>5. CASE Plan(job) = <<1, 2, 3, 4, PatchBlock, 5>>
    <2> DEFINE p == <<1, 2, 3, 4, PatchBlock, 5>>
    <2>1. /\ p # <<>> /\ DOMAIN p = 1..6 /\ p[1] = 1 /\ p[2] = 2 /\ p[3] = 3 /\ p[4] = 4
          /\ p[5] = PatchBlock /\ p[6] = 5
      OBVIOUS
    <2>2. Writable(p)
      <3> HIDE DEF p
      <3> QED
        BY <1>1, <2>1 DEF Writable
    <2> QED
      BY <1>5, <2>2
  <1> QED
    BY <1>2, <1>3, <1>4, <1>5

-----------------------------------------------------------------------------
(***************************************************************************)
(* The invariant, and what follows from it.                                *)
(***************************************************************************)

\* Nothing is chosen or started in the beginning.
LEMMA InitInv == Init => Inv
  <1> SUFFICES ASSUME Init PROVE Inv
    OBVIOUS
  <1>1. TypeOK
    BY ScreenFacts DEF Init, TypeOK
  <1>2. Waiting = {}
    BY DEF Init, Waiting
  <1>3. BusyTracksWork
    BY <1>2 DEF Init, BusyTracksWork
  <1>4. FullFlashExcludesUnlockFile /\ Reached /\ Current /\ Told
    BY DEF Init, FullFlashExcludesUnlockFile, Reached, Current, Told, preflight_has_risk
  <1> QED
    BY <1>1, <1>3, <1>4 DEF Inv

\* Every step keeps the invariant.
LEMMA InvStep == Inv /\ [Next]_vars => Inv'
  <1> SUFFICES ASSUME Inv, [Next]_vars PROVE Inv'
    OBVIOUS
  <1>1. TypeOK'
    BY TypeStep DEF Inv
  <1>2. FullFlashExcludesUnlockFile'
    BY FullFlashStep DEF Inv
  <1> QED
    BY <1>1, <1>2, BusyStep, ReachedStep, CurrentStep, ToldStep DEF Inv

\* The invariant says that the plan is vetted.
LEMMA InvVetted == Inv => VettedPlan
  <1> SUFFICES ASSUME Inv PROVE VettedPlan
    OBVIOUS
  <1>1. PreparedForSelected
    <2>1. step = "Confirm" => ~busy
      BY BusyScreens
    <2> QED
      BY <2>1 DEF Inv, Current, PreparedForSelected
  <1>2. PlanWritable
    BY PlansWritable DEF Inv, TypeOK, Current, PlanWritable
  <1>3. RiskVetted
    BY DEF Inv, Told, RiskVetted
  <1> QED
    BY <1>1, <1>2, <1>3 DEF Inv, VettedPlan

\* Whatever the user does and whenever tasks and dialogs answer, the types hold,
\* the screens are reached in order, what is prepared is current, and a tick is
\* one for the last report (all of main.rs update).
THEOREM Invariance == Spec => []Inv
  BY InitInv, InvStep, PTL DEF Spec

\* The wizard is busy exactly while it waits for one result, on the screen that
\* started it: no second request goes to the bus (busy in main.rs).
THEOREM BusyIsTrue == Spec => []BusyTracksWork
  <1>1. Inv => BusyTracksWork
    BY DEF Inv
  <1> QED
    BY <1>1, Invariance, PTL

\* What Confirm offers and start_flash hands over is a plan for the module shown
\* that the flash sequence can write, with its warnings acknowledged.
THEOREM PlanIsVetted == Spec => []VettedPlan
  BY InvVetted, Invariance, PTL

=============================================================================

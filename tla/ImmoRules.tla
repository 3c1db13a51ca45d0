----------------------------- MODULE ImmoRules ------------------------------
(***************************************************************************)
(* The rules by which the Simos18 immobilizer is judged (state.rs of       *)
(* mqb-immo), the download that adapts it (adapt.rs, diag.rs), and the     *)
(* immobilizer itself as far as those files describe it.                   *)
(*                                                                         *)
(* An answer is Absent when the DID was refused, Short when it has too few   *)
(* bytes for anything, Clipped when it cannot be decoded but still has the  *)
(* bytes that 0x2F9 signs (3 of 10 of the state, 2 of 10 of the bits).      *)
(* A zero in the allow-list or the index is 0; every other power class is  *)
(* a positive number.                                                      *)
(***************************************************************************)
EXTENDS Naturals, Sequences, FiniteSets, FiniteSetsExt, SequencesExt

CONSTANTS Absent, Short, Clipped

-----------------------------------------------------------------------------
(***************************************************************************)
(* The immobilizer (external): what it stores, reports and accepts.        *)
(***************************************************************************)
Dead == {"NoConfMod", "HardwareSampleLock", "LockedC"}
Hidden == {"HardwareSampleAdapted", "AdaptationMode", "TuningCheckFailed"}
ImmoState == Dead \cup Hidden \cup {"NotAdapted", "Adapted"}
Immo == [state : ImmoState, idx_tun : Nat, idx_lab : Nat, allow : SUBSET Nat,
         ignition : BOOLEAN, auth : 0..3, inhibited : BOOLEAN, challenge : 1..2,
         vin : STRING, key : STRING, marker : {"S", "A"}, last_error : BOOLEAN,
         download_lockout : BOOLEAN, login_lockout : BOOLEAN]

Allowed(immo) == immo.allow # {0} /\ immo.idx_tun \in immo.allow

\* The tuning check decides between 'B' and the states it guards; a zero that
\* pads the list counts as an entry.  A state without an identity has its index
\* zeroed.
Consistent(immo) ==
  CASE immo.state \in Dead \cup {"NotAdapted"} -> immo.idx_tun = 0
    [] immo.state = "TuningCheckFailed" -> ~Allowed(immo)
    [] OTHER -> Allowed(immo)

\* Three states are reported as adapted.  The steps of the authentication set
\* one bit each: 1 a reply, 2 its CrcMaster accepted, 3 its PIN accepted.
Reported(state) == IF state \in Hidden THEN "Adapted" ELSE state
Answer(immo, did) ==
  LET adapt == [st_stat_fct |-> Reported(immo.state), idx_lab |-> immo.idx_lab]
      live == [ignition_on |-> immo.ignition, st_not_3 |-> immo.state # "HardwareSampleAdapted",
               st_is_2 |-> immo.state = "Adapted", auth |-> immo.auth,
               inhibited |-> immo.inhibited]
  IN CASE did = "CHALLENGE" -> immo.challenge
       [] did = "STATE" -> adapt
       [] did = "STATUS_BITS" -> live
       [] did = "VIN" -> immo.vin
       [] did = "FAZIT" -> "fazit"
       [] did = "LOCKOUT" -> [download |-> immo.download_lockout, login |-> immo.login_lockout]
       [] did = "EXTENDED" -> [marker |-> immo.marker, idx_tun |-> immo.idx_tun,
                               str_var_tun |-> immo.allow, last_error |-> immo.last_error]
       [] did = "IDENTITY_CKS" ->
            [key |-> immo.key, over |-> <<"fazit", immo.vin, adapt, live, immo.challenge>>]

\* The answers to each DID.
AdaptRecord == [st_stat_fct : ImmoState, idx_lab : Nat]
LiveRecord == [ignition_on : BOOLEAN, st_not_3 : BOOLEAN, st_is_2 : BOOLEAN, auth : 0..3,
               inhibited : BOOLEAN]
Value(did) ==
  CASE did = "CHALLENGE" -> 1..2
    [] did = "STATE" -> AdaptRecord
    [] did = "STATUS_BITS" -> LiveRecord
    [] did = "VIN" -> STRING
    [] did = "FAZIT" -> {"fazit"}
    [] did = "LOCKOUT" -> [download : BOOLEAN, login : BOOLEAN]
    [] did = "EXTENDED" -> [marker : {"S", "A"}, idx_tun : Nat, str_var_tun : SUBSET Nat,
                            last_error : BOOLEAN]
    [] did = "IDENTITY_CKS" ->
         [key : STRING, over : {"fazit"} \X STRING \X AdaptRecord \X LiveRecord \X (1..2)]

\* The download service: what it refuses, and what it makes of a record.  It is
\* hindered when the vehicle moves, the engine runs or its time runs out (0x1A,
\* 0x1B, 0x1E), of which no DID tells.
Accepts(immo, payload, hindered) ==
  /\ immo.ignition /\ ~immo.download_lockout /\ immo.state \notin Dead /\ ~hindered
  /\ "adaptation" \in payload.flags
Adopt(immo, payload, hindered) ==
  IF ~Accepts(immo, payload, hindered) THEN [immo EXCEPT !.last_error = TRUE]
  ELSE IF payload.under # immo.key
  THEN [immo EXCEPT !.download_lockout = TRUE, !.last_error = TRUE]
  ELSE LET adopted == [immo EXCEPT !.key = payload.key, !.vin = payload.vin,
                                   !.idx_tun = payload.idx_tun, !.state = "AdaptationMode"]
       IN IF Allowed(adopted) THEN adopted ELSE [adopted EXCEPT !.state = "TuningCheckFailed"]

-----------------------------------------------------------------------------
(***************************************************************************)
(* Snapshots.                                                              *)
(***************************************************************************)
IMMO_DIDS == <<"CHALLENGE", "STATE", "STATUS_BITS", "LOCKOUT", "EXTENDED", "VIN", "FAZIT">>
\* The checksum is answered only after the four services before it.
IMMO_DIDS_FULL ==
  <<"CHALLENGE", "STATE", "STATUS_BITS", "VIN", "FAZIT", "IDENTITY_CKS", "LOCKOUT", "EXTENDED">>
Prerequisites == {"CHALLENGE", "STATE", "STATUS_BITS", "VIN"}

\* Absent, Short and Clipped are no answer, and differ; Absent is no state,
\* verdict or immobilizer.
ASSUME AnswerAssumption ==
  /\ \A did \in Range(IMMO_DIDS_FULL) : {Absent, Short, Clipped} \cap Value(did) = {}
  /\ Clipped \notin {Absent, Short}
  /\ Absent \notin ImmoState \cup {"Ok", "AllowListEmpty", "NotAllowed"} \cup Immo

usable(snapshot, did) == snapshot[did] \notin {Absent, Short, Clipped}
missing_required(snapshot) ==
  {did \in {"STATE", "STATUS_BITS", "EXTENDED"} : ~usable(snapshot, did)}

Finding(rule, severity) == [rule |-> rule, severity |-> severity]
Warn(rule) == Finding(rule, "Warn")
Unknown(rule) == Finding(rule, "Unknown")
Severity(findings) ==
  LET of == {f.severity : f \in findings} IN
  CASE "Warn" \in of -> "Warn"
    [] "Warn" \notin of /\ "Unknown" \in of -> "Unknown"
    [] OTHER -> "Ok"

tuning_status(ext) ==
  CASE ext.str_var_tun = {0} -> "AllowListEmpty"
    [] ext.str_var_tun # {0} /\ ext.idx_tun \notin ext.str_var_tun -> "NotAllowed"
    [] OTHER -> "Ok"
state_zeroes_idx_tun(state) == state \in Dead \cup {"NotAdapted"}

\* Defect: the bit for state 3 is not looked at.
resolve_state_by_membership(state, bits, tuning) ==
  CASE state.st_stat_fct # "Adapted" -> state.st_stat_fct
    [] state.st_stat_fct = "Adapted" /\ bits.st_is_2 -> "Adapted"
    [] OTHER -> IF tuning = Absent THEN Absent
                ELSE IF tuning = "Ok" THEN "AdaptationMode" ELSE "TuningCheckFailed"
\* R5: what a reported 2 is.
resolve_state(state, bits, tuning) ==
  CASE state.st_stat_fct # "Adapted" -> state.st_stat_fct
    [] state.st_stat_fct = "Adapted" /\ bits.st_is_2 -> "Adapted"
    [] state.st_stat_fct = "Adapted" /\ ~bits.st_is_2 /\ ~bits.st_not_3 -> "HardwareSampleAdapted"
    [] OTHER -> IF tuning = Absent THEN Absent
                ELSE IF tuning = "Ok" THEN "AdaptationMode" ELSE "TuningCheckFailed"

\* Without the status bits a reported 2 stays unresolved.
Resolved(snapshot) ==
  LET state == snapshot["STATE"] IN
  CASE ~usable(snapshot, "STATE") -> Absent
    [] usable(snapshot, "STATE") /\ usable(snapshot, "STATUS_BITS") ->
         resolve_state(state, snapshot["STATUS_BITS"],
                       IF usable(snapshot, "EXTENDED") THEN tuning_status(snapshot["EXTENDED"])
                       ELSE Absent)
    [] OTHER -> IF state.st_stat_fct = "Adapted" THEN Absent ELSE state.st_stat_fct

\* R6.
lock_status(bits) ==
  CASE bits.auth = 3 -> "MasterVerified"
    [] bits.auth < 3 /\ ~bits.ignition_on -> "IgnitionOff"
    [] bits.ignition_on /\ bits.auth = 0 -> "NoMasterReply"
    [] bits.ignition_on /\ bits.auth = 1 -> "CrcMasterRejected"
    [] bits.ignition_on /\ bits.auth = 2 -> "PinRejected"
LockSeverity(status) ==
  CASE status = "MasterVerified" -> "Ok"
    [] status \in {"IgnitionOff", "NoMasterReply"} -> "Unknown"
    [] status \in {"CrcMasterRejected", "PinRejected"} -> "Warn"
HiddenSeverity(state) ==
  CASE state = "Adapted" -> "Ok" [] state = Absent -> "Unknown" [] OTHER -> "Warn"

When(condition, finding) == IF condition THEN {finding} ELSE {}

\* R2, silent where the ECU has already zeroed the index.
TuningFindings(snapshot) ==
  IF usable(snapshot, "EXTENDED")
  THEN When(/\ tuning_status(snapshot["EXTENDED"]) # "Ok"
            /\ usable(snapshot, "STATE") => ~state_zeroes_idx_tun(snapshot["STATE"].st_stat_fct),
            Warn("TuningInterlock"))
  ELSE {}

\* R3 and R4: the states that speak for themselves.
StateFindings(state) ==
  When(state.st_stat_fct \in Dead, Warn("DeadState"))
  \cup When(state.st_stat_fct = "NotAdapted", Warn("NotAdapted"))

\* R5: what a reported 2 is.
HiddenFindings(snapshot) ==
  When(snapshot["STATE"].st_stat_fct = "Adapted",
       Finding("HiddenState", HiddenSeverity(Resolved(snapshot))))

\* R6; the access inhibit is told and judged harmless.
LockFindings(bits) ==
  {Finding("LockState", LockSeverity(lock_status(bits)))}
MemoryFindings(bits) == When(bits.inhibited, Finding("MemoryAccess", "Ok"))

\* R7 and R8; no decode table of the last error exists, so it is no risk.
LockoutFindings(lockout) ==
  When(lockout.download, Warn("DownloadLockout")) \cup When(lockout.login, Warn("LoginLockout"))
ErrorFindings(ext) == When(ext.last_error, Unknown("LastError"))

\* R2 to R8, on whatever came back.
assess(snapshot) ==
  LET over(did, findings) == IF usable(snapshot, did) THEN findings ELSE {}
      findings ==
        When(missing_required(snapshot) # {}, Unknown("Unavailable"))
        \cup TuningFindings(snapshot)
        \cup over("EXTENDED", ErrorFindings(snapshot["EXTENDED"]))
        \cup over("STATE", StateFindings(snapshot["STATE"]) \cup HiddenFindings(snapshot))
        \cup over("STATUS_BITS", LockFindings(snapshot["STATUS_BITS"])
                                 \cup MemoryFindings(snapshot["STATUS_BITS"]))
        \cup over("LOCKOUT", LockoutFindings(snapshot["LOCKOUT"]))
  IN [severity |-> Severity(findings), state |-> Resolved(snapshot), findings |-> findings]
has_risk(report) == \E f \in report.findings : f.severity = "Warn"

\* R12: before and after a flash.
Changes(before, after) ==
  LET both(did) == usable(before, did) /\ usable(after, did)
      b == before["EXTENDED"]  a == after["EXTENDED"]
  IN [list |-> both("EXTENDED") /\ b.str_var_tun # a.str_var_tun,
      membership |-> /\ both("EXTENDED")
                     /\ b.idx_tun \in b.str_var_tun /\ a.idx_tun \notin a.str_var_tun,
      marker |-> both("EXTENDED") /\ b.marker = "S" /\ a.marker = "A",
      dead |-> /\ both("STATE")
               /\ before["STATE"].st_stat_fct \notin Dead /\ after["STATE"].st_stat_fct \in Dead,
      hidden |-> /\ both("STATE") /\ both("STATUS_BITS")
                 /\ after["STATE"].st_stat_fct = "Adapted"
                 /\ before["STATUS_BITS"].st_is_2 /\ ~after["STATUS_BITS"].st_is_2]
Differences ==
  {Unknown("Unavailable")}
  \cup {Warn(change) : change \in {"list", "membership", "marker", "dead", "hidden"}}
\* Defect: a reported 2 is taken at its word.
diff_reported(before, after) ==
  LET changed == Changes(before, after) IN
  When(\E did \in {"STATE", "EXTENDED"} : ~usable(before, did) \/ ~usable(after, did),
       Unknown("Unavailable"))
  \cup {Warn(change) : change \in {c \in DOMAIN changed : c # "hidden" /\ changed[c]}}
diff_after_flash(before, after) ==
  LET changed == Changes(before, after) IN
  When(\E did \in {"STATE", "EXTENDED"} : ~usable(before, did) \/ ~usable(after, did),
       Unknown("Unavailable"))
  \cup {Warn(change) : change \in {c \in DOMAIN changed : changed[c]}}

-----------------------------------------------------------------------------
(***************************************************************************)
(* The download.                                                           *)
(***************************************************************************)
CONSTANT BadVin   \* a VIN that has not seventeen bytes

Secrets(key, vin, idx_tun, flags) ==
  [key |-> key, vin |-> vin, idx_tun |-> idx_tun, flags |-> flags]
download_flags(source) == {"adaptation"} \cup source.flags

download_plaintext(vin, new_key, idx_tun, flags) ==
  IF vin = BadVin THEN Absent ELSE Secrets(new_key, vin, idx_tun, flags)
\* The record, encrypted under the key that the ECU holds now.
download_value(key, plaintext) ==
  [field \in {"under"} \cup DOMAIN plaintext |-> IF field = "under" THEN key ELSE plaintext[field]]

adapt_plan(target, donor, idx_tun, vin) ==
  LET plaintext == download_plaintext(vin, donor.key, idx_tun, download_flags(donor)) IN
  IF plaintext = Absent THEN Absent ELSE download_value(target.key, plaintext)

\* DID 0x2F9 recomputed over what was read: whether it is the one reported.  Of a
\* clipped record the signed bytes are there.
signed == <<"FAZIT", "VIN", "STATE", "STATUS_BITS", "CHALLENGE">>
key_proof(reported, snapshot, key) ==
  /\ reported \notin {Short, Clipped} /\ reported.key = key
  /\ \A i \in DOMAIN signed : snapshot[signed[i]] \in {Clipped, reported.over[i]}
\* Unproved: it could not be recomputed; a short record makes it false.
snapshot_key_proof(snapshot, key) ==
  IF \E did \in Range(signed) \cup {"IDENTITY_CKS"} : snapshot[did] = Absent THEN "Unproved"
  ELSE IF key_proof(snapshot["IDENTITY_CKS"], snapshot, key) THEN "Proved" ELSE "Refuted"

KeyNotProved(snapshot, key) == snapshot_key_proof(snapshot, key) # "Proved"
IgnitionNotOn(snapshot) ==
  usable(snapshot, "STATUS_BITS") => ~snapshot["STATUS_BITS"].ignition_on
LockoutRuns(snapshot) == usable(snapshot, "LOCKOUT") /\ snapshot["LOCKOUT"].download
StateIsDead(snapshot) == usable(snapshot, "STATE") /\ snapshot["STATE"].st_stat_fct \in Dead

\* Defect: the allow-list is asked for the index that is there already.
CurrentNotAllowed(plan, snapshot) ==
  usable(snapshot, "EXTENDED") => tuning_status(snapshot["EXTENDED"]) # "Ok"
\* CheckTuning runs after every adopt, on the index that is downloaded.
IndexNotAllowed(plan, snapshot) ==
  usable(snapshot, "EXTENDED") =>
    tuning_status([snapshot["EXTENDED"] EXCEPT !.idx_tun = plan.idx_tun]) # "Ok"

\* The blockers; the warnings stop nothing.
adapt_preflight(plan, snapshot, target) ==
  When(KeyNotProved(snapshot, target.key), "Key")
  \cup When(IgnitionNotOn(snapshot), "Ignition")
  \cup When(LockoutRuns(snapshot), "Lockout")
  \cup When(StateIsDead(snapshot), "Dead")
  \cup When(IndexNotAllowed(plan, snapshot), "AllowList")
=============================================================================

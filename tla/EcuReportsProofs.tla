-------------------------- MODULE EcuReportsProofs --------------------------
(***************************************************************************)
(* The reports are true, for every set of modules, immobilizers and dumps  *)
(* that the assumptions of EcuReports allow: which module it is, what its  *)
(* immobilizer is in and risks, what a flash broke, and which download is  *)
(* accepted.                                                               *)
(***************************************************************************)
EXTENDS EcuReports, FiniteSetTheorems, TLAPS

-----------------------------------------------------------------------------
(***************************************************************************)
(* Answers and readings.                                                   *)
(***************************************************************************)
\* The DIDs read by the two tools.
LEMMA Orders ==
  /\ Range(IMMO_DIDS) = {"CHALLENGE", "STATE", "STATUS_BITS", "LOCKOUT", "EXTENDED", "VIN", "FAZIT"}
  /\ Range(IMMO_DIDS_FULL) = Range(IMMO_DIDS) \cup {"IDENTITY_CKS"}
<1>1. Range(IMMO_DIDS) = {"CHALLENGE", "STATE", "STATUS_BITS", "LOCKOUT", "EXTENDED", "VIN", "FAZIT"}
  <2>1. DOMAIN IMMO_DIDS = {1, 2, 3, 4, 5, 6, 7}
    BY DEF IMMO_DIDS
  <2> QED
    BY <2>1 DEF IMMO_DIDS, Range
<1>2. Range(IMMO_DIDS_FULL) = {"CHALLENGE", "STATE", "STATUS_BITS", "VIN", "FAZIT",
                               "IDENTITY_CKS", "LOCKOUT", "EXTENDED"}
  <2>1. DOMAIN IMMO_DIDS_FULL = {1, 2, 3, 4, 5, 6, 7, 8}
    BY DEF IMMO_DIDS_FULL
  <2> QED
    BY <2>1 DEF IMMO_DIDS_FULL, Range
<1> QED
  BY <1>1, <1>2

\* What an immobilizer answers is an answer.
LEMMA Answered ==
  ASSUME NEW immo \in Immo, NEW did \in Range(IMMO_DIDS_FULL)
  PROVE  Answer(immo, did) \notin {Absent, Short, Clipped}
<1>1. Answer(immo, did) \in Value(did)
  <2>1. immo.state \in ImmoState /\ Reported(immo.state) \in ImmoState
    BY DEF Immo, Reported, ImmoState
  <2>2. CASE did \in {"CHALLENGE", "STATE", "STATUS_BITS", "VIN"}
    BY <2>1, <2>2 DEF Immo, Answer, Value, AdaptRecord, LiveRecord
  <2>3. CASE did \in {"FAZIT", "LOCKOUT", "EXTENDED"}
    BY <2>3 DEF Immo, Answer, Value
  <2>4. CASE did = "IDENTITY_CKS"
    BY <2>1, <2>4 DEF Immo, Answer, Value, AdaptRecord, LiveRecord
  <2> QED
    BY <2>2, <2>3, <2>4, Orders
<1> QED
  BY <1>1, AnswerAssumption

\* By itself an immobilizer only learns; its index and its list stay.
LEMMA Moved ==
  ASSUME NEW immo \in Immo, Consistent(immo), NEW moved \in Moves(immo)
  PROVE  /\ moved \in Immo /\ Consistent(moved)
         /\ moved.allow = immo.allow /\ moved.idx_tun = immo.idx_tun
         /\ \/ moved.state = immo.state
            \/ immo.state = "AdaptationMode" /\ moved.state = "Adapted"
<1>1. CASE moved = [immo EXCEPT !.state = IF @ = "AdaptationMode" THEN "Adapted" ELSE @]
  BY <1>1 DEF Immo, ImmoState, Hidden, Dead, Consistent, Allowed
<1>2. ASSUME NEW a \in 0..3, moved = [immo EXCEPT !.auth = a]
      PROVE  /\ moved \in Immo /\ moved.state = immo.state
             /\ moved.allow = immo.allow /\ moved.idx_tun = immo.idx_tun
  BY <1>2 DEF Immo
<1>3. CASE moved = [immo EXCEPT !.ignition = ~@, !.auth = 0, !.challenge = 3 - @]
  <2>1. 3 - immo.challenge \in 1..2 /\ (~immo.ignition) \in BOOLEAN /\ 0 \in 0..3
    BY DEF Immo
  <2> QED
    BY <1>3, <2>1 DEF Immo, Consistent, Allowed
<1>4. CASE moved = [immo EXCEPT !.download_lockout = FALSE]
  BY <1>4 DEF Immo, Consistent, Allowed
<1>5. ASSUME NEW a \in 0..3, moved = [immo EXCEPT !.auth = a]
      PROVE  Consistent(moved)
  BY <1>2, <1>5 DEF Consistent, Allowed
<1> QED
  BY <1>1, <1>2, <1>3, <1>4, <1>5 DEF Moves

\* A snapshot that answers came for, from before or after the move; and one of
\* which less came back.
Genuine(snapshot, immo, moved, order) ==
  \A did \in Range(order) : snapshot[did] \in {Given(immo, did), Given(moved, did)}
Lesser(snapshot, full, order) ==
  \A did \in Range(order) : snapshot[did] = full[did] \/ snapshot[did] \in {Absent, Short, Clipped}

LEMMA Torn ==
  ASSUME NEW immo, NEW moved, NEW order, NEW k
  PROVE  /\ DOMAIN Answers(order, immo, moved, k) = Range(order)
         /\ Genuine(Answers(order, immo, moved, k), immo, moved, order)
BY DEF Answers, Genuine

\* Every reading is a genuine snapshot, or less of one.
LEMMA ReadingFacts ==
  ASSUME NEW immo, NEW order, NEW r \in Readings(order, immo)
  PROVE  /\ immo = Absent => r.moved = Absent /\ r.during = {}
         /\ immo # Absent => /\ r.moved \in {immo} \cup Moves(immo)
                             /\ r.during = {immo.state, r.moved.state}
         /\ Genuine(r.whole, immo, r.moved, order)
         /\ Lesser(r.snapshot, r.whole, order)
         /\ r.cost \in 0..1
<1> DEFINE still == Answers(order, immo, immo, 1)
<1>1. DOMAIN still = Range(order) /\ Genuine(still, immo, immo, order)
  BY Torn
<1> HIDE DEF still
<1>2. ASSUME NEW snapshot, Lesser(snapshot, still, order), NEW cost \in 0..1,
             r = Reading(snapshot, immo, immo, still, cost)
      PROVE  /\ immo = Absent => r.moved = Absent /\ r.during = {}
             /\ immo # Absent => /\ r.moved \in {immo} \cup Moves(immo)
                                 /\ r.during = {immo.state, r.moved.state}
             /\ Genuine(r.whole, immo, r.moved, order)
             /\ Lesser(r.snapshot, r.whole, order)
             /\ r.cost \in 0..1
  BY <1>1, <1>2 DEF Reading
<1>3. Lesser(still, still, order)
  BY DEF Lesser
<1>4. ASSUME NEW did \in Range(order)
      PROVE  Lesser(Refused(still, did), still, order) /\ Lesser(Shortened(still, did), still, order)
  BY <1>1 DEF Lesser, Refused, Shortened
<1>7. ASSUME NEW did
      PROVE  Lesser(ClippedAt(still, did), still, order)
  BY <1>1 DEF Lesser, ClippedAt
<1>5. ASSUME immo # Absent, NEW moved \in Moves(immo), NEW k \in 2..Len(order),
             r = Reading(Answers(order, immo, moved, k), immo, moved,
                         Answers(order, immo, moved, k), 1)
      PROVE  /\ immo = Absent => r.moved = Absent /\ r.during = {}
             /\ immo # Absent => /\ r.moved \in {immo} \cup Moves(immo)
                                 /\ r.during = {immo.state, r.moved.state}
             /\ Genuine(r.whole, immo, r.moved, order)
             /\ Lesser(r.snapshot, r.whole, order)
             /\ r.cost \in 0..1
  <2> DEFINE torn == Answers(order, immo, moved, k)
  <2>1. Genuine(torn, immo, moved, order) /\ Lesser(torn, torn, order)
    BY Torn DEF Lesser
  <2> HIDE DEF torn
  <2>2. r = Reading(torn, immo, moved, torn, 1)
    BY <1>5 DEF torn
  <2> QED
    BY <1>5, <2>1, <2>2 DEF Reading
<1>6. \/ r = Reading(still, immo, immo, still, 0)
      \/ \E did \in Range(order) : \/ r = Reading(Refused(still, did), immo, immo, still, 1)
                                   \/ r = Reading(Shortened(still, did), immo, immo, still, 1)
      \/ \E did \in {"STATE", "STATUS_BITS"} : r = Reading(ClippedAt(still, did), immo, immo, still, 1)
      \/ /\ immo # Absent
         /\ \E moved \in Moves(immo), k \in 2..Len(order) :
              r = Reading(Answers(order, immo, moved, k), immo, moved,
                          Answers(order, immo, moved, k), 1)
  BY DEF Readings, still
<1> QED
  BY <1>2, <1>3, <1>4, <1>5, <1>6, <1>7

\* What was read of an immobilizer that did not move is its own answer.
LEMMA Own ==
  ASSUME NEW immo, NEW order, NEW snapshot, NEW full,
         Genuine(full, immo, immo, order), Lesser(snapshot, full, order)
  PROVE  \A did \in Range(order) : snapshot[did] \in {Absent, Short, Clipped, Given(immo, did)}
BY DEF Genuine, Lesser

-----------------------------------------------------------------------------
(***************************************************************************)
(* The assessment.                                                         *)
(***************************************************************************)
Judged == {"STATE", "STATUS_BITS", "EXTENDED"}

\* What the records that rules R2 to R5 look at say of the immobilizer.
LEMMA StateRecord ==
  ASSUME NEW immo \in Immo
  PROVE  Answer(immo, "STATE").st_stat_fct = Reported(immo.state)
BY DEF Answer
LEMMA BitsRecord ==
  ASSUME NEW immo \in Immo
  PROVE  /\ Answer(immo, "STATUS_BITS").st_is_2 <=> immo.state = "Adapted"
         /\ Answer(immo, "STATUS_BITS").st_not_3 <=> immo.state # "HardwareSampleAdapted"
         /\ Answer(immo, "STATUS_BITS").ignition_on = immo.ignition
BY DEF Answer
LEMMA ExtendedRecord ==
  ASSUME NEW immo \in Immo
  PROVE  /\ Answer(immo, "EXTENDED").idx_tun = immo.idx_tun
         /\ Answer(immo, "EXTENDED").str_var_tun = immo.allow
         /\ Answer(immo, "EXTENDED").marker = immo.marker
         /\ tuning_status(Answer(immo, "EXTENDED")) = "Ok" <=> Allowed(immo)
         /\ tuning_status(Answer(immo, "EXTENDED")) # Absent
<1> DEFINE ext == Answer(immo, "EXTENDED")
<1>1. ext.idx_tun = immo.idx_tun /\ ext.str_var_tun = immo.allow /\ ext.marker = immo.marker
  BY DEF Answer
<1> HIDE DEF ext
<1>2. tuning_status(ext) \in {"Ok", "AllowListEmpty", "NotAllowed"}
  BY DEF tuning_status
<1>3. tuning_status(ext) = "Ok" <=> Allowed(immo)
  BY <1>1 DEF tuning_status, Allowed
<1> QED
  BY <1>1, <1>2, <1>3, AnswerAssumption DEF ext

\* R5: what the records say together is a state from before or after the move,
\* though the records may be torn and some may be missing.
LEMMA ResolvedTrue ==
  ASSUME NEW immo \in Immo, immo # Absent, Consistent(immo),
         NEW moved \in {immo} \cup Moves(immo), NEW full, NEW snapshot,
         Genuine(full, immo, moved, IMMO_DIDS), Lesser(snapshot, full, IMMO_DIDS)
  PROVE  /\ Resolved(snapshot) \in {Absent, immo.state, moved.state}
         /\ (\A did \in Judged : usable(snapshot, did)) =>
              Resolved(snapshot) \in {immo.state, moved.state}
<1> DEFINE state == snapshot["STATE"]
           bits == snapshot["STATUS_BITS"]
           ext == snapshot["EXTENDED"]
           tuning == IF usable(snapshot, "EXTENDED") THEN tuning_status(ext) ELSE Absent
<1>1. /\ moved \in Immo /\ Consistent(moved)
      /\ moved.allow = immo.allow /\ moved.idx_tun = immo.idx_tun
      /\ \/ moved.state = immo.state
         \/ immo.state = "AdaptationMode" /\ moved.state = "Adapted"
  BY Moved
<1>2. immo.state \in ImmoState /\ moved.state \in ImmoState
  BY <1>1 DEF Immo
<1>0. ASSUME NEW did \in Judged, usable(snapshot, did)
      PROVE  \E x \in {immo, moved} : snapshot[did] = Answer(x, did)
  <2>1. did \in Range(IMMO_DIDS)
    BY Orders DEF Judged
  <2> QED
    BY <1>0, <2>1 DEF Genuine, Lesser, usable, Given
<1>3. ASSUME usable(snapshot, "STATE")
      PROVE  \E x \in {immo, moved} : state.st_stat_fct = Reported(x.state)
  BY <1>0, <1>1, <1>3, StateRecord DEF Judged
<1>4. ASSUME usable(snapshot, "STATUS_BITS")
      PROVE  \E y \in {immo, moved} : /\ bits.st_is_2 <=> y.state = "Adapted"
                                      /\ bits.st_not_3 <=> y.state # "HardwareSampleAdapted"
  BY <1>0, <1>1, <1>4, BitsRecord DEF Judged
<1>5. Allowed(moved) <=> Allowed(immo)
  BY <1>1 DEF Allowed
<1>6. ASSUME usable(snapshot, "EXTENDED")
      PROVE  /\ tuning_status(ext) = "Ok" <=> Allowed(immo)
             /\ tuning_status(ext) # Absent
  <2>1. PICK z \in {immo, moved} : ext = Answer(z, "EXTENDED")
    BY <1>0, <1>6 DEF Judged
  <2> QED
    BY <1>1, <1>5, <2>1, ExtendedRecord
<1>7. Absent \notin ImmoState /\ Absent # "Ok"
  BY AnswerAssumption
<1> HIDE DEF state, bits, ext
<1>8. CASE ~usable(snapshot, "STATE")
  BY <1>8 DEF Resolved, Judged
<1>9. CASE usable(snapshot, "STATE") /\ usable(snapshot, "STATUS_BITS")
  <2>1. Resolved(snapshot) = resolve_state(state, bits, tuning)
    BY <1>9 DEF Resolved, state, bits, ext
  <2>2. PICK x \in {immo, moved} : state.st_stat_fct = Reported(x.state)
    BY <1>3, <1>9
  <2>3. PICK y \in {immo, moved} : /\ bits.st_is_2 <=> y.state = "Adapted"
                                   /\ bits.st_not_3 <=> y.state # "HardwareSampleAdapted"
    BY <1>4, <1>9
  <2>4. CASE state.st_stat_fct # "Adapted"
    BY <2>1, <2>2, <2>4, <1>1, <1>2 DEF resolve_state, Reported
  <2>5. CASE state.st_stat_fct = "Adapted" /\ bits.st_is_2
    BY <2>1, <2>3, <2>5 DEF resolve_state
  <2>6. CASE state.st_stat_fct = "Adapted" /\ ~bits.st_is_2 /\ ~bits.st_not_3
    BY <2>1, <2>3, <2>6 DEF resolve_state
  <2>7. CASE state.st_stat_fct = "Adapted" /\ ~bits.st_is_2 /\ bits.st_not_3
    <3>1. Resolved(snapshot) = IF tuning = Absent THEN Absent
                               ELSE IF tuning = "Ok" THEN "AdaptationMode" ELSE "TuningCheckFailed"
      BY <2>1, <2>7 DEF resolve_state
    <3>2. y.state \in {"AdaptationMode", "TuningCheckFailed"}
      BY <2>2, <2>3, <2>7, <1>1, <1>2 DEF Reported, ImmoState, Hidden, Dead
    <3>3. y.state = "AdaptationMode" <=> Allowed(immo)
      BY <3>2, <1>1, <1>5 DEF Consistent, Dead
    <3>4. CASE usable(snapshot, "EXTENDED")
      BY <1>6, <3>1, <3>2, <3>3, <3>4
    <3>5. CASE ~usable(snapshot, "EXTENDED")
      BY <3>1, <3>5 DEF Judged
    <3> QED
      BY <3>4, <3>5
  <2> QED
    BY <2>4, <2>5, <2>6, <2>7
<1>10. CASE usable(snapshot, "STATE") /\ ~usable(snapshot, "STATUS_BITS")
  <2>1. PICK x \in {immo, moved} : state.st_stat_fct = Reported(x.state)
    BY <1>3, <1>10
  <2>2. Resolved(snapshot) = IF state.st_stat_fct = "Adapted" THEN Absent ELSE state.st_stat_fct
    BY <1>10 DEF Resolved, state
  <2> QED
    BY <1>1, <1>10, <2>1, <2>2 DEF Reported, Judged
<1> QED
  BY <1>8, <1>9, <1>10

\* The risks, without the findings that are none.
TuningRisk(s) ==
  /\ usable(s, "EXTENDED") /\ tuning_status(s["EXTENDED"]) # "Ok"
  /\ usable(s, "STATE") => ~state_zeroes_idx_tun(s["STATE"].st_stat_fct)
StateRisk(s) ==
  /\ usable(s, "STATE")
  /\ \/ s["STATE"].st_stat_fct \in Dead \cup {"NotAdapted"}
     \/ s["STATE"].st_stat_fct = "Adapted" /\ Resolved(s) \notin {"Adapted", Absent}
LockRisk(s) ==
  usable(s, "STATUS_BITS") /\ LockSeverity(lock_status(s["STATUS_BITS"])) = "Warn"
LockoutRisk(s) == usable(s, "LOCKOUT") /\ (s["LOCKOUT"].download \/ s["LOCKOUT"].login)

Warns(found) == \E f \in found : f.severity = "Warn"

LEMMA Risks ==
  ASSUME NEW s
  PROVE  has_risk(assess(s)) <=> TuningRisk(s) \/ StateRisk(s) \/ LockRisk(s) \/ LockoutRisk(s)
<1> DEFINE tuning == TuningFindings(s)
           state == StateFindings(s["STATE"])
           hidden == HiddenFindings(s)
           lock == LockFindings(s["STATUS_BITS"])
           memory == MemoryFindings(s["STATUS_BITS"])
           lockout == LockoutFindings(s["LOCKOUT"])
           error == ErrorFindings(s["EXTENDED"])
           missing == When(missing_required(s) # {}, Unknown("Unavailable"))
<1>0. /\ ~Warns({}) /\ \A f : Warns({f}) <=> f.severity = "Warn"
      /\ \A a, b : Warns(a \cup b) <=> Warns(a) \/ Warns(b)
      /\ \A rule, severity : Finding(rule, severity).severity = severity
  BY DEF Warns, Finding
<1>1. Warns(tuning) <=> TuningRisk(s)
  BY DEF Warns, TuningFindings, TuningRisk, When, Warn, Finding
<1>2. Warns(state) <=> s["STATE"].st_stat_fct \in Dead \cup {"NotAdapted"}
  <2>1. state = (IF s["STATE"].st_stat_fct \in Dead THEN {Warn("DeadState")} ELSE {})
                \cup (IF s["STATE"].st_stat_fct = "NotAdapted" THEN {Warn("NotAdapted")} ELSE {})
    BY DEF StateFindings, When
  <2> HIDE DEF state
  <2>2. Warns({Warn("DeadState")}) /\ Warns({Warn("NotAdapted")})
    BY <1>0 DEF Warn
  <2> QED
    BY <1>0, <2>1, <2>2
<1>3. Warns(hidden) <=> s["STATE"].st_stat_fct = "Adapted" /\ Resolved(s) \notin {"Adapted", Absent}
  <2> DEFINE severity == HiddenSeverity(Resolved(s))
  <2>1. hidden = IF s["STATE"].st_stat_fct = "Adapted" THEN {Finding("HiddenState", severity)} ELSE {}
    BY DEF HiddenFindings, When
  <2>2. severity = "Warn" <=> Resolved(s) \notin {"Adapted", Absent}
    BY DEF HiddenSeverity
  <2> HIDE DEF hidden, severity
  <2> QED
    BY <1>0, <2>1, <2>2
<1>4. Warns(lock) <=> LockSeverity(lock_status(s["STATUS_BITS"])) = "Warn"
  BY DEF Warns, LockFindings, Finding
<1>5. ~Warns(memory) /\ ~Warns(error) /\ ~Warns(missing)
  BY DEF Warns, MemoryFindings, ErrorFindings, When, Unknown, Finding
<1>6. Warns(lockout) <=> s["LOCKOUT"].download \/ s["LOCKOUT"].login
  <2>1. lockout = (IF s["LOCKOUT"].download THEN {Warn("DownloadLockout")} ELSE {})
                  \cup (IF s["LOCKOUT"].login THEN {Warn("LoginLockout")} ELSE {})
    BY DEF LockoutFindings, When
  <2> HIDE DEF lockout
  <2>2. Warns({Warn("DownloadLockout")}) /\ Warns({Warn("LoginLockout")})
    BY <1>0 DEF Warn
  <2> QED
    BY <1>0, <2>1, <2>2
<1>7. assess(s).findings =
        missing \cup tuning
        \cup (IF usable(s, "EXTENDED") THEN error ELSE {})
        \cup (IF usable(s, "STATE") THEN state \cup hidden ELSE {})
        \cup (IF usable(s, "STATUS_BITS") THEN lock \cup memory ELSE {})
        \cup (IF usable(s, "LOCKOUT") THEN lockout ELSE {})
  BY DEF assess
<1> HIDE DEF tuning, state, hidden, lock, memory, lockout, error, missing
<1>8. has_risk(assess(s)) <=>
        \/ Warns(missing) \/ Warns(tuning)
        \/ usable(s, "EXTENDED") /\ Warns(error)
        \/ usable(s, "STATE") /\ (Warns(state) \/ Warns(hidden))
        \/ usable(s, "STATUS_BITS") /\ (Warns(lock) \/ Warns(memory))
        \/ usable(s, "LOCKOUT") /\ Warns(lockout)
  BY <1>7 DEF has_risk, Warns
<1> QED
  BY <1>1, <1>2, <1>3, <1>4, <1>5, <1>6, <1>8 DEF StateRisk, LockRisk, LockoutRisk

\* A record that is refused or short adds no risk.
LEMMA LessRisk ==
  ASSUME NEW s, NEW full, Lesser(s, full, IMMO_DIDS), has_risk(assess(s))
  PROVE  has_risk(assess(full))
<1>1. \A did \in {"STATE", "STATUS_BITS", "EXTENDED", "LOCKOUT"} :
        usable(s, did) => s[did] = full[did] /\ usable(full, did)
  BY Orders DEF Lesser, usable
<1>2. CASE TuningRisk(s)
  BY <1>1, <1>2, Risks DEF TuningRisk, StateRisk, state_zeroes_idx_tun
<1>3. CASE StateRisk(s)
  <2>1. usable(s, "STATE") /\ s["STATE"] = full["STATE"] /\ usable(full, "STATE")
    BY <1>1, <1>3 DEF StateRisk
  <2>2. CASE s["STATE"].st_stat_fct \in Dead \cup {"NotAdapted"}
    BY <2>1, <2>2, Risks DEF StateRisk
  <2>3. CASE s["STATE"].st_stat_fct = "Adapted" /\ Resolved(s) \notin {"Adapted", Absent}
    <3> DEFINE tuning(r) == IF usable(r, "EXTENDED") THEN tuning_status(r["EXTENDED"]) ELSE Absent
    <3>1. usable(s, "STATUS_BITS")
      BY <2>1, <2>3 DEF Resolved
    <3>2. s["STATUS_BITS"] = full["STATUS_BITS"] /\ usable(full, "STATUS_BITS")
      BY <1>1, <3>1
    <3>3. /\ Resolved(s) = resolve_state(s["STATE"], s["STATUS_BITS"], tuning(s))
          /\ Resolved(full) = resolve_state(s["STATE"], s["STATUS_BITS"], tuning(full))
      BY <2>1, <3>1, <3>2 DEF Resolved
    <3>4. tuning(s) \in {Absent, tuning(full)}
      BY <1>1
    <3> HIDE DEF tuning
    <3>5. Resolved(full) = Resolved(s)
      BY <2>3, <3>3, <3>4 DEF resolve_state
    <3> QED
      BY <2>1, <2>3, <3>5, Risks DEF StateRisk
  <2> QED
    BY <1>3, <2>2, <2>3 DEF StateRisk
<1>4. CASE LockRisk(s)
  BY <1>1, <1>4, Risks DEF LockRisk
<1>5. CASE LockoutRisk(s)
  BY <1>1, <1>5, Risks DEF LockoutRisk
<1> QED
  BY <1>2, <1>3, <1>4, <1>5, Risks

\* With every record there, only an adapted immobilizer is without a risk.
LEMMA EachStateIsARisk ==
  ASSUME NEW immo \in Immo, immo # Absent, Consistent(immo),
         NEW moved \in {immo} \cup Moves(immo), moved # Absent, NEW full,
         Genuine(full, immo, moved, IMMO_DIDS), "Adapted" \notin {immo.state, moved.state}
  PROVE  has_risk(assess(full))
<1>1. moved \in Immo
  BY Moved
<1>2. \A did \in Judged : usable(full, did) /\ full[did] \in {Answer(immo, did), Answer(moved, did)}
  BY <1>1, Answered, Orders DEF Genuine, Given, usable, Judged
<1>3. Resolved(full) \in {immo.state, moved.state}
  <2>1. Lesser(full, full, IMMO_DIDS)
    BY DEF Lesser
  <2> QED
    BY <1>2, <2>1, ResolvedTrue
<1>4. Resolved(full) # "Adapted" /\ Resolved(full) # Absent
  BY <1>1, <1>3, AnswerAssumption DEF Immo
<1>5. full["STATE"].st_stat_fct \in Dead \cup {"NotAdapted", "Adapted"}
  BY <1>1, <1>2, StateRecord DEF Judged, Reported, Immo, ImmoState
<1> QED
  BY <1>2, <1>4, <1>5, Risks DEF StateRisk, Judged

-----------------------------------------------------------------------------
(***************************************************************************)
(* The comparison after a flash.                                           *)
(***************************************************************************)
\* R12: an immobilizer that was adapted and is no longer gives a warning, unless
\* it has lost its adaptation and a zero pads both lists.
LEMMA LossIsSeen ==
  ASSUME NEW immo \in Immo, Consistent(immo), immo.state = "Adapted",
         NEW now \in Immo, Consistent(now), now.state # "Adapted",
         NEW b, \A did \in Range(IMMO_DIDS) : b[did] \in {Absent, Short, Clipped, Given(immo, did)},
         NEW a, \A did \in Range(IMMO_DIDS) : a[did] \in {Absent, Short, Clipped, Given(now, did)},
         Complete(b), Complete(a),
         now.state = "NotAdapted" => 0 \notin now.allow \cap immo.allow
  PROVE  \E f \in diff_after_flash(b, a) : f.severity = "Warn"
<1>1. \A did \in Judged : /\ usable(b, did) /\ b[did] = Answer(immo, did)
                          /\ usable(a, did) /\ a[did] = Answer(now, did)
  BY Orders, AnswerAssumption DEF Complete, Judged, usable, Given
<1>2. /\ b["STATE"].st_stat_fct = "Adapted" /\ b["STATUS_BITS"].st_is_2
      /\ b["EXTENDED"].idx_tun = immo.idx_tun /\ b["EXTENDED"].str_var_tun = immo.allow
      /\ immo.idx_tun \in immo.allow
  BY <1>1, StateRecord, BitsRecord, ExtendedRecord DEF Judged, Reported, Consistent, Allowed, Dead, Hidden
<1>3. /\ a["STATE"].st_stat_fct = Reported(now.state) /\ ~a["STATUS_BITS"].st_is_2
      /\ a["EXTENDED"].idx_tun = now.idx_tun /\ a["EXTENDED"].str_var_tun = now.allow
  BY <1>1, StateRecord, BitsRecord, ExtendedRecord DEF Judged
<1> DEFINE changed == Changes(b, a)
<1>4. /\ DOMAIN changed = {"list", "membership", "marker", "dead", "hidden"}
      /\ changed["dead"] <=> Reported(now.state) \in Dead
      /\ changed["hidden"] <=> Reported(now.state) = "Adapted"
      /\ changed["membership"] <=> now.idx_tun \notin now.allow
      /\ changed["list"] <=> immo.allow # now.allow
  BY <1>1, <1>2, <1>3 DEF Changes, Judged, Dead
<1> HIDE DEF changed
<1>5. \E c \in DOMAIN changed : changed[c]
  <2>1. CASE now.state \in Dead
    BY <1>4, <2>1 DEF Reported, Hidden, Dead
  <2>2. CASE now.state \in Hidden
    BY <1>4, <2>2 DEF Reported
  <2>3. CASE now.state = "NotAdapted"
    <3>1. now.idx_tun = 0
      BY <2>3 DEF Consistent
    <3> QED
      BY <1>2, <1>4, <2>3, <3>1
  <2> QED
    BY <2>1, <2>2, <2>3 DEF Immo, ImmoState
<1>6. PICK c \in DOMAIN changed : changed[c]
  BY <1>5
<1>7. Warn(c) \in diff_after_flash(b, a)
  BY <1>6 DEF diff_after_flash, changed
<1> QED
  BY <1>7 DEF Warn, Finding

-----------------------------------------------------------------------------
(***************************************************************************)
(* The download.                                                           *)
(***************************************************************************)
LEMMA AdoptedTyped ==
  ASSUME NEW immo \in Immo, NEW key \in STRING, NEW vin \in STRING, NEW idx_tun \in Nat
  PROVE  [immo EXCEPT !.key = key, !.vin = vin, !.idx_tun = idx_tun, !.state = "AdaptationMode"]
           \in Immo
<1>1. "AdaptationMode" \in ImmoState
  BY DEF ImmoState, Hidden
<1> QED
  BY <1>1 DEF Immo

\* A downloaded record makes an immobilizer another that can be.
LEMMA Adopted ==
  ASSUME NEW immo \in Immo, Consistent(immo), NEW hindered, NEW p,
         p.key \in STRING, p.vin \in STRING, p.idx_tun \in 0..2
  PROVE  /\ Adopt(immo, p, hindered) \in Immo
         /\ Consistent(Adopt(immo, p, hindered))
<1>1. CASE ~Accepts(immo, p, hindered)
  BY <1>1 DEF Adopt, Immo, Consistent, Allowed
<1>2. CASE p.under # immo.key /\ Accepts(immo, p, hindered)
  BY <1>2 DEF Adopt, Immo, Consistent, Allowed
<1>3. CASE p.under = immo.key /\ Accepts(immo, p, hindered)
  <2> DEFINE adopted == [immo EXCEPT !.key = p.key, !.vin = p.vin, !.idx_tun = p.idx_tun,
                                     !.state = "AdaptationMode"]
  <2>1. adopted \in Immo /\ adopted.state = "AdaptationMode" /\ adopted.idx_tun = p.idx_tun
    <3>1. p.idx_tun \in Nat
      OBVIOUS
    <3>2. adopted \in Immo
      BY <3>1, AdoptedTyped
    <3> QED
      BY <3>2 DEF Immo
  <2>2. Adopt(immo, p, hindered) = IF Allowed(adopted) THEN adopted
                                   ELSE [adopted EXCEPT !.state = "TuningCheckFailed"]
    BY <1>3 DEF Adopt
  <2> HIDE DEF adopted
  <2>3. CASE Allowed(adopted)
    BY <2>1, <2>2, <2>3 DEF Consistent, Dead
  <2>4. CASE ~Allowed(adopted)
    BY <2>1, <2>2, <2>4 DEF Consistent, Dead, Allowed, Immo, ImmoState, Hidden
  <2> QED
    BY <2>3, <2>4
<1> QED
  BY <1>1, <1>2, <1>3

\* A preflight without blockers, over what the ECU itself answered, means that
\* there is an immobilizer, that the record is its own, and that it takes it
\* unless it is hindered, a lockout runs or it is dead, of which the last two
\* were not asked about when their records did not decode.
LEMMA NoBlockers ==
  ASSUME NEW immo \in Immo \cup {Absent}, NEW s,
         \A did \in Range(IMMO_DIDS_FULL) : s[did] \in {Absent, Short, Clipped, Given(immo, did)},
         NEW target, NEW p, p.under = target.key, "adaptation" \in p.flags,
         adapt_preflight(p, s, target) = {}
  PROVE  /\ immo # Absent
         /\ \A hindered \in BOOLEAN :
              \/ /\ Adopt(immo, p, hindered).state = "AdaptationMode"
                 /\ Adopt(immo, p, hindered).key = p.key
              \/ /\ Adopt(immo, p, hindered) = [immo EXCEPT !.last_error = TRUE]
                 /\ hindered \/ ~usable(s, "LOCKOUT") \/ ~usable(s, "STATE")
<1>1. /\ ~KeyNotProved(s, target.key) /\ ~IgnitionNotOn(s) /\ ~LockoutRuns(s)
      /\ ~StateIsDead(s) /\ ~IndexNotAllowed(p, s)
  BY DEF adapt_preflight, When
<1>2. /\ s["IDENTITY_CKS"] \notin {Absent, Short, Clipped}
      /\ s["IDENTITY_CKS"].key = target.key
  BY <1>1 DEF KeyNotProved, snapshot_key_proof, key_proof
<1>3. immo # Absent
  BY <1>2, Orders DEF Given
<1>4. \A did \in Range(IMMO_DIDS_FULL) : usable(s, did) => s[did] = Answer(immo, did)
  BY <1>3 DEF Given, usable
<1>6. immo.key = target.key
  BY <1>2, <1>4, Orders DEF usable, Answer
<1>5. ASSUME NEW hindered \in BOOLEAN
      PROVE  \/ /\ Adopt(immo, p, hindered).state = "AdaptationMode"
                /\ Adopt(immo, p, hindered).key = p.key
             \/ /\ Adopt(immo, p, hindered) = [immo EXCEPT !.last_error = TRUE]
                /\ hindered \/ ~usable(s, "LOCKOUT") \/ ~usable(s, "STATE")
  <2>1. immo.ignition
    BY <1>1, <1>3, <1>4, Orders, BitsRecord DEF IgnitionNotOn
  <2>2. usable(s, "LOCKOUT") => ~immo.download_lockout
    BY <1>1, <1>4, Orders DEF LockoutRuns, Answer
  <2>3. usable(s, "STATE") => immo.state \notin Dead
    <3>1. usable(s, "STATE") => s["STATE"] = Answer(immo, "STATE")
      BY <1>4, Orders
    <3> QED
      BY <1>1, <1>3, <3>1, StateRecord DEF StateIsDead, Reported, Hidden, Dead
  <2>4. CASE ~Accepts(immo, p, hindered)
    BY <2>1, <2>2, <2>3, <2>4 DEF Accepts, Adopt
  <2>5. immo.allow # {0} /\ p.idx_tun \in immo.allow
    <3> DEFINE ext == [s["EXTENDED"] EXCEPT !.idx_tun = p.idx_tun]
    <3>1. usable(s, "EXTENDED") /\ tuning_status(ext) = "Ok"
      BY <1>1 DEF IndexNotAllowed
    <3>2. ext.idx_tun = p.idx_tun /\ ext.str_var_tun = immo.allow
      <4>1. s["EXTENDED"] = Answer(immo, "EXTENDED")
        BY <1>4, <3>1, Orders
      <4> QED
        BY <4>1 DEF Answer
    <3> HIDE DEF ext
    <3> QED
      BY <3>1, <3>2 DEF tuning_status
  <2>6. CASE Accepts(immo, p, hindered)
    <3> DEFINE adopted == [immo EXCEPT !.key = p.key, !.vin = p.vin, !.idx_tun = p.idx_tun,
                                       !.state = "AdaptationMode"]
    <3>1. /\ adopted.state = "AdaptationMode" /\ adopted.key = p.key /\ Allowed(adopted)
      BY <1>3, <2>5 DEF Immo, Allowed
    <3> QED
      BY <1>6, <2>6, <3>1 DEF Adopt
  <2> QED
    BY <2>4, <2>6
<1> QED
  BY <1>3, <1>5

-----------------------------------------------------------------------------
(***************************************************************************)
(* Identification.                                                         *)
(***************************************************************************)
Simos == <<"simos18", "simos1810", "simos184">>

LEMMA Channels ==
  /\ channel_for("SimosEngine") = [kind |-> "SimosEngine", modules |-> Simos]
  /\ channel_for("Transmission") = [kind |-> "Transmission", modules |-> <<"dq250", "dq381">>]
  /\ channel_for("HaldexAwd") = [kind |-> "HaldexAwd", modules |-> <<"haldex">>]
<1>1. DOMAIN IDENT_CHANNELS = {1, 2, 3}
  BY DEF IDENT_CHANNELS
<1>2. Range(IDENT_CHANNELS) =
        {[kind |-> "SimosEngine", modules |-> Simos],
         [kind |-> "Transmission", modules |-> <<"dq250", "dq381">>],
         [kind |-> "HaldexAwd", modules |-> <<"haldex">>]}
  BY <1>1 DEF IDENT_CHANNELS, Range, Simos
<1> QED
  BY <1>2 DEF channel_for

LEMMA CandidateFacts ==
  ASSUME NEW name \in Supported,
         NEW confidence \in {"Ambiguous", "Possible", "Likely", "Confirmed"}
  PROVE  /\ Candidate(name, confidence) \in Candidates
         /\ Candidate(name, confidence).module_name = name
BY DEF Candidate, Candidates

\* Every module of a channel is offered.
Offers(c, modules) ==
  /\ c \in Seq(Candidates) /\ Len(c) = Len(modules)
  /\ \A name \in Range(modules) : \E i \in DOMAIN c : c[i].module_name = name

LEMMA EachOffers ==
  ASSUME NEW modules \in Seq(Supported),
         NEW confidence \in {"Ambiguous", "Possible", "Likely", "Confirmed"}
  PROVE  Offers(Each(modules, confidence), modules)
<1> DEFINE c == Each(modules, confidence)
<1>1. DOMAIN c = 1..Len(modules) /\ Len(modules) \in Nat
  BY DEF Each
<1>2. \A i \in 1..Len(modules) : c[i] = Candidate(modules[i], confidence) /\ modules[i] \in Supported
  BY DEF Each
<1>4. c = [i \in 1..Len(modules) |-> c[i]]
  BY DEF Each
<1> HIDE DEF c
<1>3. \A i \in 1..Len(modules) : c[i] \in Candidates /\ c[i].module_name = modules[i]
  BY <1>2, CandidateFacts
<1>5. c \in Seq(Candidates) /\ Len(c) = Len(modules)
  BY <1>1, <1>3, <1>4
<1> QED
  BY <1>1, <1>3, <1>5 DEF Offers, Range, c

\* The stable sort drops none of the three.
LEMMA PromotedOffers ==
  ASSUME NEW hit \in DOMAIN Simos
  PROVE  Offers(Promoted(Simos, hit), Simos)
<1> DEFINE c == Promoted(Simos, hit)
<1>1. DOMAIN Simos = {1, 2, 3} /\ Len(Simos) = 3 /\ 1..3 = {1, 2, 3}
  BY DEF Simos
<1>2. \A i \in 1..3 : Simos[i] \in Supported
  BY DEF Simos, Supported
<1>3. \A i \in 1..3 : \E j \in 1..3 :
        c[i] = Candidate(Simos[j], IF i = 1 THEN "Likely" ELSE "Possible")
  BY <1>1 DEF Promoted
<1>4. \A i \in 1..3 : c[i] \in Candidates
  BY <1>2, <1>3 DEF Candidate, Candidates
<1>5. c = [i \in 1..3 |-> c[i]]
  BY <1>1 DEF Promoted
<1>6. \A j \in 1..3 : \E i \in 1..3 : c[i].module_name = Simos[j]
  <2>1. c[1].module_name = Simos[hit]
    BY <1>1 DEF Promoted, Candidate
  <2>2. ASSUME NEW j \in 1..3, j < hit PROVE c[j + 1].module_name = Simos[j] /\ j + 1 \in 1..3
    BY <1>1, <2>2 DEF Promoted, Candidate
  <2>3. ASSUME NEW j \in 1..3, j > hit PROVE c[j].module_name = Simos[j]
    BY <1>1, <2>3 DEF Promoted, Candidate
  <2> QED
    BY <1>1, <2>1, <2>2, <2>3
<1> HIDE DEF c
<1>7. c \in Seq(Candidates) /\ Len(c) = 3 /\ DOMAIN c = 1..3
  BY <1>4, <1>5
<1> QED
  BY <1>1, <1>6, <1>7 DEF Offers, Range, c

\* The project settles on a module only if that is the one.
LEMMA ByBootLoader ==
  ASSUME NEW module_name \in MODULES, NEW strings, NEW channel, channel.modules = Simos,
         boot_loader_project(strings) \in Range(Registry) =>
           boot_loader_project(strings) = Registry[module_name]
  PROVE  LET c == boot_loader_candidates(strings, channel) IN
         \/ c = None
         \/ Offers(c, Simos)
         \/ c = <<Candidate(module_name, "Confirmed")>> /\ module_name \in Supported
<1> DEFINE project == boot_loader_project(strings)
           matches == {name \in Range(channel.modules) : Registry[name] = project}
<1>1. Range(channel.modules) = {"simos18", "simos1810", "simos184"}
  <2>1. DOMAIN Simos = {1, 2, 3}
    BY DEF Simos
  <2> QED
    BY <2>1 DEF Range, Simos
<1>2. boot_loader_candidates(strings, channel) =
        CASE project = None \/ Cardinality(matches) > 1 -> None
          [] project # None /\ Cardinality(matches) = 1 ->
               Each(<<CHOOSE name \in matches : TRUE>>, "Confirmed")
          [] project # None /\ matches = {} -> Each(channel.modules, "Possible")
  BY DEF boot_loader_candidates
<1>3. ASSUME NEW name \in matches
      PROVE  name = module_name /\ name \in Supported
  <2>1. name \in {"simos18", "simos1810", "simos184"} /\ Registry[name] = project
    BY <1>1
  <2>2. DOMAIN Registry = MODULES /\ name \in MODULES
    BY <2>1 DEF Registry, MODULES
  <2>3. project = Registry[module_name]
    BY <2>1, <2>2 DEF Range
  <2> QED
    BY <2>1, <2>3 DEF Registry, MODULES, Supported
<1>4. CASE matches = {}
  <2>1. Cardinality(matches) = 0
    BY <1>4, FS_EmptySet
  <2>2. Simos \in Seq(Supported)
    BY DEF Simos, Supported
  <2> QED
    BY <1>2, <1>4, <2>1, <2>2, EachOffers
<1>5. CASE matches # {}
  <2>1. matches = {module_name} /\ module_name \in Supported
    BY <1>3, <1>5
  <2>2. Cardinality(matches) = 1
    BY <2>1, FS_Singleton
  <2>3. (CHOOSE name \in matches : TRUE) = module_name
    BY <2>1
  <2> HIDE DEF project, matches
  <2>4. boot_loader_candidates(strings, channel) \in {None, Each(<<module_name>>, "Confirmed")}
    BY <1>2, <1>5, <2>2, <2>3
  <2>5. Each(<<module_name>>, "Confirmed") = <<Candidate(module_name, "Confirmed")>>
    BY DEF Each
  <2> QED
    BY <2>1, <2>4, <2>5
<1> QED
  BY <1>4, <1>5

\* A truthful ECU is never taken for another.
Right(c, name) ==
  /\ c \in Seq(Candidates)
  /\ name \in Supported => \E i \in DOMAIN c : c[i].module_name = name
  /\ resolved(c) # None => resolved(c).module_name = name

LEMMA Identified ==
  ASSUME NEW bench, Possible(bench)
  PROVE  LET c == candidates_from_dids(bench.answers, channel_for(bench.kind)) IN
         c = <<>> \/ Right(c, bench.module)
<1> DEFINE channel == channel_for(bench.kind)
           strings == from_dids(bench.answers)
           c == candidates_from_dids(bench.answers, channel)
<1> SUFFICES c = <<>> \/ Right(c, bench.module)
  OBVIOUS
<1>1. /\ bench.module \in MODULES
      /\ bench.kind \in {"SimosEngine", "Transmission", "HaldexAwd"}
      /\ bench.module \in Supported => bench.module \in Range(channel.modules)
      /\ bench.kind = "HaldexAwd" => bench.module = "haldex"
      /\ boot_loader_project(strings) \in Range(Registry) =>
           boot_loader_project(strings) = Registry[bench.module]
  BY DEF Possible, Bench, OnItsChannel, Truthful
<1>2. \/ c = <<>>
      \/ channel.kind = "SimosEngine" /\ c = simos_candidates(strings, channel)
      \/ channel.kind = "Transmission" /\ c = transmission_candidates(channel)
      \/ channel.kind = "HaldexAwd" /\ c = haldex_candidates(channel)
  BY <1>1, Channels DEF candidates_from_dids
<1> HIDE DEF c, channel, strings
<1>3. ASSUME NEW s, Offers(s, channel.modules), Len(channel.modules) # 1
      PROVE  Right(s, bench.module)
  <2>1. s \in Seq(Candidates) /\ resolved(s) = None
    <3>1. s \in Seq(Candidates) /\ Len(s) = Len(channel.modules)
      BY <1>3 DEF Offers
    <3>2. Len(s) # 1
      BY <1>3, <3>1, Zenon
    <3> QED
      BY <3>1, <3>2 DEF resolved
  <2>2. bench.module \in Supported => \E i \in DOMAIN s : s[i].module_name = bench.module
    BY <1>1, <1>3 DEF Offers
  <2> QED
    BY <2>1, <2>2 DEF Right
<1>4. Len(Simos) # 1 /\ Len(<<"dq250", "dq381">>) # 1 /\ Simos \in Seq(Supported)
      /\ <<"dq250", "dq381">> \in Seq(Supported) /\ <<"haldex">> \in Seq(Supported)
  BY DEF Simos, Supported
<1>5. ASSUME NEW name \in Supported, bench.module = name
      PROVE  Right(<<Candidate(name, "Confirmed")>>, bench.module)
  BY <1>5, CandidateFacts DEF Right, resolved
<1>6. CASE bench.kind = "SimosEngine"
  <2>1. channel.modules = Simos /\ channel.kind = "SimosEngine"
    BY <1>6, Channels DEF channel
  <2> DEFINE byBoot == boot_loader_candidates(strings, channel)
             places == hits(strings, channel)
             other == Each(channel.modules,
                           IF \/ strings.odx_file_identifier = None
                              \/ Head(strings.odx_file_identifier) = "EV_ECM"
                           THEN "Ambiguous" ELSE "Possible")
  <2>2. Offers(other, Simos)
    BY <1>4, <2>1, EachOffers
  <2>3. byBoot = None \/ Right(byBoot, bench.module)
    <3>1. \/ byBoot = None
          \/ Offers(byBoot, Simos)
          \/ byBoot = <<Candidate(bench.module, "Confirmed")>> /\ bench.module \in Supported
      BY <1>1, <2>1, ByBootLoader
    <3> HIDE DEF byBoot
    <3> QED
      BY <1>3, <1>4, <1>5, <2>1, <3>1
  <2>4. simos_candidates(strings, channel) =
          CASE byBoot # None -> byBoot
            [] byBoot = None /\ places # {} -> Promoted(channel.modules, CHOOSE hit \in places : TRUE)
            [] OTHER -> other
    BY DEF simos_candidates
  <2>5. places # {} => Offers(Promoted(Simos, CHOOSE hit \in places : TRUE), Simos)
    BY <2>1, PromotedOffers DEF hits
  <2> HIDE DEF byBoot, places, other
  <2>6. Right(simos_candidates(strings, channel), bench.module)
    <3>1. CASE byBoot # None
      BY <2>3, <2>4, <3>1
    <3>2. CASE byBoot = None /\ places # {}
      BY <1>3, <1>4, <2>1, <2>4, <2>5, <3>2
    <3>3. CASE byBoot = None /\ places = {}
      BY <1>3, <1>4, <2>1, <2>2, <2>4, <3>3
    <3> QED
      BY <3>1, <3>2, <3>3
  <2> QED
    BY <1>2, <2>1, <2>6
<1>7. CASE bench.kind = "Transmission"
  <2>1. channel.modules = <<"dq250", "dq381">> /\ channel.kind = "Transmission"
    BY <1>7, Channels DEF channel
  <2>2. Offers(transmission_candidates(channel), channel.modules)
    BY <1>4, <2>1, EachOffers DEF transmission_candidates
  <2> QED
    BY <1>2, <1>3, <1>4, <2>1, <2>2
<1>8. CASE bench.kind = "HaldexAwd"
  <2>1. channel.modules = <<"haldex">> /\ channel.kind = "HaldexAwd"
    BY <1>8, Channels DEF channel
  <2>2. haldex_candidates(channel) = <<Candidate("haldex", "Confirmed")>>
    BY <2>1 DEF haldex_candidates, Each
  <2> QED
    BY <1>1, <1>2, <1>5, <1>8, <2>1, <2>2 DEF Supported
<1> QED
  BY <1>1, <1>6, <1>7, <1>8

-----------------------------------------------------------------------------
(***************************************************************************)
(* The invariant.                                                          *)
(***************************************************************************)
LEMMA InitInv == Init => Inv
<1> SUFFICES ASSUME Init PROVE Inv
  OBVIOUS
<1>1. Possible(ecu)
  BY BenchAssumption DEF Init
<1>2. TypeOK
  BY <1>1, ReportsAssumption DEF Init, TypeOK, Possible
<1>3. tool \in {"wizard", "console"} /\ candidates \in Seq(Candidates) /\ IdentifiedRight
  BY DEF Init, IdentifiedRight
<1>4. ReportIsTrue /\ Standing /\ Silent /\ Compared /\ Planned
  BY DEF Init, ReportIsTrue, StateIsTrue, FailsOpen, Standing, Silent, Compared, Planned
<1> QED
  BY <1>1, <1>2, <1>3, <1>4 DEF Inv

\* Another immobilizer makes it no other module.
LEMMA SameModule ==
  ASSUME Possible(ecu), NEW immo \in Immo \cup {Absent}, immo # Absent => Consistent(immo),
         ecu' = [ecu EXCEPT !.immo = immo]
  PROVE  /\ Possible(ecu') /\ ecu'.immo = immo
         /\ ecu'.module = ecu.module
<1>1. /\ ecu' \in Bench /\ ecu'.immo = immo /\ ecu'.module = ecu.module
      /\ ecu'.kind = ecu.kind /\ ecu'.answers = ecu.answers
  BY DEF Possible, Bench
<1> QED
  BY <1>1 DEF Possible, OnItsChannel, Truthful

\* The verdict of a report, and the findings after a flash.
LEMMA Severities ==
  ASSUME NEW s, NEW b, NEW a
  PROVE  /\ assess(s).severity \in {"Ok", "Unknown", "Warn"} /\ assess(s).state = Resolved(s)
         /\ diff_after_flash(b, a) # None
         /\ \A f \in diff_after_flash(b, a) : f.severity \in {"Unknown", "Warn"}
<1>1. assess(s).severity \in {"Ok", "Unknown", "Warn"} /\ assess(s).state = Resolved(s)
  BY DEF assess, Severity
<1>2. diff_after_flash(b, a) \in SUBSET Differences
  <2>1. DOMAIN Changes(b, a) = {"list", "membership", "marker", "dead", "hidden"}
    BY DEF Changes
  <2> QED
    BY <2>1 DEF diff_after_flash, Differences, When
<1>3. \A f \in Differences : f.severity \in {"Unknown", "Warn"}
  BY DEF Differences, Warn, Unknown, Finding
<1> QED
  BY <1>1, <1>2, <1>3, ReportsAssumption

\* The immobilizer that a read leaves, and whether it stands as it was read.
LEMMA AfterReading ==
  ASSUME Possible(ecu), NEW order, NEW r \in Readings(order, ecu.immo),
         ecu' = [ecu EXCEPT !.immo = r.moved],
         stands' = IF r.moved = ecu.immo THEN ecu.immo ELSE None
  PROVE  /\ Possible(ecu') /\ ecu'.immo = r.moved /\ ecu'.module = ecu.module
         /\ stands' # None => /\ stands' \in Immo \cup {Absent}
                              /\ stands' # Absent => Consistent(stands')
                              /\ \A did \in Range(order) :
                                   r.snapshot[did] \in {Absent, Short, Clipped, Given(stands', did)}
         /\ ecu'.immo = Absent => stands' = Absent
<1>1. ecu.immo \in Immo \cup {Absent} /\ (ecu.immo # Absent => Consistent(ecu.immo))
  BY DEF Possible, Bench
<1>2. r.moved \in Immo \cup {Absent} /\ (r.moved # Absent => Consistent(r.moved))
  BY <1>1, ReadingFacts, Moved
<1>3. Possible(ecu') /\ ecu'.immo = r.moved /\ ecu'.module = ecu.module
  BY <1>2, SameModule
<1>4. ASSUME r.moved = ecu.immo
      PROVE  \A did \in Range(order) : r.snapshot[did] \in {Absent, Short, Clipped, Given(ecu.immo, did)}
  BY <1>4, ReadingFacts, Own
<1>5. r.moved = Absent => ecu.immo = Absent
  BY <1>1, ReadingFacts, Moved, AnswerAssumption
<1> QED
  BY <1>1, <1>3, <1>4, <1>5

LEMMA ScanInv ==
  ASSUME Inv, Scan
  PROVE  Inv'
<1> DEFINE c == candidates_from_dids(ecu.answers, channel_for(ecu.kind))
<1>1. /\ tool = "wizard" /\ candidates' = c
      /\ UNCHANGED <<tool, ecu, module, before, report, findings, plan, blockers, faults,
                     during, whole, stands>>
  BY DEF Scan, console
<1>2. c = <<>> \/ Right(c, ecu.module)
  BY Identified DEF Inv
<1>3. c \in Seq(Candidates)
  <2>1. <<>> \in Seq(Candidates)
    OBVIOUS
  <2> HIDE DEF c
  <2> QED
    BY <1>2, <2>1 DEF Right
<1>4. IdentifiedRight'
  BY <1>1, <1>2 DEF IdentifiedRight, Right
<1>5. TypeOK' /\ tool' \in {"wizard", "console"} /\ Possible(ecu')
  BY <1>1 DEF Inv, TypeOK
<1>6. ReportIsTrue'
  BY <1>1 DEF Inv, ReportIsTrue, StateIsTrue, FailsOpen
<1>7. (Standing /\ Silent /\ Compared /\ Planned)'
  BY <1>1 DEF Inv, Standing, ReadFrom, Order, Silent, Compared, Planned, PlanFor
<1> QED
  BY <1>1, <1>3, <1>4, <1>5, <1>6, <1>7 DEF Inv

LEMMA ChooseInv ==
  ASSUME Inv, Choose
  PROVE  Inv'
<1>1. /\ report' = None /\ findings' = None /\ before' = None /\ stands' = None
      /\ UNCHANGED <<tool, ecu, candidates, plan, blockers, faults>>
  BY DEF Choose, console
<1>2. PICK i \in DOMAIN candidates : module' = candidates[i].module_name
  BY DEF Choose
<1>3. candidates \in Seq(Candidates) /\ candidates # <<>>
  BY <1>2 DEF Inv
<1>4. module' \in Supported
  <2>1. candidates[i] \in Candidates
    BY <1>2, <1>3
  <2> QED
    BY <1>2, <2>1 DEF Candidates
<1>5. tool = "wizard" /\ plan = None
  BY <1>3 DEF Inv, Compared, Planned
<1>6. TypeOK' /\ tool' \in {"wizard", "console"} /\ Possible(ecu') /\ IdentifiedRight'
  BY <1>1, <1>4 DEF Inv, TypeOK, IdentifiedRight
<1>7. ReportIsTrue'
  BY <1>1 DEF ReportIsTrue, StateIsTrue, FailsOpen
<1>8. (Standing /\ Silent /\ Compared /\ Planned)'
  BY <1>1, <1>5 DEF Standing, Silent, Compared, Planned
<1> QED
  BY <1>1, <1>3, <1>6, <1>7, <1>8 DEF Inv

\* The report on a reading is true.
LEMMA Assessed ==
  ASSUME Possible(ecu), NEW r \in Readings(IMMO_DIDS, ecu.immo)
  PROVE  /\ Resolved(r.snapshot) # Absent => Resolved(r.snapshot) \in r.during
         /\ has_risk(assess(r.snapshot)) => has_risk(assess(r.whole))
         /\ r.snapshot = r.whole /\ r.during # {} /\ "Adapted" \notin r.during =>
              has_risk(assess(r.snapshot))
<1> DEFINE immo == ecu.immo
<1>1. immo \in Immo \cup {Absent} /\ (immo # Absent => Consistent(immo))
  BY DEF Possible, Bench
<1>2. /\ immo = Absent => r.moved = Absent /\ r.during = {}
      /\ immo # Absent => r.moved \in {immo} \cup Moves(immo) /\ r.during = {immo.state, r.moved.state}
      /\ Genuine(r.whole, immo, r.moved, IMMO_DIDS) /\ Lesser(r.snapshot, r.whole, IMMO_DIDS)
  BY ReadingFacts
<1> HIDE DEF immo
<1>3. has_risk(assess(r.snapshot)) => has_risk(assess(r.whole))
  BY <1>2, LessRisk
<1>4. CASE immo = Absent
  <2>1. r.snapshot["STATE"] \in {Absent, Short, Clipped}
    BY <1>2, <1>4, Orders DEF Genuine, Lesser, Given
  <2>2. Resolved(r.snapshot) = Absent
    BY <2>1 DEF Resolved, usable
  <2> QED
    BY <1>2, <1>3, <1>4, <2>2
<1>5. CASE immo # Absent
  <2>1. immo \in Immo /\ Consistent(immo)
    BY <1>1, <1>5
  <2>2. Resolved(r.snapshot) \in {Absent, immo.state, r.moved.state}
    BY <1>2, <1>5, <2>1, ResolvedTrue
  <2>3. r.moved # Absent
    BY <1>2, <1>5, <2>1, Moved, AnswerAssumption
  <2>4. ASSUME r.snapshot = r.whole, "Adapted" \notin r.during
        PROVE  has_risk(assess(r.snapshot))
    BY <1>2, <1>5, <2>1, <2>3, <2>4, EachStateIsARisk
  <2> QED
    BY <1>2, <1>3, <1>5, <2>2, <2>4
<1> QED
  BY <1>4, <1>5

LEMMA ReadImmoInv ==
  ASSUME Inv, ReadImmo
  PROVE  Inv'
<1>1. for_module(module) /\ before = None
  BY DEF ReadImmo
<1>2. PICK r \in Readings(IMMO_DIDS, ecu.immo) :
        /\ faults' = faults + r.cost /\ faults + r.cost <= MaxFaults
        /\ ecu' = [ecu EXCEPT !.immo = r.moved]
        /\ before' = r.snapshot /\ report' = assess(r.snapshot)
        /\ during' = r.during /\ whole' = r.whole
        /\ stands' = IF r.moved = ecu.immo THEN ecu.immo ELSE None
  BY DEF ReadImmo, Take
<1>3. UNCHANGED <<tool, candidates, module, findings, plan, blockers>>
  BY DEF ReadImmo, console
<1>4. tool = "wizard" /\ findings = None /\ plan = None
  BY <1>1 DEF Inv, Compared, Planned, for_module
<1>5. Possible(ecu)
  BY DEF Inv
<1>6. /\ Possible(ecu') /\ ecu'.immo = r.moved /\ ecu'.module = ecu.module
      /\ stands' # None => /\ stands' \in Immo \cup {Absent}
                           /\ stands' # Absent => Consistent(stands')
                           /\ \A did \in Range(IMMO_DIDS) :
                                r.snapshot[did] \in {Absent, Short, Clipped, Given(stands', did)}
      /\ ecu'.immo = Absent => stands' = Absent
  BY <1>2, <1>5, AfterReading
<1>7. faults' \in 0..MaxFaults
  <2>1. r.cost \in 0..1
    BY <1>2, ReadingFacts
  <2>2. faults \in 0..MaxFaults
    BY DEF Inv, TypeOK
  <2> QED
    BY <1>2, <2>1, <2>2, ReportsAssumption
<1>8. TypeOK'
  <2>1. report'.severity \in {"Ok", "Unknown", "Warn"}
    BY <1>2, Severities
  <2>2. module' \in {None} \cup Supported /\ for_module(module')
    BY <1>1, <1>3 DEF Inv, TypeOK
  <2>3. ecu'.immo # Absent => Consistent(ecu'.immo)
    BY <1>6 DEF Possible
  <2> QED
    BY <1>3, <1>4, <1>7, <2>1, <2>2, <2>3 DEF TypeOK
<1>9. IdentifiedRight'
  BY <1>3, <1>6 DEF Inv, IdentifiedRight
<1>10. ReportIsTrue'
  BY <1>2, <1>5, Assessed, Severities DEF ReportIsTrue, StateIsTrue, FailsOpen
<1>11. Standing' /\ Silent'
  BY <1>2, <1>3, <1>4, <1>6 DEF Standing, Silent, ReadFrom, Order
<1>12. Compared' /\ Planned'
  BY <1>3, <1>4 DEF Compared, Planned
<1> QED
  BY <1>3, <1>6, <1>8, <1>9, <1>10, <1>11, <1>12 DEF Inv

LEMMA FlashInv ==
  ASSUME Inv, Flash
  PROVE  Inv'
<1>1. PICK state \in ImmoState, idx \in 0..1, list \in {{0}, {1}, ecu.immo.allow},
           marker \in {"S", "A"} :
        LET after == [ecu.immo EXCEPT !.state = state, !.idx_tun = idx, !.allow = list,
                                      !.marker = marker]
        IN  Consistent(after) /\ ecu' = [ecu EXCEPT !.immo = after]
  BY DEF Flash
<1>2. /\ before # None /\ report # None /\ findings = None /\ ecu.immo # Absent
      /\ UNCHANGED <<tool, candidates, module, before, report, findings, plan, blockers,
                     faults, during, whole, stands>>
  BY DEF Flash, wizard, console
<1>3. ecu.immo \in Immo
  BY <1>2 DEF Inv, Possible, Bench
<1> DEFINE after == [ecu.immo EXCEPT !.state = state, !.idx_tun = idx, !.allow = list,
                                     !.marker = marker]
<1>4. after \in Immo
  <2>1. list \in SUBSET Nat /\ idx \in Nat
    BY <1>3 DEF Immo
  <2> QED
    BY <1>3, <2>1 DEF Immo
<1>5. Consistent(after) /\ ecu' = [ecu EXCEPT !.immo = after]
  BY <1>1
<1> HIDE DEF after
<1>6. Possible(ecu') /\ ecu'.immo = after /\ ecu'.module = ecu.module
  BY <1>4, <1>5, SameModule DEF Inv
<1>7. ecu'.immo # Absent
  BY <1>4, <1>6, AnswerAssumption
<1>8. TypeOK' /\ IdentifiedRight'
  BY <1>2, <1>5, <1>6 DEF Inv, TypeOK, IdentifiedRight
<1>9. ReportIsTrue'
  BY <1>2 DEF Inv, ReportIsTrue, StateIsTrue, FailsOpen
<1>10. (Standing /\ Silent)'
  BY <1>2, <1>7 DEF Inv, Standing, Silent, ReadFrom, Order
<1>11. (Compared /\ Planned)'
  BY <1>2 DEF Inv, Compared, Planned, PlanFor
<1> QED
  BY <1>2, <1>6, <1>8, <1>9, <1>10, <1>11 DEF Inv

LEMMA PostCheckInv ==
  ASSUME Inv, PostCheck
  PROVE  Inv'
<1>1. PICK r \in Readings(IMMO_DIDS, ecu.immo) :
        /\ r.moved = ecu.immo
        /\ faults' = faults + r.cost /\ faults + r.cost <= MaxFaults
        /\ ecu' = [ecu EXCEPT !.immo = r.moved]
        /\ findings' = diff_after_flash(before, r.snapshot) /\ whole' = r.snapshot
  BY DEF PostCheck, Take
<1>2. /\ before # None /\ report # None
      /\ UNCHANGED <<tool, candidates, module, before, report, plan, blockers, during, stands>>
  BY DEF PostCheck, console
<1>3. tool = "wizard"
  BY <1>2 DEF Inv, Compared
<1>4. ecu.immo \in Immo \cup {Absent} /\ (ecu.immo # Absent => Consistent(ecu.immo))
  BY DEF Inv, Possible, Bench
<1>5. Possible(ecu') /\ ecu'.immo = ecu.immo /\ ecu'.module = ecu.module
  BY <1>1, <1>4, SameModule DEF Inv
<1>6. \A did \in Range(IMMO_DIDS) : r.snapshot[did] \in {Absent, Short, Clipped, Given(ecu.immo, did)}
  BY <1>1, ReadingFacts, Own
<1>7. faults' \in 0..MaxFaults
  <2>1. r.cost \in 0..1
    BY <1>1, ReadingFacts
  <2>2. faults \in 0..MaxFaults
    BY DEF Inv, TypeOK
  <2> QED
    BY <1>1, <2>1, <2>2, ReportsAssumption
<1>8. findings' # None /\ \A f \in findings' : f.severity \in {"Unknown", "Warn"}
  BY <1>1, Severities
<1>9. TypeOK' /\ IdentifiedRight'
  BY <1>2, <1>5, <1>7, <1>8 DEF Inv, TypeOK, IdentifiedRight, Possible
<1>10. ReportIsTrue'
  BY <1>2, <1>8 DEF Inv, ReportIsTrue, StateIsTrue, FailsOpen
<1>11. (Standing /\ Silent)'
  BY <1>2, <1>5 DEF Inv, Standing, Silent, ReadFrom, Order
<1>12. Compared'
  BY <1>1, <1>2, <1>3, <1>5, <1>6 DEF Compared, ReadFrom, Order
<1>13. Planned'
  BY <1>2 DEF Inv, Planned, PlanFor
<1> QED
  BY <1>2, <1>5, <1>9, <1>10, <1>11, <1>12, <1>13 DEF Inv

LEMMA ReadStateInv ==
  ASSUME Inv, ReadState
  PROVE  Inv'
<1>1. PICK r \in Readings(IMMO_DIDS_FULL, ecu.immo) :
        /\ faults' = faults + r.cost /\ faults + r.cost <= MaxFaults
        /\ ecu' = [ecu EXCEPT !.immo = r.moved]
        /\ before' = r.snapshot
        /\ stands' = IF r.moved = ecu.immo THEN ecu.immo ELSE None
  BY DEF ReadState, Take
<1>2. /\ tool = "console" /\ before = None
      /\ UNCHANGED <<tool, candidates, module, report, findings, plan, blockers, during, whole>>
  BY DEF ReadState, wizard, console
<1>3. /\ candidates = <<>> /\ report = None /\ findings = None /\ plan = None
      /\ Possible(ecu) /\ Compared
  BY <1>2 DEF Inv, Compared, Planned
<1>4. /\ Possible(ecu')
      /\ stands' # None => /\ stands' \in Immo \cup {Absent}
                           /\ stands' # Absent => Consistent(stands')
                           /\ \A did \in Range(IMMO_DIDS_FULL) :
                                r.snapshot[did] \in {Absent, Short, Clipped, Given(stands', did)}
      /\ ecu'.immo = Absent => stands' = Absent
  BY <1>1, <1>3, AfterReading
<1>5. faults' \in 0..MaxFaults
  <2>1. r.cost \in 0..1
    BY <1>1, ReadingFacts
  <2>2. faults \in 0..MaxFaults
    BY DEF Inv, TypeOK
  <2> QED
    BY <1>1, <2>1, <2>2, ReportsAssumption
<1>6. TypeOK' /\ IdentifiedRight'
  BY <1>2, <1>3, <1>4, <1>5 DEF Inv, TypeOK, IdentifiedRight, Possible
<1>7. ReportIsTrue' /\ Compared' /\ Planned'
  BY <1>2, <1>3 DEF ReportIsTrue, StateIsTrue, FailsOpen, Compared, Planned
<1>8. Standing' /\ Silent'
  BY <1>1, <1>2, <1>4 DEF Standing, Silent, ReadFrom, Order
<1> QED
  BY <1>2, <1>4, <1>6, <1>7, <1>8 DEF Inv

\* The record is encrypted under the target's key.
LEMMA PlanFacts ==
  ASSUME NEW target \in Dumps, NEW donor \in Dumps, NEW idx \in 0..2,
         NEW vin \in {BadVin, donor.vin}, adapt_plan(target, donor, idx, vin) # Absent
  PROVE  LET p == adapt_plan(target, donor, idx, vin) IN
         /\ p.under = target.key /\ "adaptation" \in p.flags
         /\ p.key \in STRING /\ p.vin \in STRING /\ p.idx_tun \in 0..2
<1> DEFINE plaintext == Secrets(donor.key, vin, idx, download_flags(donor))
           p == adapt_plan(target, donor, idx, vin)
<1>1. vin # BadVin /\ vin = donor.vin
  BY DEF adapt_plan, download_plaintext
<1>2. p = download_value(target.key, plaintext)
  BY <1>1 DEF adapt_plan, download_plaintext
<1>3. /\ DOMAIN plaintext = {"key", "vin", "idx_tun", "flags"}
      /\ plaintext.key = donor.key /\ plaintext.vin = vin /\ plaintext.idx_tun = idx
      /\ plaintext.flags = {"adaptation"} \cup donor.flags
  BY DEF Secrets, download_flags
<1> HIDE DEF plaintext, p
<1>4. p = [field \in {"under", "key", "vin", "idx_tun", "flags"} |->
             IF field = "under" THEN target.key ELSE plaintext[field]]
  BY <1>2, <1>3 DEF download_value
<1>5. /\ p["under"] = target.key /\ p["key"] = plaintext["key"] /\ p["vin"] = plaintext["vin"]
      /\ p["idx_tun"] = plaintext["idx_tun"] /\ p["flags"] = plaintext["flags"]
  BY <1>4
<1>6. donor.key \in STRING /\ donor.vin \in STRING
  BY DumpAssumption
<1> QED
  BY <1>1, <1>3, <1>5, <1>6 DEF p

LEMMA BuildPlanInv ==
  ASSUME Inv, BuildPlan
  PROVE  Inv'
<1>1. PICK target \in Dumps, donor \in Dumps, idx \in 0..2, vin \in {BadVin} \cup {d.vin : d \in Dumps} :
        /\ vin \in {BadVin, donor.vin} /\ adapt_plan(target, donor, idx, vin) # Absent
        /\ plan' = adapt_plan(target, donor, idx, vin)
        /\ blockers' = adapt_preflight(plan', before, target)
  BY DEF BuildPlan
<1>2. /\ tool = "console" /\ before # None
      /\ UNCHANGED <<tool, ecu, candidates, module, before, report, findings, faults, during,
                     whole, stands>>
  BY DEF BuildPlan, wizard
<1>3. TypeOK' /\ IdentifiedRight'
  BY <1>2 DEF Inv, TypeOK, IdentifiedRight
<1>4. ReportIsTrue' /\ Compared'
  BY <1>2 DEF Inv, ReportIsTrue, StateIsTrue, FailsOpen, Compared, ReadFrom, Order
<1>5. Standing' /\ Silent'
  BY <1>2 DEF Inv, Standing, Silent, ReadFrom, Order
<1>6. Planned'
  BY <1>1, <1>2, PlanFacts DEF Planned, PlanFor
<1> QED
  BY <1>2, <1>3, <1>4, <1>5, <1>6 DEF Inv

\* A download is only sent to an immobilizer, and leaves one that can be.
LEMMA DownloadInv ==
  ASSUME Inv, NEW hindered \in BOOLEAN, Download(hindered)
  PROVE  /\ Inv'
         /\ stands = ecu.immo => Taken \/ (Declined /\ (hindered \/ Unasked # {}))
<1>1. /\ plan # None /\ blockers = {} /\ ecu' = [ecu EXCEPT !.immo = Adopt(ecu.immo, plan, hindered)]
      /\ plan' = None /\ blockers' = None /\ stands' = None
      /\ UNCHANGED <<tool, candidates, module, before, report, findings, faults, during, whole>>
  BY DEF Download, wizard
<1>2. tool = "console" /\ before # None
  BY <1>1 DEF Inv, Planned
<1>3. PICK target \in Dumps : PlanFor(target)
  BY <1>1 DEF Inv, Planned
<1>4. ecu.immo \in Immo \cup {Absent} /\ (ecu.immo # Absent => Consistent(ecu.immo))
  BY DEF Inv, Possible, Bench
<1>5. ASSUME stands # None
      PROVE  /\ stands # Absent
             /\ \/ /\ Adopt(stands, plan, hindered).state = "AdaptationMode"
                   /\ Adopt(stands, plan, hindered).key = plan.key
                \/ /\ Adopt(stands, plan, hindered) = [stands EXCEPT !.last_error = TRUE]
                   /\ hindered \/ Unasked # {}
  <2>1. stands \in Immo \cup {Absent}
    BY <1>5 DEF Inv, Standing
  <2>2. \A did \in Range(IMMO_DIDS_FULL) : before[did] \in {Absent, Short, Clipped, Given(stands, did)}
    BY <1>2, <1>5 DEF Inv, Standing, ReadFrom, Order
  <2> QED
    BY <1>1, <1>3, <2>1, <2>2, NoBlockers DEF PlanFor, Unasked
<1>6. ecu.immo # Absent
  BY <1>2, <1>5, ReportsAssumption DEF Inv, Silent
<1> DEFINE adopted == Adopt(ecu.immo, plan, hindered)
<1>7. adopted \in Immo /\ Consistent(adopted)
  BY <1>3, <1>4, <1>6, Adopted DEF PlanFor
<1>8. ecu' = [ecu EXCEPT !.immo = adopted]
  BY <1>1
<1> HIDE DEF adopted
<1>9. Possible(ecu') /\ ecu'.immo = adopted /\ ecu'.module = ecu.module
  BY <1>7, <1>8, SameModule DEF Inv
<1>10. candidates = <<>> /\ report = None /\ findings = None
  BY <1>2 DEF Inv, Compared
<1>11. TypeOK' /\ IdentifiedRight'
  BY <1>1, <1>9, <1>10 DEF Inv, TypeOK, IdentifiedRight, Possible
<1>12. ReportIsTrue' /\ Compared' /\ Planned'
  BY <1>1, <1>2, <1>10 DEF Inv, ReportIsTrue, StateIsTrue, FailsOpen, Compared, Planned
<1>13. Standing' /\ Silent'
  BY <1>1, <1>7, <1>9, AnswerAssumption DEF Standing, Silent
<1>14. Inv'
  BY <1>1, <1>9, <1>11, <1>12, <1>13 DEF Inv
<1>15. ASSUME stands = ecu.immo
       PROVE  Taken \/ (Declined /\ (hindered \/ Unasked # {}))
  BY <1>4, <1>5, <1>9, <1>15, ReportsAssumption DEF adopted, Taken, Declined
<1> QED
  BY <1>14, <1>15

LEMMA StutterInv ==
  ASSUME Inv, UNCHANGED vars
  PROVE  Inv'
BY DEF vars, wizard, console, Inv, TypeOK, IdentifiedRight, ReportIsTrue, StateIsTrue, FailsOpen,
       Standing, ReadFrom, Order, Silent, Compared, Planned, PlanFor

\* What the reports rest on: what was read is what the immobilizer answered then,
\* what is compared or planned is what was read, and no report names another
\* state, module or risk than the ECU's.
THEOREM Invariance == Spec => []Inv
<1>1. Inv /\ [Next]_vars => Inv'
  BY ScanInv, ChooseInv, ReadImmoInv, FlashInv, PostCheckInv, ReadStateInv, BuildPlanInv,
     DownloadInv, StutterInv DEF Next
<1> QED
  BY <1>1, InitInv, PTL DEF Spec

\* Identification (candidates_from_dids): for every answer a truthful ECU may
\* give, a single candidate is the module that answered, and a supported one is
\* always among the candidates.
THEOREM NeverMistaken == Spec => []IdentifiedRight
<1>1. Inv => IdentifiedRight
  BY DEF Inv
<1> QED
  BY <1>1, Invariance, PTL

\* The assessment (assess, resolve_state): whatever is refused, cut short or torn
\* by a move of the immobilizer between two reads, the state named is one it was
\* in, no record's absence adds a risk, and with all records no risk is missed.
THEOREM ReportsAreTrue == Spec => []ReportIsTrue
<1>1. Inv => ReportIsTrue
  BY DEF Inv
<1> QED
  BY <1>1, Invariance, PTL

\* The check after a flash (diff_after_flash): an immobilizer that the flash has
\* put out of its adaptation is warned of, when the records were read, except one
\* that has lost its adaptation while a zero pads both lists.
THEOREM LossesAreSeen == Spec => []BricksAreSeen
<1>1. Inv => BricksAreSeen
  <2> SUFFICES ASSUME Inv, findings # None, stands \notin {None, Absent},
                      Complete(before), Complete(whole), Broken,
                      ecu.immo.state = "NotAdapted" => 0 \notin ecu.immo.allow \cap stands.allow
               PROVE  \E f \in findings : f.severity = "Warn"
    BY DEF BricksAreSeen
  <2>1. /\ before # None /\ report # None /\ findings = diff_after_flash(before, whole)
        /\ ReadFrom(whole, ecu.immo)
    BY DEF Inv, Compared
  <2>2. Order = IMMO_DIDS
    BY <2>1 DEF Inv, Compared, Order
  <2>3. stands \in Immo /\ Consistent(stands) /\ ReadFrom(before, stands)
    BY DEF Inv, Standing
  <2>4. ecu.immo \in Immo /\ Consistent(ecu.immo)
    BY <2>1 DEF Inv, Silent, Possible, Bench
  <2> QED
    BY <2>1, <2>2, <2>3, <2>4, LossIsSeen DEF ReadFrom, Broken
<1> QED
  BY <1>1, Invariance, PTL

\* The preflight (adapt_preflight): a download without blockers, for an ECU as it
\* was read, is taken and leaves it in adaptation mode under the key that was
\* sent, or changes nothing but the error code; and the latter only when the
\* vehicle moves, the engine runs, the service times out, or the lockout or state
\* record did not decode, none of which the preflight asks about.
THEOREM DownloadsSucceed == Spec => PreflightSound
<1>1. Inv /\ [Next]_vars =>
        [\A hindered \in BOOLEAN :
           Download(hindered) /\ stands = ecu.immo =>
             Taken \/ (Declined /\ (hindered \/ Unasked # {}))]_vars
  BY DownloadInv
<1> QED
  BY <1>1, Invariance, PTL DEF Spec, PreflightSound
=============================================================================

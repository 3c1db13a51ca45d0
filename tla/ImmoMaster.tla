----------------------------- MODULE ImmoMaster -----------------------------
(***************************************************************************)
(* The immobilizer authentication: ImmoMaster of auth.rs, which answers in *)
(* place of the instrument cluster, and an engine ECU that asks, over the  *)
(* bus and the receive queue of connection.rs.                             *)
(*                                                                         *)
(* A word is the tuple it is computed from: two words are equal when their *)
(* operands are.  That the 16 bits of a CrcSlave that travel unmasked are  *)
(* equal by chance is left out.  A status byte is the set of its flags.    *)
(*                                                                         *)
(* The ECU is not part of the program.  It is what auth.rs says of it: it  *)
(* asks in one of three variants, repeats a question that gets no answer,  *)
(* gives the exchange up at last, and reports its verdict on an answer in  *)
(* byte 7 of a later frame.                                                *)
(***************************************************************************)
EXTENDS Naturals, Sequences, FiniteSets, SequencesExt

CONSTANTS
  MasterKeys,    \* MASTER_KEY_CANDIDATES, in order
  UnknownKey,    \* a key that is none of them, or a wrong noKeySecu
  None,
  SlaveRandoms,  \* randoms of the ECU
  Faults,        \* pairs <<variant, fault>> that may happen
  MaxRetries,    \* bound: how often the ECU repeats a question
  MaxFaults      \* bound: faults of a behaviour

\* A random of the master: the low bit of its first byte, and that of its last,
\* which in variant C is bit 0 of a status byte as well.
MasterRandoms == [first : {0, 1}, last : {0, 1}]
Statuses == SUBSET {"cks", "key", "released"}
Hints == {"wrong key", "wrong pin", "held"}

ASSUME MasterAssumption ==
  /\ MasterKeys \in Seq(Range(MasterKeys)) \ {<<>>}
  /\ IsInjective(MasterKeys) /\ UnknownKey \notin Range(MasterKeys)
  /\ None \notin MasterRandoms \cup Hints
  /\ Faults \subseteq {"A", "B", "C"} \X {"loss", "late", "stale", "restart", "lookalike"}
  /\ MaxRetries \in Nat /\ MaxFaults \in Nat

VARIABLES
  master,        \* struct ImmoMaster
  requests,      \* frames on their way from the ECU, CAN_ID_REQUEST
  replies,       \* and back, CAN_ID_RESPONSE
  \* the ECU
  mk, pin,       \* its master key, and whether its noKeyMst is the one we have
  variant,       \* in which variant it asks
  asked,         \* the question that it waits for an answer to, or None
  retries,
  status,        \* its verdict on the last answer
  answer,        \* the random of that answer, which its CrcSlave covers
  faults

ecuvars == <<mk, pin, variant, asked, retries, status, answer>>
vars == <<master, requests, replies, ecuvars, faults>>

\* crc_master and crc_slave: the operands and their order tell directions and
\* variants apart.
crc_master(key, v, rs, rm) == <<"master", key, v, rs, rm>>
crc_slave(key, v, rs, rm) == <<"slave", key, v, rs, rm>>
Words ==
  {"master", "slave"} \X (Range(MasterKeys) \cup {UnknownKey}) \X {"A", "B", "C"}
    \X (SlaveRandoms \cup {None}) \X (MasterRandoms \cup {None})

Frame(type, zeros, rnd, crc, st) ==
  [type |-> type, zeros |-> zeros, rnd |-> rnd, crc |-> crc, st |-> st]
Frames ==
  [type : 0..3, zeros : BOOLEAN, rnd : SlaveRandoms \cup {None}, crc : Words \cup {None},
   st : Statuses]

ASSUME FrameAssumption == None \notin Frames

\* A frame of variant B has random bytes where the others have their type.
classify(frame) ==
  CASE frame.zeros /\ frame.type = 1 -> <<"A", 1>>
    [] frame.zeros /\ frame.type = 2 -> <<"A", 2>>
    [] frame.zeros /\ frame.type = 3 -> <<"C", 1>>
    [] OTHER -> <<"B", 1>>

ecu_status_hint(st) ==
  CASE "released" \in st -> None
    [] "released" \notin st /\ "cks" \notin st -> "wrong key"
    [] "released" \notin st /\ "cks" \in st /\ "key" \notin st -> "wrong pin"
    [] OTHER -> "held"

-----------------------------------------------------------------------------
(***************************************************************************)
(* struct ImmoMaster; its methods return the struct they leave.            *)
(***************************************************************************)
\* with_rng; `known` is the key read from idxLab, if it was.
NewMaster(known) ==
  [candidates |-> IF known = None THEN MasterKeys ELSE <<known>>,
   rnd_master |-> None, rnd_slave |-> None, variant |-> None, no_key_slave |-> FALSE,
   ecu_status |-> None, mk_confirmed |-> FALSE, awaiting_verdict |-> FALSE,
   exhausted_keys |-> FALSE, hint |-> None]

\* Defect: the bit that makes the random differ is the one that variant C needs.
fresh_random_last(m, r, status_bit) ==
  LET s == IF status_bit THEN [r EXCEPT !.last = 1] ELSE r
  IN  IF s = m.rnd_master THEN [s EXCEPT !.last = 1 - @] ELSE s
fresh_random(m, r, status_bit) ==
  LET s == IF status_bit THEN [r EXCEPT !.last = 1] ELSE r
  IN  IF s = m.rnd_master THEN [s EXCEPT !.first = 1 - @] ELSE s

Rejected(m) ==
  IF Len(m.candidates) > 1 THEN [m EXCEPT !.candidates = Tail(@)]
  ELSE [m EXCEPT !.exhausted_keys = TRUE]

\* Defect: a status is taken for a verdict before anything was answered.
note_status_always(m, st) ==
  LET n == [m EXCEPT !.ecu_status = st, !.awaiting_verdict = FALSE]
  IN  IF "cks" \in st THEN [n EXCEPT !.mk_confirmed = TRUE] ELSE Rejected(n)

\* Defect: a key that was rejected is kept.
note_status_keeps(m, st) ==
  LET n == [m EXCEPT !.ecu_status = st, !.awaiting_verdict = FALSE]
  IN  IF m.awaiting_verdict /\ "cks" \in st THEN [n EXCEPT !.mk_confirmed = TRUE] ELSE n

\* The verdict on the answer that was sent last: the key that was rejected is
\* dropped.
note_status(m, st) ==
  LET told == m.ecu_status # None /\ m.ecu_status # st /\ ecu_status_hint(st) # None
      n == [m EXCEPT !.ecu_status = st, !.awaiting_verdict = FALSE,
                     !.hint = IF told THEN ecu_status_hint(st) ELSE @]
  IN  IF ~m.awaiting_verdict THEN n
      ELSE IF "cks" \in st THEN [n EXCEPT !.mk_confirmed = TRUE] ELSE Rejected(n)

\* What stands at the places S of a sequence, in order.
Kept(seq, S) ==
  [n \in 1..Cardinality(S) |->
     seq[CHOOSE i \in S : Cardinality({j \in S : j < i}) = n - 1]]

\* Narrow the candidates to those that explain the ECU's own word; none left
\* means that the randoms are stale, and changes nothing.
observe_slave_response(m, crc, rs, rm) ==
  LET survivors == Kept(m.candidates,
        {i \in DOMAIN m.candidates : crc_slave(m.candidates[i], m.variant, rs, rm) = crc})
  IN  IF survivors = <<>> THEN m
      ELSE [m EXCEPT !.candidates = survivors,
                     !.no_key_slave = @ \/ Len(survivors) = 1]

\* The struct and the reply that handle_request leaves, r being what the random
\* number generator returns.
ReplyTo(m, v, rs, rm, bit) ==
  [crc |-> crc_master(Head(m.candidates), v, rs, rm), rm |-> rm, bit |-> bit]

\* Defect: the two randoms change places.
AnswerA1Swapped(m, frame, r) ==
  LET rm == fresh_random(m, r, FALSE) IN
  [master |-> [m EXCEPT !.rnd_slave = rm, !.rnd_master = frame.rnd,
                        !.awaiting_verdict = TRUE],
   reply |-> <<ReplyTo(m, "A", frame.rnd, rm, FALSE)>>]
AnswerA1(m, frame, r) ==
  LET rm == fresh_random(m, r, FALSE) IN
  [master |-> [m EXCEPT !.rnd_slave = frame.rnd, !.rnd_master = rm,
                        !.awaiting_verdict = TRUE],
   reply |-> <<ReplyTo(m, "A", frame.rnd, rm, FALSE)>>]

AnswerA2(m, frame) ==
  LET n == note_status(m, frame.st) IN
  [master |-> IF m.rnd_slave # None /\ m.rnd_master # None /\ "released" \in frame.st
              THEN observe_slave_response(n, frame.crc, m.rnd_slave, m.rnd_master) ELSE n,
   reply |-> <<>>]

AnswerB(m, frame) ==
  LET n == observe_slave_response([m EXCEPT !.rnd_slave = frame.rnd], frame.crc, frame.rnd, None)
  IN  [master |-> [n EXCEPT !.awaiting_verdict = TRUE],
       reply |-> <<ReplyTo(n, "B", frame.rnd, None, TRUE)>>]

AnswerC(m, frame, r) ==
  LET n == note_status(m, frame.st)
      o == IF m.rnd_master # None /\ "released" \in frame.st
           THEN observe_slave_response(n, frame.crc, None, m.rnd_master) ELSE n
      rm == fresh_random(o, r, TRUE)
  IN  [master |-> [o EXCEPT !.rnd_master = rm, !.awaiting_verdict = TRUE],
       reply |-> <<ReplyTo(o, "C", None, rm, rm.last = 1)>>]

Answered(m, frame, r) ==
  LET v == classify(frame)
      n == [m EXCEPT !.variant = v[1]] IN
  CASE v = <<"A", 1>> -> AnswerA1(n, frame, r)
    [] v = <<"A", 2>> -> AnswerA2(n, frame)
    [] v[1] = "B" -> AnswerB(n, frame)
    [] v[1] = "C" -> AnswerC(n, frame, r)

\* An arm of master_loop.
HandleRequest ==
  /\ requests # <<>> /\ requests' = Tail(requests)
  /\ \E r \in MasterRandoms :
       LET a == Answered(master, Head(requests), r) IN
       master' = a.master /\ replies' = replies \o a.reply
  /\ UNCHANGED <<ecuvars, faults>>

-----------------------------------------------------------------------------
(***************************************************************************)
(* The ECU and the bus.                                                    *)
(***************************************************************************)
released == "released" \in status
Silent == requests = <<>> /\ replies = <<>>
Fault(kind) == <<variant, kind>> \in Faults /\ faults < MaxFaults /\ faults' = faults + 1

\* The frame that opens an exchange.  In variant C it carries the verdict on the
\* exchange before; the word in it is real once the ECU has released.
Questions ==
  CASE variant = "A" -> {Frame(1, TRUE, rs, None, {}) : rs \in SlaveRandoms}
    [] variant = "C" -> {Frame(3, TRUE, None,
                               IF released THEN crc_slave(mk, "C", None, answer) ELSE None, status)}
    [] variant = "B" -> {Frame(t, z, rs, crc_slave(mk, "B", rs, None), {}) :
                           t \in {0, 1, 3}, z \in BOOLEAN, rs \in SlaveRandoms}

\* A frame of variant B whose random bytes are those of another variant's type.
LookAlike(q) == classify(q)[1] # variant

\* Released, the ECU has nothing to ask; in variant C it still reports.
Asks == asked = None /\ (released => variant = "C" /\ answer # None)

EcuAsks ==
  /\ Asks /\ Silent
  /\ \E q \in Questions :
       /\ requests' = <<q>> /\ asked' = q
       /\ IF LookAlike(q) THEN Fault("lookalike") ELSE UNCHANGED faults
  /\ retries' = 0 /\ answer' = IF released THEN None ELSE answer
  /\ UNCHANGED <<master, replies, mk, pin, variant, status>>

EcuRepeats ==
  /\ asked # None /\ retries < MaxRetries /\ retries' = retries + 1
  /\ IF Silent THEN UNCHANGED faults ELSE Fault("late")
  /\ requests' = Append(requests, asked)
  /\ UNCHANGED <<master, replies, mk, pin, variant, asked, status, answer>>

\* What it asked is forgotten; a late answer may then meet another question.
EcuGivesUp ==
  /\ asked # None /\ retries = MaxRetries /\ retries' = 0
  /\ \/ Silent /\ asked' = None /\ UNCHANGED <<requests, faults>>
     \/ /\ ~Silent /\ Fault("stale")
        /\ \E q \in Questions \ {asked} : ~LookAlike(q) /\ asked' = q
        /\ requests' = Append(requests, asked')
  /\ UNCHANGED <<master, replies, mk, pin, variant, status, answer>>

Verdict(reply) ==
  IF reply.crc # crc_master(mk, variant, asked.rnd, reply.rm) THEN {}
  ELSE IF ~pin THEN {"cks"}
  ELSE IF variant # "A" /\ ~reply.bit THEN {"cks", "key"} ELSE {"cks", "key", "released"}

\* An answer; nobody waits for one any more when it comes second.
EcuJudges ==
  /\ replies # <<>> /\ replies' = Tail(replies)
  /\ IF asked = None THEN UNCHANGED <<asked, status, answer, requests>>
     ELSE LET st == IF released THEN status ELSE Verdict(Head(replies)) IN
          /\ asked' = None /\ status' = st
          /\ answer' = IF released THEN None ELSE Head(replies).rm
          /\ requests' = IF variant # "A" THEN requests ELSE
               Append(requests, Frame(2, TRUE, None,
                 IF "released" \in st THEN crc_slave(mk, "A", asked.rnd, Head(replies).rm)
                 ELSE None, st))
  /\ UNCHANGED <<master, mk, pin, variant, retries, faults>>

\* The ignition goes off and on again: after an exchange, or in the middle of one.
Ignition ==
  /\ IF released /\ ~Asks /\ Silent /\ asked = None THEN UNCHANGED faults ELSE Fault("restart")
  /\ requests' = <<>> /\ replies' = <<>>
  /\ asked' = None /\ retries' = 0 /\ status' = {} /\ answer' = None
  /\ UNCHANGED <<master, mk, pin, variant>>

Lost ==
  /\ Fault("loss")
  /\ \/ requests # <<>> /\ requests' = Tail(requests) /\ UNCHANGED replies
     \/ replies # <<>> /\ replies' = Tail(replies) /\ UNCHANGED requests
  /\ UNCHANGED <<master, ecuvars>>

Init ==
  /\ mk \in Range(MasterKeys) \cup {UnknownKey} /\ pin \in BOOLEAN
  /\ variant \in {"A", "B", "C"}
  /\ master \in {NewMaster(None), NewMaster(mk)}
  /\ requests = <<>> /\ replies = <<>>
  /\ asked = None /\ retries = 0 /\ status = {} /\ answer = None /\ faults = 0

Next ==
  \/ HandleRequest
  \/ EcuAsks \/ EcuRepeats \/ EcuGivesUp \/ EcuJudges \/ Ignition \/ Lost

Spec == Init /\ [][Next]_vars

\* What the emulator copes with: losses and repetitions where no frame reports on
\* an earlier one, and answers to a question of long ago where there is no report
\* at all.
Survivable ==
  ({"A", "B"} \X {"loss", "late", "restart"}) \cup {<<"B", "stale">>}

\* The master answers what it is asked, and the ECU goes on asking.
FairSpec ==
  Spec /\ WF_vars(HandleRequest) /\ WF_vars(EcuAsks) /\ WF_vars(EcuJudges)
       /\ WF_vars(Silent /\ (EcuRepeats \/ EcuGivesUp))

-----------------------------------------------------------------------------
(***************************************************************************)
(* Properties.                                                             *)
(***************************************************************************)
KeyIsKnown == mk \in Range(MasterKeys)

TypeOK ==
  /\ master.candidates # <<>> /\ Range(master.candidates) \subseteq Range(MasterKeys) \cup {mk}
  /\ master.rnd_master \in MasterRandoms \cup {None}
  /\ master.rnd_slave \in SlaveRandoms \cup {None}
  /\ status \subseteq {"cks", "key", "released"} /\ retries \in 0..MaxRetries

\* "Rotate the master-key candidate when it says the CrcMaster was wrong": with
\* the right secrets the right key is never dropped, by a verdict on another
\* answer or by a word that matches none of the keys.
RightKeyKept == KeyIsKnown => mk \in Range(master.candidates)

\* What the emulator claims to know is so: a confirmed key, and a key that a
\* recovered noKeySlave comes with, is the ECU's; a PIN is only blamed when it is
\* wrong.
ClaimsAreRight ==
  /\ master.mk_confirmed \/ master.no_key_slave => mk \in Range(master.candidates)
  /\ master.no_key_slave => master.candidates = <<mk>>
  /\ master.hint = "wrong pin" => ~pin

\* What the emulator believes of its candidates is right (note_status,
\* observe_slave_response).
KeysSound == RightKeyKept /\ ClaimsAreRight

\* "Consecutive master randoms must differ [...] or reject the exchange as a
\* replay", also across repeated and unanswered questions; and in variant C the
\* same byte keeps bit 0.
NeverReplayed ==
  [][\A i \in DOMAIN replies' :
       i > Len(replies) /\ replies'[i].rm # None =>
         /\ replies'[i].rm # master.rnd_master
         /\ master'.variant = "C" => replies'[i].rm.last = 1]_vars

\* With the right secrets the search ends: after finitely many faults the ECU
\* releases, whichever key is tried first.
Releases == (KeyIsKnown /\ pin ~> released)
=============================================================================

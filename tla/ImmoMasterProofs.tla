-------------------------- MODULE ImmoMasterProofs --------------------------
(***************************************************************************)
(* Proofs about the emulated immobilizer master: its types and that no     *)
(* random is sent twice in a row, for every fault; and that what it        *)
(* believes of its candidate keys is right, for the faults it copes with.  *)
(***************************************************************************)
EXTENDS ImmoMaster, FiniteSetTheorems, TLAPS

AllKeys == Range(MasterKeys) \cup {UnknownKey}
Randoms == MasterRandoms \cup {None}

Masters ==
  [candidates : Seq(AllKeys), rnd_master : Randoms, rnd_slave : SlaveRandoms \cup {None},
   variant : {"A", "B", "C"} \cup {None}, no_key_slave : BOOLEAN,
   ecu_status : Statuses \cup {None}, mk_confirmed : BOOLEAN, awaiting_verdict : BOOLEAN,
   exhausted_keys : BOOLEAN, hint : Hints \cup {None}]

Replies == [crc : Words, rm : Randoms, bit : BOOLEAN]

\* Candidates of an ECU that has the key k: one at least, none twice.
Ranked(c, k) ==
  /\ c # <<>> /\ \A i, j \in DOMAIN c : c[i] = c[j] => i = j
  /\ \A i \in DOMAIN c : c[i] \in Range(MasterKeys) \cup {k}

\* The types, of every variable.
TypeInv ==
  /\ master \in Masters /\ Ranked(master.candidates, mk)
  /\ requests \in Seq(Frames) /\ replies \in Seq(Replies)
  /\ mk \in AllKeys /\ pin \in BOOLEAN /\ variant \in {"A", "B", "C"}
  /\ asked \in Frames \cup {None} /\ retries \in 0..MaxRetries
  /\ status \in {{}, {"cks"}, {"cks", "key"}, {"cks", "key", "released"}}
  /\ answer \in Randoms

-----------------------------------------------------------------------------
(***************************************************************************)
(* What the operators of the master compute.                               *)
(***************************************************************************)
\* A fresh random is one, it is not the one before, and it has the status bit.
LEMMA Fresh ==
  ASSUME NEW m \in Masters, NEW r \in MasterRandoms, NEW b \in BOOLEAN
  PROVE  /\ fresh_random(m, r, b) \in MasterRandoms
         /\ fresh_random(m, r, b) # m.rnd_master
         /\ b => fresh_random(m, r, b).last = 1
<1> DEFINE s == IF b THEN [r EXCEPT !.last = 1] ELSE r
<1>1. s \in MasterRandoms /\ (b => s.last = 1)
  BY DEF MasterRandoms
<1>2. fresh_random(m, r, b) = IF s = m.rnd_master THEN [s EXCEPT !.first = 1 - s.first] ELSE s
  BY DEF fresh_random
<1> HIDE DEF s
<1>3. [s EXCEPT !.first = 1 - s.first] \in MasterRandoms /\ [s EXCEPT !.first = 1 - s.first] # s
      /\ [s EXCEPT !.first = 1 - s.first].last = s.last
  <2>1. [s EXCEPT !.first = 1 - s.first].first # s.first
    BY <1>1 DEF MasterRandoms
  <2> QED
    BY <1>1, <2>1 DEF MasterRandoms
<1> QED
  BY <1>1, <1>2, <1>3

\* Of one place at most, the sequence of what stands there.
LEMMA KeptOne ==
  ASSUME NEW c, NEW S \in SUBSET Nat, \A i, j \in S : i = j
  PROVE  \/ S = {} /\ Kept(c, S) = <<>>
         \/ \E i \in S : Kept(c, S) = <<c[i]>>
<1>1. CASE S = {}
  <2>1. Cardinality(S) = 0
    BY <1>1, FS_EmptySet
  <2>2. 1..0 = {}
    OBVIOUS
  <2> QED
    BY <1>1, <2>1, <2>2 DEF Kept
<1>2. ASSUME NEW i \in S PROVE Kept(c, S) = <<c[i]>>
  <2>1. S = {i}
    BY <1>2
  <2>2. Cardinality(S) = 1
    BY <2>1, FS_Singleton
  <2>3. 1..1 = {1}
    OBVIOUS
  <2> DEFINE first == CHOOSE h \in S : Cardinality({j \in S : j < h}) = 1 - 1
  <2>4. Cardinality({j \in S : j < i}) = 1 - 1
    <3>1. {j \in S : j < i} = {}
      BY <2>1
    <3> QED
      BY <3>1, FS_EmptySet
  <2>5. first = i
    BY <2>1, <2>4
  <2>6. DOMAIN Kept(c, S) = {1} /\ Kept(c, S)[1] = c[first]
    BY <2>2, <2>3 DEF Kept
  <2>7. Kept(c, S) = [n \in {1} |-> Kept(c, S)[n]]
    BY <2>2, <2>3 DEF Kept
  <2>8. <<c[i]>> = [n \in {1} |-> c[i]]
    BY <2>3
  <2> QED
    BY <2>5, <2>6, <2>7, <2>8
<1> QED
  BY <1>1, <1>2

\* The master that knows the key for sure.
Locked(m, key) == [m EXCEPT !.candidates = <<key>>, !.no_key_slave = TRUE]

\* The ECU's own word is that of one candidate, which is then the only one left,
\* or of none, and nothing changes.
LEMMA Observed ==
  ASSUME NEW m \in Masters, NEW k \in AllKeys, Ranked(m.candidates, k),
         NEW crc, NEW rs, NEW rm
  PROVE  \/ /\ observe_slave_response(m, crc, rs, rm) = m
            /\ \A i \in DOMAIN m.candidates :
                 crc_slave(m.candidates[i], m.variant, rs, rm) # crc
         \/ \E i \in DOMAIN m.candidates :
              /\ crc_slave(m.candidates[i], m.variant, rs, rm) = crc
              /\ observe_slave_response(m, crc, rs, rm) = Locked(m, m.candidates[i])
<1> DEFINE S == {i \in DOMAIN m.candidates :
                   crc_slave(m.candidates[i], m.variant, rs, rm) = crc}
<1>1. S \in SUBSET Nat /\ \A i, j \in S : i = j
  <2>1. DOMAIN m.candidates \subseteq Nat
    BY DEF Masters
  <2>2. \A i, j \in S : m.candidates[i] = m.candidates[j]
    BY DEF crc_slave
  <2> QED
    BY <2>1, <2>2 DEF Ranked
<1>2. observe_slave_response(m, crc, rs, rm) =
        IF Kept(m.candidates, S) = <<>> THEN m
        ELSE [m EXCEPT !.candidates = Kept(m.candidates, S),
                       !.no_key_slave = m.no_key_slave \/ Len(Kept(m.candidates, S)) = 1]
  BY DEF observe_slave_response
<1>3. \A i : Len(<<m.candidates[i]>>) = 1 /\ <<m.candidates[i]>> # <<>>
  OBVIOUS
<1>4. \/ S = {} /\ Kept(m.candidates, S) = <<>>
      \/ \E i \in S : Kept(m.candidates, S) = <<m.candidates[i]>>
  <2> HIDE DEF S
  <2> QED
    BY <1>1, KeptOne
<1>5. CASE S = {} /\ Kept(m.candidates, S) = <<>>
  BY <1>2, <1>5
<1>6. ASSUME NEW i \in S, Kept(m.candidates, S) = <<m.candidates[i]>>
      PROVE  observe_slave_response(m, crc, rs, rm) = Locked(m, m.candidates[i])
  BY <1>2, <1>3, <1>6 DEF Locked
<1> QED
  BY <1>4, <1>5, <1>6

LEMMA ObservedTyped ==
  ASSUME NEW m \in Masters, NEW k \in AllKeys, Ranked(m.candidates, k),
         NEW crc, NEW rs, NEW rm
  PROVE  LET o == observe_slave_response(m, crc, rs, rm) IN
         /\ o \in Masters /\ Ranked(o.candidates, k)
         /\ o.rnd_master = m.rnd_master /\ o.rnd_slave = m.rnd_slave
         /\ o.variant = m.variant /\ o.hint = m.hint /\ o.mk_confirmed = m.mk_confirmed
<1> DEFINE o == observe_slave_response(m, crc, rs, rm)
<1>1. CASE o = m
  BY <1>1
<1>2. ASSUME NEW i \in DOMAIN m.candidates,
             o = Locked(m, m.candidates[i])
      PROVE  /\ o \in Masters /\ Ranked(o.candidates, k)
             /\ o.rnd_master = m.rnd_master /\ o.rnd_slave = m.rnd_slave
             /\ o.variant = m.variant /\ o.hint = m.hint /\ o.mk_confirmed = m.mk_confirmed
  <2>1. m.candidates[i] \in AllKeys
    BY DEF Masters
  <2>2. <<m.candidates[i]>> \in Seq(AllKeys) /\ Ranked(<<m.candidates[i]>>, k)
    BY <2>1 DEF Ranked
  <2> HIDE DEF o
  <2> QED
    BY <1>2, <2>2 DEF Masters, Locked
<1> HIDE DEF o
<1>3. o = m \/ \E i \in DOMAIN m.candidates :
                  o = Locked(m, m.candidates[i])
  BY Observed DEF o
<1>4. /\ o \in Masters /\ Ranked(o.candidates, k)
      /\ o.rnd_master = m.rnd_master /\ o.rnd_slave = m.rnd_slave
      /\ o.variant = m.variant /\ o.hint = m.hint /\ o.mk_confirmed = m.mk_confirmed
  BY <1>1, <1>2, <1>3
<1> QED
  BY <1>4 DEF o

LEMMA RankedTail ==
  ASSUME NEW k \in AllKeys, NEW c \in Seq(AllKeys), Ranked(c, k), Len(c) > 1
  PROVE  Tail(c) \in Seq(AllKeys) /\ Ranked(Tail(c), k)
<1>1. Tail(c) \in Seq(AllKeys) /\ Len(Tail(c)) = Len(c) - 1
  OBVIOUS
<1>3. Tail(c) # <<>>
  <2>1. Len(<<>>) = 0
    OBVIOUS
  <2>2. Len(Tail(c)) # 0
    BY <1>1
  <2> QED
    BY <2>1, <2>2
<1>2. \A i \in DOMAIN Tail(c) : i + 1 \in DOMAIN c /\ Tail(c)[i] = c[i + 1] /\ i \in Nat
  OBVIOUS
<1> QED
  BY <1>1, <1>2, <1>3 DEF Ranked

\* A verdict drops the first candidate, if there is another, or confirms it.
LEMMA Noted ==
  ASSUME NEW m \in Masters, NEW k \in AllKeys, Ranked(m.candidates, k), NEW st \in Statuses
  PROVE  LET n == note_status(m, st)
             bad == m.awaiting_verdict /\ "cks" \notin st IN
         /\ n \in Masters /\ Ranked(n.candidates, k)
         /\ n.rnd_master = m.rnd_master /\ n.rnd_slave = m.rnd_slave /\ n.variant = m.variant
         /\ n.no_key_slave = m.no_key_slave
         /\ n.mk_confirmed <=> m.mk_confirmed \/ (m.awaiting_verdict /\ "cks" \in st)
         /\ n.candidates = IF bad /\ Len(m.candidates) > 1 THEN Tail(m.candidates)
                           ELSE m.candidates
         /\ n.hint = m.hint \/ n.hint = ecu_status_hint(st)
<1> DEFINE told == m.ecu_status # None /\ m.ecu_status # st /\ ecu_status_hint(st) # None
           h == IF told THEN ecu_status_hint(st) ELSE m.hint
           p == [m EXCEPT !.ecu_status = st, !.awaiting_verdict = FALSE, !.hint = h]
           n == note_status(m, st)
<1>1. ecu_status_hint(st) \in Hints \cup {None}
  BY DEF ecu_status_hint, Hints
<1>2. h \in Hints \cup {None} /\ (h = m.hint \/ h = ecu_status_hint(st))
  BY <1>1 DEF Masters
<1>3. n = IF ~m.awaiting_verdict THEN p
          ELSE IF "cks" \in st THEN [p EXCEPT !.mk_confirmed = TRUE] ELSE Rejected(p)
  BY DEF note_status
<1> HIDE DEF h, n
<1>4. /\ p \in Masters /\ p.candidates = m.candidates /\ p.rnd_master = m.rnd_master
      /\ p.rnd_slave = m.rnd_slave /\ p.variant = m.variant
      /\ p.no_key_slave = m.no_key_slave /\ p.mk_confirmed = m.mk_confirmed /\ p.hint = h
  BY <1>2 DEF Masters
<1> HIDE DEF p
<1>5. ASSUME Len(p.candidates) > 1
      PROVE  Tail(p.candidates) \in Seq(AllKeys) /\ Ranked(Tail(p.candidates), k)
  BY <1>4, <1>5, RankedTail DEF Masters
<1>6. CASE ~m.awaiting_verdict
  BY <1>2, <1>3, <1>4, <1>6 DEF n
<1>7. CASE m.awaiting_verdict /\ "cks" \in st
  BY <1>2, <1>3, <1>4, <1>7 DEF Masters, n
<1>8. CASE m.awaiting_verdict /\ "cks" \notin st
  <2>1. n = IF Len(p.candidates) > 1 THEN [p EXCEPT !.candidates = Tail(p.candidates)]
            ELSE [p EXCEPT !.exhausted_keys = TRUE]
    BY <1>3, <1>8 DEF Rejected
  <2>2. CASE Len(p.candidates) > 1
    BY <1>2, <1>4, <1>5, <1>8, <2>1, <2>2 DEF Masters, n
  <2>3. CASE ~(Len(p.candidates) > 1)
    BY <1>2, <1>4, <1>8, <2>1, <2>3 DEF Masters, n
  <2> QED
    BY <2>2, <2>3
<1> QED
  BY <1>6, <1>7, <1>8

\* Which arm answers a frame.
LEMMA Arms ==
  ASSUME NEW m \in Masters, NEW f \in Frames, NEW r \in MasterRandoms
  PROVE  LET n(v) == [m EXCEPT !.variant = v] IN
         /\ f.zeros /\ f.type = 1 => /\ classify(f) = <<"A", 1>>
                                     /\ Answered(m, f, r) = AnswerA1(n("A"), f, r)
         /\ f.zeros /\ f.type = 2 => /\ classify(f) = <<"A", 2>>
                                     /\ Answered(m, f, r) = AnswerA2(n("A"), f)
         /\ f.zeros /\ f.type = 3 => /\ classify(f) = <<"C", 1>>
                                     /\ Answered(m, f, r) = AnswerC(n("C"), f, r)
         /\ ~(f.zeros /\ f.type \in {1, 2, 3}) => /\ classify(f) = <<"B", 1>>
                                                  /\ Answered(m, f, r) = AnswerB(n("B"), f)
<1>1. f.zeros \in BOOLEAN /\ f.type \in 0..3
  BY DEF Frames
<1>2. CASE f.zeros /\ f.type = 1
  <2>1. classify(f) = <<"A", 1>>
    BY <1>2 DEF classify
  <2> QED
    BY <1>2, <2>1 DEF Answered
<1>3. CASE f.zeros /\ f.type = 2
  <2>1. classify(f) = <<"A", 2>>
    BY <1>3 DEF classify
  <2> QED
    BY <1>3, <2>1 DEF Answered
<1>4. CASE f.zeros /\ f.type = 3
  <2>1. classify(f) = <<"C", 1>>
    BY <1>4 DEF classify
  <2> QED
    BY <1>4, <2>1 DEF Answered
<1>5. CASE ~(f.zeros /\ f.type \in {1, 2, 3})
  <2>1. classify(f) = <<"B", 1>>
    BY <1>5 DEF classify
  <2> QED
    BY <1>5, <2>1 DEF Answered
<1> QED
  BY <1>1, <1>2, <1>3, <1>4, <1>5

\* A reply for the candidate on top.
LEMMA Replied ==
  ASSUME NEW m \in Masters, NEW k \in AllKeys, Ranked(m.candidates, k), NEW v \in {"A", "B", "C"},
         NEW rs \in SlaveRandoms \cup {None}, NEW rm \in Randoms, NEW b \in BOOLEAN
  PROVE  /\ ReplyTo(m, v, rs, rm, b) \in Replies
         /\ ReplyTo(m, v, rs, rm, b).crc = crc_master(Head(m.candidates), v, rs, rm)
         /\ ReplyTo(m, v, rs, rm, b).rm = rm
<1>1. Head(m.candidates) \in AllKeys
  BY DEF Masters, Ranked
<1>2. crc_master(Head(m.candidates), v, rs, rm) \in Words
  BY <1>1 DEF crc_master, Words, AllKeys, Randoms
<1> QED
  BY <1>2 DEF ReplyTo, Replies

\* The arms of handle_request, one lemma each: the struct and the reply they leave.
LEMMA ArmA1 ==
  ASSUME NEW m \in Masters, NEW k \in AllKeys, Ranked(m.candidates, k),
         NEW f \in Frames, NEW r \in MasterRandoms
  PROVE  LET a == AnswerA1(m, f, r)
             n == a.master IN
         /\ n \in Masters /\ n.candidates = m.candidates /\ n.variant = m.variant
         /\ n.no_key_slave = m.no_key_slave /\ n.mk_confirmed = m.mk_confirmed
         /\ n.hint = m.hint
         /\ \E p \in Replies :
              /\ a.reply = <<p>> /\ p.rm # m.rnd_master /\ p.rm \in MasterRandoms
              /\ p.crc = crc_master(Head(m.candidates), "A", f.rnd, p.rm)
<1> DEFINE rm == fresh_random(m, r, FALSE)
           p == ReplyTo(m, "A", f.rnd, rm, FALSE)
           n == [m EXCEPT !.rnd_slave = f.rnd, !.rnd_master = rm, !.awaiting_verdict = TRUE]
<1>1. rm \in MasterRandoms /\ rm # m.rnd_master
  BY Fresh
<1>2. f.rnd \in SlaveRandoms \cup {None} /\ rm \in Randoms
  BY <1>1 DEF Frames, Randoms
<1>3. AnswerA1(m, f, r).master = n /\ AnswerA1(m, f, r).reply = <<p>>
  BY DEF AnswerA1
<1> HIDE DEF rm
<1>4. p \in Replies /\ p.crc = crc_master(Head(m.candidates), "A", f.rnd, rm) /\ p.rm = rm
  BY <1>2, Replied
<1>5. /\ n \in Masters /\ n.candidates = m.candidates /\ n.variant = m.variant
      /\ n.no_key_slave = m.no_key_slave /\ n.mk_confirmed = m.mk_confirmed
      /\ n.hint = m.hint
  BY <1>2 DEF Masters
<1> HIDE DEF p, n
<1> QED
  BY <1>1, <1>3, <1>4, <1>5

LEMMA ArmB ==
  ASSUME NEW m \in Masters, NEW k \in AllKeys, Ranked(m.candidates, k), NEW f \in Frames
  PROVE  LET a == AnswerB(m, f)
             s == [m EXCEPT !.rnd_slave = f.rnd]
             o == observe_slave_response(s, f.crc, f.rnd, None) IN
         /\ s \in Masters /\ Ranked(s.candidates, k) /\ a.master \in Masters
         /\ Ranked(a.master.candidates, k)
         /\ a.master.candidates = o.candidates /\ a.master.no_key_slave = o.no_key_slave
         /\ a.master.hint = m.hint /\ a.master.mk_confirmed = m.mk_confirmed
         /\ \E p \in Replies : a.reply = <<p>> /\ p.rm = None
<1> DEFINE s == [m EXCEPT !.rnd_slave = f.rnd]
           o == observe_slave_response(s, f.crc, f.rnd, None)
           n == [o EXCEPT !.awaiting_verdict = TRUE]
           p == ReplyTo(o, "B", f.rnd, None, TRUE)
<1>1. f.rnd \in SlaveRandoms \cup {None} /\ None \in Randoms
  BY DEF Frames, Randoms
<1>2. s \in Masters /\ s.candidates = m.candidates
      /\ s.hint = m.hint /\ s.mk_confirmed = m.mk_confirmed
  BY <1>1 DEF Masters
<1>3. Ranked(s.candidates, k)
  BY <1>2
<1>4. AnswerB(m, f).master = n /\ AnswerB(m, f).reply = <<p>>
  BY DEF AnswerB
<1>5. /\ o \in Masters /\ Ranked(o.candidates, k)
      /\ o.hint = s.hint /\ o.mk_confirmed = s.mk_confirmed
  <2> HIDE DEF s
  <2> QED
    BY <1>2, <1>3, ObservedTyped
<1> HIDE DEF o
<1>6. p \in Replies /\ p.rm = None
  BY <1>1, <1>5, Replied
<1>7. /\ n \in Masters /\ n.candidates = o.candidates /\ n.no_key_slave = o.no_key_slave
      /\ n.hint = o.hint /\ n.mk_confirmed = o.mk_confirmed
  BY <1>5 DEF Masters
<1>8. \E q \in Replies : AnswerB(m, f).reply = <<q>> /\ q.rm = None
  BY <1>4, <1>6
<1> HIDE DEF p, n
<1>9. /\ s \in Masters /\ Ranked(s.candidates, k) /\ AnswerB(m, f).master \in Masters
      /\ Ranked(AnswerB(m, f).master.candidates, k)
      /\ AnswerB(m, f).master.candidates = o.candidates
      /\ AnswerB(m, f).master.no_key_slave = o.no_key_slave
      /\ AnswerB(m, f).master.hint = m.hint
      /\ AnswerB(m, f).master.mk_confirmed = m.mk_confirmed
  BY <1>2, <1>3, <1>4, <1>5, <1>7
<1> HIDE DEF s
<1> QED
  BY <1>8, <1>9 DEF s, o

\* What a frame that reports leaves of the candidates: the verdict, and the
\* ECU's own word, if it has released.
Reported(m, f, rs) ==
  LET n == note_status(m, f.st) IN
  IF "released" \in f.st /\ m.rnd_master # None
  THEN observe_slave_response(n, f.crc, rs, m.rnd_master) ELSE n

LEMMA ReportedTyped ==
  ASSUME NEW m \in Masters, NEW k \in AllKeys, Ranked(m.candidates, k), NEW f \in Frames, NEW rs
  PROVE  LET o == Reported(m, f, rs)
             n == note_status(m, f.st) IN
         /\ n \in Masters /\ Ranked(n.candidates, k)
         /\ o \in Masters /\ Ranked(o.candidates, k)
         /\ o.rnd_master = m.rnd_master /\ o.variant = m.variant
         /\ o.hint = n.hint /\ o.mk_confirmed = n.mk_confirmed
<1> DEFINE n == note_status(m, f.st)
           o == Reported(m, f, rs)
           q == observe_slave_response(n, f.crc, rs, m.rnd_master)
<1>1. f.st \in Statuses
  BY DEF Frames
<1>2. n \in Masters /\ Ranked(n.candidates, k) /\ n.rnd_master = m.rnd_master /\ n.variant = m.variant
  BY <1>1, Noted
<1>3. o = n \/ o = q
  BY DEF Reported
<1> HIDE DEF n, o
<1>4. /\ q \in Masters /\ Ranked(q.candidates, k)
      /\ q.rnd_master = n.rnd_master /\ q.variant = n.variant
      /\ q.hint = n.hint /\ q.mk_confirmed = n.mk_confirmed
  BY <1>2, ObservedTyped
<1> HIDE DEF q
<1>5. /\ n \in Masters /\ Ranked(n.candidates, k)
      /\ o \in Masters /\ Ranked(o.candidates, k)
      /\ o.rnd_master = m.rnd_master /\ o.variant = m.variant
      /\ o.hint = n.hint /\ o.mk_confirmed = n.mk_confirmed
  BY <1>2, <1>3, <1>4
<1> QED
  BY <1>5 DEF n, o

LEMMA ArmA2 ==
  ASSUME NEW m \in Masters, NEW k \in AllKeys, Ranked(m.candidates, k), NEW f \in Frames
  PROVE  LET a == AnswerA2(m, f) IN
         /\ a.reply = <<>>
         /\ a.master = note_status(m, f.st) \/ a.master = Reported(m, f, m.rnd_slave)
  BY DEF AnswerA2, Reported

LEMMA ArmC ==
  ASSUME NEW m \in Masters, NEW k \in AllKeys, Ranked(m.candidates, k),
         NEW f \in Frames, NEW r \in MasterRandoms
  PROVE  LET a == AnswerC(m, f, r)
             n == a.master
             o == Reported(m, f, None) IN
         /\ n \in Masters /\ Ranked(n.candidates, k)
         /\ n.candidates = o.candidates /\ n.no_key_slave = o.no_key_slave
         /\ n.hint = o.hint /\ n.mk_confirmed = o.mk_confirmed
         /\ \E p \in Replies :
              /\ a.reply = <<p>> /\ p.rm # m.rnd_master /\ p.rm \in MasterRandoms
              /\ p.rm.last = 1 /\ n.rnd_master = p.rm
              /\ p.crc = crc_master(Head(n.candidates), "C", None, p.rm)
<1> DEFINE o == Reported(m, f, None)
           rm == fresh_random(o, r, TRUE)
           bit == rm.last = 1
           p == ReplyTo(o, "C", None, rm, bit)
           n == [o EXCEPT !.rnd_master = rm, !.awaiting_verdict = TRUE]
<1>1. AnswerC(m, f, r).master = n /\ AnswerC(m, f, r).reply = <<p>>
  BY DEF AnswerC, Reported
<1>2. o \in Masters /\ Ranked(o.candidates, k) /\ o.rnd_master = m.rnd_master
  BY ReportedTyped
<1> HIDE DEF o
<1>3. rm \in MasterRandoms /\ rm # o.rnd_master /\ rm.last = 1
  BY <1>2, Fresh
<1> HIDE DEF rm
<1>4. None \in SlaveRandoms \cup {None} /\ rm \in Randoms /\ bit \in BOOLEAN
  BY <1>3 DEF Randoms
<1> HIDE DEF bit
<1>5. p \in Replies /\ p.crc = crc_master(Head(o.candidates), "C", None, rm) /\ p.rm = rm
  BY <1>2, <1>4, Replied
<1>6. /\ n \in Masters /\ n.candidates = o.candidates /\ n.no_key_slave = o.no_key_slave
      /\ n.hint = o.hint /\ n.mk_confirmed = o.mk_confirmed /\ n.rnd_master = rm
  BY <1>2, <1>4 DEF Masters
<1> HIDE DEF p, n
<1>7. /\ AnswerC(m, f, r).reply = <<p>> /\ p.rm # m.rnd_master /\ p.rm \in MasterRandoms
      /\ p.rm.last = 1 /\ n.rnd_master = p.rm
      /\ p.crc = crc_master(Head(n.candidates), "C", None, p.rm)
  BY <1>1, <1>2, <1>3, <1>5, <1>6
<1>8. n \in Masters /\ Ranked(n.candidates, k)
  BY <1>2, <1>6
<1> QED
  BY <1>1, <1>5, <1>6, <1>7, <1>8 DEF o

\* What handle_request leaves, whatever the frame: a struct and a reply with a
\* random that is new.
LEMMA AnsweredTyped ==
  ASSUME NEW m \in Masters, NEW k \in AllKeys, Ranked(m.candidates, k),
         NEW f \in Frames, NEW r \in MasterRandoms
  PROVE  LET a == Answered(m, f, r) IN
         /\ a.master \in Masters /\ Ranked(a.master.candidates, k)
         /\ \/ a.reply = <<>>
            \/ \E p \in Replies :
                 /\ a.reply = <<p>>
                 /\ p.rm # None => /\ p.rm # m.rnd_master
                                   /\ a.master.variant = "C" => p.rm.last = 1
<1> DEFINE a == Answered(m, f, r)
           n(v) == [m EXCEPT !.variant = v]
<1>1. \A v \in {"A", "B", "C"} :
        /\ n(v) \in Masters /\ n(v).candidates = m.candidates /\ Ranked(n(v).candidates, k)
        /\ n(v).rnd_master = m.rnd_master /\ n(v).variant = v
  BY DEF Masters
<1>2. f.zeros \in BOOLEAN /\ f.type \in 0..3 /\ f.st \in Statuses
  BY DEF Frames
<1> SUFFICES /\ a.master \in Masters /\ Ranked(a.master.candidates, k)
             /\ \/ a.reply = <<>>
                \/ \E p \in Replies :
                     /\ a.reply = <<p>>
                     /\ p.rm # None => /\ p.rm # m.rnd_master
                                       /\ a.master.variant = "C" => p.rm.last = 1
  OBVIOUS
<1>3. CASE f.zeros /\ f.type = 1
  <2>1. a = AnswerA1(n("A"), f, r)
    BY <1>3, Arms
  <2> HIDE DEF a, n
  <2>2. /\ a.master \in Masters /\ a.master.candidates = n("A").candidates
        /\ a.master.variant = n("A").variant
        /\ \E p \in Replies : a.reply = <<p>> /\ p.rm # n("A").rnd_master
    BY <1>1, <2>1, ArmA1
  <2> QED
    BY <1>1, <2>2
<1>4. CASE f.zeros /\ f.type = 2
  <2>1. a = AnswerA2(n("A"), f)
    BY <1>4, Arms
  <2> HIDE DEF a, n
  <2>2. /\ a.reply = <<>>
        /\ \/ a.master = note_status(n("A"), f.st)
           \/ a.master = Reported(n("A"), f, n("A").rnd_slave)
    BY <1>1, <2>1, ArmA2
  <2> QED
    BY <1>1, <2>2, ReportedTyped
<1>5. CASE f.zeros /\ f.type = 3
  <2>1. a = AnswerC(n("C"), f, r)
    BY <1>5, Arms
  <2> HIDE DEF a, n
  <2>2. /\ a.master \in Masters /\ Ranked(a.master.candidates, k)
        /\ \E p \in Replies : a.reply = <<p>> /\ p.rm # n("C").rnd_master /\ p.rm.last = 1
    BY <1>1, <2>1, ArmC
  <2> QED
    BY <1>1, <2>2
<1>6. CASE ~(f.zeros /\ f.type \in {1, 2, 3})
  <2>1. a = AnswerB(n("B"), f)
    BY <1>6, Arms
  <2> HIDE DEF a, n
  <2>2. /\ a.master \in Masters /\ Ranked(a.master.candidates, k)
        /\ \E p \in Replies : a.reply = <<p>> /\ p.rm = None
    BY <1>1, <2>1, ArmB
  <2> QED
    BY <2>2
<1> QED
  BY <1>2, <1>3, <1>4, <1>5, <1>6

-----------------------------------------------------------------------------
(***************************************************************************)
(* The types, for every fault.                                             *)
(***************************************************************************)
LEMMA SeqSteps ==
  ASSUME NEW S, NEW s \in Seq(S)
  PROVE  /\ s # <<>> => Head(s) \in S /\ Tail(s) \in Seq(S)
         /\ \A e \in S : Append(s, e) \in Seq(S) /\ <<e>> \in Seq(S)
  OBVIOUS

LEMMA MastersAtFirst ==
  ASSUME NEW k \in AllKeys, NEW known \in {None, k}
  PROVE  /\ NewMaster(known) \in Masters /\ Ranked(NewMaster(known).candidates, k)
         /\ NewMaster(known).candidates = MasterKeys \/ NewMaster(known).candidates = <<k>>
<1> DEFINE c == IF known = None THEN MasterKeys ELSE <<known>>
<1>1. /\ MasterKeys \in Seq(AllKeys) /\ MasterKeys # <<>>
      /\ \A i, j \in DOMAIN MasterKeys : MasterKeys[i] = MasterKeys[j] => i = j
      /\ \A i \in DOMAIN MasterKeys : MasterKeys[i] \in Range(MasterKeys)
  BY MasterAssumption DEF AllKeys, Range, IsInjective
<1>2. <<k>> \in Seq(AllKeys) /\ Ranked(<<k>>, k)
  BY DEF Ranked
<1>3. c \in Seq(AllKeys) /\ Ranked(c, k) /\ (c = MasterKeys \/ c = <<k>>)
  BY <1>1, <1>2 DEF Ranked
<1>4. NewMaster(known).candidates = c
  BY DEF NewMaster
<1> HIDE DEF c
<1>5. NewMaster(known) \in Masters
  BY <1>3, <1>4 DEF NewMaster, Masters, Randoms
<1> QED
  BY <1>3, <1>4, <1>5

LEMMA QuestionsTyped ==
  ASSUME TypeInv
  PROVE  /\ \A q \in Questions : q \in Frames
         /\ \A q \in Questions :
              /\ variant = "A" => q.zeros /\ q.type = 1
              /\ variant = "C" =>
                   q = Frame(3, TRUE, None,
                             IF released THEN crc_slave(mk, "C", None, answer) ELSE None, status)
              /\ variant = "B" => q.crc = crc_slave(mk, "B", q.rnd, None)
              /\ variant # "C" => q.st = {}
<1>1. {} \in Statuses /\ status \in Statuses
  BY DEF TypeInv, Statuses
<1>2. CASE variant = "A"
  <2> SUFFICES ASSUME NEW q \in Questions
               PROVE  q \in Frames /\ q.zeros /\ q.type = 1 /\ q.st = {}
    BY <1>2
  <2>1. PICK rs \in SlaveRandoms : q = Frame(1, TRUE, rs, None, {})
    <3>1. Questions = {Frame(1, TRUE, rs, None, {}) : rs \in SlaveRandoms}
      BY <1>2 DEF Questions
    <3> QED
      BY <3>1
  <2> QED
    BY <1>1, <2>1 DEF Frame, Frames
<1>3. CASE variant = "C"
  <2> DEFINE w == IF released THEN crc_slave(mk, "C", None, answer) ELSE None
  <2>1. w \in Words \cup {None}
    BY DEF crc_slave, Words, TypeInv, AllKeys, Randoms
  <2>2. Questions = {Frame(3, TRUE, None, w, status)}
    BY <1>3 DEF Questions
  <2>3. ASSUME NEW u \in Words \cup {None} PROVE Frame(3, TRUE, None, u, status) \in Frames
    BY <1>1 DEF Frame, Frames
  <2>4. \A q \in Questions : q = Frame(3, TRUE, None, w, status) /\ q \in Frames
    BY <2>1, <2>2, <2>3
  <2> QED
    BY <1>3, <2>4
<1>4. CASE variant = "B"
  <2> SUFFICES ASSUME NEW q \in Questions
               PROVE  q \in Frames /\ q.crc = crc_slave(mk, "B", q.rnd, None) /\ q.st = {}
    BY <1>4
  <2>1. PICK t \in {0, 1, 3}, z \in BOOLEAN, rs \in SlaveRandoms :
          q = Frame(t, z, rs, crc_slave(mk, "B", rs, None), {})
    BY <1>4 DEF Questions
  <2>2. crc_slave(mk, "B", rs, None) \in Words
    BY DEF crc_slave, Words, TypeInv, AllKeys
  <2> QED
    BY <1>1, <2>1, <2>2 DEF Frame, Frames
<1> QED
  BY <1>2, <1>3, <1>4 DEF TypeInv

LEMMA VerdictTyped ==
  ASSUME NEW p
  PROVE  /\ Verdict(p) \in {{}, {"cks"}, {"cks", "key"}, {"cks", "key", "released"}}
         /\ "cks" \in Verdict(p) <=> p.crc = crc_master(mk, variant, asked.rnd, p.rm)
         /\ "cks" \in Verdict(p) /\ "key" \notin Verdict(p) => ~pin
  BY DEF Verdict

LEMMA TypeInit == Init => TypeInv
<1> SUFFICES ASSUME Init PROVE TypeInv
  OBVIOUS
<1>1. mk \in AllKeys /\ master \in {NewMaster(None), NewMaster(mk)}
  BY DEF Init, AllKeys
<1>2. master \in Masters /\ Ranked(master.candidates, mk)
  BY <1>1, MastersAtFirst
<1> QED
  BY <1>1, <1>2, MasterAssumption DEF Init, TypeInv, Randoms

LEMMA TypeStep == TypeInv /\ [Next]_vars => TypeInv'
<1> SUFFICES ASSUME TypeInv, [Next]_vars PROVE TypeInv'
  OBVIOUS
<1>q. \A q \in Questions : q \in Frames
  BY QuestionsTyped
<1> USE DEF TypeInv
<1>1. CASE HandleRequest
  <2>1. PICK r \in MasterRandoms :
          /\ master' = Answered(master, Head(requests), r).master
          /\ replies' = replies \o Answered(master, Head(requests), r).reply
    BY <1>1 DEF HandleRequest
  <2>2. Head(requests) \in Frames /\ Tail(requests) \in Seq(Frames)
    BY <1>1 DEF HandleRequest
  <2>3. /\ master' \in Masters /\ Ranked(master'.candidates, mk)
        /\ \/ Answered(master, Head(requests), r).reply = <<>>
           \/ \E p \in Replies : Answered(master, Head(requests), r).reply = <<p>>
    BY <2>1, <2>2, AnsweredTyped
  <2>4. replies' \in Seq(Replies)
    <3> DEFINE w == Answered(master, Head(requests), r).reply
    <3>1. replies' = replies \o w /\ w \in Seq(Replies)
      <4>1. w = <<>> \/ \E p \in Replies : w = <<p>>
        BY <2>3
      <4>2. <<>> \in Seq(Replies) /\ \A p \in Replies : <<p>> \in Seq(Replies)
        OBVIOUS
      <4> HIDE DEF w
      <4>3. w \in Seq(Replies)
        BY <4>1, <4>2
      <4> QED
        BY <2>1, <4>3 DEF w
    <3> HIDE DEF w
    <3> QED
      BY <3>1
  <2> QED
    BY <1>1, <2>2, <2>3, <2>4 DEF HandleRequest, ecuvars
<1>2. CASE EcuAsks
  <2>1. asked' \in Frames /\ requests' \in Seq(Frames)
    BY <1>2, <1>q, SeqSteps DEF EcuAsks
  <2>2. answer' \in Randoms /\ retries' \in 0..MaxRetries
    BY <1>2, MasterAssumption DEF EcuAsks, Randoms
  <2> QED
    BY <1>2, <2>1, <2>2 DEF EcuAsks
<1>3. CASE EcuRepeats
  <2>1. asked \in Frames
    BY <1>3 DEF EcuRepeats
  <2>2. Append(requests, asked) \in Seq(Frames) /\ retries + 1 \in 0..MaxRetries
    BY <1>3, <2>1, MasterAssumption DEF EcuRepeats
  <2> QED
    BY <1>3, <2>2 DEF EcuRepeats
<1>4. CASE EcuGivesUp
  <2>1. 0 \in 0..MaxRetries
    BY MasterAssumption
  <2>2. CASE asked' = None /\ UNCHANGED requests
    BY <1>4, <2>1, <2>2 DEF EcuGivesUp
  <2>3. CASE asked' \in Questions /\ requests' = Append(requests, asked')
    <3>1. asked' \in Frames /\ requests' \in Seq(Frames)
      BY <1>q, <2>3, SeqSteps
    <3> QED
      BY <1>4, <2>1, <3>1 DEF EcuGivesUp
  <2> QED
    BY <1>4, <2>2, <2>3 DEF EcuGivesUp
<1>5. CASE EcuJudges
  <2>1. Head(replies) \in Replies /\ Tail(replies) \in Seq(Replies)
    BY <1>5 DEF EcuJudges
  <2>2. CASE asked = None
    BY <1>5, <2>1, <2>2 DEF EcuJudges
  <2>3. CASE asked # None
    <3> DEFINE st == IF released THEN status ELSE Verdict(Head(replies))
               word == IF "released" \in st
                       THEN crc_slave(mk, "A", asked.rnd, Head(replies).rm) ELSE None
    <3>1. st \in {{}, {"cks"}, {"cks", "key"}, {"cks", "key", "released"}}
      BY VerdictTyped
    <3>2. st \in Statuses
      BY <3>1 DEF Statuses
    <3>3. asked.rnd \in SlaveRandoms \cup {None} /\ Head(replies).rm \in Randoms
      BY <2>1, <2>3 DEF Frames, Replies
    <3>4. word \in Words \cup {None}
      BY <3>3 DEF crc_slave, Words, AllKeys, Randoms
    <3>5. /\ asked' = None /\ status' = st
          /\ answer' = IF released THEN None ELSE Head(replies).rm
          /\ requests' = IF variant # "A" THEN requests
                         ELSE Append(requests, Frame(2, TRUE, None, word, st))
          /\ replies' = Tail(replies) /\ UNCHANGED <<master, mk, pin, variant, retries, faults>>
      BY <1>5, <2>3 DEF EcuJudges
    <3> HIDE DEF word, st
    <3>6. Frame(2, TRUE, None, word, st) \in Frames
      BY <3>2, <3>4 DEF Frame, Frames
    <3>7. requests' \in Seq(Frames)
      BY <3>5, <3>6, SeqSteps
    <3> QED
      BY <2>1, <3>1, <3>3, <3>5, <3>7 DEF Randoms
  <2> QED
    BY <2>2, <2>3
<1>6. CASE Ignition
  BY <1>6, MasterAssumption DEF Ignition, Randoms
<1>7. CASE Lost
  <2>1. requests' \in Seq(Frames) /\ replies' \in Seq(Replies)
    BY <1>7, SeqSteps DEF Lost
  <2> QED
    BY <1>7, <2>1 DEF Lost, ecuvars
<1>8. CASE UNCHANGED vars
  BY <1>8 DEF vars, ecuvars
<1> QED
  BY <1>1, <1>2, <1>3, <1>4, <1>5, <1>6, <1>7, <1>8 DEF Next

THEOREM TypeInvariance == Spec => []TypeInv
<1> QED
  BY TypeInit, TypeStep, PTL DEF Spec

\* The types of what the emulator remembers and of what the ECU is told, for
\* every list of keys and every fault: there always is a candidate (auth.rs).
THEOREM TypeCorrect == Spec => []TypeOK
<1>1. TypeInv => TypeOK
  <2> SUFFICES ASSUME TypeInv PROVE TypeOK
    OBVIOUS
  <2>1. Range(master.candidates) \subseteq Range(MasterKeys) \cup {mk}
    BY DEF TypeInv, Ranked, Range
  <2>2. status \subseteq {"cks", "key", "released"}
    BY DEF TypeInv
  <2> QED
    BY <2>1, <2>2 DEF TypeInv, TypeOK, Masters, Ranked, Randoms
<1> QED
  BY <1>1, TypeInvariance, PTL

\* "Consecutive master randoms must differ": the random of a reply is not the one
\* of the reply before, and in variant C its last bit is set (fresh_random).
THEOREM RandomsDiffer == Spec => NeverReplayed
<1> DEFINE Unlike ==
      \A i \in DOMAIN replies' :
        i > Len(replies) /\ replies'[i].rm # None =>
          /\ replies'[i].rm # master.rnd_master
          /\ master'.variant = "C" => replies'[i].rm.last = 1
<1>1. TypeInv /\ [Next]_vars => [Unlike]_vars
  <2> SUFFICES ASSUME TypeInv, Next PROVE Unlike
    OBVIOUS
  <2>1. CASE HandleRequest
    <3>1. PICK r \in MasterRandoms :
            /\ master' = Answered(master, Head(requests), r).master
            /\ replies' = replies \o Answered(master, Head(requests), r).reply
      BY <2>1 DEF HandleRequest
    <3>2. Head(requests) \in Frames
      BY <2>1 DEF HandleRequest, TypeInv
    <3> DEFINE a == Answered(master, Head(requests), r)
    <3>3. \/ a.reply = <<>>
          \/ \E p \in Replies :
               /\ a.reply = <<p>>
               /\ p.rm # None => /\ p.rm # master.rnd_master
                                 /\ a.master.variant = "C" => p.rm.last = 1
      BY <3>2, AnsweredTyped DEF TypeInv
    <3> HIDE DEF a
    <3>4. master' = a.master /\ replies' = replies \o a.reply /\ replies \in Seq(Replies)
      BY <3>1 DEF a, TypeInv
    <3>5. CASE a.reply = <<>>
      BY <3>4, <3>5
    <3>6. ASSUME NEW p \in Replies, a.reply = <<p>>,
                 p.rm # None => /\ p.rm # master.rnd_master
                                /\ a.master.variant = "C" => p.rm.last = 1
          PROVE  Unlike
      <4>1. \A i \in DOMAIN replies' : i > Len(replies) => replies'[i] = p
        BY <3>4, <3>6
      <4> QED
        BY <3>4, <3>6, <4>1
    <3> QED
      BY <3>3, <3>5, <3>6
  <2>2. ASSUME replies' = replies \/ replies' = <<>> \/ (replies # <<>> /\ replies' = Tail(replies))
        PROVE  Unlike
    <3>1. \A i \in DOMAIN replies' : ~(i > Len(replies))
      BY <2>2 DEF TypeInv
    <3> QED
      BY <3>1
  <2> QED
    BY <2>1, <2>2
       DEF Next, EcuAsks, EcuRepeats, EcuGivesUp, EcuJudges, Ignition, Lost
<1> QED
  BY <1>1, TypeInvariance, PTL DEF Spec, NeverReplayed

-----------------------------------------------------------------------------
(***************************************************************************)
(* What the emulator believes of its candidates, for the faults it copes   *)
(* with.                                                                   *)
(***************************************************************************)
\* KeysSound, of a struct m, a key k and a PIN that is right or wrong.
Sound(m, k, p) ==
  /\ k \in Range(MasterKeys) => k \in Range(m.candidates)
  /\ m.mk_confirmed \/ m.no_key_slave => k \in Range(m.candidates)
  /\ m.no_key_slave => m.candidates = <<k>>
  /\ m.hint = "wrong pin" => ~p

\* The status st is a verdict on the candidate that m has on top, if m waits for
\* one; and it blames a PIN that is wrong.
Judges(m, st, k, p) ==
  /\ m.awaiting_verdict /\ "cks" \in st => k \in Range(m.candidates)
  /\ m.awaiting_verdict /\ "cks" \notin st =>
       Head(m.candidates) # k \/ Len(m.candidates) = 1
  /\ "cks" \in st /\ "key" \notin st => ~p

\* A word that an ECU with the key k computes.
Own(crc, k) ==
  \E v \in {"A", "B", "C"}, rs \in SlaveRandoms \cup {None}, rm \in Randoms :
    crc = crc_slave(k, v, rs, rm)

\* What a frame says of the ECU is so.
FrameTrue(f, k, p) ==
  /\ "released" \in f.st => Own(f.crc, k)
  /\ "cks" \in f.st /\ "key" \notin f.st => ~p

LEMMA NotedSound ==
  ASSUME NEW m \in Masters, NEW k \in AllKeys, NEW p \in BOOLEAN, NEW st \in Statuses,
         Ranked(m.candidates, k), Sound(m, k, p), Judges(m, st, k, p)
  PROVE  Sound(note_status(m, st), k, p)
<1> DEFINE n == note_status(m, st)
           dropped == m.awaiting_verdict /\ "cks" \notin st /\ Len(m.candidates) > 1
<1>1. /\ n.no_key_slave = m.no_key_slave
      /\ n.mk_confirmed <=> m.mk_confirmed \/ (m.awaiting_verdict /\ "cks" \in st)
      /\ n.candidates = IF dropped THEN Tail(m.candidates) ELSE m.candidates
      /\ n.hint = m.hint \/ n.hint = ecu_status_hint(st)
  BY Noted
<1> HIDE DEF n
<1>0. Len(m.candidates) = 1 => ~(Len(m.candidates) > 1)
  OBVIOUS
<1>2. ASSUME k \in Range(m.candidates) PROVE k \in Range(n.candidates)
  <2>1. PICK i \in DOMAIN m.candidates : m.candidates[i] = k
    BY <1>2 DEF Range
  <2>2. CASE dropped
    <3>1. Head(m.candidates) # k
      BY <1>0, <2>2 DEF Judges
    <3>2. i \in 2..Len(m.candidates) /\ m.candidates \in Seq(AllKeys)
      BY <2>1, <3>1 DEF Masters, Ranked
    <3>3. i - 1 \in DOMAIN Tail(m.candidates) /\ Tail(m.candidates)[i - 1] = k
      BY <2>1, <3>2
    <3> QED
      BY <1>1, <2>2, <3>3 DEF Range
  <2>3. CASE ~dropped
    BY <1>1, <1>2, <2>3
  <2> QED
    BY <2>2, <2>3
<1>3. n.no_key_slave => n.candidates = <<k>>
  <2>1. Len(<<k>>) = 1
    OBVIOUS
  <2>2. ASSUME m.no_key_slave PROVE ~dropped /\ m.candidates = <<k>>
    BY <1>0, <2>1, <2>2 DEF Sound
  <2> HIDE DEF dropped
  <2> QED
    BY <1>1, <2>2
<1>4. n.hint = "wrong pin" => ~p
  <2>1. ecu_status_hint(st) = "wrong pin" => "cks" \in st /\ "key" \notin st
    BY MasterAssumption DEF ecu_status_hint, Hints
  <2> QED
    BY <1>1, <2>1 DEF Sound, Judges
<1>5. /\ k \in Range(MasterKeys) => k \in Range(n.candidates)
      /\ n.mk_confirmed \/ n.no_key_slave => k \in Range(n.candidates)
  BY <1>1, <1>2 DEF Sound, Judges
<1> QED
  BY <1>3, <1>4, <1>5 DEF Sound, n

LEMMA ObservedSound ==
  ASSUME NEW m \in Masters, NEW k \in AllKeys, NEW p \in BOOLEAN, NEW crc, NEW rs, NEW rm,
         Ranked(m.candidates, k), Sound(m, k, p), Own(crc, k)
  PROVE  Sound(observe_slave_response(m, crc, rs, rm), k, p)
<1> DEFINE o == observe_slave_response(m, crc, rs, rm)
<1>1. o = m \/ \E i \in DOMAIN m.candidates :
                 /\ crc_slave(m.candidates[i], m.variant, rs, rm) = crc
                 /\ o = Locked(m, m.candidates[i])
  BY Observed
<1> HIDE DEF o
<1>2. ASSUME NEW i \in DOMAIN m.candidates,
             crc_slave(m.candidates[i], m.variant, rs, rm) = crc,
             o = Locked(m, m.candidates[i])
      PROVE  Sound(o, k, p)
  <2>1. m.candidates[i] = k
    BY <1>2 DEF Own, crc_slave
  <2>2. o.candidates = <<k>> /\ o.hint = m.hint
    BY <1>2, <2>1 DEF Locked, Masters
  <2>3. k \in Range(<<k>>)
    BY DEF Range
  <2> QED
    BY <2>2, <2>3 DEF Sound
<1>3. Sound(o, k, p)
  BY <1>1, <1>2
<1> QED
  BY <1>3 DEF o

\* A word over the randoms that the emulator has settles the key.
LEMMA ObservedOwn ==
  ASSUME NEW m \in Masters, NEW k \in AllKeys, NEW rs, NEW rm,
         Ranked(m.candidates, k), k \in Range(m.candidates)
  PROVE  observe_slave_response(m, crc_slave(k, m.variant, rs, rm), rs, rm).candidates = <<k>>
<1> DEFINE crc == crc_slave(k, m.variant, rs, rm)
           o == observe_slave_response(m, crc, rs, rm)
<1>1. PICK j \in DOMAIN m.candidates : m.candidates[j] = k
  BY DEF Range
<1>2. \/ \A i \in DOMAIN m.candidates : crc_slave(m.candidates[i], m.variant, rs, rm) # crc
      \/ \E i \in DOMAIN m.candidates :
           /\ crc_slave(m.candidates[i], m.variant, rs, rm) = crc
           /\ o = Locked(m, m.candidates[i])
  BY Observed
<1> HIDE DEF o
<1>3. PICK i \in DOMAIN m.candidates :
        /\ crc_slave(m.candidates[i], m.variant, rs, rm) = crc
        /\ o = Locked(m, m.candidates[i])
  BY <1>1, <1>2
<1>4. m.candidates[i] = k
  BY <1>3 DEF crc_slave
<1>5. o.candidates = <<k>>
  BY <1>3, <1>4 DEF Locked, Masters
<1> QED
  BY <1>5 DEF o

LEMMA ReportedSound ==
  ASSUME NEW m \in Masters, NEW k \in AllKeys, NEW p \in BOOLEAN, NEW f \in Frames, NEW rs,
         Ranked(m.candidates, k), Sound(m, k, p), Judges(m, f.st, k, p),
         FrameTrue(f, k, p)
  PROVE  Sound(note_status(m, f.st), k, p) /\ Sound(Reported(m, f, rs), k, p)
<1> DEFINE n == note_status(m, f.st)
<1>1. f.st \in Statuses
  BY DEF Frames
<1>2. Sound(n, k, p)
  BY <1>1, NotedSound
<1>3. n \in Masters /\ Ranked(n.candidates, k)
  BY ReportedTyped
<1>4. Reported(m, f, rs) =
        IF "released" \in f.st /\ m.rnd_master # None
        THEN observe_slave_response(n, f.crc, rs, m.rnd_master) ELSE n
  BY DEF Reported
<1> HIDE DEF n
<1>5. "released" \in f.st => Sound(observe_slave_response(n, f.crc, rs, m.rnd_master), k, p)
  BY <1>2, <1>3, ObservedSound DEF FrameTrue
<1>6. Sound(Reported(m, f, rs), k, p)
  BY <1>2, <1>4, <1>5
<1> QED
  BY <1>2, <1>6 DEF n

\* Variant A.  Questions come first, and after them at most one report, which
\* judges the candidate on top; whoever waits for an answer waits for one to the
\* question that was asked, with that candidate.
KeysA ==
  /\ \A i \in DOMAIN requests :
       /\ requests[i].zeros /\ requests[i].type \in {1, 2}
       /\ requests[i].type = 2 =>
            /\ i = Len(requests) /\ asked = None
            /\ "cks" \in requests[i].st <=> Head(master.candidates) = mk
  /\ asked # None =>
       /\ ~released /\ asked.type = 1 /\ asked.zeros /\ asked.st = {}
       /\ \A i \in DOMAIN requests : requests[i] = asked
       /\ \A i \in DOMAIN replies :
            replies[i].crc =
              crc_master(Head(master.candidates), "A", asked.rnd, replies[i].rm)

\* Variant B.  A question carries the ECU's own word, and nothing is reported.
FrameB(f, k) ==
  /\ ~(f.zeros /\ f.type \in {1, 2, 3}) /\ f.st = {}
  /\ f.crc = crc_slave(k, "B", f.rnd, None)
KeysB ==
  /\ \A i \in DOMAIN requests : FrameB(requests[i], mk)
  /\ asked # None => FrameB(asked, mk)

\* Variant C.  There is one frame on its way, there or back; and once the ECU has
\* released, its own word settles the key with the next question.
KeysC ==
  /\ asked = None => requests = <<>> /\ replies = <<>>
  /\ asked # None =>
       /\ \/ requests = <<asked>> /\ replies = <<>>
          \/ requests = <<>> /\ Len(replies) = 1
       /\ asked.type = 3 /\ asked.zeros /\ asked.st = status /\ asked.rnd = None
  /\ released /\ requests # <<>> =>
       asked.crc = crc_slave(mk, "C", None, master.rnd_master)
  /\ replies = <<>> => Judges(master, status, mk, pin)
  /\ released /\ replies = <<>> =>
       mk \in Range(master.candidates) /\ master.rnd_master # None
  /\ released /\ asked = None =>
       IF answer = None THEN master.candidates = <<mk>> ELSE answer = master.rnd_master
  /\ replies # <<>> =>
       /\ replies[1].rm = master.rnd_master /\ master.rnd_master # None
       /\ replies[1].crc =
            crc_master(Head(master.candidates), "C", None, replies[1].rm)
       /\ released => master.candidates = <<mk>>

KeysInv ==
  /\ Sound(master, mk, pin)
  /\ \A i \in DOMAIN requests : FrameTrue(requests[i], mk, pin)
  /\ "cks" \in status /\ "key" \notin status => ~pin
  /\ variant = "A" => KeysA
  /\ variant = "B" => KeysB
  /\ variant = "C" => KeysC

LEMMA KeysInit == Init => KeysInv
<1> SUFFICES ASSUME Init PROVE KeysInv
  OBVIOUS
<1>1. mk \in AllKeys /\ master \in {NewMaster(None), NewMaster(mk)}
  BY DEF Init, AllKeys
<1>2. master.candidates = MasterKeys \/ master.candidates = <<mk>>
  BY <1>1, MastersAtFirst
<1>3. ~master.mk_confirmed /\ ~master.no_key_slave /\ master.hint = None /\ ~master.awaiting_verdict
  BY <1>1 DEF NewMaster
<1>4. mk \in Range(<<mk>>)
  BY DEF Range
<1>5. None # "wrong pin"
  BY MasterAssumption DEF Hints
<1>6. Sound(master, mk, pin)
  BY <1>2, <1>3, <1>4, <1>5 DEF Sound
<1>7. status = {} /\ requests = <<>> /\ replies = <<>> /\ asked = None
  BY DEF Init
<1>8. DOMAIN requests = {}
  BY <1>7
<1> QED
  BY <1>3, <1>6, <1>7, <1>8 DEF KeysInv, KeysA, KeysB, KeysC, Judges, released

\* Who the ECU is does not change.
LEMMA Rigid == Next => mk' = mk /\ pin' = pin /\ variant' = variant
  BY DEF Next, HandleRequest, EcuAsks, EcuRepeats, EcuGivesUp, EcuJudges, Ignition, Lost, ecuvars

\* Which faults may happen in which variant.
LEMMA NoFault ==
  ASSUME Faults \subseteq Survivable, NEW kind, Fault(kind)
  PROVE  variant # "C" /\ kind # "lookalike" /\ (kind = "stale" => variant = "B")
  BY DEF Fault, Survivable

\* The struct that an arm is given: that of before, with the variant of the frame.
LEMMA InVariant ==
  ASSUME NEW m \in Masters, NEW k \in AllKeys, NEW p \in BOOLEAN, Ranked(m.candidates, k),
         Sound(m, k, p), NEW v \in {"A", "B", "C"}
  PROVE  LET n == [m EXCEPT !.variant = v] IN
         /\ n \in Masters /\ Ranked(n.candidates, k) /\ Sound(n, k, p) /\ n.variant = v
         /\ n.candidates = m.candidates /\ n.rnd_master = m.rnd_master
         /\ n.rnd_slave = m.rnd_slave
         /\ \A st : Judges(m, st, k, p) => Judges(n, st, k, p)
  BY DEF Masters, Sound, Judges

LEMMA SoundAlike ==
  ASSUME NEW m, NEW n, NEW k, NEW p, Sound(m, k, p),
         n.candidates = m.candidates, n.no_key_slave = m.no_key_slave,
         n.mk_confirmed = m.mk_confirmed, n.hint = m.hint
  PROVE  Sound(n, k, p)
  BY DEF Sound

-----------------------------------------------------------------------------
\* Variant B: each question is answered for itself.
LEMMA StepB ==
  ASSUME Faults \subseteq Survivable, TypeInv, KeysInv, Next, variant = "B"
  PROVE  KeysInv'
<1>1. mk' = mk /\ pin' = pin /\ variant' = "B"
  BY Rigid
<1>2. /\ Sound(master, mk, pin) /\ \A i \in DOMAIN requests : FrameB(requests[i], mk)
      /\ asked # None => FrameB(asked, mk)
      /\ "cks" \in status /\ "key" \notin status => ~pin
  BY DEF KeysInv, KeysB
<1>3. ASSUME NEW q \in Questions, ~LookAlike(q) PROVE FrameB(q, mk)
  <2>1. q \in Frames /\ q.crc = crc_slave(mk, "B", q.rnd, None) /\ q.st = {}
    BY QuestionsTyped
  <2>2. classify(q)[1] = "B"
    BY <1>3 DEF LookAlike
  <2>3. ~(q.zeros /\ q.type \in {1, 2, 3})
    BY <2>2 DEF classify
  <2> QED
    BY <2>1, <2>3 DEF FrameB
<1>4. SUFFICES /\ Sound(master', mk, pin)
               /\ "cks" \in status' /\ "key" \notin status' => ~pin
               /\ \A i \in DOMAIN requests' : FrameB(requests'[i], mk)
               /\ asked' # None => FrameB(asked', mk)
  BY <1>1 DEF KeysInv, KeysB, FrameTrue, FrameB
<1>5. CASE HandleRequest
  <2>1. PICK r \in MasterRandoms : master' = Answered(master, Head(requests), r).master
    BY <1>5 DEF HandleRequest
  <2> DEFINE f == Head(requests)
             n == [master EXCEPT !.variant = "B"]
             s == [n EXCEPT !.rnd_slave = f.rnd]
             o == observe_slave_response(s, f.crc, f.rnd, None)
  <2>2. f \in Frames /\ FrameB(f, mk)
    BY <1>2, <1>5 DEF HandleRequest, TypeInv
  <2>3. master' = AnswerB(n, f).master
    <3>1. ~(f.zeros /\ f.type \in {1, 2, 3})
      BY <2>2 DEF FrameB
    <3> QED
      BY <2>1, <2>2, <3>1, Arms DEF TypeInv
  <2>4. n \in Masters /\ Ranked(n.candidates, mk) /\ Sound(n, mk, pin)
    BY <1>2, InVariant DEF TypeInv
  <2> HIDE DEF n, f
  <2>5. /\ s \in Masters /\ Ranked(s.candidates, mk)
        /\ master'.candidates = o.candidates /\ master'.no_key_slave = o.no_key_slave
        /\ master'.hint = n.hint /\ master'.mk_confirmed = n.mk_confirmed
    BY <2>2, <2>3, <2>4, ArmB DEF TypeInv
  <2>6. Sound(s, mk, pin) /\ s.hint = n.hint /\ s.mk_confirmed = n.mk_confirmed
    BY <2>4 DEF Sound, Masters
  <2>7. Own(f.crc, mk)
    BY <2>2 DEF FrameB, Own, Frames, Randoms
  <2> HIDE DEF s
  <2>8. Sound(o, mk, pin) /\ o.hint = s.hint /\ o.mk_confirmed = s.mk_confirmed
    BY <2>5, <2>6, <2>7, ObservedSound, ObservedTyped DEF TypeInv
  <2> HIDE DEF o
  <2>9. Sound(master', mk, pin)
    BY <2>5, <2>6, <2>8, SoundAlike
  <2>10. \A i \in DOMAIN requests' : FrameB(requests'[i], mk)
    BY <1>2, <1>5 DEF HandleRequest, TypeInv
  <2> QED
    BY <1>2, <1>5, <2>9, <2>10 DEF HandleRequest, ecuvars
<1>6. CASE EcuAsks
  <2>1. PICK q \in Questions :
          /\ requests' = <<q>> /\ asked' = q
          /\ IF LookAlike(q) THEN Fault("lookalike") ELSE UNCHANGED faults
    BY <1>6 DEF EcuAsks
  <2>2. ~LookAlike(q)
    BY <2>1, NoFault
  <2> QED
    BY <1>2, <1>3, <1>6, <2>1, <2>2 DEF EcuAsks
<1>7. CASE EcuRepeats
  <2>1. requests' = Append(requests, asked) /\ FrameB(asked, mk) /\ asked' = asked
    BY <1>2, <1>7 DEF EcuRepeats
  <2>2. \A i \in DOMAIN requests' : FrameB(requests'[i], mk)
    BY <1>2, <2>1 DEF TypeInv
  <2> QED
    BY <1>2, <1>7, <2>1, <2>2 DEF EcuRepeats
<1>8. CASE EcuGivesUp
  <2>1. CASE asked' = None /\ UNCHANGED requests
    BY <1>2, <1>8, <2>1 DEF EcuGivesUp
  <2>2. CASE /\ \E q \in Questions \ {asked} : ~LookAlike(q) /\ asked' = q
             /\ requests' = Append(requests, asked')
    <3>1. FrameB(asked', mk)
      BY <1>3, <2>2
    <3>2. \A i \in DOMAIN requests' : FrameB(requests'[i], mk)
      BY <1>2, <2>2, <3>1 DEF TypeInv
    <3> QED
      BY <1>2, <1>8, <3>1, <3>2 DEF EcuGivesUp
  <2> QED
    BY <1>8, <2>1, <2>2 DEF EcuGivesUp
<1>9. CASE EcuJudges
  <2>1. requests' = requests /\ (asked' = None \/ asked' = asked) /\ master' = master
    BY <1>9 DEF EcuJudges
  <2>2. status' = status \/ status' = Verdict(Head(replies))
    BY <1>9 DEF EcuJudges
  <2>3. "cks" \in status' /\ "key" \notin status' => ~pin
    BY <1>2, <2>2, VerdictTyped
  <2> QED
    BY <1>2, <2>1, <2>3
<1>10. CASE Ignition
  <2>1. requests' = <<>> /\ asked' = None /\ status' = {} /\ master' = master
    BY <1>10 DEF Ignition
  <2> QED
    BY <1>2, <2>1
<1>11. CASE Lost
  <2>1. \A i \in DOMAIN requests' : FrameB(requests'[i], mk)
    BY <1>2, <1>11 DEF Lost, TypeInv
  <2> QED
    BY <1>2, <1>11, <2>1 DEF Lost, ecuvars
<1> QED
  BY <1>5, <1>6, <1>7, <1>8, <1>9, <1>10, <1>11 DEF Next

\* Variant A: the report that follows an answer is read before the next question,
\* and nothing that comes between them changes the candidate on top.
LEMMA HandleA ==
  ASSUME Faults \subseteq Survivable, TypeInv, KeysInv, HandleRequest, variant = "A"
  PROVE  KeysInv'
<1>1. mk' = mk /\ pin' = pin /\ variant' = "A" /\ asked' = asked /\ status' = status
      /\ requests' = Tail(requests) /\ requests # <<>>
  BY DEF HandleRequest, ecuvars
<1>2. /\ Sound(master, mk, pin)
      /\ \A i \in DOMAIN requests : FrameTrue(requests[i], mk, pin)
      /\ "cks" \in status /\ "key" \notin status => ~pin
      /\ KeysA
  BY DEF KeysInv
<1> DEFINE f == requests[1]
           n == [master EXCEPT !.variant = "A"]
<1>3. /\ f = Head(requests) /\ f \in Frames /\ 1 \in DOMAIN requests /\ Len(requests) \in Nat
      /\ \A i \in DOMAIN Tail(requests) :
           i + 1 \in DOMAIN requests /\ Tail(requests)[i] = requests[i + 1]
      /\ Len(Tail(requests)) = Len(requests) - 1
  BY <1>1 DEF TypeInv
<1>4. PICK r \in MasterRandoms :
        /\ master' = Answered(master, f, r).master
        /\ replies' = replies \o Answered(master, f, r).reply
  BY <1>3 DEF HandleRequest
<1>5. /\ n \in Masters /\ Ranked(n.candidates, mk) /\ Sound(n, mk, pin)
      /\ n.candidates = master.candidates
  BY <1>2, InVariant DEF TypeInv
<1>6. f.zeros /\ f.type \in {1, 2} /\ FrameTrue(f, mk, pin)
  BY <1>2, <1>3 DEF KeysA
<1>7. \A i \in DOMAIN Tail(requests) : FrameTrue(Tail(requests)[i], mk, pin)
  BY <1>2, <1>3
<1>8. CASE f.type = 1
  <2>1. /\ Answered(master, f, r) = AnswerA1(n, f, r)
    BY <1>3, <1>6, <1>8, Arms DEF TypeInv
  <2> HIDE DEF n
  <2>2. PICK p \in Replies :
          /\ master'.candidates = n.candidates /\ master'.no_key_slave = n.no_key_slave
          /\ master'.mk_confirmed = n.mk_confirmed /\ master'.hint = n.hint
          /\ replies' = replies \o <<p>>
          /\ p.crc = crc_master(Head(n.candidates), "A", f.rnd, p.rm)
    <3> DEFINE a == AnswerA1(n, f, r)
    <3>1. mk \in AllKeys /\ f \in Frames
      BY <1>3 DEF TypeInv
    <3> HIDE DEF f
    <3>2. /\ a.master.candidates = n.candidates /\ a.master.no_key_slave = n.no_key_slave
          /\ a.master.mk_confirmed = n.mk_confirmed /\ a.master.hint = n.hint
          /\ \E p \in Replies :
               /\ a.reply = <<p>> /\ p.crc = crc_master(Head(n.candidates), "A", f.rnd, p.rm)
      BY <1>5, <3>1, ArmA1
    <3>3. master' = a.master /\ replies' = replies \o a.reply
      BY <1>4, <2>1
    <3> HIDE DEF a
    <3> QED
      BY <3>2, <3>3
  <2>3. Sound(master', mk, pin)
    BY <1>5, <2>2, SoundAlike
  <2>4. asked # None => \A i \in DOMAIN replies' :
          replies'[i].crc = crc_master(Head(master.candidates), "A", asked.rnd, replies'[i].rm)
    <3> SUFFICES ASSUME asked # None, NEW i \in DOMAIN replies'
                 PROVE  replies'[i].crc =
                          crc_master(Head(master.candidates), "A", asked.rnd, replies'[i].rm)
      OBVIOUS
    <3>1. f = asked
      BY <1>2, <1>3 DEF KeysA
    <3>2. \/ i \in DOMAIN replies /\ replies'[i] = replies[i]
          \/ replies'[i] = p
      BY <2>2 DEF TypeInv
    <3> QED
      BY <1>2, <1>5, <2>2, <3>1, <3>2 DEF KeysA
  <2>5. KeysA'
    <3>1. \A i \in DOMAIN Tail(requests) :
            /\ Tail(requests)[i].zeros /\ Tail(requests)[i].type \in {1, 2}
            /\ Tail(requests)[i].type = 2 =>
                 /\ i = Len(Tail(requests)) /\ asked = None
                 /\ "cks" \in Tail(requests)[i].st <=> Head(master.candidates) = mk
      <4> TAKE i \in DOMAIN Tail(requests)
      <4>1. i + 1 = Len(requests) => i = Len(Tail(requests))
        BY <1>3
      <4> QED
        BY <1>2, <1>3, <4>1 DEF KeysA
    <3>2. asked # None => \A i \in DOMAIN Tail(requests) : Tail(requests)[i] = asked
      BY <1>2, <1>3 DEF KeysA
    <3> QED
      BY <1>1, <1>2, <1>5, <2>2, <2>4, <3>1, <3>2 DEF KeysA, released
  <2> QED
    BY <1>1, <1>2, <1>7, <2>3, <2>5 DEF KeysInv
<1>9. CASE f.type = 2
  <2>1. Answered(master, f, r) = AnswerA2(n, f)
    BY <1>3, <1>6, <1>9, Arms DEF TypeInv
  <2>2. /\ asked = None /\ Len(requests) = 1
        /\ "cks" \in f.st <=> Head(master.candidates) = mk
    BY <1>2, <1>3, <1>9 DEF KeysA
  <2> HIDE DEF n
  <2>3. replies' = replies \o <<>> /\ replies \o <<>> = replies
    <3>1. Answered(master, f, r).reply = <<>>
      BY <1>3, <1>5, <2>1, ArmA2 DEF TypeInv
    <3> QED
      BY <1>4, <3>1 DEF TypeInv
  <2>4. Head(n.candidates) \in Range(n.candidates)
    BY <1>5 DEF Ranked, Masters, Range
  <2>5. Judges(n, f.st, mk, pin)
    BY <1>5, <1>6, <2>2, <2>4 DEF Judges, FrameTrue
  <2>6. Sound(master', mk, pin)
    <3>1. \/ master' = note_status(n, f.st)
          \/ master' = Reported(n, f, n.rnd_slave)
      BY <1>3, <1>4, <1>5, <2>1, ArmA2 DEF TypeInv
    <3> QED
      BY <1>3, <1>5, <1>6, <2>5, <3>1, ReportedSound DEF TypeInv
  <2>7. DOMAIN requests' = {}
    BY <1>1, <1>3, <2>2
  <2>8. KeysA'
    BY <1>1, <2>2, <2>7 DEF KeysA
  <2> QED
    BY <1>1, <1>2, <2>6, <2>7, <2>8 DEF KeysInv
<1> QED
  BY <1>6, <1>8, <1>9

LEMMA JudgeA ==
  ASSUME Faults \subseteq Survivable, TypeInv, KeysInv, EcuJudges, variant = "A"
  PROVE  KeysInv'
<1>1. /\ mk' = mk /\ pin' = pin /\ variant' = "A" /\ master' = master
      /\ replies' = Tail(replies) /\ replies # <<>>
  BY DEF EcuJudges
<1>2. /\ Sound(master, mk, pin)
      /\ \A i \in DOMAIN requests : FrameTrue(requests[i], mk, pin)
      /\ "cks" \in status /\ "key" \notin status => ~pin
      /\ KeysA
  BY DEF KeysInv
<1>3. CASE asked = None
  <2>1. UNCHANGED <<asked, status, answer, requests>>
    BY <1>3 DEF EcuJudges
  <2> QED
    BY <1>1, <1>2, <1>3, <2>1 DEF KeysInv, KeysA
<1>4. CASE asked # None
  <2> DEFINE p == Head(replies)
             st == Verdict(p)
             word == IF "released" \in st THEN crc_slave(mk, "A", asked.rnd, p.rm) ELSE None
             f == Frame(2, TRUE, None, word, st)
  <2>1. ~released
    BY <1>2, <1>4 DEF KeysA
  <2>2. /\ asked' = None /\ status' = st /\ requests' = Append(requests, f)
    BY <1>4, <2>1 DEF EcuJudges
  <2>3. p = replies[1] /\ 1 \in DOMAIN replies /\ p \in Replies
    BY <1>1 DEF TypeInv
  <2>4. p.crc = crc_master(Head(master.candidates), "A", asked.rnd, p.rm)
    BY <1>2, <1>4, <2>3 DEF KeysA
  <2>5. "cks" \in st <=> Head(master.candidates) = mk
    BY <2>4, VerdictTyped DEF crc_master
  <2>6. "cks" \in st /\ "key" \notin st => ~pin
    BY VerdictTyped
  <2> HIDE DEF st, p
  <2>7. asked.rnd \in SlaveRandoms \cup {None} /\ p.rm \in Randoms
    BY <1>4, <2>3 DEF TypeInv, Frames, Replies
  <2>8. "released" \in st => Own(word, mk)
    BY <2>7 DEF Own
  <2> HIDE DEF word
  <2>9. /\ FrameTrue(f, mk, pin) /\ f.zeros /\ f.type = 2 /\ f.st = st
    BY <2>6, <2>8 DEF FrameTrue, Frame
  <2> HIDE DEF f
  <2>10. \A i \in DOMAIN requests' :
           \/ i \in DOMAIN requests /\ requests'[i] = requests[i]
           \/ i = Len(requests') /\ requests'[i] = f
    BY <2>2 DEF TypeInv
  <2>11. \A i \in DOMAIN requests' : FrameTrue(requests'[i], mk, pin)
    BY <1>2, <2>9, <2>10
  <2>12. \A i \in DOMAIN requests : requests[i].zeros /\ requests[i].type = 1
    BY <1>2, <1>4 DEF KeysA
  <2>13. KeysA'
    BY <1>1, <2>2, <2>5, <2>9, <2>10, <2>12 DEF KeysA
  <2> QED
    BY <1>1, <1>2, <2>2, <2>6, <2>11, <2>13 DEF KeysInv
<1> QED
  BY <1>3, <1>4

LEMMA StepA ==
  ASSUME Faults \subseteq Survivable, TypeInv, KeysInv, Next, variant = "A"
  PROVE  KeysInv'
<1>1. mk' = mk /\ pin' = pin /\ variant' = "A"
  BY Rigid
<1>2. /\ Sound(master, mk, pin)
      /\ \A i \in DOMAIN requests : FrameTrue(requests[i], mk, pin)
      /\ "cks" \in status /\ "key" \notin status => ~pin
      /\ KeysA
  BY DEF KeysInv
<1>3. CASE EcuAsks
  <2>1. PICK q \in Questions : requests' = <<q>> /\ asked' = q
    BY <1>3 DEF EcuAsks
  <2>2. q.zeros /\ q.type = 1 /\ q.st = {}
    BY QuestionsTyped
  <2>3. ~released /\ replies' = <<>> /\ status' = status /\ master' = master
    BY <1>3 DEF EcuAsks, Asks, Silent
  <2>4. DOMAIN requests' = {1} /\ requests'[1] = q /\ DOMAIN replies' = {}
    BY <2>1, <2>3
  <2>5. KeysA'
    BY <1>1, <2>1, <2>2, <2>3, <2>4 DEF KeysA, released
  <2> QED
    BY <1>1, <1>2, <2>2, <2>3, <2>4, <2>5 DEF KeysInv, FrameTrue
<1>4. CASE EcuRepeats
  <2>1. /\ requests' = Append(requests, asked) /\ asked # None
        /\ UNCHANGED <<master, replies, asked, status>>
    BY <1>4 DEF EcuRepeats
  <2>2. \A i \in DOMAIN requests : requests[i] = asked
    BY <1>2, <2>1 DEF KeysA
  <2>3. \A i \in DOMAIN requests' : requests'[i] = asked
    BY <2>1, <2>2 DEF TypeInv
  <2>4. FrameTrue(asked, mk, pin) /\ asked.zeros /\ asked.type = 1
    BY <1>2, <2>1 DEF FrameTrue, KeysA
  <2>5. KeysA'
    BY <1>1, <1>2, <2>1, <2>3, <2>4 DEF KeysA, released
  <2> QED
    BY <1>1, <1>2, <2>1, <2>3, <2>4, <2>5 DEF KeysInv
<1>5. CASE EcuGivesUp
  <2>1. ~Fault("stale")
    BY NoFault
  <2>2. Silent /\ asked' = None /\ UNCHANGED <<master, requests, replies, status>>
    BY <1>5, <2>1 DEF EcuGivesUp
  <2>3. DOMAIN requests' = {}
    BY <2>2 DEF Silent
  <2> QED
    BY <1>1, <1>2, <2>2, <2>3 DEF KeysInv, KeysA
<1>6. CASE Ignition
  <2>1. /\ requests' = <<>> /\ asked' = None /\ status' = {} /\ master' = master
        /\ DOMAIN requests' = {}
    BY <1>6 DEF Ignition
  <2> QED
    BY <1>1, <1>2, <2>1 DEF KeysInv, KeysA
<1>7. CASE Lost
  <2>1. UNCHANGED <<master, asked, status>>
    BY <1>7 DEF Lost, ecuvars
  <2>2. CASE requests # <<>> /\ requests' = Tail(requests) /\ UNCHANGED replies
    <3>1. /\ Len(requests') = Len(requests) - 1
          /\ \A i \in DOMAIN requests' :
               /\ i + 1 \in DOMAIN requests /\ requests'[i] = requests[i + 1]
               /\ i + 1 = Len(requests) => i = Len(requests')
      BY <2>2 DEF TypeInv
    <3>2. \A i \in DOMAIN requests' :
            /\ requests'[i].zeros /\ requests'[i].type \in {1, 2}
            /\ requests'[i].type = 2 =>
                 /\ i = Len(requests') /\ asked = None
                 /\ "cks" \in requests'[i].st <=> Head(master.candidates) = mk
      BY <1>2, <3>1 DEF KeysA
    <3>3. asked # None => \A i \in DOMAIN requests' : requests'[i] = asked
      BY <1>2, <3>1 DEF KeysA
    <3>4. KeysA'
      BY <1>1, <1>2, <2>1, <2>2, <3>2, <3>3 DEF KeysA, released
    <3> QED
      BY <1>1, <1>2, <2>1, <3>1, <3>4 DEF KeysInv
  <2>3. CASE replies # <<>> /\ replies' = Tail(replies) /\ UNCHANGED requests
    <3>1. \A i \in DOMAIN replies' : i + 1 \in DOMAIN replies /\ replies'[i] = replies[i + 1]
      BY <2>3 DEF TypeInv
    <3>2. KeysA'
      BY <1>1, <1>2, <2>1, <2>3, <3>1 DEF KeysA, released
    <3> QED
      BY <1>1, <1>2, <2>1, <2>3, <3>2 DEF KeysInv
  <2> QED
    BY <1>7, <2>2, <2>3 DEF Lost
<1> QED
  BY <1>3, <1>4, <1>5, <1>6, <1>7, HandleA, JudgeA DEF Next

\* Variant C: the answer settles nothing until the next question reports on it, and
\* the question of an ECU that has released carries the word that settles the key.
LEMMA HandleC ==
  ASSUME Faults \subseteq Survivable, TypeInv, KeysInv, HandleRequest, variant = "C"
  PROVE  KeysInv'
<1>1. mk' = mk /\ pin' = pin /\ variant' = "C" /\ asked' = asked /\ status' = status
      /\ answer' = answer /\ requests' = Tail(requests) /\ requests # <<>>
  BY DEF HandleRequest, ecuvars
<1>2. /\ Sound(master, mk, pin)
      /\ \A i \in DOMAIN requests : FrameTrue(requests[i], mk, pin)
      /\ "cks" \in status /\ "key" \notin status => ~pin
      /\ KeysC
  BY DEF KeysInv
<1> DEFINE n == [master EXCEPT !.variant = "C"]
           o == Reported(n, asked, None)
<1>3. /\ requests = <<asked>> /\ replies = <<>> /\ asked # None
      /\ asked.type = 3 /\ asked.zeros /\ asked.st = status /\ asked.rnd = None
      /\ released => /\ asked.crc = crc_slave(mk, "C", None, master.rnd_master)
                     /\ mk \in Range(master.candidates) /\ master.rnd_master # None
      /\ Judges(master, status, mk, pin)
  BY <1>1, <1>2 DEF KeysC
<1>4. /\ asked \in Frames /\ Head(requests) = asked /\ Tail(requests) = <<>>
      /\ FrameTrue(asked, mk, pin) /\ mk \in AllKeys
  BY <1>2, <1>3 DEF TypeInv
<1>5. /\ n \in Masters /\ Ranked(n.candidates, mk) /\ Sound(n, mk, pin)
      /\ n.candidates = master.candidates /\ n.rnd_master = master.rnd_master
      /\ n.variant = "C" /\ Judges(n, asked.st, mk, pin)
  <2>1. /\ master \in Masters /\ mk \in AllKeys /\ pin \in BOOLEAN
        /\ Ranked(master.candidates, mk)
    BY DEF TypeInv
  <2>2. /\ n \in Masters /\ Ranked(n.candidates, mk) /\ Sound(n, mk, pin)
        /\ n.candidates = master.candidates /\ n.rnd_master = master.rnd_master
        /\ n.variant = "C"
    BY <1>2, <2>1, InVariant
  <2>3. Judges(n, asked.st, mk, pin)
    BY <1>3, <2>1 DEF Judges, Masters
  <2> QED
    BY <2>2, <2>3
<1>6. PICK r \in MasterRandoms :
        /\ master' = Answered(master, asked, r).master
        /\ replies' = replies \o Answered(master, asked, r).reply
  BY <1>4 DEF HandleRequest
<1>7. Answered(master, asked, r) = AnswerC(n, asked, r)
  BY <1>3, <1>4, Arms DEF TypeInv
<1> HIDE DEF n
<1>8. Sound(o, mk, pin)
  BY <1>4, <1>5, ReportedSound DEF TypeInv
<1>9. released => o.candidates = <<mk>>
  <2> SUFFICES ASSUME released PROVE o.candidates = <<mk>>
    OBVIOUS
  <2> DEFINE q == note_status(n, asked.st)
  <2>1. asked.st \in Statuses /\ "cks" \in asked.st /\ "released" \in asked.st
    BY <1>3, <1>4 DEF TypeInv, Frames, released
  <2>2. /\ q \in Masters /\ Ranked(q.candidates, mk) /\ q.variant = "C"
        /\ q.candidates = n.candidates
    BY <1>4, <1>5, <2>1, Noted
  <2>3. o = observe_slave_response(q, asked.crc, None, n.rnd_master)
    BY <1>3, <1>5, <2>1 DEF Reported
  <2> HIDE DEF q
  <2>4. asked.crc = crc_slave(mk, q.variant, None, n.rnd_master) /\ mk \in Range(q.candidates)
    BY <1>3, <1>5, <2>2
  <2>5. observe_slave_response(q, crc_slave(mk, q.variant, None, n.rnd_master), None, n.rnd_master)
          .candidates = <<mk>>
    BY <1>4, <2>2, <2>4, ObservedOwn
  <2> QED
    BY <2>3, <2>4, <2>5
<1> HIDE DEF o
<1> DEFINE a == AnswerC(n, asked, r)
<1>10. /\ a.master.candidates = o.candidates /\ a.master.no_key_slave = o.no_key_slave
       /\ a.master.hint = o.hint /\ a.master.mk_confirmed = o.mk_confirmed
       /\ \E p \in Replies :
            /\ a.reply = <<p>> /\ p.rm \in MasterRandoms /\ a.master.rnd_master = p.rm
            /\ p.crc = crc_master(Head(a.master.candidates), "C", None, p.rm)
  BY <1>4, <1>5, ArmC DEF o
<1>11. master' = a.master /\ replies' = a.reply
  <2>1. \A s \in Seq(Replies) : <<>> \o s = s
    OBVIOUS
  <2>2. a.reply \in Seq(Replies)
    <3>1. \A p \in Replies : <<p>> \in Seq(Replies)
      OBVIOUS
    <3> HIDE DEF a
    <3> QED
      BY <1>10, <3>1
  <2> QED
    BY <1>3, <1>6, <1>7, <2>1, <2>2
<1> HIDE DEF a
<1>12. PICK p \in Replies :
         /\ replies' = <<p>> /\ p.rm \in MasterRandoms /\ master'.rnd_master = p.rm
         /\ p.crc = crc_master(Head(master'.candidates), "C", None, p.rm)
  BY <1>10, <1>11
<1>13. replies' # <<>> /\ Len(replies') = 1 /\ replies'[1] = p
  BY <1>12
<1>14. Sound(master', mk, pin) /\ (released => master'.candidates = <<mk>>)
  BY <1>8, <1>9, <1>10, <1>11, SoundAlike
<1>15. requests' = <<>> /\ DOMAIN requests' = {}
  BY <1>1, <1>4
<1>16. p.rm # None
  BY <1>12, MasterAssumption
<1>17. KeysC'
  BY <1>1, <1>3, <1>12, <1>13, <1>14, <1>15, <1>16 DEF KeysC, released
<1> QED
  BY <1>1, <1>2, <1>14, <1>15, <1>17 DEF KeysInv

LEMMA JudgeC ==
  ASSUME Faults \subseteq Survivable, TypeInv, KeysInv, EcuJudges, variant = "C"
  PROVE  KeysInv'
<1>1. /\ mk' = mk /\ pin' = pin /\ variant' = "C" /\ master' = master
      /\ replies' = Tail(replies) /\ replies # <<>>
  BY DEF EcuJudges
<1>2. /\ Sound(master, mk, pin)
      /\ "cks" \in status /\ "key" \notin status => ~pin
      /\ KeysC
  BY DEF KeysInv
<1> DEFINE p == replies[1]
<1>3. /\ asked # None /\ requests = <<>> /\ Len(replies) = 1 /\ asked.rnd = None
      /\ p.rm = master.rnd_master /\ master.rnd_master # None
      /\ p.crc = crc_master(Head(master.candidates), "C", None, p.rm)
      /\ released => master.candidates = <<mk>>
  BY <1>1, <1>2 DEF KeysC
<1>4. replies' = <<>> /\ p = Head(replies)
  BY <1>1, <1>3 DEF TypeInv
<1>5. /\ asked' = None /\ requests' = <<>>
      /\ status' = IF released THEN status ELSE Verdict(p)
      /\ answer' = IF released THEN None ELSE p.rm
  BY <1>3, <1>4 DEF EcuJudges
<1> HIDE DEF p
<1>6. DOMAIN requests' = {}
  BY <1>5
<1>7. CASE released
  <2>1. status' = status /\ answer' = None /\ "cks" \in status /\ master.candidates = <<mk>>
    BY <1>3, <1>5, <1>7 DEF TypeInv, released
  <2>2. mk \in Range(<<mk>>)
    BY DEF Range
  <2>3. KeysC'
    BY <1>1, <1>2, <1>3, <1>4, <1>5, <2>1, <2>2 DEF KeysC, Judges, released
  <2> QED
    BY <1>1, <1>2, <1>6, <2>1, <2>3 DEF KeysInv
<1>8. CASE ~released
  <2>1. status' = Verdict(p) /\ answer' = master.rnd_master
    BY <1>3, <1>5, <1>8
  <2>2. /\ "cks" \in status' <=> Head(master.candidates) = mk
        /\ "cks" \in status' /\ "key" \notin status' => ~pin
    BY <1>3, <2>1, VerdictTyped DEF crc_master
  <2>3. "released" \in status' => "cks" \in status'
    BY <2>1, VerdictTyped
  <2>4. Head(master.candidates) \in Range(master.candidates)
    BY DEF TypeInv, Ranked, Masters, Range
  <2>5. Judges(master, status', mk, pin)
    BY <2>2, <2>4 DEF Judges
  <2>6. KeysC'
    BY <1>1, <1>3, <1>4, <1>5, <2>1, <2>2, <2>3, <2>4, <2>5 DEF KeysC, released
  <2> QED
    BY <1>1, <1>2, <1>6, <2>2, <2>6 DEF KeysInv
<1> QED
  BY <1>7, <1>8

LEMMA StepC ==
  ASSUME Faults \subseteq Survivable, TypeInv, KeysInv, Next, variant = "C"
  PROVE  KeysInv'
<1>1. mk' = mk /\ pin' = pin /\ variant' = "C"
  BY Rigid
<1>2. /\ Sound(master, mk, pin)
      /\ "cks" \in status /\ "key" \notin status => ~pin
      /\ KeysC
  BY DEF KeysInv
<1>3. \A kind : ~Fault(kind)
  BY NoFault
<1>4. asked # None => ~Silent
  BY <1>2 DEF KeysC, Silent
<1>5. CASE EcuAsks
  <2>1. PICK q \in Questions : requests' = <<q>> /\ asked' = q
    BY <1>5 DEF EcuAsks
  <2> DEFINE w == IF released THEN crc_slave(mk, "C", None, answer) ELSE None
  <2>2. q = Frame(3, TRUE, None, w, status) /\ q \in Frames
    BY QuestionsTyped
  <2>3. q.zeros /\ q.type = 3 /\ q.st = status /\ q.rnd = None /\ q.crc = w
    BY <2>2 DEF Frame
  <2>4. q # None
    BY <2>2, FrameAssumption
  <2>5. /\ asked = None /\ replies = <<>> /\ replies' = <<>> /\ (released => answer # None)
        /\ status' = status /\ master' = master
    BY <1>5 DEF EcuAsks, Asks, Silent
  <2>6. released => w = crc_slave(mk, "C", None, master.rnd_master)
    BY <1>2, <2>5 DEF KeysC
  <2>7. released => Own(w, mk)
    <3>1. answer \in Randoms
      BY DEF TypeInv
    <3> QED
      BY <3>1 DEF Own
  <2> HIDE DEF w
  <2>8. FrameTrue(q, mk, pin)
    BY <1>2, <2>3, <2>7 DEF FrameTrue, released
  <2>9. DOMAIN requests' = {1} /\ requests'[1] = q /\ requests' # <<>>
    BY <2>1
  <2>10. KeysC'
    BY <1>1, <1>2, <2>1, <2>3, <2>4, <2>5, <2>6, <2>9 DEF KeysC, released
  <2> QED
    BY <1>1, <1>2, <2>5, <2>8, <2>9, <2>10 DEF KeysInv
<1>6. CASE EcuRepeats
  BY <1>3, <1>4, <1>6 DEF EcuRepeats
<1>7. CASE EcuGivesUp
  BY <1>3, <1>4, <1>7 DEF EcuGivesUp
<1>8. CASE Ignition
  <2>1. released /\ ~Asks /\ Silent /\ asked = None
    BY <1>3, <1>8 DEF Ignition
  <2>2. answer = None
    BY <2>1 DEF Asks
  <2>3. master.candidates = <<mk>> /\ Len(<<mk>>) = 1
    BY <1>2, <2>1, <2>2 DEF KeysC
  <2>4. /\ requests' = <<>> /\ replies' = <<>> /\ asked' = None /\ status' = {}
        /\ master' = master /\ DOMAIN requests' = {}
    BY <1>8 DEF Ignition
  <2>5. Judges(master, {}, mk, pin)
    BY <2>3 DEF Judges
  <2>6. KeysC'
    BY <1>1, <2>4, <2>5 DEF KeysC, released
  <2> QED
    BY <1>1, <1>2, <2>4, <2>6 DEF KeysInv
<1>9. CASE Lost
  BY <1>3, <1>9 DEF Lost
<1> QED
  BY <1>5, <1>6, <1>7, <1>8, <1>9, HandleC, JudgeC DEF Next

LEMMA KeysStep ==
  ASSUME Faults \subseteq Survivable
  PROVE  TypeInv /\ KeysInv /\ [Next]_vars => KeysInv'
<1> SUFFICES ASSUME TypeInv, KeysInv, [Next]_vars PROVE KeysInv'
  OBVIOUS
<1>1. CASE Next
  <2>1. variant \in {"A", "B", "C"}
    BY DEF TypeInv
  <2> QED
    BY <1>1, <2>1, StepA, StepB, StepC
<1>2. CASE UNCHANGED vars
  BY <1>2 DEF vars, ecuvars, KeysInv, KeysA, KeysB, KeysC, released
<1> QED
  BY <1>1, <1>2

\* "Rotate the master-key candidate when it says the CrcMaster was wrong": for
\* every list of keys, with any number of losses, repetitions and restarts that
\* Survivable names, the right key is never dropped, and a key is confirmed, a
\* noKeySlave recovered and a PIN blamed only where that is so (note_status,
\* observe_slave_response).
THEOREM KeysAreSound ==
  ASSUME Faults \subseteq Survivable
  PROVE  Spec => []KeysSound
<1>1. Init => KeysInv
  BY KeysInit
<1>2. TypeInv /\ KeysInv /\ [Next]_vars => KeysInv'
  BY KeysStep
<1>3. KeysInv => KeysSound
  BY DEF KeysInv, Sound, KeysSound, RightKeyKept, KeyIsKnown, ClaimsAreRight
<1> QED
  BY <1>1, <1>2, <1>3, TypeInvariance, PTL DEF Spec
=============================================================================

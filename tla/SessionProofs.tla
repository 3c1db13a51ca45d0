---------------------------- MODULE SessionProofs ----------------------------
(***************************************************************************)
(* Proofs about who holds the device: no call is in its own way, a scan    *)
(* finds every module it could ask, and the DTC clears bracket a flash.    *)
(*                                                                         *)
(* The steps that a call has left follow a grammar (Plan): what may come   *)
(* after what, and which openings may fail and be passed over.  Every rule *)
(* is about neighbours, so what is left after a step follows it as well    *)
(* (SuffixPlan); the state of the connection can be read off the first     *)
(* step (Connected), the number of clears off the clears that are left     *)
(* before and after the programming session (Counted), and what a scan may *)
(* still find off the channels that it has not asked (Covered).            *)
(***************************************************************************)
EXTENDS Session, SequenceTheorems, TLAPS

-----------------------------------------------------------------------------
(***************************************************************************)
(* The grammar of the calls.                                               *)
(***************************************************************************)
Names == Range(Channels)
Steps ==
  [do : {"open", "close", "join", "clear", "flash", "unlock", "identify", "immo", "read"},
   channel : Names \cup {"obd"}]

Acts(x) == x.do \notin {"open", "close", "join"}
Main(x) == x.do \in {"flash", "unlock"}

SharedScan ==
  <<Step("open", Channels[1])>>
    \o [i \in DOMAIN Channels |-> Step("identify", Channels[i])]
    \o <<Step("close", Channels[1])>>

\* A connection for one request, which can be passed over if it does not open.
Triple(q, i) ==
  /\ i + 2 <= Len(q) /\ q[i + 2].do = "close"
  /\ Acts(q[i + 1]) /\ q[i + 1].channel = q[i].channel

\* What may be step i of the steps q that a call `what` has left, and after it.
Rule(q, what, raw, i) ==
  /\ q[i].do = "join" => i = 1
  /\ q[i].do = "open" => i < Len(q) /\ Acts(q[i + 1])
  /\ Acts(q[i]) => i < Len(q) /\ (Acts(q[i + 1]) \/ q[i + 1].do = "close")
  /\ q[i].do \in {"close", "join"} /\ i < Len(q) => q[i + 1].do = "open"
  /\ q[i].do = "open" /\ (~raw \/ (what = "scan" /\ ~(i = 1 /\ q = SharedScan))) => Triple(q, i)
  /\ ~raw /\ Acts(q[i]) => q[i + 1].do = "close"
  /\ q[i].do = "open" /\ q[i].channel = "obd" => ~raw /\ q[i + 1].do = "clear"
  /\ q[i].do = "clear" => what \in {"flash", "unlock"} /\ (raw \/ q[i].channel = "obd")
  /\ q[i].do = "identify" => what = "scan"
  /\ what = "scan" => q[i].do \in {"open", "identify", "close", "join"} /\ q[i].channel # "obd"
  /\ Main(q[i]) => what \in {"flash", "unlock"}

Plan(q, what, raw) ==
  /\ q \in Seq(Steps)
  /\ \A i \in 1..Len(q) : Rule(q, what, raw, i)

\* One programming session, at most one clear before it and one after it, and
\* after that of a flash there is one.
HasMain(q) == \E i \in 1..Len(q) : Main(q[i])
HasClear(q) == \E i \in 1..Len(q) : q[i].do = "clear"
ClearsFirst(q) == \E i, j \in 1..Len(q) : i < j /\ q[i].do = "clear" /\ Main(q[j])
Brackets(q, what) ==
  /\ \A i, j \in 1..Len(q) : Main(q[i]) /\ Main(q[j]) => i = j
  /\ \A i, j \in 1..Len(q) : i < j /\ q[i].do = "clear" /\ q[j].do = "clear" =>
       \E k \in 1..Len(q) : i < k /\ k < j /\ Main(q[k])
  /\ what = "flash" =>
       \A i \in 1..Len(q) : Main(q[i]) => \E j \in 1..Len(q) : i < j /\ q[j].do = "clear"

\* How many clears were tried, given what is left and whether the call failed.
Counted(q, what, n, bad) ==
  /\ HasMain(q) => n = IF ClearsFirst(q) THEN <<0, 0>> ELSE <<1, 0>>
  /\ what = "flash" /\ ~HasMain(q) /\ ~bad => n = IF HasClear(q) THEN <<1, 0>> ELSE <<1, 1>>

\* What the scan has still to ask.
ToAsk(q) == {q[i].channel : i \in {j \in 1..Len(q) : q[j].do = "identify"}}

-----------------------------------------------------------------------------
(***************************************************************************)
(* The invariant.                                                          *)
(***************************************************************************)
Calls == {"none", "scan", "unlock", "immo", "read", "flash"}

TypeInv ==
  /\ ecu \in [Names -> {"absent", "app", "cboot"}]
  /\ found \subseteq Names /\ postcheck \in Immobilized \cup {None}
  /\ call \in [Tasks -> Calls] /\ call["post"] \in {"none", "immo"}
  /\ steps \in [Tasks -> Seq(Steps)]
  /\ connection \in [Tasks -> Names \cup {"obd", None}]
  /\ teardown \subseteq Tasks
  /\ failed \in [Tasks -> BOOLEAN] /\ DOMAIN clears = Tasks

Planned ==
  \A s \in Tasks :
    /\ Plan(steps[s], call[s], supports_raw_can) /\ Brackets(steps[s], call[s])
    /\ call[s] = "none" => steps[s] = <<>>

Connected ==
  \A s \in Tasks :
    /\ (connection[s] # None)
         <=> (steps[s] # <<>> /\ (Acts(steps[s][1]) \/ steps[s][1].do = "close"))
    /\ (s \in teardown) <=> (steps[s] # <<>> /\ steps[s][1].do = "join")
    /\ connection[s] # None /\ ~supports_raw_can /\ Acts(steps[s][1]) =>
         connection[s] = steps[s][1].channel

Numbered == \A s \in Tasks : Counted(steps[s], call[s], clears[s], failed[s])

Covered ==
  call["front"] = "scan" =>
    found \subseteq Fitted /\ Fitted \subseteq found \cup excused \cup ToAsk(steps["front"])

Inv == TypeInv /\ Planned /\ Connected /\ Numbered /\ Covered /\ NeverInOwnWay

-----------------------------------------------------------------------------
(***************************************************************************)
(* What is left after some steps follows the grammar.                      *)
(***************************************************************************)
SuffixOf(r, q, k) ==
  /\ k \in 2..(Len(q) + 1) /\ r \in Seq(Steps) /\ Len(r) = Len(q) + 1 - k
  /\ \A i \in 1..Len(r) : r[i] = q[i + (k - 1)]

LEMMA TailSuffix ==
  ASSUME NEW q \in Seq(Steps), q # <<>>
  PROVE  SuffixOf(Tail(q), q, 2)
<1>1. Len(q) \in Nat /\ Len(q) >= 1
  OBVIOUS
<1>2. /\ Tail(q) \in Seq(Steps) /\ Len(Tail(q)) = Len(q) - 1
      /\ \A i \in 1..Len(Tail(q)) : Tail(q)[i] = q[i + 1]
  OBVIOUS
<1> QED
  BY <1>1, <1>2 DEF SuffixOf

LEMMA SkipSuffix ==
  ASSUME NEW q \in Seq(Steps), Len(q) >= 3
  PROVE  SuffixOf(SubSeq(q, 4, Len(q)), q, 4)
<1> DEFINE r == SubSeq(q, 4, Len(q))
<1>1. Len(q) \in Nat /\ 4 \in 1..(Len(q) + 1) /\ Len(q) \in (4 - 1)..Len(q)
  OBVIOUS
<1>2. /\ r \in Seq(Steps)
      /\ Len(r) = IF 4 <= Len(q) THEN Len(q) - 4 + 1 ELSE 0
      /\ \A i \in 1..(Len(q) - 4 + 1) : r[i] = q[4 + i - 1]
  BY <1>1, SubSeqProperties
<1> HIDE DEF r
<1>3. Len(r) = Len(q) - 3
  <2>1. CASE 4 <= Len(q)
    BY <1>1, <1>2, <2>1
  <2>2. CASE Len(q) = 3
    BY <1>2, <2>2
  <2>3. Len(q) = 3 \/ 4 <= Len(q)
    <3>1. \A n \in Nat : n >= 3 => n = 3 \/ 4 <= n
      OBVIOUS
    <3>2. Len(q) \in Nat
      OBVIOUS
    <3> QED
      BY <3>1, <3>2
  <2> QED
    BY <2>1, <2>2, <2>3
<1>4. \A i \in 1..Len(r) : r[i] = q[i + (4 - 1)]
  BY <1>1, <1>2, <1>3
<1>5. SuffixOf(r, q, 4)
  BY <1>1, <1>2, <1>3, <1>4 DEF SuffixOf
<1> QED
  BY <1>5 DEF r

LEMMA SuffixPlan ==
  ASSUME NEW q, NEW what, NEW raw, NEW r, NEW k,
         Plan(q, what, raw), SuffixOf(r, q, k)
  PROVE  Plan(r, what, raw)
<1>1. /\ k \in 2..(Len(q) + 1) /\ r \in Seq(Steps) /\ Len(r) = Len(q) + 1 - k
      /\ \A i \in 1..Len(r) : r[i] = q[i + (k - 1)]
      /\ q \in Seq(Steps) /\ Len(q) \in Nat
  BY DEF SuffixOf, Plan
<1>2. ASSUME NEW i \in 1..Len(r) PROVE Rule(r, what, raw, i)
  <2> DEFINE j == i + (k - 1)
  <2>1. j \in 1..Len(q) /\ j # 1 /\ r[i] = q[j]
    BY <1>1
  <2>2. (i < Len(r) <=> j < Len(q)) /\ (i < Len(r) => r[i + 1] = q[j + 1])
    BY <1>1
  <2>3. Triple(q, j) => Triple(r, i)
    <3> SUFFICES ASSUME Triple(q, j) PROVE Triple(r, i)
      OBVIOUS
    <3>1. j + 2 <= Len(q) /\ q[j + 2].do = "close" /\ Acts(q[j + 1]) /\ q[j + 1].channel = q[j].channel
      BY DEF Triple
    <3>2. i + 2 <= Len(r) /\ r[i + 2] = q[j + 2] /\ r[i + 1] = q[j + 1]
      BY <1>1, <3>1
    <3> QED
      BY <2>1, <3>1, <3>2 DEF Triple
  <2>4. Rule(q, what, raw, j)
    BY <2>1 DEF Plan
  <2> HIDE DEF j
  <2>5. j < Len(q) => i < Len(r)
    BY <2>2
  <2> QED
    BY <2>1, <2>2, <2>3, <2>4, <2>5 DEF Rule
<1> QED
  BY <1>1, <1>2 DEF Plan

LEMMA SuffixBrackets ==
  ASSUME NEW q \in Seq(Steps), NEW what, NEW r, NEW k,
         Brackets(q, what), SuffixOf(r, q, k)
  PROVE  Brackets(r, what)
<1>1. /\ k \in 2..(Len(q) + 1) /\ r \in Seq(Steps) /\ Len(r) = Len(q) + 1 - k
      /\ \A i \in 1..Len(r) : r[i] = q[i + (k - 1)]
      /\ Len(q) \in Nat
  BY DEF SuffixOf
<1>2. \A i \in 1..Len(r) : i + (k - 1) \in 1..Len(q)
  BY <1>1
<1>3. \A j \in 1..Len(q) : j >= k => j - (k - 1) \in 1..Len(r) /\ r[j - (k - 1)] = q[j]
  BY <1>1
<1>4. \A i, j \in 1..Len(r) : Main(r[i]) /\ Main(r[j]) => i = j
  <2> SUFFICES ASSUME NEW i \in 1..Len(r), NEW j \in 1..Len(r), Main(r[i]), Main(r[j]) PROVE i = j
    OBVIOUS
  <2>1. i + (k - 1) = j + (k - 1)
    BY <1>1, <1>2 DEF Brackets
  <2> QED
    BY <1>1, <2>1
<1>5. ASSUME NEW i \in 1..Len(r), NEW j \in 1..Len(r), i < j, r[i].do = "clear", r[j].do = "clear"
      PROVE  \E h \in 1..Len(r) : i < h /\ h < j /\ Main(r[h])
  <2> DEFINE a == i + (k - 1)
             b == j + (k - 1)
  <2>0. a \in 1..Len(q) /\ b \in 1..Len(q) /\ a < b /\ q[a].do = "clear" /\ q[b].do = "clear"
    BY <1>1, <1>2, <1>5
  <2>1. PICK h \in 1..Len(q) : a < h /\ h < b /\ Main(q[h])
    <3> HIDE DEF a, b
    <3> QED
      BY <2>0 DEF Brackets
  <2>2. h - (k - 1) \in 1..Len(r) /\ r[h - (k - 1)] = q[h]
    BY <1>1, <1>3, <2>1
  <2>3. i < h - (k - 1) /\ h - (k - 1) < j
    BY <1>1, <2>1
  <2> QED
    BY <2>1, <2>2, <2>3
<1>6. ASSUME what = "flash", NEW i \in 1..Len(r), Main(r[i])
      PROVE  \E j \in 1..Len(r) : i < j /\ r[j].do = "clear"
  <2>1. PICK j \in 1..Len(q) : i + (k - 1) < j /\ q[j].do = "clear"
    BY <1>1, <1>2, <1>6 DEF Brackets
  <2>2. j - (k - 1) \in 1..Len(r) /\ r[j - (k - 1)] = q[j] /\ i < j - (k - 1)
    BY <1>1, <1>3, <2>1
  <2> QED
    BY <2>1, <2>2
<1> QED
  BY <1>4, <1>5, <1>6 DEF Brackets

\* The close that is being waited for.
JoinOf(r, q) ==
  /\ r \in Seq(Steps) /\ Len(r) = Len(q) /\ r[1].do = "join"
  /\ \A i \in 2..Len(q) : r[i] = q[i]

LEMMA JoinPlan ==
  ASSUME NEW q, NEW what, NEW raw, NEW r, q # <<>>, q[1].do = "close",
         Plan(q, what, raw), JoinOf(r, q), r[1].channel = q[1].channel
  PROVE  Plan(r, what, raw)
<1>1. /\ r \in Seq(Steps) /\ Len(r) = Len(q) /\ r[1].do = "join"
      /\ \A i \in 2..Len(q) : r[i] = q[i]
      /\ q \in Seq(Steps) /\ Len(q) \in Nat /\ Len(q) >= 1
  BY DEF JoinOf, Plan
<1>2. ASSUME NEW i \in 1..Len(r) PROVE Rule(r, what, raw, i)
  <2>1. Rule(q, what, raw, i)
    BY <1>1 DEF Plan
  <2>2. i < Len(r) => r[i + 1] = q[i + 1]
    BY <1>1
  <2>3. CASE i = 1
    <3>1. 1 < Len(q) => q[2].do = "open"
      BY <2>1, <2>3 DEF Rule
    <3>2. what = "scan" => q[1].channel # "obd"
      BY <2>1, <2>3 DEF Rule
    <3> QED
      BY <1>1, <2>2, <2>3, <3>1, <3>2 DEF Rule, Acts, Main
  <2>4. CASE i # 1
    <3>1. r[i] = q[i]
      BY <1>1, <2>4
    <3>2. Triple(q, i) => Triple(r, i)
      BY <1>1, <2>4 DEF Triple
    <3>3. i < Len(q) <=> i < Len(r)
      BY <1>1
    <3> QED
      BY <2>1, <2>2, <2>4, <3>1, <3>2, <3>3 DEF Rule
  <2> QED
    BY <2>3, <2>4
<1> QED
  BY <1>1, <1>2 DEF Plan

LEMMA JoinCounted ==
  ASSUME NEW q \in Seq(Steps), NEW what, NEW r, q # <<>>, q[1].do = "close",
         Brackets(q, what), JoinOf(r, q)
  PROVE  /\ Brackets(r, what)
         /\ \A n, bad : Counted(q, what, n, bad) => Counted(r, what, n, bad)
         /\ ToAsk(r) = ToAsk(q)
<1>1. /\ Len(r) = Len(q) /\ r[1].do = "join"
      /\ \A i \in 2..Len(q) : r[i] = q[i]
      /\ Len(q) \in Nat /\ Len(q) >= 1
  BY DEF JoinOf
<1>2. \A i \in 1..Len(q) : /\ Main(r[i]) <=> Main(q[i])
                           /\ r[i].do = "clear" <=> q[i].do = "clear"
                           /\ r[i].do = "identify" <=> q[i].do = "identify"
                           /\ q[i].do = "identify" => r[i] = q[i]
  BY <1>1 DEF Main
<1>3. Brackets(r, what)
  BY <1>1, <1>2 DEF Brackets
<1>4. (HasMain(r) <=> HasMain(q)) /\ (HasClear(r) <=> HasClear(q))
      /\ (ClearsFirst(r) <=> ClearsFirst(q))
  BY <1>1, <1>2 DEF HasMain, HasClear, ClearsFirst
<1>5. ToAsk(r) = ToAsk(q)
  BY <1>1, <1>2 DEF ToAsk
<1> QED
  BY <1>3, <1>4, <1>5 DEF Counted

-----------------------------------------------------------------------------
(***************************************************************************)
(* Counting the clears.                                                    *)
(***************************************************************************)
LEMMA SuffixMarks ==
  ASSUME NEW q \in Seq(Steps), q # <<>>
  PROVE  LET r == Tail(q) IN
         /\ HasMain(q) <=> (Main(q[1]) \/ HasMain(r))
         /\ HasClear(q) <=> (q[1].do = "clear" \/ HasClear(r))
         /\ ClearsFirst(q) <=> ((q[1].do = "clear" /\ HasMain(r)) \/ ClearsFirst(r))
         /\ ToAsk(q) = ToAsk(r) \cup (IF q[1].do = "identify" THEN {q[1].channel} ELSE {})
<1> DEFINE r == Tail(q)
<1>1. /\ Len(q) \in Nat /\ Len(q) >= 1 /\ Len(r) = Len(q) - 1
      /\ \A i \in 1..Len(r) : r[i] = q[i + 1]
  OBVIOUS
<1> HIDE DEF r
<1>2. \A i \in 1..Len(r) : i + 1 \in 1..Len(q)
  BY <1>1
<1>3. \A j \in 1..Len(q) : j = 1 \/ (j - 1 \in 1..Len(r) /\ r[j - 1] = q[j])
  BY <1>1
<1>4. 1 \in 1..Len(q)
  BY <1>1
<1>5. HasMain(q) <=> (Main(q[1]) \/ HasMain(r))
  BY <1>1, <1>2, <1>3, <1>4 DEF HasMain
<1>6. HasClear(q) <=> (q[1].do = "clear" \/ HasClear(r))
  BY <1>1, <1>2, <1>3, <1>4 DEF HasClear
<1>7. ClearsFirst(q) <=> ((q[1].do = "clear" /\ HasMain(r)) \/ ClearsFirst(r))
  <2>1. ASSUME ClearsFirst(q) PROVE (q[1].do = "clear" /\ HasMain(r)) \/ ClearsFirst(r)
    <3>1. PICK i \in 1..Len(q), j \in 1..Len(q) : i < j /\ q[i].do = "clear" /\ Main(q[j])
      BY <2>1 DEF ClearsFirst
    <3>2. j - 1 \in 1..Len(r) /\ Main(r[j - 1])
      BY <1>1, <3>1
    <3>3. CASE i = 1
      BY <3>1, <3>2, <3>3 DEF HasMain
    <3>4. CASE i # 1
      <4>1. i - 1 \in 1..Len(r) /\ r[i - 1].do = "clear" /\ i - 1 < j - 1
        BY <1>1, <3>1, <3>4
      <4> QED
        BY <3>2, <4>1 DEF ClearsFirst
    <3> QED
      BY <3>3, <3>4
  <2>2. ASSUME q[1].do = "clear", HasMain(r) PROVE ClearsFirst(q)
    <3>1. PICK j \in 1..Len(r) : Main(r[j])
      BY <2>2 DEF HasMain
    <3>2. j + 1 \in 1..Len(q) /\ 1 < j + 1 /\ Main(q[j + 1])
      BY <1>1, <3>1
    <3> QED
      BY <1>4, <2>2, <3>2 DEF ClearsFirst
  <2>3. ASSUME ClearsFirst(r) PROVE ClearsFirst(q)
    <3>1. PICK i \in 1..Len(r), j \in 1..Len(r) : i < j /\ r[i].do = "clear" /\ Main(r[j])
      BY <2>3 DEF ClearsFirst
    <3>2. i + 1 \in 1..Len(q) /\ j + 1 \in 1..Len(q) /\ i + 1 < j + 1
          /\ q[i + 1].do = "clear" /\ Main(q[j + 1])
      BY <1>1, <3>1
    <3> QED
      BY <3>2 DEF ClearsFirst
  <2> QED
    BY <2>1, <2>2, <2>3
<1>8. ToAsk(q) = ToAsk(r) \cup (IF q[1].do = "identify" THEN {q[1].channel} ELSE {})
  <2>1. ASSUME NEW c \in ToAsk(q)
        PROVE  c \in ToAsk(r) \/ (q[1].do = "identify" /\ c = q[1].channel)
    <3>1. PICK j \in 1..Len(q) : q[j].do = "identify" /\ c = q[j].channel
      BY DEF ToAsk
    <3> QED
      BY <1>3, <3>1 DEF ToAsk
  <2>2. ASSUME NEW c \in ToAsk(r) PROVE c \in ToAsk(q)
    <3>1. PICK j \in 1..Len(r) : r[j].do = "identify" /\ c = r[j].channel
      BY DEF ToAsk
    <3>2. j + 1 \in 1..Len(q) /\ q[j + 1] = r[j]
      BY <1>1, <3>1
    <3> QED
      BY <3>1, <3>2 DEF ToAsk
  <2>3. q[1].do = "identify" => q[1].channel \in ToAsk(q)
    BY <1>4 DEF ToAsk
  <2> QED
    BY <2>1, <2>2, <2>3
<1> QED
  BY <1>5, <1>6, <1>7, <1>8 DEF r

\* A step that is neither a clear nor the programming session counts nothing.
LEMMA NeutralStep ==
  ASSUME NEW q \in Seq(Steps), q # <<>>, q[1].do # "clear", ~Main(q[1]),
         NEW what, NEW n, NEW bad, Counted(q, what, n, bad)
  PROVE  Counted(Tail(q), what, n, bad)
  BY SuffixMarks DEF Counted

\* A clear, tried or dropped.
LEMMA ClearStep ==
  ASSUME NEW q \in Seq(Steps), q # <<>>, q[1].do = "clear",
         NEW what, NEW n, NEW bad, NEW m, Counted(q, what, n, bad), Brackets(q, what),
         HasMain(q) => m = <<n[1] + 1, n[2]>>, ~HasMain(q) => m = <<n[1], n[2] + 1>>
  PROVE  Counted(Tail(q), what, m, bad)
<1> DEFINE r == Tail(q)
<1>1. /\ Len(q) \in Nat /\ Len(q) >= 1 /\ Len(r) = Len(q) - 1
      /\ \A i \in 1..Len(r) : r[i] = q[i + 1]
  OBVIOUS
<1>2. /\ HasMain(q) <=> (Main(q[1]) \/ HasMain(r))
      /\ HasClear(q) <=> (q[1].do = "clear" \/ HasClear(r))
      /\ ClearsFirst(q) <=> ((q[1].do = "clear" /\ HasMain(r)) \/ ClearsFirst(r))
  BY SuffixMarks
<1>3. ~Main(q[1])
  BY DEF Main
<1> HIDE DEF r
<1>4. ~ClearsFirst(r)
  <2> SUFFICES ASSUME NEW i \in 1..Len(r), NEW j \in 1..Len(r), i < j,
                      r[i].do = "clear", Main(r[j])
               PROVE  FALSE
    BY DEF ClearsFirst
  <2>1. /\ 1 \in 1..Len(q) /\ i + 1 \in 1..Len(q) /\ j + 1 \in 1..Len(q) /\ 1 < i + 1
        /\ q[i + 1].do = "clear" /\ Main(q[j + 1]) /\ i + 1 < j + 1
    BY <1>1
  <2>2. PICK k \in 1..Len(q) : 1 < k /\ k < i + 1 /\ Main(q[k])
    BY <2>1 DEF Brackets
  <2>3. k = j + 1
    BY <2>1, <2>2 DEF Brackets
  <2> QED
    BY <2>1, <2>2, <2>3
<1>5. ~HasMain(r) => ~HasClear(r)
  <2> SUFFICES ASSUME NEW i \in 1..Len(r), r[i].do = "clear" PROVE HasMain(r)
    BY DEF HasClear
  <2>1. 1 \in 1..Len(q) /\ i + 1 \in 1..Len(q) /\ 1 < i + 1 /\ q[i + 1].do = "clear"
    BY <1>1
  <2>2. PICK k \in 1..Len(q) : 1 < k /\ k < i + 1 /\ Main(q[k])
    BY <2>1 DEF Brackets
  <2>3. HasMain(q)
    BY <2>2 DEF HasMain
  <2> QED
    BY <1>2, <1>3, <2>3
<1>6. CASE HasMain(r)
  <2>1. HasMain(q) /\ ClearsFirst(q)
    BY <1>2, <1>6
  <2>2. n = <<0, 0>>
    BY <2>1 DEF Counted
  <2>3. m = <<1, 0>>
    BY <2>1, <2>2
  <2> QED
    BY <1>4, <1>6, <2>3 DEF Counted, r
<1>7. CASE ~HasMain(r)
  <2>1. ~HasMain(q) /\ HasClear(q) /\ ~HasClear(r)
    BY <1>2, <1>3, <1>5, <1>7
  <2>2. what = "flash" /\ ~bad => n = <<1, 0>>
    BY <2>1 DEF Counted
  <2>3. what = "flash" /\ ~bad => m = <<1, 1>>
    BY <2>1, <2>2
  <2> QED
    BY <1>7, <2>1, <2>3 DEF Counted, r
<1> QED
  BY <1>6, <1>7

\* The programming session.
LEMMA MainStep ==
  ASSUME NEW q \in Seq(Steps), q # <<>>, Main(q[1]),
         NEW what, NEW n, NEW bad, NEW worse, Counted(q, what, n, bad), Brackets(q, what)
  PROVE  Counted(Tail(q), what, n, worse) /\ n = <<1, 0>>
<1> DEFINE r == Tail(q)
<1>1. /\ Len(q) \in Nat /\ Len(q) >= 1 /\ Len(r) = Len(q) - 1
      /\ \A i \in 1..Len(r) : r[i] = q[i + 1]
  OBVIOUS
<1>2. HasMain(q)
  BY <1>1 DEF HasMain
<1>3. ~HasMain(r)
  <2> SUFFICES ASSUME NEW i \in 1..Len(r), Main(r[i]) PROVE FALSE
    BY DEF HasMain
  <2>1. 1 \in 1..Len(q) /\ i + 1 \in 1..Len(q) /\ Main(q[i + 1]) /\ i + 1 # 1
    BY <1>1
  <2> QED
    BY <2>1 DEF Brackets
<1>4. ~ClearsFirst(q)
  <2>1. q[1].do # "clear"
    BY DEF Main
  <2>2. ~ClearsFirst(r)
    BY <1>3 DEF ClearsFirst, HasMain
  <2> QED
    BY <2>1, <2>2, SuffixMarks
<1>5. what = "flash" => HasClear(r)
  <2> SUFFICES ASSUME what = "flash" PROVE HasClear(r)
    OBVIOUS
  <2>1. PICK j \in 1..Len(q) : 1 < j /\ q[j].do = "clear"
    BY <1>1 DEF Brackets
  <2>2. j - 1 \in 1..Len(r) /\ r[j - 1].do = "clear"
    BY <1>1, <2>1
  <2> QED
    BY <2>2 DEF HasClear
<1>6. n = <<1, 0>>
  BY <1>2, <1>4 DEF Counted
<1> HIDE DEF r
<1> QED
  BY <1>3, <1>5, <1>6 DEF Counted, r

-----------------------------------------------------------------------------
(***************************************************************************)
(* The calls follow the grammar.                                           *)
(***************************************************************************)
\* A call before its first step: it opens a connection, and has cleared nothing.
Starts(q, what, raw) ==
  /\ Plan(q, what, raw) /\ Brackets(q, what) /\ Counted(q, what, <<0, 0>>, FALSE)
  /\ q # <<>> /\ q[1].do = "open"

LEMMA NoMarks ==
  ASSUME NEW q, NEW what, what \notin {"flash", "unlock"},
         \A i \in 1..Len(q) : ~Main(q[i]) /\ q[i].do # "clear"
  PROVE  Brackets(q, what) /\ \A n, bad : Counted(q, what, n, bad)
  BY DEF Brackets, Counted, HasMain

LEMMA StartsIf ==
  ASSUME NEW q \in Seq(Steps), NEW what, NEW raw, Len(q) > 0,
         \A i \in 1..Len(q) : Rule(q, what, raw, i), Brackets(q, what),
         Counted(q, what, <<0, 0>>, FALSE), q[1].do = "open"
  PROVE  Starts(q, what, raw)
<1>1. q # <<>>
  OBVIOUS
<1>2. Plan(q, what, raw)
  BY DEF Plan
<1> QED
  BY <1>1, <1>2 DEF Starts

LEMMA IsStep ==
  ASSUME NEW c \in Names \cup {"obd"},
         NEW do \in {"open", "close", "join", "clear", "flash", "unlock", "identify", "immo", "read"}
  PROVE  Step(do, c) \in Steps /\ Step(do, c).do = do /\ Step(do, c).channel = c
  BY DEF Step, Steps

\* What a leading clear on a connection of its own does to the rest.
LEMMA StartsNativeFlash ==
  ASSUME NEW m \in Names
  PROVE  Starts(OwnClear \o <<Step("open", m), Step("flash", m), Step("close", m)>> \o OwnClear,
                "flash", FALSE)
<1> DEFINE q == OwnClear \o <<Step("open", m), Step("flash", m), Step("close", m)>> \o OwnClear
<1>0. m # "obd"
  BY SessionAssumption DEF Names
<1>1. /\ Len(q) = 9
      /\ q[1] = Step("open", "obd") /\ q[2] = Step("clear", "obd") /\ q[3] = Step("close", "obd")
      /\ q[4] = Step("open", m) /\ q[5] = Step("flash", m) /\ q[6] = Step("close", m)
      /\ q[7] = Step("open", "obd") /\ q[8] = Step("clear", "obd") /\ q[9] = Step("close", "obd")
  BY DEF OwnClear
<1>2. q \in Seq(Steps)
  <2>1. OwnClear \in Seq(Steps)
    BY IsStep DEF OwnClear
  <2>2. <<Step("open", m), Step("flash", m), Step("close", m)>> \in Seq(Steps)
    BY IsStep
  <2> HIDE DEF OwnClear
  <2> QED
    BY <2>1, <2>2
<1> HIDE DEF q
<1>3. /\ q[1].do = "open" /\ q[2].do = "clear" /\ q[3].do = "close"
      /\ q[4].do = "open" /\ q[5].do = "flash" /\ q[6].do = "close"
      /\ q[7].do = "open" /\ q[8].do = "clear" /\ q[9].do = "close"
      /\ q[1].channel = "obd" /\ q[2].channel = "obd" /\ q[3].channel = "obd"
      /\ q[4].channel = m /\ q[5].channel = m /\ q[6].channel = m
      /\ q[7].channel = "obd" /\ q[8].channel = "obd" /\ q[9].channel = "obd"
  BY <1>1 DEF Step
<1>4. ASSUME NEW i \in 1..9 PROVE Rule(q, "flash", FALSE, i)
  <2>1. i \in {1, 4, 7} => Triple(q, i)
    BY <1>1, <1>3 DEF Triple, Acts
  <2> QED
    BY <2>1, <1>0, <1>1, <1>3 DEF Rule, Acts, Main
<1>5. \A i \in 1..9 : Main(q[i]) <=> i = 5
  BY <1>3 DEF Main
<1>6. \A i \in 1..9 : q[i].do = "clear" <=> (i = 2 \/ i = 8)
  BY <1>3
<1>7. Brackets(q, "flash")
  BY <1>1, <1>5, <1>6 DEF Brackets
<1>8. Counted(q, "unlock", <<0, 0>>, FALSE) /\ Counted(q, "flash", <<0, 0>>, FALSE)
  <2>1. HasMain(q)
    BY <1>1, <1>5 DEF HasMain
  <2>2. ClearsFirst(q)
    BY <1>1, <1>5, <1>6 DEF ClearsFirst
  <2> QED
    BY <2>1, <2>2 DEF Counted
<1>9. Starts(q, "flash", FALSE)
  <2>1. q \in Seq(Steps) /\ Len(q) > 0 /\ q[1].do = "open"
    BY <1>1, <1>2, <1>3
  <2>2. \A i \in 1..Len(q) : Rule(q, "flash", FALSE, i)
    BY <1>1, <1>4
  <2> QED
    BY <2>1, <2>2, <1>7, <1>8, StartsIf
<1> QED
  BY <1>9 DEF q

LEMMA StartsRawFlash ==
  ASSUME NEW m \in Names
  PROVE  Starts(<<Step("open", m), Step("clear", m), Step("flash", m), Step("clear", m),
                  Step("close", m)>>, "flash", TRUE)
<1> DEFINE q == <<Step("open", m), Step("clear", m), Step("flash", m), Step("clear", m),
                  Step("close", m)>>
<1>0. m # "obd"
  BY SessionAssumption DEF Names
<1>1. Len(q) = 5 /\ q \in Seq(Steps)
  BY IsStep
<1>3. /\ q[1].do = "open" /\ q[2].do = "clear" /\ q[3].do = "flash" /\ q[4].do = "clear"
      /\ q[5].do = "close" /\ q[1].channel = m
  BY IsStep
<1> HIDE DEF q
<1>4. ASSUME NEW i \in 1..5 PROVE Rule(q, "flash", TRUE, i)
  BY <1>0, <1>1, <1>3 DEF Rule, Acts, Main
<1>5. \A i \in 1..5 : Main(q[i]) <=> i = 3
  BY <1>3 DEF Main
<1>6. \A i \in 1..5 : q[i].do = "clear" <=> (i = 2 \/ i = 4)
  BY <1>3
<1>7. Brackets(q, "flash")
  BY <1>1, <1>5, <1>6 DEF Brackets
<1>8. Counted(q, "unlock", <<0, 0>>, FALSE) /\ Counted(q, "flash", <<0, 0>>, FALSE)
  <2>1. HasMain(q)
    BY <1>1, <1>5 DEF HasMain
  <2>2. ClearsFirst(q)
    BY <1>1, <1>5, <1>6 DEF ClearsFirst
  <2> QED
    BY <2>1, <2>2 DEF Counted
<1>9. Starts(q, "flash", TRUE)
  <2>1. q \in Seq(Steps) /\ Len(q) > 0 /\ q[1].do = "open"
    BY <1>1, <1>3
  <2>2. \A i \in 1..Len(q) : Rule(q, "flash", TRUE, i)
    BY <1>1, <1>4
  <2> QED
    BY <2>1, <2>2, <1>7, <1>8, StartsIf
<1> QED
  BY <1>9 DEF q

LEMMA StartsNativeUnlock ==
  ASSUME NEW m \in Names
  PROVE  Starts(OwnClear \o <<Step("open", m), Step("unlock", m), Step("close", m)>>,
                "unlock", FALSE)
<1> DEFINE q == OwnClear \o <<Step("open", m), Step("unlock", m), Step("close", m)>>
<1>0. m # "obd"
  BY SessionAssumption DEF Names
<1>1. /\ Len(q) = 6
      /\ q[1] = Step("open", "obd") /\ q[2] = Step("clear", "obd") /\ q[3] = Step("close", "obd")
      /\ q[4] = Step("open", m) /\ q[5] = Step("unlock", m) /\ q[6] = Step("close", m)
  BY DEF OwnClear
<1>2. q \in Seq(Steps)
  <2>1. OwnClear \in Seq(Steps)
    BY IsStep DEF OwnClear
  <2>2. <<Step("open", m), Step("unlock", m), Step("close", m)>> \in Seq(Steps)
    BY IsStep
  <2> HIDE DEF OwnClear
  <2> QED
    BY <2>1, <2>2
<1> HIDE DEF q
<1>3. /\ q[1].do = "open" /\ q[2].do = "clear" /\ q[3].do = "close"
      /\ q[4].do = "open" /\ q[5].do = "unlock" /\ q[6].do = "close"
      /\ q[1].channel = "obd" /\ q[2].channel = "obd" /\ q[3].channel = "obd"
      /\ q[4].channel = m /\ q[5].channel = m /\ q[6].channel = m
  BY <1>1 DEF Step
<1>4. ASSUME NEW i \in 1..6 PROVE Rule(q, "unlock", FALSE, i)
  <2>1. i \in {1, 4} => Triple(q, i)
    BY <1>1, <1>3 DEF Triple, Acts
  <2> QED
    BY <2>1, <1>0, <1>1, <1>3 DEF Rule, Acts, Main
<1>5. \A i \in 1..6 : Main(q[i]) <=> i = 5
  BY <1>3 DEF Main
<1>6. \A i \in 1..6 : q[i].do = "clear" <=> i = 2
  BY <1>3
<1>7. Brackets(q, "unlock")
  BY <1>1, <1>5, <1>6 DEF Brackets
<1>8. Counted(q, "unlock", <<0, 0>>, FALSE) /\ Counted(q, "flash", <<0, 0>>, FALSE)
  <2>1. HasMain(q)
    BY <1>1, <1>5 DEF HasMain
  <2>2. ClearsFirst(q)
    BY <1>1, <1>5, <1>6 DEF ClearsFirst
  <2> QED
    BY <2>1, <2>2 DEF Counted
<1>9. Starts(q, "unlock", FALSE)
  <2>1. q \in Seq(Steps) /\ Len(q) > 0 /\ q[1].do = "open"
    BY <1>1, <1>2, <1>3
  <2>2. \A i \in 1..Len(q) : Rule(q, "unlock", FALSE, i)
    BY <1>1, <1>4
  <2> QED
    BY <2>1, <2>2, <1>7, <1>8, StartsIf
<1> QED
  BY <1>9 DEF q

LEMMA StartsRawUnlock ==
  ASSUME NEW m \in Names
  PROVE  Starts(<<Step("open", m), Step("clear", m), Step("unlock", m), Step("close", m)>>,
                "unlock", TRUE)
<1> DEFINE q == <<Step("open", m), Step("clear", m), Step("unlock", m), Step("close", m)>>
<1>0. m # "obd"
  BY SessionAssumption DEF Names
<1>1. Len(q) = 4 /\ q \in Seq(Steps)
  BY IsStep
<1>3. /\ q[1].do = "open" /\ q[2].do = "clear" /\ q[3].do = "unlock" /\ q[4].do = "close"
      /\ q[1].channel = m
  BY IsStep
<1> HIDE DEF q
<1>4. ASSUME NEW i \in 1..4 PROVE Rule(q, "unlock", TRUE, i)
  BY <1>0, <1>1, <1>3 DEF Rule, Acts, Main
<1>5. \A i \in 1..4 : Main(q[i]) <=> i = 3
  BY <1>3 DEF Main
<1>6. \A i \in 1..4 : q[i].do = "clear" <=> i = 2
  BY <1>3
<1>7. Brackets(q, "unlock")
  BY <1>1, <1>5, <1>6 DEF Brackets
<1>8. Counted(q, "unlock", <<0, 0>>, FALSE) /\ Counted(q, "flash", <<0, 0>>, FALSE)
  <2>1. HasMain(q)
    BY <1>1, <1>5 DEF HasMain
  <2>2. ClearsFirst(q)
    BY <1>1, <1>5, <1>6 DEF ClearsFirst
  <2> QED
    BY <2>1, <2>2 DEF Counted
<1>9. Starts(q, "unlock", TRUE)
  <2>1. q \in Seq(Steps) /\ Len(q) > 0 /\ q[1].do = "open"
    BY <1>1, <1>3
  <2>2. \A i \in 1..Len(q) : Rule(q, "unlock", TRUE, i)
    BY <1>1, <1>4
  <2> QED
    BY <2>1, <2>2, <1>7, <1>8, StartsIf
<1> QED
  BY <1>9 DEF q

LEMMA StartsReading ==
  ASSUME NEW m \in Names, NEW what \in {"immo", "read"}, NEW raw \in BOOLEAN
  PROVE  Starts(<<Step("open", m), Step(what, m), Step("close", m)>>, what, raw)
<1> DEFINE q == <<Step("open", m), Step(what, m), Step("close", m)>>
<1>0. m # "obd"
  BY SessionAssumption DEF Names
<1>1. Len(q) = 3 /\ q \in Seq(Steps)
  BY IsStep
<1>3. /\ q[1].do = "open" /\ q[2].do = what /\ q[3].do = "close"
      /\ q[1].channel = m /\ q[2].channel = m
  BY IsStep
<1> HIDE DEF q
<1>4. ASSUME NEW i \in 1..3 PROVE Rule(q, what, raw, i)
  <2>1. Triple(q, 1)
    BY <1>1, <1>3 DEF Triple, Acts
  <2> QED
    BY <2>1, <1>0, <1>1, <1>3 DEF Rule, Acts, Main
<1>5. \A i \in 1..3 : ~Main(q[i]) /\ q[i].do # "clear"
  BY <1>3 DEF Main
<1>6. Brackets(q, what) /\ Counted(q, what, <<0, 0>>, FALSE)
  BY <1>1, <1>5, NoMarks
<1>7. Starts(q, what, raw)
  <2>1. q \in Seq(Steps) /\ Len(q) > 0 /\ q[1].do = "open"
    BY <1>1, <1>3
  <2>2. \A i \in 1..Len(q) : Rule(q, what, raw, i)
    BY <1>1, <1>4
  <2> QED
    BY <2>1, <2>2, <1>6, StartsIf
<1> QED
  BY <1>7 DEF q

LEMMA ChannelList ==
  /\ Len(Channels) \in Nat /\ Len(Channels) > 0 /\ DOMAIN Channels = 1..Len(Channels)
  /\ \A i \in 1..Len(Channels) : Channels[i] \in Names /\ Channels[i] # "obd"
  /\ \A c \in Names : \E i \in 1..Len(Channels) : c = Channels[i]
<1>1. Channels \in Seq(STRING) /\ Channels # <<>> /\ "obd" \notin Range(Channels)
  BY SessionAssumption
<1>2. Len(Channels) \in Nat /\ Len(Channels) > 0 /\ DOMAIN Channels = 1..Len(Channels)
  BY <1>1
<1> QED
  BY <1>1, <1>2 DEF Names, Range

LEMMA ByThree ==
  /\ \A i \in Nat : (3 * i) \div 3 = i /\ (3 * i) % 3 = 0
  /\ \A i \in Nat : (3 * i + 1) \div 3 = i /\ (3 * i + 1) % 3 = 1
  /\ \A i \in Nat : (3 * i + 2) \div 3 = i /\ (3 * i + 2) % 3 = 2
  /\ \A n \in Nat : n \div 3 \in Nat /\ n = 3 * (n \div 3) + (n % 3) /\ n % 3 \in 0..2
  OBVIOUS

\* The three steps of each channel, and nothing else.
LEMMA EachOfThree ==
  /\ Len(ScanEach) = 3 * Len(Channels) /\ ScanEach \in Seq(Steps)
  /\ \A i \in 1..Len(Channels) :
       /\ ScanEach[3 * i - 2] = Step("open", Channels[i])
       /\ ScanEach[3 * i - 1] = Step("identify", Channels[i])
       /\ ScanEach[3 * i] = Step("close", Channels[i])
  /\ \A n \in 1..Len(ScanEach) :
       \E i \in 1..Len(Channels) : n = 3 * i - 2 \/ n = 3 * i - 1 \/ n = 3 * i
<1> DEFINE N == Len(Channels)
           words == <<"open", "identify", "close">>
           At(n) == Step(words[((n - 1) % 3) + 1], Channels[((n - 1) \div 3) + 1])
<1>0. /\ N \in Nat /\ N > 0
      /\ \A i \in 1..N : Channels[i] \in Names
  BY ChannelList
<1>1. ScanEach = [n \in 1..(3 * N) |-> At(n)]
  BY DEF ScanEach
<1>2. words[1] = "open" /\ words[2] = "identify" /\ words[3] = "close"
  OBVIOUS
<1> HIDE DEF words
<1>3. ASSUME NEW i \in 1..N
      PROVE  /\ At(3 * i - 2) = Step("open", Channels[i])
             /\ At(3 * i - 1) = Step("identify", Channels[i])
             /\ At(3 * i) = Step("close", Channels[i])
  <2> DEFINE h == i - 1
  <2>1. h \in Nat /\ i = h + 1
    BY <1>0
  <2>2. /\ (3 * i - 2) - 1 = 3 * h /\ (3 * i - 1) - 1 = 3 * h + 1 /\ 3 * i - 1 = 3 * h + 2
    BY <2>1
  <2>3. /\ (3 * h) \div 3 = h /\ (3 * h) % 3 = 0
        /\ (3 * h + 1) \div 3 = h /\ (3 * h + 1) % 3 = 1
        /\ (3 * h + 2) \div 3 = h /\ (3 * h + 2) % 3 = 2
    BY <2>1, ByThree
  <2> HIDE DEF h
  <2> QED
    BY <1>2, <2>1, <2>2, <2>3
<1>4. ASSUME NEW n \in 1..(3 * N)
      PROVE  \E i \in 1..N : n = 3 * i - 2 \/ n = 3 * i - 1 \/ n = 3 * i
  <2> DEFINE d == (n - 1) \div 3
             m == (n - 1) % 3
  <2>1. n - 1 \in Nat
    BY <1>0
  <2>2. d \in Nat /\ n - 1 = 3 * d + m /\ m \in 0..2
    BY <2>1, ByThree
  <2> HIDE DEF d, m
  <2>3. d + 1 \in 1..N /\ (n = 3 * (d + 1) - 2 \/ n = 3 * (d + 1) - 1 \/ n = 3 * (d + 1))
    BY <1>0, <2>2
  <2> QED
    BY <2>3
<1>5. \A i \in 1..N : 3 * i - 2 \in 1..(3 * N) /\ 3 * i - 1 \in 1..(3 * N) /\ 3 * i \in 1..(3 * N)
  BY <1>0
<1> HIDE DEF At
<1>6. \A n \in 1..(3 * N) : At(n) \in Steps
  <2> SUFFICES ASSUME NEW n \in 1..(3 * N) PROVE At(n) \in Steps
    OBVIOUS
  <2>1. PICK i \in 1..N : n = 3 * i - 2 \/ n = 3 * i - 1 \/ n = 3 * i
    BY <1>4
  <2>2. Channels[i] \in Names
    BY <1>0
  <2>3. \A do \in {"open", "identify", "close"} : Step(do, Channels[i]) \in Steps
    BY <2>2, IsStep
  <2> QED
    BY <1>3, <2>1, <2>3
<1>7. Len(ScanEach) = 3 * N /\ ScanEach \in Seq(Steps)
  <2>1. 3 * N \in Nat
    BY <1>0
  <2> QED
    BY <1>1, <1>6, <2>1
<1>8. \A n \in 1..(3 * N) : ScanEach[n] = At(n)
  BY <1>1
<1> QED
  BY <1>3, <1>4, <1>5, <1>7, <1>8

LEMMA StartsScanEach ==
  ASSUME NEW raw
  PROVE  Starts(ScanEach, "scan", raw) /\ Names \subseteq ToAsk(ScanEach)
<1> DEFINE q == ScanEach
           N == Len(Channels)
<1>0. N \in Nat /\ N > 0 /\ \A i \in 1..N : Channels[i] \in Names /\ Channels[i] # "obd"
  BY ChannelList
<1>1. /\ Len(q) = 3 * N /\ q \in Seq(Steps)
      /\ \A n \in 1..Len(q) : \E i \in 1..N : n = 3 * i - 2 \/ n = 3 * i - 1 \/ n = 3 * i
  BY EachOfThree
<1>2. ASSUME NEW i \in 1..N
      PROVE  /\ q[3 * i - 2].do = "open" /\ q[3 * i - 1].do = "identify" /\ q[3 * i].do = "close"
             /\ q[3 * i - 2].channel = Channels[i] /\ q[3 * i - 1].channel = Channels[i]
             /\ q[3 * i].channel = Channels[i]
  <2>1. /\ q[3 * i - 2] = Step("open", Channels[i])
        /\ q[3 * i - 1] = Step("identify", Channels[i])
        /\ q[3 * i] = Step("close", Channels[i])
    BY EachOfThree
  <2> HIDE DEF q
  <2> QED
    BY <2>1 DEF Step
<1> HIDE DEF q
<1>3. ASSUME NEW n \in 1..Len(q) PROVE Rule(q, "scan", raw, n) /\ ~Main(q[n]) /\ q[n].do # "clear"
  <2>1. PICK i \in 1..N : n = 3 * i - 2 \/ n = 3 * i - 1 \/ n = 3 * i
    BY <1>1
  <2>2. Channels[i] # "obd"
    BY <1>0
  <2>3. CASE n = 3 * i - 2
    <3>1. n + 1 = 3 * i - 1 /\ n + 2 = 3 * i /\ n + 2 <= Len(q) /\ n < Len(q)
      BY <1>0, <1>1, <2>3
    <3>2. /\ q[n].do = "open" /\ q[n + 1].do = "identify" /\ q[n + 2].do = "close"
          /\ q[n].channel = Channels[i] /\ q[n + 1].channel = Channels[i]
      BY <1>2, <2>3, <3>1
    <3>3. Triple(q, n)
      BY <3>1, <3>2 DEF Triple, Acts
    <3> QED
      BY <2>2, <3>1, <3>2, <3>3 DEF Rule, Acts, Main
  <2>4. CASE n = 3 * i - 1
    <3>1. n + 1 = 3 * i /\ n < Len(q)
      BY <1>0, <1>1, <2>4
    <3>2. q[n].do = "identify" /\ q[n + 1].do = "close" /\ q[n].channel = Channels[i]
      BY <1>2, <2>4, <3>1
    <3> QED
      BY <2>2, <3>1, <3>2 DEF Rule, Acts, Main
  <2>5. CASE n = 3 * i
    <3>1. q[n].do = "close" /\ q[n].channel = Channels[i]
      BY <1>2, <2>5
    <3>2. n < Len(q) => q[n + 1].do = "open"
      <4> SUFFICES ASSUME n < Len(q) PROVE q[n + 1].do = "open"
        OBVIOUS
      <4>1. i + 1 \in 1..N /\ n + 1 = 3 * (i + 1) - 2
        BY <1>0, <1>1, <2>5
      <4> QED
        BY <1>2, <4>1
    <3> QED
      BY <2>2, <3>1, <3>2 DEF Rule, Acts, Main
  <2> QED
    BY <2>1, <2>3, <2>4, <2>5
<1>4. Brackets(q, "scan") /\ Counted(q, "scan", <<0, 0>>, FALSE)
  BY <1>3, NoMarks
<1>5. Len(q) > 0 /\ q[1].do = "open"
  <2>1. 1 \in 1..N /\ 3 * 1 - 2 = 1
    BY <1>0
  <2>2. q[3 * 1 - 2].do = "open"
    BY <1>2, <2>1
  <2> QED
    BY <1>0, <1>1, <2>1, <2>2
<1>6. Starts(q, "scan", raw)
  <2>1. \A i \in 1..Len(q) : Rule(q, "scan", raw, i)
    BY <1>3
  <2> QED
    BY <1>1, <1>4, <1>5, <2>1, StartsIf
<1>7. ASSUME NEW c \in Names PROVE c \in ToAsk(q)
  <2>1. PICK i \in 1..N : c = Channels[i]
    BY ChannelList
  <2>2. 3 * i - 1 \in 1..Len(q) /\ q[3 * i - 1].do = "identify" /\ q[3 * i - 1].channel = c
    BY <1>0, <1>1, <1>2, <2>1
  <2> QED
    BY <2>2 DEF ToAsk
<1> QED
  BY <1>6, <1>7 DEF q

LEMMA StartsSharedScan ==
  Starts(SharedScan, "scan", TRUE) /\ Names \subseteq ToAsk(SharedScan)
<1> DEFINE q == SharedScan
           N == Len(Channels)
           first == <<Step("open", Channels[1])>>
           middle == [i \in DOMAIN Channels |-> Step("identify", Channels[i])]
           end == <<Step("close", Channels[1])>>
<1>0. /\ N \in Nat /\ N > 0 /\ DOMAIN Channels = 1..N
      /\ \A i \in 1..N : Channels[i] \in Names /\ Channels[i] # "obd"
  BY ChannelList
<1>1. /\ first \in Seq(Steps) /\ end \in Seq(Steps) /\ Len(first) = 1 /\ Len(end) = 1
      /\ first[1] = Step("open", Channels[1]) /\ end[1] = Step("close", Channels[1])
  BY <1>0, IsStep
<1>2. middle \in Seq(Steps) /\ Len(middle) = N
  <2>1. \A i \in 1..N : Step("identify", Channels[i]) \in Steps
    BY <1>0, IsStep
  <2> QED
    BY <1>0, <2>1
<1>3. \A i \in 1..N : middle[i] = Step("identify", Channels[i])
  BY <1>0
<1>4. q = first \o middle \o end
  BY DEF SharedScan
<1> HIDE DEF q, first, middle, end, N
<1>5. /\ q \in Seq(Steps) /\ Len(q) = N + 2
      /\ q[1] = first[1] /\ q[N + 2] = end[1]
      /\ \A i \in 2..(N + 1) : q[i] = middle[i - 1]
  <2> DEFINE front == first \o middle
  <2>1. /\ front \in Seq(Steps) /\ Len(front) = N + 1
        /\ front[1] = first[1] /\ \A i \in 2..(N + 1) : front[i] = middle[i - 1]
    <3>1. /\ first \o middle \in Seq(Steps) /\ Len(first \o middle) = Len(first) + Len(middle)
          /\ \A i \in 1..(Len(first) + Len(middle)) :
               (first \o middle)[i] = IF i <= Len(first) THEN first[i] ELSE middle[i - Len(first)]
      BY <1>1, <1>2, ConcatProperties
    <3>2. Len(first) + Len(middle) = N + 1 /\ 1 \in 1..(N + 1)
      BY <1>0, <1>1, <1>2
    <3>3. \A i \in 2..(N + 1) : i \in 1..(N + 1) /\ ~(i <= 1)
      BY <1>0
    <3> QED
      BY <1>1, <3>1, <3>2, <3>3
  <2>2. q = front \o end
    BY <1>4
  <2> HIDE DEF front
  <2>3. /\ q \in Seq(Steps) /\ Len(q) = N + 2
        /\ \A i \in 1..(N + 1) : q[i] = front[i]
        /\ q[N + 2] = end[1]
    <3>1. /\ front \o end \in Seq(Steps) /\ Len(front \o end) = Len(front) + Len(end)
          /\ \A i \in 1..(Len(front) + Len(end)) :
               (front \o end)[i] = IF i <= Len(front) THEN front[i] ELSE end[i - Len(front)]
      BY <1>1, <2>1, ConcatProperties
    <3>2. /\ Len(front) + Len(end) = N + 2 /\ N + 2 \in 1..(N + 2) /\ ~(N + 2 <= N + 1)
          /\ (N + 2) - (N + 1) = 1
      BY <1>0, <1>1, <2>1
    <3>3. \A i \in 1..(N + 1) : i \in 1..(N + 2) /\ i <= N + 1
      BY <1>0
    <3> QED
      BY <2>1, <2>2, <3>1, <3>2, <3>3
  <2>4. 1 \in 1..(N + 1) /\ \A i \in 2..(N + 1) : i \in 1..(N + 1)
    BY <1>0
  <2> QED
    BY <2>1, <2>3, <2>4
<1>6. /\ q[1].do = "open" /\ q[1].channel = Channels[1]
      /\ q[N + 2].do = "close" /\ q[N + 2].channel = Channels[1]
  BY <1>1, <1>5 DEF Step
<1>7. ASSUME NEW i \in 2..(N + 1)
      PROVE  q[i].do = "identify" /\ q[i].channel = Channels[i - 1]
  <2>1. i - 1 \in 1..N
    BY <1>0
  <2>2. q[i] = middle[i - 1]
    BY <1>5
  <2>3. middle[i - 1] = Step("identify", Channels[i - 1])
    BY <1>3, <2>1
  <2> QED
    BY <2>2, <2>3 DEF Step
<1>8. ASSUME NEW n \in 1..Len(q) PROVE Rule(q, "scan", TRUE, n) /\ ~Main(q[n]) /\ q[n].do # "clear"
  <2>1. 1 \in 1..N
    BY <1>0
  <2>2. CASE n = 1
    <3>1. q[n + 1].do = "identify" /\ n < Len(q)
      BY <1>0, <1>5, <1>7, <2>2
    <3> QED
      BY <1>0, <1>6, <2>1, <2>2, <3>1 DEF Rule, Acts, Main, q
  <2>3. CASE n \in 2..(N + 1)
    <3>1. n < Len(q) /\ n + 1 \in 2..(N + 2) /\ n - 1 \in 1..N
      BY <1>0, <1>5, <2>3
    <3>2. q[n + 1].do \in {"identify", "close"}
      BY <1>0, <1>6, <1>7, <3>1
    <3>3. q[n].channel # "obd" /\ q[n].do = "identify"
      BY <1>0, <1>7, <2>3, <3>1
    <3> QED
      BY <3>1, <3>2, <3>3 DEF Rule, Acts, Main
  <2>4. CASE n = N + 2
    <3>1. ~(n < Len(q))
      BY <1>0, <1>5, <2>4
    <3> QED
      BY <1>0, <1>6, <2>1, <2>4, <3>1 DEF Rule, Acts, Main
  <2>5. n \in 1..(N + 2) /\ N \in Nat
    BY <1>0, <1>5
  <2>6. n = 1 \/ n \in 2..(N + 1) \/ n = N + 2
    BY <2>5
  <2> QED
    BY <2>2, <2>3, <2>4, <2>6
<1>9. Brackets(q, "scan") /\ Counted(q, "scan", <<0, 0>>, FALSE)
  BY <1>8, NoMarks
<1>10. Starts(q, "scan", TRUE)
  <2>1. \A i \in 1..Len(q) : Rule(q, "scan", TRUE, i)
    BY <1>8
  <2>2. Len(q) > 0
    BY <1>0, <1>5
  <2> QED
    BY <1>5, <1>6, <1>9, <2>1, <2>2, StartsIf
<1>11. ASSUME NEW c \in Names PROVE c \in ToAsk(q)
  <2>1. PICK i \in 1..N : c = Channels[i]
    BY ChannelList DEF N
  <2>2. i + 1 \in 2..(N + 1) /\ i + 1 \in 1..Len(q) /\ (i + 1) - 1 = i
    BY <1>0, <1>5
  <2>3. q[i + 1].do = "identify" /\ q[i + 1].channel = c
    BY <1>7, <2>1, <2>2
  <2> QED
    BY <2>2, <2>3 DEF ToAsk
<1> QED
  BY <1>10, <1>11 DEF q

\* The calls as they are for the interface at hand.
LEMMA CallStarts ==
  ASSUME NEW what \in {"scan", "unlock", "immo", "read", "flash"}, NEW m \in Names
  PROVE  Starts(StepsOf(what, m), what, supports_raw_can)
<1>1. CASE what = "scan"
  <2>1. CASE supports_raw_can
    <3>1. StepsOf(what, m) = SharedScan
      BY <1>1, <2>1 DEF StepsOf, Scan, shares_one_session, SharedScan
    <3>2. supports_raw_can = TRUE
      BY <2>1 DEF supports_raw_can
    <3> QED
      BY <1>1, <3>1, <3>2, StartsSharedScan
  <2>2. CASE ~supports_raw_can
    <3>1. StepsOf(what, m) = ScanEach
      BY <1>1, <2>2 DEF StepsOf, Scan, shares_one_session
    <3> QED
      BY <1>1, <3>1, StartsScanEach
  <2> QED
    BY <2>1, <2>2
<1>2. CASE what = "flash"
  <2>1. CASE supports_raw_can
    <3>1. StepsOf(what, m) = <<Step("open", m), Step("clear", m), Step("flash", m),
                               Step("clear", m), Step("close", m)>>
      BY <1>2, <2>1 DEF StepsOf, FlashBlocks, obd_clear_needs_own_device
    <3>2. supports_raw_can = TRUE
      BY <2>1 DEF supports_raw_can
    <3> QED
      BY <1>2, <3>1, <3>2, StartsRawFlash
  <2>2. CASE ~supports_raw_can
    <3>1. StepsOf(what, m)
            = OwnClear \o <<Step("open", m), Step("flash", m), Step("close", m)>> \o OwnClear
      BY <1>2, <2>2 DEF StepsOf, FlashBlocks, obd_clear_needs_own_device
    <3>2. supports_raw_can = FALSE
      BY <2>2 DEF supports_raw_can
    <3> QED
      BY <1>2, <3>1, <3>2, StartsNativeFlash
  <2> QED
    BY <2>1, <2>2
<1>3. CASE what = "unlock"
  <2>1. CASE supports_raw_can
    <3>1. StepsOf(what, m) = <<Step("open", m), Step("clear", m), Step("unlock", m),
                               Step("close", m)>>
      BY <1>3, <2>1 DEF StepsOf, Probe, obd_clear_needs_own_device
    <3>2. supports_raw_can = TRUE
      BY <2>1 DEF supports_raw_can
    <3> QED
      BY <1>3, <3>1, <3>2, StartsRawUnlock
  <2>2. CASE ~supports_raw_can
    <3>1. StepsOf(what, m)
            = OwnClear \o <<Step("open", m), Step("unlock", m), Step("close", m)>>
      BY <1>3, <2>2 DEF StepsOf, Probe, obd_clear_needs_own_device
    <3>2. supports_raw_can = FALSE
      BY <2>2 DEF supports_raw_can
    <3> QED
      BY <1>3, <3>1, <3>2, StartsNativeUnlock
  <2> QED
    BY <2>1, <2>2
<1>4. CASE what \in {"immo", "read"}
  <2>1. StepsOf(what, m) = <<Step("open", m), Step(what, m), Step("close", m)>>
    BY <1>4 DEF StepsOf, Probe
  <2>2. supports_raw_can \in BOOLEAN
    BY DEF supports_raw_can
  <2> QED
    BY <1>4, <2>1, <2>2, StartsReading
<1> QED
  BY <1>1, <1>2, <1>3, <1>4

-----------------------------------------------------------------------------
(***************************************************************************)
(* One task moves.                                                         *)
(***************************************************************************)
\* What is known of a task at its next step.
LEMMA AtStep ==
  ASSUME Inv, NEW s \in Tasks, NEW do, Doing(s, do)
  PROVE  /\ steps[s] \in Seq(Steps) /\ steps[s] # <<>> /\ Len(steps[s]) \in Nat
         /\ 1 \in 1..Len(steps[s])
         /\ steps[s][1].do = do /\ Channel(s) = steps[s][1].channel
         /\ Channel(s) \in Names \cup {"obd"} /\ Channel(s) # None
         /\ Plan(steps[s], call[s], supports_raw_can) /\ Brackets(steps[s], call[s])
         /\ Rule(steps[s], call[s], supports_raw_can, 1)
         /\ Counted(steps[s], call[s], clears[s], failed[s])
         /\ call[s] # "none"
<1>1. steps[s] \in Seq(Steps) /\ steps[s] # <<>> /\ Head(steps[s]).do = do
  BY DEF Inv, TypeInv, Doing
<1>2. Len(steps[s]) \in Nat /\ 1 \in 1..Len(steps[s]) /\ Head(steps[s]) = steps[s][1]
  BY <1>1
<1>3. steps[s][1] \in Steps
  BY <1>1, <1>2
<1>4. Channel(s) = steps[s][1].channel /\ Channel(s) \in Names \cup {"obd"}
  BY <1>2, <1>3 DEF Channel, Steps
<1>5. None \notin Names \cup {"obd"}
  BY SessionAssumption DEF Names
<1>6. /\ Plan(steps[s], call[s], supports_raw_can) /\ Brackets(steps[s], call[s])
      /\ call[s] # "none"
      /\ Counted(steps[s], call[s], clears[s], failed[s])
  BY <1>1 DEF Inv, Planned, Numbered
<1>7. Rule(steps[s], call[s], supports_raw_can, 1)
  BY <1>2, <1>6 DEF Plan
<1> QED
  BY <1>1, <1>2, <1>4, <1>5, <1>6, <1>7

LEMMA TailPlan ==
  ASSUME NEW q \in Seq(Steps), q # <<>>, NEW what, NEW raw,
         Plan(q, what, raw), Brackets(q, what)
  PROVE  /\ Tail(q) \in Seq(Steps)
         /\ Plan(Tail(q), what, raw) /\ Brackets(Tail(q), what)
         /\ Tail(q) # <<>> <=> 1 < Len(q)
         /\ 1 < Len(q) => Tail(q)[1] = q[2]
<1>1. SuffixOf(Tail(q), q, 2)
  BY TailSuffix
<1>2. Plan(Tail(q), what, raw) /\ Brackets(Tail(q), what)
  BY <1>1, SuffixPlan, SuffixBrackets
<1>3. Tail(q) \in Seq(Steps) /\ (Tail(q) # <<>> <=> 1 < Len(q)) /\ (1 < Len(q) => Tail(q)[1] = q[2])
  OBVIOUS
<1> QED
  BY <1>2, <1>3

\* The others stay as they are.
LEMMA OneCall ==
  ASSUME Inv, NEW s \in Tasks, interface' = interface,
         \A t \in Tasks \ {s} :
           /\ call'[t] = call[t]
           /\ steps'[t] = steps[t] /\ connection'[t] = connection[t]
           /\ t \in teardown' <=> t \in teardown
           /\ clears'[t] = clears[t] /\ failed'[t] = failed[t],
         Plan(steps'[s], call'[s], supports_raw_can), Brackets(steps'[s], call'[s]),
         Counted(steps'[s], call'[s], clears'[s], failed'[s]),
         call'[s] = "none" => steps'[s] = <<>>,
         (connection'[s] # None)
           <=> (steps'[s] # <<>> /\ (Acts(steps'[s][1]) \/ steps'[s][1].do = "close")),
         (s \in teardown') <=> (steps'[s] # <<>> /\ steps'[s][1].do = "join"),
         connection'[s] # None /\ ~supports_raw_can /\ Acts(steps'[s][1]) =>
           connection'[s] = steps'[s][1].channel
  PROVE  (Planned /\ Connected /\ Numbered)'
<1>1. supports_raw_can' <=> supports_raw_can
  BY DEF supports_raw_can
<1>2. Planned'
  <2> SUFFICES ASSUME NEW t \in Tasks
               PROVE  /\ Plan(steps'[t], call'[t], supports_raw_can')
                      /\ Brackets(steps'[t], call'[t])
                      /\ call'[t] = "none" => steps'[t] = <<>>
    BY DEF Planned
  <2>1. CASE t = s
    <3>1. Plan(steps'[s], call'[s], supports_raw_can')
      BY <1>1 DEF Plan, Rule
    <3> QED
      BY <2>1, <3>1
  <2>2. CASE t # s
    <3>1. /\ Plan(steps[t], call[t], supports_raw_can) /\ Brackets(steps[t], call[t])
          /\ call[t] = "none" => steps[t] = <<>>
          /\ steps'[t] = steps[t] /\ call'[t] = call[t]
      BY <2>2 DEF Inv, Planned
    <3>2. Plan(steps[t], call[t], supports_raw_can')
      BY <1>1, <3>1 DEF Plan, Rule
    <3> QED
      BY <3>1, <3>2
  <2> QED
    BY <2>1, <2>2
<1>3. Connected'
  BY <1>1 DEF Inv, Connected
<1>4. Numbered'
  <2> SUFFICES ASSUME NEW t \in Tasks
               PROVE  Counted(steps'[t], call'[t], clears'[t], failed'[t])
    BY DEF Numbered
  <2>1. CASE t = s
    BY <2>1
  <2>2. CASE t # s
    <3>1. Counted(steps[t], call[t], clears[t], failed[t])
      BY DEF Inv, Numbered
    <3> QED
      BY <2>2, <3>1
  <2> QED
    BY <2>1, <2>2
<1> QED
  BY <1>2, <1>3, <1>4

LEMMA OneTask ==
  ASSUME Inv, NEW s \in Tasks, call' = call, interface' = interface,
         \A t \in Tasks \ {s} :
           /\ steps'[t] = steps[t] /\ connection'[t] = connection[t]
           /\ t \in teardown' <=> t \in teardown
           /\ clears'[t] = clears[t] /\ failed'[t] = failed[t],
         Plan(steps'[s], call[s], supports_raw_can), Brackets(steps'[s], call[s]),
         Counted(steps'[s], call[s], clears'[s], failed'[s]),
         call[s] # "none",
         (connection'[s] # None)
           <=> (steps'[s] # <<>> /\ (Acts(steps'[s][1]) \/ steps'[s][1].do = "close")),
         (s \in teardown') <=> (steps'[s] # <<>> /\ steps'[s][1].do = "join"),
         connection'[s] # None /\ ~supports_raw_can /\ Acts(steps'[s][1]) =>
           connection'[s] = steps'[s][1].channel
  PROVE  (Planned /\ Connected /\ Numbered)'
  BY OneCall

LEMMA StillCovered ==
  ASSUME Covered, call' = call, found' = found, Fitted' = Fitted, excused \subseteq excused',
         call["front"] = "scan" =>
           ToAsk(steps["front"]) \subseteq ToAsk(steps'["front"]) \cup excused'
  PROVE  Covered'
  BY DEF Covered

LEMMA SameFitted ==
  ASSUME ecu' = ecu
  PROVE  Fitted' = Fitted
  BY DEF Fitted
-----------------------------------------------------------------------------
(***************************************************************************)
(* The steps of a task.                                                    *)
(***************************************************************************)
LEMMA OpenSucceeds ==
  ASSUME Inv, NEW s \in Tasks, Open(s), Openable(s),
         connection' = [connection EXCEPT ![s] = Channel(s)], Proceed(s),
         UNCHANGED <<failed, excused, clears, blocked>>
  PROVE  Inv'
<1> DEFINE q == steps[s]
           r == Tail(q)
<1>1. Doing(s, "open") /\ UNCHANGED <<interface, exclusive, ecu, call, teardown, found, last, postcheck>>
  BY DEF Open
<1>2. /\ q \in Seq(Steps) /\ q # <<>> /\ Len(q) \in Nat
      /\ q[1].do = "open" /\ Channel(s) = q[1].channel
      /\ Channel(s) \in Names \cup {"obd"} /\ Channel(s) # None
      /\ Plan(q, call[s], supports_raw_can) /\ Brackets(q, call[s])
      /\ Rule(q, call[s], supports_raw_can, 1) /\ Counted(q, call[s], clears[s], failed[s])
      /\ call[s] # "none"
  BY <1>1, AtStep
<1>3. /\ r \in Seq(Steps) /\ Plan(r, call[s], supports_raw_can) /\ Brackets(r, call[s])
      /\ (r # <<>> <=> 1 < Len(q)) /\ (1 < Len(q) => r[1] = q[2])
  BY <1>2, TailPlan
<1>4. Counted(r, call[s], clears[s], failed[s]) /\ ToAsk(r) = ToAsk(q)
  <2>1. q[1].do # "clear" /\ ~Main(q[1]) /\ q[1].do # "identify"
    BY <1>2 DEF Main
  <2>2. ToAsk(r) = ToAsk(q)
    BY <1>2, <2>1, SuffixMarks
  <2> QED
    BY <1>2, <2>1, <2>2, NeutralStep
<1>5. steps' = [steps EXCEPT ![s] = r]
  BY DEF Proceed
<1>6. r # <<>> /\ Acts(r[1]) /\ (~supports_raw_can => r[1].channel = Channel(s))
  <2>1. 1 < Len(q) /\ Acts(q[2])
    BY <1>2 DEF Rule
  <2>2. ~supports_raw_can => q[2].channel = q[1].channel
    BY <1>2 DEF Rule, Triple
  <2> QED
    BY <1>2, <1>3, <2>1, <2>2
<1>7. s \notin teardown
  BY <1>2 DEF Inv, Connected
<1>8. DOMAIN steps = Tasks /\ DOMAIN connection = Tasks
  BY DEF Inv, TypeInv
<1> HIDE DEF q, r
<1>9. steps'[s] = r /\ connection'[s] = Channel(s)
      /\ \A t \in Tasks \ {s} : steps'[t] = steps[t] /\ connection'[t] = connection[t]
  BY <1>5, <1>8
<1>10. r[1].do # "join"
  BY <1>6 DEF Acts
<1>11. (Planned /\ Connected /\ Numbered)'
  BY <1>1, <1>2, <1>3, <1>4, <1>6, <1>7, <1>9, <1>10, OneTask
<1>12. TypeInv'
  <2>1. steps' \in [Tasks -> Seq(Steps)]
    BY <1>3, <1>5 DEF Inv, TypeInv
  <2>2. connection' \in [Tasks -> Names \cup {"obd", None}]
    BY <1>2 DEF Inv, TypeInv
  <2> QED
    BY <1>1, <2>1, <2>2 DEF Inv, TypeInv
<1>13. Covered'
  <2>1. ToAsk(steps["front"]) \subseteq ToAsk(steps'["front"])
    BY <1>4, <1>9 DEF q, Tasks
  <2> QED
    BY <1>1, <2>1, SameFitted, StillCovered DEF Inv
<1>14. NeverInOwnWay'
  BY DEF Inv, NeverInOwnWay
<1> QED
  BY <1>11, <1>12, <1>13, <1>14 DEF Inv

LEMMA OneOff ==
  ASSUME NEW q \in Seq(Steps), NEW n \in Nat, Len(q) = n + 1
  PROVE  /\ q # <<>> /\ Tail(q) \in Seq(Steps) /\ Len(Tail(q)) = n
         /\ \A i \in 1..n : Tail(q)[i] = q[i + 1]
<1>1. q # <<>>
  OBVIOUS
<1>2. /\ Tail(q) \in Seq(Steps) /\ Len(Tail(q)) = Len(q) - 1
      /\ \A i \in 1..(Len(q) - 1) : Tail(q)[i] = q[i + 1]
  BY <1>1
<1> QED
  BY <1>1, <1>2

\* A connection that is passed over.
LEMMA Skipped ==
  ASSUME NEW q \in Seq(Steps), Len(q) >= 3, q[1].do = "open", q[3].do = "close",
         Triple(q, 1), NEW what, NEW raw, Plan(q, what, raw), Brackets(q, what)
  PROVE  LET r == SubSeq(q, 4, Len(q)) IN
         /\ r \in Seq(Steps) /\ Plan(r, what, raw) /\ Brackets(r, what)
         /\ r # <<>> => r[1].do = "open"
         /\ ToAsk(q) \subseteq ToAsk(r) \cup {q[1].channel}
         /\ r = Tail(Tail(Tail(q)))
<1> DEFINE r == SubSeq(q, 4, Len(q))
<1>1. SuffixOf(r, q, 4)
  BY SkipSuffix
<1>2. /\ Len(q) \in Nat /\ r \in Seq(Steps) /\ Len(r) = Len(q) - 3
      /\ \A i \in 1..Len(r) : r[i] = q[i + 3]
  <2>1. Len(r) = Len(q) + 1 - 4 /\ r \in Seq(Steps) /\ Len(q) \in Nat
        /\ \A i \in 1..Len(r) : r[i] = q[i + (4 - 1)]
    BY <1>1 DEF SuffixOf
  <2> HIDE DEF r
  <2> QED
    BY <2>1
<1> HIDE DEF r
<1>3. Plan(r, what, raw) /\ Brackets(r, what)
  BY <1>1, SuffixPlan, SuffixBrackets
<1>4. r # <<>> => r[1].do = "open"
  <2> SUFFICES ASSUME r # <<>> PROVE r[1].do = "open"
    OBVIOUS
  <2>1. Len(r) \in Nat /\ Len(r) >= 1
    BY <1>2
  <2>2. 3 < Len(q) /\ r[1] = q[4] /\ 3 \in 1..Len(q)
    BY <1>2, <2>1
  <2>3. Rule(q, what, raw, 3)
    BY <2>2 DEF Plan
  <2> QED
    BY <2>2, <2>3 DEF Rule
<1>5. ASSUME NEW c \in ToAsk(q) PROVE c \in ToAsk(r) \/ c = q[1].channel
  <2>1. PICK j \in 1..Len(q) : q[j].do = "identify" /\ c = q[j].channel
    BY DEF ToAsk
  <2>2. j # 1 /\ j # 3
    BY <2>1
  <2>3. CASE j = 2
    BY <2>1, <2>3 DEF Triple
  <2>4. CASE j # 2
    <3>1. j - 3 \in 1..Len(r) /\ r[j - 3] = q[j]
      BY <1>2, <2>1, <2>2, <2>4
    <3> QED
      BY <2>1, <3>1 DEF ToAsk
  <2> QED
    BY <2>3, <2>4
<1>6. r = Tail(Tail(Tail(q)))
  <2> DEFINE z == Tail(Tail(Tail(q)))
             n == Len(q) - 3
  <2>1. n \in Nat /\ Len(q) = (n + 2) + 1 /\ n + 2 \in Nat /\ n + 1 \in Nat /\ n + 2 = (n + 1) + 1
    <3>1. \A l \in Nat : l >= 3 => l - 3 \in Nat /\ l = ((l - 3) + 2) + 1
      OBVIOUS
    <3>2. n \in Nat /\ Len(q) = (n + 2) + 1
      BY <1>2, <3>1
    <3> HIDE DEF n
    <3> QED
      BY <3>2
  <2> HIDE DEF n
  <2>2. /\ Tail(q) \in Seq(Steps) /\ Len(Tail(q)) = (n + 1) + 1
        /\ \A i \in 1..(n + 2) : Tail(q)[i] = q[i + 1]
    BY <2>1, OneOff
  <2>3. /\ Tail(Tail(q)) \in Seq(Steps) /\ Len(Tail(Tail(q))) = n + 1
        /\ \A i \in 1..(n + 1) : Tail(Tail(q))[i] = Tail(q)[i + 1]
    BY <2>1, <2>2, OneOff
  <2>4. /\ z \in Seq(Steps) /\ Len(z) = n
        /\ \A i \in 1..n : z[i] = Tail(Tail(q))[i + 1]
    BY <2>1, <2>3, OneOff
  <2> HIDE DEF z
  <2>5. Len(r) = n
    BY <1>2, <2>1
  <2>6. ASSUME NEW i \in 1..n PROVE z[i] = r[i]
    <3>1. i + 1 \in 1..(n + 1) /\ (i + 1) + 1 \in 1..(n + 2) /\ ((i + 1) + 1) + 1 = i + 3
      BY <2>1
    <3>2. z[i] = q[((i + 1) + 1) + 1]
      BY <2>2, <2>3, <2>4, <3>1
    <3> QED
      BY <1>2, <2>5, <3>1, <3>2
  <2>7. r = z
    BY <1>2, <2>4, <2>5, <2>6, SeqEqual
  <2> QED
    BY <2>7 DEF z
<1> QED
  BY <1>2, <1>3, <1>4, <1>5, <1>6 DEF r
LEMMA NothingLeft ==
  ASSUME NEW what, NEW raw
  PROVE  /\ Plan(<<>>, what, raw) /\ Brackets(<<>>, what)
         /\ \A n : Counted(<<>>, what, n, TRUE)
<1>1. Len(<<>>) = 0 /\ <<>> \in Seq(Steps)
  OBVIOUS
<1>2. \A i \in 1..Len(<<>>) : FALSE
  BY <1>1
<1> QED
  BY <1>1, <1>2 DEF Plan, Brackets, Counted, HasMain

\* Calls that neither flash nor unlock have nothing to count.
LEMMA NotCounted ==
  ASSUME NEW q, NEW what, NEW raw, Plan(q, what, raw), what \notin {"flash", "unlock"}
  PROVE  \A n, bad : Counted(q, what, n, bad)
  BY DEF Plan, Rule, Counted, HasMain

LEMMA ScanAsks ==
  ASSUME NEW q, NEW raw, Plan(q, "scan", raw)
  PROVE  ToAsk(q) \subseteq Names
<1> SUFFICES ASSUME NEW c \in ToAsk(q) PROVE c \in Names
  OBVIOUS
<1>1. PICK j \in 1..Len(q) : c = q[j].channel
  BY DEF ToAsk
<1>2. q[j] \in Steps
  BY DEF Plan
<1>3. q[j].channel # "obd"
  BY DEF Plan, Rule
<1> QED
  BY <1>1, <1>2, <1>3 DEF Steps

LEMMA OpenFails ==
  ASSUME Inv, NEW s \in Tasks, Doing(s, "open"),
         blocked' = IF exclusive THEN blocked \cup {<<s, t>> : t \in Holders} ELSE blocked,
         steps' = [steps EXCEPT ![s] = AfterFailedOpen(s)],
         failed' = [failed EXCEPT ![s] = @ \/ (AfterFailedOpen(s) = <<>> /\ Channel(s) # "obd")],
         excused' = IF call[s] = "scan" /\ AfterFailedOpen(s) # ScanEach
                    THEN excused \cup {Channel(s)} ELSE excused,
         clears' = CountClear(s, Channel(s)),
         UNCHANGED connection,
         UNCHANGED <<interface, exclusive, ecu, call, teardown, found, last, postcheck>>
  PROVE  Inv'
<1> DEFINE q == steps[s]
           r == AfterFailedOpen(s)
<1>1. /\ q \in Seq(Steps) /\ q # <<>> /\ Len(q) \in Nat
      /\ q[1].do = "open" /\ Channel(s) = q[1].channel
      /\ Channel(s) \in Names \cup {"obd"} /\ Channel(s) # None
      /\ Plan(q, call[s], supports_raw_can) /\ Brackets(q, call[s])
      /\ Rule(q, call[s], supports_raw_can, 1) /\ Counted(q, call[s], clears[s], failed[s])
      /\ call[s] # "none"
  BY AtStep
<1>2. /\ DOMAIN steps = Tasks /\ DOMAIN failed = Tasks /\ DOMAIN clears = Tasks
      /\ failed[s] \in BOOLEAN
  BY DEF Inv, TypeInv
<1>3. connection[s] = None /\ s \notin teardown
  <2>1. ~(Acts(q[1]) \/ q[1].do = "close") /\ q[1].do # "join"
    BY <1>1 DEF Acts
  <2> QED
    BY <2>1 DEF Inv, Connected
<1>4. Triple(q, 1) => Len(q) >= 3 /\ q[3].do = "close" /\ q[2].channel = q[1].channel
  BY <1>1 DEF Triple
<1>5. /\ r \in Seq(Steps) /\ Plan(r, call[s], supports_raw_can) /\ Brackets(r, call[s])
      /\ r # <<>> => r[1].do = "open"
      /\ Counted(r, call[s], clears'[s], failed'[s])
      /\ call[s] = "scan" => ToAsk(q) \subseteq ToAsk(r) \cup excused'
  <2>1. CASE Channel(s) = "obd"
    <3>2. Triple(q, 1) /\ q[2].do = "clear" /\ call[s] # "scan"
      BY <1>1, <2>1 DEF Rule
    <3>1. r = SubSeq(q, 4, Len(q))
      BY <2>1, <3>2 DEF AfterFailedOpen
    <3>3. /\ r \in Seq(Steps) /\ Plan(r, call[s], supports_raw_can) /\ Brackets(r, call[s])
          /\ r # <<>> => r[1].do = "open"
          /\ r = Tail(Tail(Tail(q)))
      <4> HIDE DEF q, r
      <4>1. Len(q) >= 3 /\ q[3].do = "close"
        BY <1>4, <3>2
      <4> DEFINE z == SubSeq(q, 4, Len(q))
      <4>2. /\ z \in Seq(Steps) /\ Plan(z, call[s], supports_raw_can) /\ Brackets(z, call[s])
            /\ z # <<>> => z[1].do = "open"
            /\ z = Tail(Tail(Tail(q)))
        BY <1>1, <3>2, <4>1, Skipped
      <4> QED
        BY <3>1, <4>2
    <3> HIDE DEF r
    <3>4. failed'[s] = failed[s]
      BY <1>2, <2>1
    <3>5. clears'[s] = IF HasMain(q) THEN <<clears[s][1] + 1, clears[s][2]>>
                                     ELSE <<clears[s][1], clears[s][2] + 1>>
      <4>1. DOMAIN q = 1..Len(q)
        BY <1>1
      <4>2. (\E i \in DOMAIN q : q[i].do \in {"flash", "unlock"}) <=> HasMain(q)
        BY <4>1 DEF HasMain, Main
      <4> HIDE DEF q
      <4> QED
        BY <1>2, <2>1, <4>2 DEF CountClear, q
    <3>6. PICK n \in Nat : Len(q) = ((n + 1) + 1) + 1
      <4>1. \A l \in Nat : l >= 3 => l - 3 \in Nat /\ l = (((l - 3) + 1) + 1) + 1
        OBVIOUS
      <4> QED
        BY <1>1, <1>4, <3>2, <4>1
    <3>7. /\ Tail(q) \in Seq(Steps) /\ Tail(q) # <<>> /\ Tail(q)[1] = q[2]
          /\ Tail(Tail(q)) \in Seq(Steps) /\ Tail(Tail(q)) # <<>> /\ Tail(Tail(q))[1] = q[3]
      <4>1. /\ Tail(q) \in Seq(Steps) /\ Len(Tail(q)) = (n + 1) + 1
            /\ \A i \in 1..((n + 1) + 1) : Tail(q)[i] = q[i + 1]
        BY <1>1, <3>6, OneOff
      <4>2. /\ Tail(q) # <<>>
            /\ Tail(Tail(q)) \in Seq(Steps) /\ Len(Tail(Tail(q))) = n + 1
            /\ \A i \in 1..(n + 1) : Tail(Tail(q))[i] = Tail(q)[i + 1]
        <5>1. n + 1 \in Nat
          OBVIOUS
        <5> HIDE DEF q
        <5> QED
          BY <4>1, <5>1, OneOff
      <4>3. Tail(Tail(q)) # <<>>
        BY <4>2, OneOff
      <4>4. Tail(q)[1] = q[1 + 1] /\ Tail(q)[2] = q[2 + 1]
        BY <4>1
      <4>5. Tail(Tail(q))[1] = Tail(q)[1 + 1]
        BY <4>2
      <4>6. 1 + 1 = 2 /\ 2 + 1 = 3
        OBVIOUS
      <4> HIDE DEF q
      <4> QED
        BY <4>1, <4>2, <4>3, <4>4, <4>5, <4>6
    <3>8. q[1].do # "clear" /\ ~Main(q[1]) /\ ~Main(q[3]) /\ q[3].do # "clear"
      BY <1>1, <1>4, <3>2 DEF Main
    <3>9. Counted(Tail(q), call[s], clears[s], failed[s]) /\ Brackets(Tail(q), call[s])
      BY <1>1, <3>8, NeutralStep, TailPlan
    <3>10. HasMain(q) <=> HasMain(Tail(q))
      BY <1>1, <3>8, SuffixMarks
    <3>11. Counted(Tail(Tail(q)), call[s], clears'[s], failed[s])
      <4>1. /\ HasMain(Tail(q)) => clears'[s] = <<clears[s][1] + 1, clears[s][2]>>
            /\ ~HasMain(Tail(q)) => clears'[s] = <<clears[s][1], clears[s][2] + 1>>
        BY <3>5, <3>10
      <4> QED
        BY <3>2, <3>7, <3>9, <4>1, ClearStep
    <3>12. Counted(r, call[s], clears'[s], failed'[s])
      BY <3>3, <3>4, <3>7, <3>8, <3>11, NeutralStep
    <3> QED
      BY <3>2, <3>3, <3>12
  <2>2. CASE Channel(s) # "obd" /\ call[s] = "scan" /\ q = Scan /\ shares_one_session
    <3>1. r = ScanEach
      BY <2>2 DEF AfterFailedOpen
    <3> HIDE DEF r
    <3>2. /\ Plan(r, "scan", supports_raw_can) /\ Brackets(r, "scan") /\ r[1].do = "open"
          /\ Names \subseteq ToAsk(r)
      BY <3>1, StartsScanEach DEF Starts
    <3>3. r \in Seq(Steps)
      BY <3>2 DEF Plan
    <3>4. Counted(r, "scan", clears'[s], failed'[s])
      BY <3>2, NotCounted
    <3>5. ToAsk(q) \subseteq Names
      BY <1>1, <2>2, ScanAsks
    <3> QED
      BY <2>2, <3>2, <3>3, <3>4, <3>5
  <2>3. CASE Channel(s) # "obd" /\ call[s] = "scan" /\ ~(q = Scan /\ shares_one_session)
    <3>1. r = SubSeq(q, 4, Len(q))
      BY <2>3 DEF AfterFailedOpen
    <3>2. Triple(q, 1)
      <4>1. supports_raw_can => q # SharedScan
        BY <2>3 DEF Scan, SharedScan, shares_one_session
      <4> QED
        BY <1>1, <2>3, <4>1 DEF Rule
    <3>3. /\ r \in Seq(Steps) /\ Plan(r, call[s], supports_raw_can) /\ Brackets(r, call[s])
          /\ r # <<>> => r[1].do = "open"
          /\ ToAsk(q) \subseteq ToAsk(r) \cup {q[1].channel}
      BY <1>1, <1>4, <3>1, <3>2, Skipped
    <3> HIDE DEF r
    <3>4. Counted(r, call[s], clears'[s], failed'[s])
      BY <2>3, <3>3, NotCounted
    <3>5. ToAsk(q) \subseteq ToAsk(r) \cup excused'
      <4>1. CASE r = ScanEach
        <5>1. Names \subseteq ToAsk(r)
          BY <4>1, StartsScanEach
        <5>2. ToAsk(q) \subseteq Names
          BY <1>1, <2>3, ScanAsks
        <5> QED
          BY <5>1, <5>2
      <4>2. CASE r # ScanEach
        <5>1. Channel(s) \in excused'
          BY <2>3, <4>2 DEF r
        <5> QED
          BY <1>1, <3>3, <5>1
      <4> QED
        BY <4>1, <4>2
    <3> QED
      BY <3>3, <3>4, <3>5
  <2>4. CASE Channel(s) # "obd" /\ call[s] # "scan"
    <3>1. r = <<>>
      BY <2>4 DEF AfterFailedOpen
    <3>2. failed'[s] = TRUE
      BY <1>2, <2>4, <3>1
    <3> HIDE DEF r
    <3>3. /\ Plan(r, call[s], supports_raw_can) /\ Brackets(r, call[s])
          /\ Counted(r, call[s], clears'[s], failed'[s])
      BY <3>1, <3>2, NothingLeft
    <3> QED
      BY <2>4, <3>1, <3>3
  <2> QED
    BY <2>1, <2>2, <2>3, <2>4
<1> HIDE DEF q, r
<1>6. /\ steps'[s] = r /\ \A t \in Tasks \ {s} : steps'[t] = steps[t] /\ failed'[t] = failed[t]
  BY <1>2 DEF r
<1>7. \A t \in Tasks \ {s} : clears'[t] = clears[t]
  BY <1>2 DEF CountClear
<1>8. /\ (connection'[s] # None)
           <=> (steps'[s] # <<>> /\ (Acts(steps'[s][1]) \/ steps'[s][1].do = "close"))
      /\ (s \in teardown') <=> (steps'[s] # <<>> /\ steps'[s][1].do = "join")
  <2>1. connection'[s] = None /\ s \notin teardown'
    BY <1>3
  <2>2. steps'[s] # <<>> => ~Acts(steps'[s][1]) /\ steps'[s][1].do \notin {"close", "join"}
    BY <1>5, <1>6 DEF Acts
  <2> QED
    BY <2>1, <2>2
<1>9. (Planned /\ Connected /\ Numbered)'
  <2>1. connection'[s] = None
    BY <1>3
  <2> QED
    BY <1>1, <1>5, <1>6, <1>7, <1>8, <2>1, OneTask
<1>10. TypeInv'
  <2>1. steps' \in [Tasks -> Seq(Steps)]
    BY <1>5 DEF r, Inv, TypeInv
  <2>2. failed' \in [Tasks -> BOOLEAN]
    BY <1>2 DEF Inv, TypeInv
  <2>3. DOMAIN clears' = Tasks
    BY <1>2 DEF CountClear
  <2> QED
    BY <2>1, <2>2, <2>3 DEF Inv, TypeInv
<1>11. Covered'
  <2>1. call["front"] = "scan" => ToAsk(steps["front"]) \subseteq ToAsk(steps'["front"]) \cup excused'
    BY <1>5, <1>6 DEF q, Tasks
  <2>2. excused \subseteq excused'
    OBVIOUS
  <2> QED
    BY <2>1, <2>2, SameFitted, StillCovered DEF Inv
<1>12. NeverInOwnWay'
  <2>1. s \notin Holders
    BY <1>3 DEF Holders
  <2>2. \A pair \in blocked : pair[1] # pair[2]
    BY DEF Inv, NeverInOwnWay
  <2>3. \A pair \in {<<s, t>> : t \in Holders} : pair[1] # pair[2]
    BY <2>1
  <2>4. blocked' \subseteq blocked \cup {<<s, t>> : t \in Holders}
    OBVIOUS
  <2> QED
    BY <2>2, <2>3, <2>4 DEF NeverInOwnWay
<1> QED
  BY <1>9, <1>10, <1>11, <1>12 DEF Inv
\* A request is made, and the connection stays as it is.
LEMMA Requested ==
  ASSUME Inv, NEW s \in Tasks, NEW do, Doing(s, do), do \notin {"open", "close", "join"},
         Proceed(s), UNCHANGED <<interface, call, connection, teardown>>,
         \A t \in Tasks \ {s} : clears'[t] = clears[t] /\ failed'[t] = failed[t],
         Counted(Tail(steps[s]), call[s], clears'[s], failed'[s])
  PROVE  /\ (Planned /\ Connected /\ Numbered)' /\ steps' \in [Tasks -> Seq(Steps)]
         /\ steps'[s] = Tail(steps[s]) /\ \A t \in Tasks \ {s} : steps'[t] = steps[t]
<1> DEFINE q == steps[s]
           r == Tail(q)
<1>1. /\ q \in Seq(Steps) /\ q # <<>> /\ Acts(q[1]) /\ q[1].do \notin {"close", "join"}
      /\ Plan(q, call[s], supports_raw_can) /\ Brackets(q, call[s])
      /\ Rule(q, call[s], supports_raw_can, 1) /\ call[s] # "none"
  BY AtStep DEF Acts
<1>2. /\ r \in Seq(Steps) /\ Plan(r, call[s], supports_raw_can) /\ Brackets(r, call[s])
      /\ (r # <<>> <=> 1 < Len(q)) /\ (1 < Len(q) => r[1] = q[2])
  BY <1>1, TailPlan
<1>3. /\ r # <<>> /\ (Acts(r[1]) \/ r[1].do = "close") /\ r[1].do # "join"
      /\ ~supports_raw_can => ~Acts(r[1])
  <2>1. 1 < Len(q) /\ (Acts(q[2]) \/ q[2].do = "close") /\ (~supports_raw_can => q[2].do = "close")
    BY <1>1 DEF Rule
  <2> QED
    BY <1>2, <2>1 DEF Acts
<1>4. connection[s] # None /\ s \notin teardown
  BY <1>1 DEF Inv, Connected
<1>5. steps' = [steps EXCEPT ![s] = r] /\ steps \in [Tasks -> Seq(Steps)]
  BY DEF Proceed, Inv, TypeInv
<1> HIDE DEF q, r
<1>6. steps'[s] = r /\ \A t \in Tasks \ {s} : steps'[t] = steps[t]
  BY <1>5
<1>7. Counted(steps'[s], call[s], clears'[s], failed'[s])
  BY <1>6 DEF r, q
<1>8. (Planned /\ Connected /\ Numbered)'
  BY <1>1, <1>2, <1>3, <1>4, <1>6, <1>7, OneTask
<1>9. steps' \in [Tasks -> Seq(Steps)]
  BY <1>2, <1>5
<1> QED
  BY <1>6, <1>8, <1>9 DEF r, q

LEMMA ClearInv ==
  ASSUME Inv, NEW s \in Tasks, Clear(s)
  PROVE  Inv'
<1> DEFINE q == steps[s]
<1>1. /\ Doing(s, "clear") /\ Proceed(s)
      /\ clears' = IF can_serve(s, "obd") THEN CountClear(s, "obd") ELSE clears
      /\ UNCHANGED <<interface, exclusive, ecu, call, connection, teardown, failed, found, last,
                     postcheck, excused, blocked>>
  BY DEF Clear
<1>2. /\ q \in Seq(Steps) /\ q # <<>> /\ q[1].do = "clear" /\ Brackets(q, call[s])
      /\ Rule(q, call[s], supports_raw_can, 1)
      /\ Counted(q, call[s], clears[s], failed[s])
  BY <1>1, AtStep
<1>3. can_serve(s, "obd")
  <2>1. Acts(q[1]) /\ (supports_raw_can \/ q[1].channel = "obd")
    BY <1>2 DEF Rule, Acts
  <2>2. connection[s] # None /\ (~supports_raw_can => connection[s] = q[1].channel)
    BY <1>2, <2>1 DEF Inv, Connected
  <2> QED
    BY <2>1, <2>2 DEF can_serve
<1>4. clears' = CountClear(s, "obd") /\ DOMAIN clears = Tasks
  BY <1>1, <1>3 DEF Inv, TypeInv
<1>5. clears'[s] = IF HasMain(q) THEN <<clears[s][1] + 1, clears[s][2]>>
                                 ELSE <<clears[s][1], clears[s][2] + 1>>
  <2>1. DOMAIN q = 1..Len(q)
    BY <1>2
  <2>2. (\E i \in DOMAIN q : q[i].do \in {"flash", "unlock"}) <=> HasMain(q)
    BY <2>1 DEF HasMain, Main
  <2> HIDE DEF q
  <2> QED
    BY <1>4, <2>2 DEF CountClear, q
<1>6. Counted(Tail(q), call[s], clears'[s], failed'[s])
  <2>1. /\ HasMain(q) => clears'[s] = <<clears[s][1] + 1, clears[s][2]>>
        /\ ~HasMain(q) => clears'[s] = <<clears[s][1], clears[s][2] + 1>>
    BY <1>5
  <2>2. Counted(Tail(q), call[s], clears'[s], failed[s])
    BY <1>2, <2>1, ClearStep
  <2> QED
    BY <1>1, <2>2
<1>7. \A t \in Tasks \ {s} : clears'[t] = clears[t] /\ failed'[t] = failed[t]
  BY <1>1, <1>4 DEF CountClear
<1>8. /\ (Planned /\ Connected /\ Numbered)' /\ steps' \in [Tasks -> Seq(Steps)]
      /\ steps'[s] = Tail(q) /\ \A t \in Tasks \ {s} : steps'[t] = steps[t]
  BY <1>1, <1>6, <1>7, Requested
<1>9. TypeInv'
  <2>1. DOMAIN clears' = Tasks
    BY <1>4 DEF CountClear
  <2> QED
    BY <1>1, <1>8, <2>1 DEF Inv, TypeInv
<1>10. Covered'
  <2>1. ToAsk(Tail(q)) = ToAsk(q)
    BY <1>2, SuffixMarks
  <2>2. ToAsk(steps["front"]) \subseteq ToAsk(steps'["front"])
    BY <1>8, <2>1 DEF Tasks
  <2> QED
    BY <1>1, <2>2, SameFitted, StillCovered DEF Inv
<1>11. NeverInOwnWay'
  BY <1>1 DEF Inv, NeverInOwnWay
<1> QED
  BY <1>8, <1>9, <1>10, <1>11 DEF Inv

LEMMA IdentifyInv ==
  ASSUME Inv, NEW s \in Tasks, Identify(s)
  PROVE  Inv'
<1> DEFINE q == steps[s]
           c == Channel(s)
<1>1. /\ Doing(s, "identify") /\ Proceed(s)
      /\ \/ can_serve(s, c) /\ c \in Fitted /\ found' = found \cup {c} /\ excused' = excused
         \/ /\ excused' = IF can_serve(s, c) THEN excused \cup {c} ELSE excused
            /\ found' = found
      /\ UNCHANGED <<interface, exclusive, ecu, call, connection, teardown, failed, last,
                     postcheck, clears, blocked>>
  BY DEF Identify
<1>2. /\ q \in Seq(Steps) /\ q # <<>> /\ q[1].do = "identify" /\ c = q[1].channel
      /\ Rule(q, call[s], supports_raw_can, 1)
      /\ Counted(q, call[s], clears[s], failed[s])
  BY <1>1, AtStep
<1>3. call[s] = "scan" /\ s = "front"
  <2>1. call[s] = "scan"
    BY <1>2 DEF Rule
  <2> QED
    BY <2>1 DEF Inv, TypeInv, Tasks
<1>4. can_serve(s, c)
  <2>1. Acts(q[1])
    BY <1>2 DEF Acts
  <2>2. connection[s] # None /\ (~supports_raw_can => connection[s] = q[1].channel)
    BY <1>2, <2>1 DEF Inv, Connected
  <2> QED
    BY <1>2, <2>1, <2>2 DEF can_serve
<1>5. Counted(Tail(q), call[s], clears'[s], failed'[s]) /\ ToAsk(q) = ToAsk(Tail(q)) \cup {c}
  <2>1. q[1].do # "clear" /\ ~Main(q[1])
    BY <1>2 DEF Main
  <2>2. ToAsk(q) = ToAsk(Tail(q)) \cup {c}
    BY <1>2, SuffixMarks
  <2>3. Counted(Tail(q), call[s], clears[s], failed[s])
    BY <1>2, <2>1, NeutralStep
  <2> QED
    BY <1>1, <2>2, <2>3
<1>6. \A t \in Tasks \ {s} : clears'[t] = clears[t] /\ failed'[t] = failed[t]
  BY <1>1
<1>7. /\ (Planned /\ Connected /\ Numbered)' /\ steps' \in [Tasks -> Seq(Steps)]
      /\ steps'[s] = Tail(q)
  BY <1>1, <1>5, <1>6, Requested
<1>8. found \subseteq found' /\ found' \subseteq found \cup Fitted
      /\ excused \subseteq excused' /\ c \in found' \cup excused'
  <2> HIDE DEF c
  <2> QED
    BY <1>1, <1>4
<1>9. Fitted' = Fitted /\ Fitted \subseteq Names
  BY <1>1 DEF Fitted, Names
<1>10. TypeInv'
  <2>1. found' \subseteq Names
    BY <1>8, <1>9 DEF Inv, TypeInv
  <2> QED
    BY <1>1, <1>7, <2>1 DEF Inv, TypeInv
<1>11. Covered'
  <2>1. found \subseteq Fitted /\ Fitted \subseteq found \cup excused \cup ToAsk(q)
    BY <1>3 DEF Inv, Covered
  <2>2. ToAsk(steps'["front"]) = ToAsk(Tail(q))
    BY <1>3, <1>7
  <2> HIDE DEF q, c
  <2>3. found' \subseteq Fitted' /\ Fitted' \subseteq found' \cup excused' \cup ToAsk(Tail(q))
    BY <1>5, <1>8, <1>9, <2>1
  <2> QED
    BY <2>2, <2>3 DEF Covered
<1>12. NeverInOwnWay'
  BY <1>1 DEF Inv, NeverInOwnWay
<1> QED
  BY <1>7, <1>10, <1>11, <1>12 DEF Inv
LEMMA UnlockInv ==
  ASSUME Inv, NEW s \in Tasks, UnlockState(s)
  PROVE  Inv'
<1> DEFINE q == steps[s]
           c == Channel(s)
<1>1. /\ Doing(s, "unlock") /\ Proceed(s)
      /\ ecu' = ecu \/ (c \in Fitted /\ ecu' = [ecu EXCEPT ![c] = "cboot"])
      /\ failed' = failed \/ failed' = [failed EXCEPT ![s] = TRUE]
      /\ UNCHANGED <<interface, exclusive, call, connection, teardown, found, last, postcheck,
                     excused, clears, blocked>>
  BY DEF UnlockState
<1>2. /\ q \in Seq(Steps) /\ q # <<>> /\ q[1].do = "unlock" /\ Main(q[1])
      /\ Brackets(q, call[s]) /\ Counted(q, call[s], clears[s], failed[s])
  BY <1>1, AtStep DEF Main
<1>3. Counted(Tail(q), call[s], clears'[s], failed'[s])
  BY <1>1, <1>2, MainStep
<1>4. DOMAIN failed = Tasks /\ failed \in [Tasks -> BOOLEAN] /\ ecu \in [Names -> {"absent", "app", "cboot"}]
  BY DEF Inv, TypeInv
<1>5. \A t \in Tasks \ {s} : clears'[t] = clears[t] /\ failed'[t] = failed[t]
  BY <1>1, <1>4
<1>6. /\ (Planned /\ Connected /\ Numbered)' /\ steps' \in [Tasks -> Seq(Steps)]
      /\ steps'[s] = Tail(q) /\ \A t \in Tasks \ {s} : steps'[t] = steps[t]
  BY <1>1, <1>3, <1>5, Requested
<1>7. Fitted' = Fitted /\ ecu' \in [Names -> {"absent", "app", "cboot"}]
  <2> HIDE DEF c
  <2>1. CASE ecu' = ecu
    BY <1>4, <2>1 DEF Fitted
  <2>2. CASE c \in Fitted /\ ecu' = [ecu EXCEPT ![c] = "cboot"]
    BY <1>4, <2>2 DEF Fitted, Names
  <2> QED
    BY <1>1, <2>1, <2>2
<1>8. TypeInv'
  <2>1. failed' \in [Tasks -> BOOLEAN]
    BY <1>1, <1>4
  <2> QED
    BY <1>1, <1>6, <1>7, <2>1 DEF Inv, TypeInv
<1>9. Covered'
  <2>1. ToAsk(Tail(q)) = ToAsk(q)
    BY <1>2, SuffixMarks
  <2>2. ToAsk(steps["front"]) \subseteq ToAsk(steps'["front"])
    BY <1>6, <2>1 DEF Tasks
  <2> QED
    BY <1>1, <1>7, <2>2, StillCovered DEF Inv
<1>10. NeverInOwnWay'
  BY <1>1 DEF Inv, NeverInOwnWay
<1> QED
  BY <1>6, <1>8, <1>9, <1>10 DEF Inv

LEMMA ReadInv ==
  ASSUME Inv, NEW s \in Tasks, Read(s)
  PROVE  Inv'
<1> DEFINE q == steps[s]
<1>1. /\ Doing(s, "immo") \/ Doing(s, "read")
      /\ Proceed(s)
      /\ failed' = failed \/ failed' = [failed EXCEPT ![s] = TRUE]
      /\ UNCHANGED <<interface, exclusive, ecu, call, connection, teardown, found, last,
                     postcheck, excused, clears, blocked>>
  BY DEF Read
<1>2. PICK do \in {"immo", "read"} : Doing(s, do)
  BY <1>1
<1>3. /\ q \in Seq(Steps) /\ q # <<>> /\ q[1].do = do
      /\ Counted(q, call[s], clears[s], failed[s])
  BY <1>2, AtStep
<1>4. DOMAIN failed = Tasks /\ failed \in [Tasks -> BOOLEAN]
  BY DEF Inv, TypeInv
<1>5. Counted(Tail(q), call[s], clears'[s], failed'[s]) /\ ToAsk(Tail(q)) = ToAsk(q)
  <2>1. q[1].do # "clear" /\ ~Main(q[1]) /\ q[1].do # "identify"
    BY <1>3 DEF Main
  <2>2. Counted(Tail(q), call[s], clears[s], failed[s])
    BY <1>3, <2>1, NeutralStep
  <2>3. failed'[s] = failed[s] \/ failed'[s] = TRUE
    BY <1>1, <1>4
  <2>4. ToAsk(Tail(q)) = ToAsk(q)
    BY <1>3, <2>1, SuffixMarks
  <2>5. clears' = clears
    BY <1>1
  <2> HIDE DEF q
  <2> QED
    BY <2>2, <2>3, <2>4, <2>5 DEF Counted
<1>6. \A t \in Tasks \ {s} : clears'[t] = clears[t] /\ failed'[t] = failed[t]
  BY <1>1, <1>4
<1>7. /\ (Planned /\ Connected /\ Numbered)' /\ steps' \in [Tasks -> Seq(Steps)]
      /\ steps'[s] = Tail(q) /\ \A t \in Tasks \ {s} : steps'[t] = steps[t]
  BY <1>1, <1>2, <1>5, <1>6, Requested
<1>8. TypeInv'
  <2>1. failed' \in [Tasks -> BOOLEAN]
    BY <1>1, <1>4
  <2> QED
    BY <1>1, <1>7, <2>1 DEF Inv, TypeInv
<1>9. Covered'
  <2>1. ToAsk(steps["front"]) \subseteq ToAsk(steps'["front"])
    BY <1>5, <1>7 DEF Tasks
  <2> QED
    BY <1>1, <2>1, SameFitted, StillCovered DEF Inv
<1>10. NeverInOwnWay'
  BY <1>1 DEF Inv, NeverInOwnWay
<1> QED
  BY <1>7, <1>8, <1>9, <1>10 DEF Inv

\* A failed flash leaves nothing but the close of its session.
LEMMA CloseLeft ==
  ASSUME NEW c \in Names \cup {"obd"}, NEW what, what # "scan", NEW raw
  PROVE  LET r == <<Step("close", c)>> IN
         /\ r \in Seq(Steps) /\ r # <<>> /\ r[1].do = "close"
         /\ Plan(r, what, raw) /\ Brackets(r, what)
         /\ \A n : Counted(r, what, n, TRUE)
<1> DEFINE r == <<Step("close", c)>>
<1>1. r \in Seq(Steps) /\ Len(r) = 1 /\ r[1].do = "close" /\ r # <<>>
  BY IsStep
<1> HIDE DEF r
<1>2. \A i \in 1..Len(r) : i = 1
  BY <1>1
<1>3. \A i \in 1..Len(r) : ~Main(r[i]) /\ r[i].do # "clear"
  BY <1>1, <1>2 DEF Main
<1>4. Plan(r, what, raw)
  <2>1. ASSUME NEW i \in 1..Len(r) PROVE Rule(r, what, raw, i)
    <3>1. r[i].do = "close" /\ ~(i < Len(r))
      BY <1>1, <1>2
    <3> QED
      BY <3>1 DEF Rule, Acts, Main
  <2> QED
    BY <1>1, <2>1 DEF Plan
<1>5. Brackets(r, what) /\ \A n : Counted(r, what, n, TRUE)
  BY <1>3 DEF Brackets, Counted, HasMain
<1> QED
  BY <1>1, <1>4, <1>5 DEF r

LEMMA FlashInv ==
  ASSUME Inv, NEW s \in Tasks, Flash(s)
  PROVE  Inv'
<1> DEFINE q == steps[s]
           c == Channel(s)
<1>1. /\ Doing(s, "flash")
      /\ ecu' = ecu \/ (c \in Fitted /\ \E to \in {"app", "cboot"} : ecu' = [ecu EXCEPT ![c] = to])
      /\ postcheck' = postcheck \/ (c \in Immobilized /\ postcheck' = c)
      /\ \/ Proceed(s) /\ failed' = failed
         \/ /\ steps' = [steps EXCEPT ![s] = <<Step("close", c)>>]
            /\ failed' = [failed EXCEPT ![s] = TRUE]
      /\ UNCHANGED <<interface, exclusive, call, connection, teardown, found, last, excused,
                     clears, blocked>>
  BY DEF Flash
<1>2. /\ q \in Seq(Steps) /\ q # <<>> /\ q[1].do = "flash" /\ Main(q[1])
      /\ c \in Names \cup {"obd"} /\ call[s] # "none"
      /\ Rule(q, call[s], supports_raw_can, 1)
      /\ Brackets(q, call[s]) /\ Counted(q, call[s], clears[s], failed[s])
  BY <1>1, AtStep DEF Main
<1>3. call[s] # "scan" /\ s = "front"
  <2>1. call[s] \in {"flash", "unlock"}
    BY <1>2 DEF Rule
  <2> QED
    BY <2>1 DEF Inv, TypeInv, Tasks
<1>4. /\ DOMAIN failed = Tasks /\ failed \in [Tasks -> BOOLEAN]
      /\ ecu \in [Names -> {"absent", "app", "cboot"}] /\ steps \in [Tasks -> Seq(Steps)]
  BY DEF Inv, TypeInv
<1>5. \A t \in Tasks \ {s} : clears'[t] = clears[t] /\ failed'[t] = failed[t]
  BY <1>1, <1>4
<1>6. (Planned /\ Connected /\ Numbered)' /\ steps' \in [Tasks -> Seq(Steps)]
  <2>1. CASE Proceed(s) /\ failed' = failed
    <3>1. Counted(Tail(q), call[s], clears'[s], failed'[s])
      BY <1>1, <1>2, MainStep
    <3> QED
      BY <1>1, <1>5, <2>1, <3>1, Requested
  <2>2. CASE steps' = [steps EXCEPT ![s] = <<Step("close", c)>>] /\ failed' = [failed EXCEPT ![s] = TRUE]
    <3> DEFINE r == <<Step("close", c)>>
    <3>1. /\ r \in Seq(Steps) /\ r # <<>> /\ r[1].do = "close"
          /\ Plan(r, call[s], supports_raw_can) /\ Brackets(r, call[s])
          /\ Counted(r, call[s], clears'[s], TRUE)
      <4> HIDE DEF c
      <4> QED
        BY <1>2, <1>3, CloseLeft
    <3> HIDE DEF r
    <3>2. /\ steps'[s] = r /\ steps' \in [Tasks -> Seq(Steps)] /\ failed'[s] = TRUE
          /\ \A t \in Tasks \ {s} : steps'[t] = steps[t]
      BY <1>4, <2>2, <3>1 DEF r
    <3>3. connection[s] # None /\ s \notin teardown
      <4>1. Acts(q[1]) /\ q[1].do # "join"
        BY <1>2 DEF Acts
      <4> QED
        BY <1>2, <4>1 DEF Inv, Connected
    <3>4. r[1].do # "join" /\ ~Acts(r[1])
      BY <3>1 DEF Acts
    <3>5. Counted(r, call[s], clears'[s], failed'[s])
      BY <3>1, <3>2
    <3> QED
      BY <1>1, <1>2, <1>5, <3>1, <3>2, <3>3, <3>4, <3>5, OneTask
  <2> QED
    BY <1>1, <2>1, <2>2
<1>7. Fitted' = Fitted /\ ecu' \in [Names -> {"absent", "app", "cboot"}]
  <2> HIDE DEF c
  <2>1. CASE ecu' = ecu
    BY <1>4, <2>1 DEF Fitted
  <2>2. ASSUME NEW to \in {"app", "cboot"}, c \in Fitted, ecu' = [ecu EXCEPT ![c] = to]
        PROVE  Fitted' = Fitted /\ ecu' \in [Names -> {"absent", "app", "cboot"}]
    BY <1>4, <2>2 DEF Fitted, Names
  <2> QED
    BY <1>1, <2>1, <2>2
<1>8. TypeInv'
  <2>1. failed' \in [Tasks -> BOOLEAN]
    BY <1>1, <1>4
  <2>2. postcheck' \in Immobilized \cup {None}
    BY <1>1 DEF Inv, TypeInv
  <2> QED
    BY <1>1, <1>6, <1>7, <2>1, <2>2 DEF Inv, TypeInv
<1>9. Covered'
  BY <1>1, <1>3 DEF Covered
<1>10. NeverInOwnWay'
  BY <1>1 DEF Inv, NeverInOwnWay
<1> QED
  BY <1>6, <1>8, <1>9, <1>10 DEF Inv
LEMMA Preceded ==
  ASSUME NEW x \in Steps, NEW y \in Seq(Steps), NEW n \in Nat, Len(y) = n
  PROVE  /\ <<x>> \o y \in Seq(Steps) /\ Len(<<x>> \o y) = n + 1 /\ (<<x>> \o y)[1] = x
         /\ \A i \in 2..(n + 1) : (<<x>> \o y)[i] = y[i - 1]
<1> DEFINE a == <<x>>
<1>1. a \in Seq(Steps) /\ Len(a) = 1 /\ a[1] = x
  OBVIOUS
<1> HIDE DEF a
<1>2. /\ a \o y \in Seq(Steps) /\ Len(a \o y) = Len(a) + Len(y)
      /\ \A i \in 1..(Len(a) + Len(y)) : (a \o y)[i] = IF i <= Len(a) THEN a[i] ELSE y[i - Len(a)]
  BY <1>1, ConcatProperties
<1>3. Len(a) + Len(y) = n + 1 /\ 1 \in 1..(n + 1)
  BY <1>1
<1>4. \A i \in 2..(n + 1) : i \in 1..(n + 1) /\ ~(i <= 1)
  OBVIOUS
<1>5. /\ a \o y \in Seq(Steps) /\ Len(a \o y) = n + 1 /\ (a \o y)[1] = x
      /\ \A i \in 2..(n + 1) : (a \o y)[i] = y[i - 1]
  BY <1>1, <1>2, <1>3, <1>4
<1> QED
  BY <1>5 DEF a

LEMMA CloseInv ==
  ASSUME Inv, NEW s \in Tasks, Close(s)
  PROVE  Inv'
<1> DEFINE q == steps[s]
           c == Channel(s)
           r == <<Step("join", c)>> \o Tail(q)
<1>1. /\ Doing(s, "close")
      /\ connection' = [connection EXCEPT ![s] = None] /\ teardown' = teardown \cup {s}
      /\ steps' = [steps EXCEPT ![s] = r]
      /\ UNCHANGED <<interface, exclusive, ecu, call, failed, found, last, postcheck, excused,
                     clears, blocked>>
  BY DEF Close
<1>2. /\ q \in Seq(Steps) /\ q # <<>> /\ Len(q) \in Nat /\ q[1].do = "close" /\ c = q[1].channel
      /\ c \in Names \cup {"obd"} /\ call[s] # "none"
      /\ Plan(q, call[s], supports_raw_can) /\ Brackets(q, call[s])
      /\ Counted(q, call[s], clears[s], failed[s])
  BY <1>1, AtStep
<1>3. /\ connection \in [Tasks -> Names \cup {"obd", None}] /\ steps \in [Tasks -> Seq(Steps)]
      /\ teardown \subseteq Tasks
  BY DEF Inv, TypeInv
<1>4. JoinOf(r, q) /\ r[1].channel = q[1].channel /\ r \in Seq(Steps) /\ r # <<>>
  <2>1. Step("join", c) \in Steps /\ Step("join", c).do = "join" /\ Step("join", c).channel = c
    <3> HIDE DEF c
    <3> QED
      BY <1>2, IsStep
  <2> DEFINE x == Step("join", c)
  <2> HIDE DEF q, c, x
  <2>2. /\ Tail(q) \in Seq(Steps) /\ Len(Tail(q)) = Len(q) - 1 /\ Len(q) >= 1
        /\ \A i \in 1..(Len(q) - 1) : Tail(q)[i] = q[i + 1]
    BY <1>2
  <2> DEFINE y == Tail(q)
  <2> HIDE DEF y
  <2>3. /\ y \in Seq(Steps) /\ Len(y) = Len(q) - 1
        /\ \A i \in 1..(Len(q) - 1) : y[i] = q[i + 1]
    BY <2>2 DEF y
  <2>4. /\ <<x>> \o y \in Seq(Steps) /\ Len(<<x>> \o y) = Len(q) /\ (<<x>> \o y)[1] = x
        /\ \A i \in 2..Len(q) : (<<x>> \o y)[i] = y[i - 1]
    <3>1. x \in Steps /\ Len(q) - 1 \in Nat /\ (Len(q) - 1) + 1 = Len(q)
      BY <1>2, <2>1, <2>2 DEF x
    <3> QED
      BY <2>3, <3>1, Preceded
  <2>5. r = <<x>> \o y
    BY DEF x, y
  <2>6. \A i \in 2..Len(q) : i - 1 \in 1..(Len(q) - 1) /\ (i - 1) + 1 = i
    BY <1>2
  <2> HIDE DEF r
  <2>7. r \in Seq(Steps) /\ Len(r) = Len(q) /\ r[1] = x /\ \A i \in 2..Len(q) : r[i] = q[i]
    BY <2>3, <2>4, <2>5, <2>6
  <2>8. r # <<>>
    BY <2>2, <2>7
  <2> QED
    BY <1>2, <2>1, <2>7, <2>8 DEF JoinOf, x
<1> HIDE DEF r
<1>5. /\ Plan(r, call[s], supports_raw_can) /\ Brackets(r, call[s])
      /\ Counted(r, call[s], clears[s], failed[s]) /\ ToAsk(r) = ToAsk(q) /\ r[1].do = "join"
  <2>1. Plan(r, call[s], supports_raw_can)
    BY <1>2, <1>4, JoinPlan
  <2> QED
    BY <1>2, <1>4, <2>1, JoinCounted DEF JoinOf
<1> HIDE DEF q, c
<1>6. /\ steps'[s] = r /\ connection'[s] = None /\ s \in teardown'
      /\ \A t \in Tasks \ {s} : /\ steps'[t] = steps[t] /\ connection'[t] = connection[t]
                                /\ t \in teardown' <=> t \in teardown
                                /\ clears'[t] = clears[t] /\ failed'[t] = failed[t]
  BY <1>1, <1>3
<1>7. ~Acts(r[1]) /\ r[1].do # "close"
  BY <1>5 DEF Acts
<1>8. (Planned /\ Connected /\ Numbered)'
  <2>1. Counted(r, call[s], clears'[s], failed'[s])
    BY <1>1, <1>5
  <2> QED
    BY <1>1, <1>2, <1>4, <1>5, <1>6, <1>7, <2>1, OneTask
<1>9. TypeInv'
  <2>1. steps' \in [Tasks -> Seq(Steps)] /\ connection' \in [Tasks -> Names \cup {"obd", None}]
        /\ teardown' \subseteq Tasks
    BY <1>1, <1>3, <1>4
  <2> QED
    BY <1>1, <2>1 DEF Inv, TypeInv
<1>10. Covered'
  <2>1. ToAsk(steps["front"]) \subseteq ToAsk(steps'["front"])
    BY <1>5, <1>6 DEF q, Tasks
  <2> QED
    BY <1>1, <2>1, SameFitted, StillCovered DEF Inv
<1>11. NeverInOwnWay'
  BY <1>1 DEF Inv, NeverInOwnWay
<1> QED
  BY <1>8, <1>9, <1>10, <1>11 DEF Inv

LEMMA TornDownInv ==
  ASSUME Inv, NEW s \in Tasks, TornDown(s)
  PROVE  Inv'
<1> DEFINE q == steps[s]
           r == Tail(q)
<1>1. Doing(s, "join")
  <2>1. q # <<>> /\ q[1].do = "join" /\ q \in Seq(Steps)
    BY DEF TornDown, Inv, Connected, TypeInv
  <2>2. Head(q) = q[1]
    BY <2>1
  <2> QED
    BY <2>1, <2>2 DEF Doing
<1>2. /\ teardown' = teardown \ {s} /\ steps' = [steps EXCEPT ![s] = r]
      /\ UNCHANGED <<interface, exclusive, ecu, call, connection, failed, found, last, postcheck,
                     excused, clears, blocked>>
  BY <1>1 DEF TornDown
<1>3. /\ q \in Seq(Steps) /\ q # <<>> /\ Len(q) \in Nat /\ q[1].do = "join" /\ call[s] # "none"
      /\ Plan(q, call[s], supports_raw_can) /\ Brackets(q, call[s])
      /\ Rule(q, call[s], supports_raw_can, 1)
      /\ Counted(q, call[s], clears[s], failed[s])
  BY <1>1, AtStep
<1>4. /\ r \in Seq(Steps) /\ Plan(r, call[s], supports_raw_can) /\ Brackets(r, call[s])
      /\ (r # <<>> <=> 1 < Len(q)) /\ (1 < Len(q) => r[1] = q[2])
  BY <1>3, TailPlan
<1>5. r # <<>> => r[1].do = "open"
  BY <1>3, <1>4 DEF Rule
<1>6. Counted(r, call[s], clears[s], failed[s]) /\ ToAsk(r) = ToAsk(q)
  <2>1. q[1].do # "clear" /\ ~Main(q[1]) /\ q[1].do # "identify"
    BY <1>3 DEF Main
  <2>2. ToAsk(r) = ToAsk(q)
    BY <1>3, <2>1, SuffixMarks
  <2> QED
    BY <1>3, <2>1, <2>2, NeutralStep
<1>7. connection[s] = None /\ teardown \subseteq Tasks /\ steps \in [Tasks -> Seq(Steps)]
  <2>1. ~Acts(q[1]) /\ q[1].do # "close"
    BY <1>3 DEF Acts
  <2> QED
    BY <2>1 DEF Inv, Connected, TypeInv
<1> HIDE DEF q, r
<1>8. /\ steps'[s] = r /\ connection'[s] = None /\ s \notin teardown'
      /\ \A t \in Tasks \ {s} : /\ steps'[t] = steps[t] /\ connection'[t] = connection[t]
                                /\ t \in teardown' <=> t \in teardown
                                /\ clears'[t] = clears[t] /\ failed'[t] = failed[t]
  BY <1>2, <1>7
<1>9. r # <<>> => ~Acts(r[1]) /\ r[1].do \notin {"close", "join"}
  BY <1>5 DEF Acts
<1>10. (Planned /\ Connected /\ Numbered)'
  <2>1. Counted(r, call[s], clears'[s], failed'[s])
    BY <1>2, <1>6
  <2> QED
    BY <1>2, <1>3, <1>4, <1>8, <1>9, <2>1, OneTask
<1>11. TypeInv'
  <2>1. steps' \in [Tasks -> Seq(Steps)] /\ teardown' \subseteq Tasks
    BY <1>2, <1>4, <1>7
  <2> QED
    BY <1>2, <2>1 DEF Inv, TypeInv
<1>12. Covered'
  <2>1. ToAsk(steps["front"]) \subseteq ToAsk(steps'["front"])
    BY <1>6, <1>8 DEF q, Tasks
  <2> QED
    BY <1>2, <2>1, SameFitted, StillCovered DEF Inv
<1>13. NeverInOwnWay'
  BY <1>2 DEF Inv, NeverInOwnWay
<1> QED
  BY <1>10, <1>11, <1>12, <1>13 DEF Inv
-----------------------------------------------------------------------------
(***************************************************************************)
(* Calls begin and return.                                                 *)
(***************************************************************************)
LEMMA ReturnInv ==
  ASSUME Inv, NEW s \in Tasks, Return(s)
  PROVE  Inv'
<1>1. /\ steps[s] = <<>> /\ call' = [call EXCEPT ![s] = "none"]
      /\ UNCHANGED <<interface, exclusive, ecu, steps, connection, teardown, failed, found,
                     postcheck, excused, clears, blocked>>
  BY DEF Return
<1>2. call \in [Tasks -> Calls] /\ call["post"] \in {"none", "immo"}
  BY DEF Inv, TypeInv
<1>3. call'[s] = "none" /\ \A t \in Tasks \ {s} : call'[t] = call[t]
  BY <1>1, <1>2
<1>4. /\ Plan(<<>>, "none", supports_raw_can) /\ Brackets(<<>>, "none")
  BY NothingLeft
<1>5. Counted(<<>>, "none", clears[s], failed[s])
  BY <1>4, NotCounted
<1>6. connection[s] = None /\ s \notin teardown
  BY <1>1 DEF Inv, Connected
<1>7. (Planned /\ Connected /\ Numbered)'
  <2>1. /\ steps'[s] = <<>> /\ connection'[s] = None /\ s \notin teardown'
        /\ Counted(<<>>, "none", clears'[s], failed'[s])
    BY <1>1, <1>5, <1>6
  <2> QED
    BY <1>1, <1>3, <1>4, <2>1, OneCall
<1>8. TypeInv'
  <2>1. call' \in [Tasks -> Calls] /\ call'["post"] \in {"none", "immo"}
    BY <1>1, <1>2 DEF Calls, Tasks
  <2> QED
    BY <1>1, <2>1 DEF Inv, TypeInv
<1>9. Covered'
  <2>1. call'["front"] = "scan" => call["front"] = "scan"
    BY <1>3 DEF Tasks
  <2>2. Fitted' = Fitted
    BY <1>1, SameFitted
  <2> QED
    BY <1>1, <2>1, <2>2 DEF Inv, Covered
<1>10. NeverInOwnWay'
  BY <1>1 DEF Inv, NeverInOwnWay
<1> QED
  BY <1>7, <1>8, <1>9, <1>10 DEF Inv

LEMMA BeginInv ==
  ASSUME Inv, NEW what \in {"scan", "unlock", "immo", "read", "flash"}, Begin(what)
  PROVE  Inv'
<1>1. /\ call["front"] = "none"
      /\ call' = [call EXCEPT !["front"] = what]
      /\ failed' = [failed EXCEPT !["front"] = FALSE]
      /\ clears' = [clears EXCEPT !["front"] = <<0, 0>>]
      /\ found' = IF what = "scan" THEN {} ELSE found
      /\ UNCHANGED <<interface, exclusive, ecu, connection, teardown, last, postcheck, blocked>>
  BY DEF Begin
<1>2. PICK m \in Askable(what) : steps' = [steps EXCEPT !["front"] = StepsOf(what, m)]
  BY DEF Begin
<1>3. m \in Names
  <2>1. Channels[1] \in Names
    BY ChannelList
  <2>2. found \subseteq Names
    BY DEF Inv, TypeInv
  <2> QED
    BY <2>1, <2>2 DEF Askable, Names
<1> DEFINE r == StepsOf(what, m)
<1>4. /\ Plan(r, what, supports_raw_can) /\ Brackets(r, what)
      /\ Counted(r, what, <<0, 0>>, FALSE) /\ r # <<>> /\ r[1].do = "open"
      /\ r \in Seq(Steps)
  BY <1>3, CallStarts DEF Starts, Plan
<1>5. what = "scan" => Names \subseteq ToAsk(r)
  <2> SUFFICES ASSUME what = "scan" PROVE Names \subseteq ToAsk(r)
    OBVIOUS
  <2>1. r = SharedScan \/ r = ScanEach
    BY DEF StepsOf, Scan, SharedScan
  <2> QED
    BY <2>1, StartsScanEach, StartsSharedScan
<1>6. /\ call \in [Tasks -> Calls] /\ call["post"] \in {"none", "immo"}
      /\ steps \in [Tasks -> Seq(Steps)] /\ failed \in [Tasks -> BOOLEAN] /\ DOMAIN clears = Tasks
  BY DEF Inv, TypeInv
<1>7. connection["front"] = None /\ "front" \notin teardown
  <2>1. steps["front"] = <<>>
    BY <1>1 DEF Inv, Planned, Tasks
  <2> QED
    BY <2>1 DEF Inv, Connected, Tasks
<1> HIDE DEF r
<1>8. /\ call'["front"] = what /\ steps'["front"] = r /\ clears'["front"] = <<0, 0>>
      /\ failed'["front"] = FALSE
      /\ \A t \in Tasks \ {"front"} : /\ call'[t] = call[t] /\ steps'[t] = steps[t]
                                      /\ clears'[t] = clears[t] /\ failed'[t] = failed[t]
  BY <1>1, <1>2, <1>6 DEF r, Tasks
<1>9. ~Acts(r[1]) /\ r[1].do \notin {"close", "join"}
  BY <1>4 DEF Acts
<1>10. "front" \in Tasks
  BY DEF Tasks
<1>11. (Planned /\ Connected /\ Numbered)'
  <2>1. connection'["front"] = None /\ "front" \notin teardown'
        /\ Counted(r, what, clears'["front"], failed'["front"])
    BY <1>1, <1>4, <1>7, <1>8
  <2>2. what # "none"
    OBVIOUS
  <2> QED
    BY <1>1, <1>4, <1>8, <1>9, <1>10, <2>1, <2>2, OneCall
<1>12. TypeInv'
  <2>1. /\ call' \in [Tasks -> Calls] /\ call'["post"] \in {"none", "immo"}
        /\ steps' \in [Tasks -> Seq(Steps)] /\ failed' \in [Tasks -> BOOLEAN]
        /\ DOMAIN clears' = Tasks
    BY <1>1, <1>2, <1>4, <1>6 DEF r, Calls, Tasks
  <2>2. found' \subseteq Names
    BY <1>1 DEF Inv, TypeInv
  <2> QED
    BY <1>1, <2>1, <2>2 DEF Inv, TypeInv
<1>13. Covered'
  <2>1. CASE what = "scan"
    <3>1. found' = {} /\ Fitted' \subseteq Names
      BY <1>1, <2>1 DEF Fitted, Names
    <3> QED
      BY <1>5, <1>8, <2>1, <3>1 DEF Covered
  <2>2. CASE what # "scan"
    BY <1>8, <2>2 DEF Covered
  <2> QED
    BY <2>1, <2>2
<1>14. NeverInOwnWay'
  BY <1>1 DEF Inv, NeverInOwnWay
<1> QED
  BY <1>11, <1>12, <1>13, <1>14 DEF Inv

LEMMA BeginPostCheckInv ==
  ASSUME Inv, BeginPostCheck
  PROVE  Inv'
<1> DEFINE r == StepsOf("immo", postcheck)
<1>1. /\ postcheck # None /\ call["post"] = "none"
      /\ steps' = [steps EXCEPT !["post"] = r]
      /\ call' = [call EXCEPT !["post"] = "immo"]
      /\ failed' = [failed EXCEPT !["post"] = FALSE] /\ postcheck' = None
      /\ UNCHANGED <<interface, exclusive, ecu, connection, teardown, found, last, excused,
                     clears, blocked>>
  BY DEF BeginPostCheck, StepsOf
<1>2. postcheck \in Names
  BY <1>1, SessionAssumption DEF Inv, TypeInv, Names
<1>3. /\ Plan(r, "immo", supports_raw_can) /\ Brackets(r, "immo")
      /\ r # <<>> /\ r[1].do = "open" /\ r \in Seq(Steps)
  BY <1>2, CallStarts DEF Starts, Plan
<1>4. \A n, bad : Counted(r, "immo", n, bad)
  BY <1>3, NotCounted
<1>5. /\ call \in [Tasks -> Calls]
      /\ steps \in [Tasks -> Seq(Steps)] /\ failed \in [Tasks -> BOOLEAN]
  BY DEF Inv, TypeInv
<1>6. connection["post"] = None /\ "post" \notin teardown
  <2>1. steps["post"] = <<>>
    BY <1>1 DEF Inv, Planned, Tasks
  <2> QED
    BY <2>1 DEF Inv, Connected, Tasks
<1> HIDE DEF r
<1>7. /\ call'["post"] = "immo" /\ steps'["post"] = r
      /\ \A t \in Tasks \ {"post"} : /\ call'[t] = call[t] /\ steps'[t] = steps[t]
                                     /\ clears'[t] = clears[t] /\ failed'[t] = failed[t]
  BY <1>1, <1>5 DEF Tasks
<1>8. ~Acts(r[1]) /\ r[1].do \notin {"close", "join"} /\ "post" \in Tasks
  BY <1>3 DEF Acts, Tasks
<1>9. (Planned /\ Connected /\ Numbered)'
  <2>1. connection'["post"] = None /\ "post" \notin teardown'
        /\ Counted(r, "immo", clears'["post"], failed'["post"])
    BY <1>1, <1>4, <1>6
  <2> QED
    BY <1>1, <1>3, <1>7, <1>8, <2>1, OneCall
<1>10. TypeInv'
  <2>1. /\ call' \in [Tasks -> Calls] /\ call'["post"] \in {"none", "immo"}
        /\ steps' \in [Tasks -> Seq(Steps)] /\ failed' \in [Tasks -> BOOLEAN]
    BY <1>1, <1>3, <1>5, <1>7 DEF Calls, Tasks
  <2> QED
    BY <1>1, <2>1 DEF Inv, TypeInv
<1>11. Covered'
  <2>1. call'["front"] = call["front"] /\ steps'["front"] = steps["front"] /\ Fitted' = Fitted
    BY <1>1, <1>7, SameFitted DEF Tasks
  <2> QED
    BY <1>1, <2>1 DEF Inv, Covered
<1>12. NeverInOwnWay'
  BY <1>1 DEF Inv, NeverInOwnWay
<1> QED
  BY <1>9, <1>10, <1>11, <1>12 DEF Inv

LEMMA IgnitionCycledInv ==
  ASSUME Inv, IgnitionCycled
  PROVE  Inv'
<1>1. /\ ecu' = [c \in DOMAIN ecu |-> IF ecu[c] = "cboot" THEN "app" ELSE ecu[c]]
      /\ UNCHANGED <<interface, exclusive, call, steps, connection, teardown, failed, found, last,
                     postcheck, excused, clears, blocked>>
  BY DEF IgnitionCycled
<1>2. ecu \in [Names -> {"absent", "app", "cboot"}]
  BY DEF Inv, TypeInv
<1>3. Fitted' = Fitted /\ ecu' \in [Names -> {"absent", "app", "cboot"}]
  BY <1>1, <1>2 DEF Fitted, Names
<1>4. TypeInv'
  BY <1>1, <1>3 DEF Inv, TypeInv
<1>5. Planned' /\ Connected' /\ Numbered' /\ NeverInOwnWay'
  BY <1>1 DEF Inv, Planned, Connected, Numbered, NeverInOwnWay, supports_raw_can
<1>6. Covered'
  BY <1>1, <1>3 DEF Inv, Covered
<1> QED
  BY <1>4, <1>5, <1>6 DEF Inv

LEMMA StutterInv ==
  ASSUME Inv, UNCHANGED vars
  PROVE  Inv'
<1>1. UNCHANGED <<interface, exclusive, ecu, call, steps, connection, teardown, failed, found,
                  last, postcheck, excused, clears, blocked>>
  BY DEF vars
<1>2. Fitted' = Fitted
  BY <1>1, SameFitted
<1>3. TypeInv' /\ Covered'
  BY <1>1, <1>2 DEF Inv, TypeInv, Covered
<1>4. Planned' /\ Connected' /\ Numbered' /\ NeverInOwnWay'
  BY <1>1 DEF Inv, Planned, Connected, Numbered, NeverInOwnWay, supports_raw_can
<1> QED
  BY <1>3, <1>4 DEF Inv

-----------------------------------------------------------------------------
(***************************************************************************)
(* The theorems.                                                           *)
(***************************************************************************)
LEMMA InitInv ==
  ASSUME Init
  PROVE  Inv
<1>1. /\ ecu \in [Names -> {"absent", "app"}]
      /\ call = [s \in Tasks |-> "none"] /\ steps = [s \in Tasks |-> <<>>]
      /\ connection = [s \in Tasks |-> None] /\ teardown = {}
      /\ failed = [s \in Tasks |-> FALSE] /\ found = {} /\ postcheck = None
      /\ clears = [s \in Tasks |-> <<0, 0>>] /\ blocked = {}
  BY DEF Init, Names
<1>2. TypeInv
  <2>1. steps \in [Tasks -> Seq(Steps)]
    BY <1>1
  <2> QED
    BY <1>1, <2>1 DEF TypeInv, Calls, Tasks
<1>3. Planned
  BY <1>1, NothingLeft DEF Planned
<1>4. Connected
  BY <1>1 DEF Connected
<1>5. Numbered
  <2>1. Plan(<<>>, "none", supports_raw_can)
    BY NothingLeft
  <2>2. \A n, bad : Counted(<<>>, "none", n, bad)
    BY <2>1, NotCounted
  <2> QED
    BY <1>1, <2>2 DEF Numbered
<1>6. Covered /\ NeverInOwnWay
  BY <1>1 DEF Covered, NeverInOwnWay, Tasks
<1> QED
  BY <1>2, <1>3, <1>4, <1>5, <1>6 DEF Inv

LEMMA NextInv ==
  ASSUME Inv, [Next]_vars
  PROVE  Inv'
<1>1. ASSUME NEW what \in {"scan", "unlock", "immo", "read", "flash"}, Begin(what) PROVE Inv'
  BY <1>1, BeginInv
<1>2. CASE BeginPostCheck
  BY <1>2, BeginPostCheckInv
<1>3. CASE IgnitionCycled
  BY <1>3, IgnitionCycledInv
<1>4. ASSUME NEW s \in Tasks, Progress(s) PROVE Inv'
  <2>1. CASE Return(s)
    BY <2>1, ReturnInv
  <2>2. CASE Open(s)
    <3>1. CASE /\ Openable(s)
               /\ connection' = [connection EXCEPT ![s] = Channel(s)]
               /\ Proceed(s) /\ UNCHANGED <<failed, excused, clears, blocked>>
      BY <2>2, <3>1, OpenSucceeds
    <3>2. CASE /\ blocked' = IF exclusive THEN blocked \cup {<<s, t>> : t \in Holders} ELSE blocked
               /\ steps' = [steps EXCEPT ![s] = AfterFailedOpen(s)]
               /\ failed' = [failed EXCEPT ![s] = @ \/ (AfterFailedOpen(s) = <<>> /\ Channel(s) # "obd")]
               /\ excused' = IF call[s] = "scan" /\ AfterFailedOpen(s) # ScanEach
                             THEN excused \cup {Channel(s)} ELSE excused
               /\ clears' = CountClear(s, Channel(s))
               /\ UNCHANGED connection
      <4>1. /\ Doing(s, "open")
            /\ UNCHANGED <<interface, exclusive, ecu, call, teardown, found, last, postcheck>>
        BY <2>2 DEF Open
      <4> QED
        BY <3>2, <4>1, OpenFails
    <3> QED
      BY <2>2, <3>1, <3>2 DEF Open
  <2>3. CASE Close(s)
    BY <2>3, CloseInv
  <2>4. CASE TornDown(s)
    BY <2>4, TornDownInv
  <2>5. CASE Clear(s)
    BY <2>5, ClearInv
  <2>6. CASE Identify(s)
    BY <2>6, IdentifyInv
  <2>7. CASE UnlockState(s)
    BY <2>7, UnlockInv
  <2>8. CASE Read(s)
    BY <2>8, ReadInv
  <2>9. CASE Flash(s)
    BY <2>9, FlashInv
  <2> QED
    BY <1>4, <2>1, <2>2, <2>3, <2>4, <2>5, <2>6, <2>7, <2>8, <2>9 DEF Progress
<1>5. CASE UNCHANGED vars
  BY <1>5, StutterInv
<1> QED
  BY <1>1, <1>2, <1>3, <1>4, <1>5 DEF Next

\* What a call has left to do determines what it holds, what it has cleared and
\* what a scan has yet to ask, on every kind of hardware and for any channels.
THEOREM Invariance == Spec => []Inv
<1>1. Init => Inv
  BY InitInv
<1>2. Inv /\ [Next]_vars => Inv'
  BY NextInv
<1> QED
  BY <1>1, <1>2, PTL DEF Spec

\* A call that has ended, however it ended, has let go of the device
\* (session.rs, Session::close).
THEOREM NothingLeaks == Spec => []TypeOK
<1>1. Inv => TypeOK
  BY DEF Inv, TypeInv, TypeOK, Planned, Connected, Names
<1> QED
  BY <1>1, Invariance, PTL

\* The device is refused to no call because of its own task.
THEOREM NoSelfBlocking == Spec => []NeverInOwnWay
<1>1. Inv => NeverInOwnWay
  BY DEF Inv
<1> QED
  BY <1>1, Invariance, PTL

\* A scan over any list of channels reports what is there, and misses only what
\* it could not ask.
THEOREM CompleteScan == Spec => []ScanFindsAll
<1>1. Inv => ScanFindsAll
  <2> SUFFICES ASSUME Inv, call["front"] = "scan", steps["front"] = <<>>
               PROVE  found \subseteq Fitted /\ Fitted \ excused \subseteq found
    BY DEF ScanFindsAll
  <2>1. ToAsk(<<>>) = {}
    <3>1. \A i \in 1..Len(<<>>) : FALSE
      OBVIOUS
    <3> QED
      BY <3>1 DEF ToAsk
  <2> QED
    BY <2>1 DEF Inv, Covered
<1> QED
  BY <1>1, Invariance, PTL

\* One attempt at a clear before the programming session, and one after it when
\* a flash has succeeded, on either kind of hardware.
THEOREM ClearedAround == Spec => []ClearsBracket
<1>1. Inv => ClearsBracket
  <2> SUFFICES ASSUME Inv PROVE ClearsBracket
    OBVIOUS
  <2>1. ASSUME NEW s \in Tasks, Doing(s, "flash") \/ Doing(s, "unlock") PROVE clears[s] = <<1, 0>>
    <3>1. PICK do \in {"flash", "unlock"} : Doing(s, do)
      BY <2>1
    <3>2. /\ steps[s] \in Seq(Steps) /\ steps[s] # <<>> /\ steps[s][1].do = do
          /\ Brackets(steps[s], call[s]) /\ Counted(steps[s], call[s], clears[s], failed[s])
      BY <3>1, AtStep
    <3>3. Main(steps[s][1])
      BY <3>2 DEF Main
    <3> QED
      BY <3>2, <3>3, MainStep
  <2>2. ASSUME call["front"] = "flash", steps["front"] = <<>>, ~failed["front"]
        PROVE  clears["front"] = <<1, 1>>
    <3>1. Counted(<<>>, "flash", clears["front"], failed["front"])
      BY <2>2 DEF Inv, Numbered, Tasks
    <3>2. ~HasMain(<<>>) /\ ~HasClear(<<>>)
      <4>1. \A i \in 1..Len(<<>>) : FALSE
        OBVIOUS
      <4> QED
        BY <4>1 DEF HasMain, HasClear
    <3> QED
      BY <2>2, <3>1, <3>2 DEF Counted
  <2> QED
    BY <2>1, <2>2 DEF ClearsBracket
<1> QED
  BY <1>1, Invariance, PTL
=============================================================================

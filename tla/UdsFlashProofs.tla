--------------------------- MODULE UdsFlashProofs ---------------------------
(***************************************************************************)
(* Proofs about the UDS flash sequence, for every plan, size, chunk table  *)
(* and number of runs: what it reports, and after that what it promises on *)
(* the way there.                                                          *)
(***************************************************************************)
EXTENDS UdsFlash, TLAPS

USE PlanAssumption, LimitAssumption

\* Facts about the constants: every entry is written onto one of the blocks,
\* and a patch never onto block 5.
LEMMA EntryFacts ==
  ASSUME NEW i \in Entry
  PROVE  /\ Number[i] \in 1..9 /\ Size[i] \in Nat /\ Size[i] > 0
         /\ Target(i) \in Blocks /\ IsPatch(i) \in BOOLEAN
         /\ i \in 0..N /\ i # 0 /\ i \in Nat
  BY DEF Entry, Target, Blocks, IsPatch

\* The counter stays a counter: wrapping_add(1).
LEMMA CounterFacts ==
  ASSUME NEW c \in 0..(CounterMod - 1)
  PROVE  (c + 1) % CounterMod \in 0..(CounterMod - 1)
  BY DEF Entry

\* A chunk starts where the last one ended, is not empty while bytes are left,
\* and does not reach beyond the payload.
LEMMA ChunkFacts ==
  ASSUME TypeOK, Position
  PROVE  /\ ChunkEnd \in Nat
         /\ idx # 0 => /\ ChunkEnd <= Size[idx] /\ offset <= ChunkEnd
                       /\ offset < Size[idx] => offset < ChunkEnd
  <1>1. CASE idx = 0
    BY <1>1 DEF ChunkEnd
  <1>2. CASE idx # 0
    <2>1. idx \in Entry
      BY <1>2 DEF TypeOK, ToolTypeOK, Entry
    <2>2. Size[idx] \in Nat /\ offset \in 0..Size[idx] /\ chunk \in Nat \ {0}
      BY <1>2, <2>1, EntryFacts DEF TypeOK, ToolTypeOK, Position
    <2>3. PatchChunkSize(Target(idx), offset) \in Nat \ {0}
      BY <2>1, <2>2, ChunkAssumption
    <2> QED
      BY <1>2, <2>2, <2>3 DEF ChunkEnd, Smaller
  <1> QED
    BY <1>1, <1>2

-----------------------------------------------------------------------------
\* The initial state satisfies the invariant.
LEMMA InitInv == Init => Inv
<1> SUFFICES ASSUME Init PROVE Inv
  OBVIOUS
<1>1. TypeOK
  <2>1. Blank \in Content /\ Old \in Content /\ Closed \in Download
    BY DEF Content, Blank, Old, Closed, Download
  <2>2. /\ waiting \in BOOLEAN /\ pending \in BOOLEAN /\ faulty \in BOOLEAN
        /\ seeded \in BOOLEAN /\ access \in BOOLEAN
    BY Zenon DEF Init
  <2>3. idx \in 0..N /\ run \in 0..MaxRuns /\ fingerprint \in 0..MaxRuns
    BY DEF Init
  <2>4. counter \in 0..(CounterMod - 1) /\ attempt \in 0..(MaxPatchRetries - 1)
    BY DEF Init
  <2>5. image \in [Blocks -> Content] /\ patch \in [Blocks -> Content]
    BY <2>1 DEF Init
  <2> QED
    BY <2>1, <2>2, <2>3, <2>4, <2>5 DEF Init, TypeOK, ToolTypeOK, WireTypeOK, EcuTypeOK
<1>2. Position
  BY DEF Init, Position, Early, Unlocking, BlockSteps, Closing
<1>3. Wire
  BY DEF Init, Wire, Early, Unlocking, BlockSteps, Teardown, Authenticates, Unlocks, None
<1>4. Memory
  BY DEF Init, Memory, BlockSteps, Closing
<1> QED
  BY <1>1, <1>2, <1>3, <1>4 DEF Inv

-----------------------------------------------------------------------------
\* A message that is lost, given up on or replaced by a well-typed answer leaves
\* the wire well typed.
LEMMA WireType ==
  ASSUME TypeOK, request' \in {request, None}, late' \in {late, request, None},
         reply' \in Reply \cup {None}, stale' \in Reply \cup {None},
         pending' \in BOOLEAN, faulty' \in BOOLEAN
  PROVE  WireTypeOK'
  <1>1. /\ request' \in Request \cup {None} /\ late' \in Request \cup {None}
        /\ \A r \in {request', late'} : r \in {request, late, None}
    BY DEF TypeOK, WireTypeOK
  <1>2. \A r \in {request', late'} : r # None /\ r.step = "download" => r.entry # 0
    BY <1>1 DEF TypeOK, WireTypeOK
  <1> QED
    BY <1>1, <1>2 DEF WireTypeOK

\* What a call of UDSClient does when it returns: the tool has stopped
\* waiting, the wire stays well typed, and nothing else of it changes.
LEMMA ReturnsType ==
  ASSUME TypeOK, NEW o, Returns(o)
  PROVE  waiting' \in BOOLEAN /\ run' \in 0..MaxRuns /\ WireTypeOK' /\ EcuTypeOK'
  <1>1. waiting' \in BOOLEAN
    BY Zenon DEF Returns
  <1>2. EcuTypeOK'
    BY DEF TypeOK, EcuTypeOK, Returns, ecu
  <1>3. faulty' \in BOOLEAN
    BY Zenon DEF TypeOK, WireTypeOK, Returns
  <1>4. /\ reply' \in Reply \cup {None} /\ stale' \in Reply \cup {None}
        /\ request' = request /\ late' = late /\ pending' = pending
    BY DEF TypeOK, WireTypeOK, Returns
  <1>5. run' \in 0..MaxRuns
    BY DEF TypeOK, ToolTypeOK, Returns
  <1>6. WireTypeOK'
    BY <1>3, <1>4, WireType DEF TypeOK, WireTypeOK
  <1> QED
    BY <1>1, <1>2, <1>5, <1>6


\* Calls that return and leave the data of the tool alone.
LEMMA MoveType ==
  ASSUME TypeOK, NEW o, Returns(o), UNCHANGED data,
         pc' \in Steps \cup {"idle"}, result' \in {"none", "ok", "err", "crashed"}
  PROVE  TypeOK'
  <1>1. waiting' \in BOOLEAN /\ run' \in 0..MaxRuns /\ WireTypeOK' /\ EcuTypeOK'
    BY ReturnsType
  <1>2. ToolTypeOK'
    BY <1>1 DEF TypeOK, ToolTypeOK, data
  <1> QED
    BY <1>1, <1>2 DEF TypeOK

\* Moving on to another call keeps the types.
LEMMA GotoType ==
  ASSUME TypeOK, NEW s \in Steps, Goto(s)
  PROVE  pc' \in Steps \cup {"idle"} /\ result' \in {"none", "ok", "err", "crashed"}
  BY DEF Goto, TypeOK, ToolTypeOK

\* So does ending the run with an error.
LEMMA FailType ==
  ASSUME Fail
  PROVE  pc' \in Steps \cup {"idle"} /\ result' \in {"none", "ok", "err", "crashed"}
  BY DEF Fail

\* Calls whose error ends the run keep the types.
LEMMA TypeMandatory == ASSUME TypeOK, Mandatory PROVE TypeOK'
  <1>1. PICK o \in Outcome : Returns(o) /\ IF o = "ok" THEN Goto(After[pc]) ELSE Fail
    BY DEF Mandatory
  <1>2. After[pc] \in Steps
    BY DEF Mandatory, After, Steps, Testers
  <1>3. pc' \in Steps \cup {"idle"} /\ result' \in {"none", "ok", "err", "crashed"}
    BY <1>1, <1>2, GotoType, FailType
  <1> QED
    BY <1>1, <1>3, MoveType DEF Mandatory

\* So do the calls that only choose the next one.
LEMMA TypeSimple ==
  ASSUME TypeOK, ReadVin \/ ProgrammingSession \/ TransferExit \/ TesterAfterVerify
  PROVE  TypeOK'
  <1>1. CASE ReadVin
    <2>1. PICK o \in Outcome : Returns(o)
      BY <1>1 DEF ReadVin
    <2>2. "precondition" \in Steps
      BY DEF Steps
    <2> QED
      BY <1>1, <2>1, <2>2, GotoType, MoveType DEF ReadVin
  <1>2. CASE ProgrammingSession
    <2>1. PICK o \in Outcome :
            Returns(o) /\ Goto(IF o = "ok" THEN "tester2" ELSE "switchpatch")
      BY <1>2 DEF ProgrammingSession
    <2>2. (IF o = "ok" THEN "tester2" ELSE "switchpatch") \in Steps
      BY DEF Steps, Testers
    <2> QED
      BY <1>2, <2>1, <2>2, GotoType, MoveType DEF ProgrammingSession
  <1>3. CASE TransferExit
    <2>1. PICK o \in Outcome :
            /\ Returns(o)
            /\ IF o = "ok" THEN Goto(IF IsPatch(idx) THEN "testerBlock" ELSE "checksum")
               ELSE Fail
      BY <1>3 DEF TransferExit
    <2>2. (IF IsPatch(idx) THEN "testerBlock" ELSE "checksum") \in Steps
      BY DEF Steps, Testers
    <2>3. pc' \in Steps \cup {"idle"} /\ result' \in {"none", "ok", "err", "crashed"}
      BY <2>1, <2>2, GotoType, FailType
    <2> QED
      BY <1>3, <2>1, <2>3, MoveType DEF TransferExit
  <1>4. CASE TesterAfterVerify
    <2>1. PICK o \in Outcome : Returns(o)
      BY <1>4 DEF TesterAfterVerify
    <2>2. "reset" \in Steps
      BY DEF Steps
    <2> QED
      BY <1>4, <2>1, <2>2, GotoType, MoveType DEF TesterAfterVerify
  <1> QED
    BY <1>1, <1>2, <1>3, <1>4

\* So does SwitchPatch, which reads the bus itself.
LEMMA TypeSwitchPatch == ASSUME TypeOK, SwitchPatch PROVE TypeOK'
  <1>1. "tester2" \in Steps
    BY DEF Steps, Testers
  <1>2. pc' \in Steps \cup {"idle"} /\ result' \in {"none", "ok", "err", "crashed"}
    BY <1>1, GotoType, FailType DEF SwitchPatch
  <1>3. waiting' \in BOOLEAN /\ faulty' \in BOOLEAN
    BY Zenon DEF SwitchPatch, TypeOK, WireTypeOK
  <1>4. WireTypeOK'
    <2>1. /\ reply' \in Reply \cup {None} /\ stale' \in Reply \cup {None}
          /\ request' = request /\ late' = late /\ pending' = pending
      BY DEF TypeOK, WireTypeOK, SwitchPatch
    <2> QED
      BY <1>3, <2>1, WireType DEF TypeOK, WireTypeOK
  <1>5. ToolTypeOK' /\ EcuTypeOK'
    BY <1>2, <1>3 DEF SwitchPatch, TypeOK, ToolTypeOK, EcuTypeOK, data, ecu
  <1> QED
    BY <1>4, <1>5 DEF TypeOK

\* So does the seed request.
LEMMA TypeSecuritySeed == ASSUME TypeOK, SecuritySeed PROVE TypeOK'
  <1>0. "key" \in Steps
    BY DEF Steps
  <1>1. CASE \E o \in Outcome : Returns(o) /\ IF o = "ok" THEN Goto("key") ELSE Fail
    <2>1. PICK o \in Outcome : Returns(o) /\ IF o = "ok" THEN Goto("key") ELSE Fail
      BY <1>1
    <2>2. pc' \in Steps \cup {"idle"} /\ result' \in {"none", "ok", "err", "crashed"}
      BY <2>1, <1>0, GotoType, FailType
    <2> QED
      BY <2>1, <2>2, MoveType DEF SecuritySeed
  <1>2. CASE /\ waiting /\ ~pending /\ waiting' = FALSE
             /\ stale = None /\ reply # None /\ reply.code = "ok" /\ reply' = None
             /\ Fail /\ faulty' = TRUE
             /\ UNCHANGED <<request, late, stale, pending, run, ecu>>
    <2>1. waiting' \in BOOLEAN /\ faulty' \in BOOLEAN
      BY <1>2, Zenon
    <2>2. WireTypeOK'
      BY <1>2, <2>1, WireType DEF TypeOK, WireTypeOK
    <2>3. ToolTypeOK' /\ EcuTypeOK'
      BY <1>2, <2>1, FailType DEF SecuritySeed, TypeOK, ToolTypeOK, EcuTypeOK, data, ecu
    <2> QED
      BY <2>2, <2>3 DEF TypeOK
  <1> QED
    BY <1>1, <1>2 DEF SecuritySeed

\* The next prepared block is one of the plan.
LEMMA TypeNextBlock == ASSUME TypeOK, NextBlock PROVE TypeOK'
  <1>1. PICK o \in Outcome :
          /\ Returns(o)
          /\ \/ /\ o = "ok" /\ idx < N
                /\ idx' = idx + 1 /\ Goto(FirstStep(idx + 1))
             \/ o = "ok" /\ idx = N /\ UNCHANGED idx /\ Goto("verify")
             \/ o # "ok" /\ UNCHANGED idx /\ Fail
    BY DEF NextBlock
  <1>2. waiting' \in BOOLEAN /\ run' \in 0..MaxRuns /\ WireTypeOK' /\ EcuTypeOK'
    BY <1>1, ReturnsType
  <1>3. FirstStep(idx + 1) \in Steps /\ "verify" \in Steps
    BY DEF FirstStep, Steps
  <1>4. pc' \in Steps \cup {"idle"} /\ result' \in {"none", "ok", "err", "crashed"}
    BY <1>1, <1>3, GotoType, FailType
  <1>5. idx' \in 0..N
    BY <1>1 DEF TypeOK, ToolTypeOK
  <1> QED
    BY <1>2, <1>4, <1>5 DEF NextBlock, TypeOK, ToolTypeOK

\* The chunk size agreed with the module is not zero.
LEMMA TypeRequestDownload == ASSUME TypeOK, RequestDownload PROVE TypeOK'
  <1>0. LoopStep(0) \in Steps
    BY DEF LoopStep, Steps
  <1>1. pc' \in Steps \cup {"idle"} /\ result' \in {"none", "ok", "err", "crashed"}
    BY <1>0, GotoType, FailType DEF RequestDownload
  <1>2. chunk' \in Nat \ {0}
    <2>1. \A max \in MaxBlockLengths : TransferSize(max) \in Nat
      BY DEF TransferSize, Smaller
    <2> QED
      BY <2>1 DEF RequestDownload, TypeOK, ToolTypeOK
  <1>3. waiting' \in BOOLEAN /\ run' \in 0..MaxRuns /\ WireTypeOK' /\ EcuTypeOK'
    <2>1. CASE \E o \in Outcome : Returns(o)
      BY <2>1, ReturnsType
    <2>2. CASE /\ waiting /\ ~pending /\ waiting' = FALSE
               /\ stale = None /\ reply # None /\ reply.code = "ok" /\ reply' = None
               /\ Fail /\ faulty' = TRUE
               /\ UNCHANGED <<request, late, stale, pending, run, ecu, chunk>>
      <3>1. waiting' \in BOOLEAN /\ faulty' \in BOOLEAN
        BY <2>2, Zenon
      <3>2. WireTypeOK'
        BY <2>2, <3>1, WireType DEF TypeOK, WireTypeOK
      <3> QED
        BY <2>2, <3>1, <3>2 DEF TypeOK, ToolTypeOK, EcuTypeOK, ecu
    <2> QED
      BY <2>1, <2>2 DEF RequestDownload, Outcome
  <1> QED
    BY <1>1, <1>2, <1>3 DEF RequestDownload, TypeOK, ToolTypeOK

\* Offset, counter and attempts stay within their ranges.
LEMMA TypeTransfer ==
  ASSUME TypeOK, Position, TransferNormal \/ TransferPatch
  PROVE  TypeOK'
  <1>0. /\ \A n : LoopStep(n) \in Steps
        /\ "transfer" \in Steps
        /\ ChunkEnd \in Nat
        /\ NextCounter \in 0..(CounterMod - 1)
    BY ChunkFacts, CounterFacts DEF LoopStep, Steps, NextCounter, TypeOK, ToolTypeOK
  <1>1. CASE TransferNormal
    <2>1. PICK o \in Outcome :
            /\ Returns(o)
            /\ \/ /\ o = "ok" /\ Goto(LoopStep(ChunkEnd))
                  /\ offset' = ChunkEnd /\ counter' = NextCounter
               \/ o # "ok" /\ Fail /\ UNCHANGED <<offset, counter>>
      BY <1>1 DEF TransferNormal
    <2>2. waiting' \in BOOLEAN /\ run' \in 0..MaxRuns /\ WireTypeOK' /\ EcuTypeOK'
      BY <2>1, ReturnsType
    <2>3. pc' \in Steps \cup {"idle"} /\ result' \in {"none", "ok", "err", "crashed"}
      BY <2>1, <1>0, GotoType, FailType
    <2>4. offset' \in Nat /\ counter' \in 0..(CounterMod - 1)
      BY <2>1, <1>0 DEF TypeOK, ToolTypeOK
    <2> QED
      BY <1>1, <2>2, <2>3, <2>4 DEF TransferNormal, TypeOK, ToolTypeOK
  <1>2. CASE TransferPatch
    <2>1. PICK o \in Outcome : RetryPatch(o, {"nrc"}, NextCounter, attempt + 1)
      BY <1>2 DEF TransferPatch
    <2>2. waiting' \in BOOLEAN /\ run' \in 0..MaxRuns /\ WireTypeOK' /\ EcuTypeOK'
      BY <2>1, ReturnsType DEF RetryPatch
    <2>3. pc' \in Steps \cup {"idle"} /\ result' \in {"none", "ok", "err", "crashed"}
      BY <2>1, <1>0, GotoType, FailType DEF RetryPatch
    <2>4. offset' \in Nat /\ counter' \in 0..(CounterMod - 1)
      BY <2>1, <1>0 DEF TypeOK, ToolTypeOK, RetryPatch
    <2>5. attempt' \in 0..(MaxPatchRetries - 1)
      BY <2>1 DEF TypeOK, ToolTypeOK, RetryPatch
    <2> QED
      BY <1>2, <2>2, <2>3, <2>4, <2>5 DEF TransferPatch, TypeOK, ToolTypeOK
  <1> QED
    BY <1>1, <1>2

\* A run starts well typed.
LEMMA TypeStart == ASSUME TypeOK, Start PROVE TypeOK'
  <1>1. waiting' \in BOOLEAN /\ pending' \in BOOLEAN /\ faulty' \in BOOLEAN
    BY Zenon DEF Start
  <1>2. counter' \in 0..(CounterMod - 1) /\ attempt' \in 0..(MaxPatchRetries - 1) /\ idx' \in 0..N
    BY DEF Start
  <1>3. run' \in 0..MaxRuns
    BY DEF Start, TypeOK, ToolTypeOK
  <1>4. WireTypeOK'
    <2>1. /\ request' = None /\ reply' = None /\ late' \in {late, request, None}
          /\ stale' \in Reply \cup {None}
      BY DEF Start, Abandoned, Oldest, TypeOK, WireTypeOK
    <2> QED
      BY <1>1, <2>1, WireType
  <1> QED
    BY <1>1, <1>2, <1>3, <1>4 DEF Start, TypeOK, ToolTypeOK, EcuTypeOK, ecu, Steps

\* The request of the awaited call is a request; a download is of a block.
LEMMA CurrentRequestType ==
  ASSUME TypeOK, Position, pc # "idle"
  PROVE  /\ CurrentRequest \in Request /\ CurrentRequest # None
         /\ CurrentRequest.step = "download" => CurrentRequest.entry # 0
  <1>1. pc \in Steps /\ ChunkEnd \in Nat
    BY ChunkFacts DEF TypeOK, ToolTypeOK
  <1>2. CurrentRequest \in Request
    BY <1>1 DEF CurrentRequest, Request, TypeOK, ToolTypeOK
  <1>3. "none" \notin Steps
    BY DEF Steps, Testers
  <1>4. CurrentRequest # None
    BY <1>1, <1>3 DEF CurrentRequest, None
  <1> QED
    BY <1>2, <1>4 DEF CurrentRequest, Position, BlockSteps

\* Sending keeps the types.
LEMMA TypeSend == ASSUME TypeOK, Position, Send PROVE TypeOK'
  <1>1. waiting' \in BOOLEAN
    BY Zenon DEF Send
  <1>2. WireTypeOK'
    <2>1. /\ late' \in {late, request, None} /\ reply' = None
          /\ stale' \in Reply \cup {None}
      BY DEF Send, Abandoned, Oldest, TypeOK, WireTypeOK
    <2>2. pending' \in BOOLEAN /\ faulty' \in BOOLEAN
      BY Zenon DEF Send, TypeOK, WireTypeOK
    <2>3. request' \in Request /\ (request'.step = "download" => request'.entry # 0)
      BY CurrentRequestType DEF Send
    <2>4. late' \in Request \cup {None} /\ (late' # None /\ late'.step = "download" => late'.entry # 0)
      BY <2>1 DEF TypeOK, WireTypeOK
    <2> QED
      BY <2>1, <2>2, <2>3, <2>4 DEF WireTypeOK
  <1> QED
    BY <1>1, <1>2 DEF Send, TypeOK, ToolTypeOK, EcuTypeOK, ecu

\* So does the end of a run.
LEMMA TypeEnd == ASSUME TypeOK, EcuReset \/ Crash PROVE TypeOK'
  <1>1. CASE EcuReset
    BY <1>1, MoveType DEF EcuReset
  <1>2. CASE Crash
    <2>1. waiting' \in BOOLEAN /\ pending' \in BOOLEAN /\ faulty' \in BOOLEAN
      BY <1>2, Zenon DEF Crash
    <2>2. WireTypeOK'
      BY <1>2, <2>1, WireType DEF Crash, TypeOK, WireTypeOK
    <2> QED
      BY <1>2, <2>1, <2>2 DEF Crash, data, ecu, TypeOK, ToolTypeOK, EcuTypeOK
  <1> QED
    BY <1>1, <1>2

\* Response-pending answers keep the types.
LEMMA TypePending == ASSUME TypeOK, WaitOn \/ EcuPending PROVE TypeOK'
  <1>1. pending' \in BOOLEAN /\ faulty' \in BOOLEAN
    BY Zenon DEF WaitOn, EcuPending, TypeOK, WireTypeOK
  <1>2. WireTypeOK'
    BY <1>1, WireType DEF WaitOn, EcuPending, TypeOK, WireTypeOK
  <1> QED
    BY <1>2 DEF WaitOn, EcuPending, tool, ecu, TypeOK, ToolTypeOK, EcuTypeOK

\* Answers of the module are well typed.
LEMMA ReplyType ==
  ASSUME NEW r \in Request, NEW c \in Code
  PROVE  Answer(r, c) \in Reply
  BY DEF Answer, Request, Reply, Services

\* What programming a chunk leaves behind is content.
LEMMA ExtendType ==
  ASSUME NEW c, NEW i \in 0..N, NEW from, NEW to \in Nat
  PROVE  Extend(c, i, from, to) \in Content
  BY DEF Extend, Content, Garbled

\* A closed download is a download.
LEMMA ClosedType == Closed \in Download
  BY DEF Closed, Download

\* Whatever request the module carries out, its memory stays well typed.
LEMMA EffectType ==
  ASSUME TypeOK, NEW r \in Request, r.step = "download" => r.entry # 0, EcuEffect(r)
  PROVE  EcuTypeOK'
  <1>0. /\ r.step \in Steps /\ r.entry \in 0..N /\ r.from \in Nat /\ r.to \in Nat
        /\ r.run \in 0..MaxRuns /\ Blank \in Content
    BY DEF Request, Blank, Content
  <1>1. CASE r.step \in {"extended", "programming", "switchpatch", "reset"}
    <2>1. seeded' \in BOOLEAN /\ access' \in BOOLEAN
      BY <1>1, Zenon DEF EcuEffect, EnterSession
    <2>2. dl' \in Download
      BY <1>1, ClosedType DEF EcuEffect, EnterSession
    <2> QED
      BY <1>1, <2>1, <2>2 DEF EcuEffect, EnterSession, TypeOK, EcuTypeOK
  <1>2. CASE r.step \in {"seed", "key"}
    <2>1. seeded' \in BOOLEAN /\ access' \in BOOLEAN
      <3>1. seeded' = TRUE \/ seeded' = seeded
        BY <1>2, Zenon DEF EcuEffect
      <3>2. access' = TRUE \/ access' = access
        BY <1>2, Zenon DEF EcuEffect
      <3> QED
        BY <3>1, <3>2, Zenon DEF TypeOK, EcuTypeOK
    <2> QED
      BY <1>2, <2>1 DEF EcuEffect, TypeOK, EcuTypeOK
  <1>3. CASE r.step = "workshop"
    BY <1>0, <1>3 DEF EcuEffect, TypeOK, EcuTypeOK
  <1>4. CASE r.step \in {"erase", "eraseCal"}
    BY <1>0, <1>4 DEF EcuEffect, Erased, TypeOK, EcuTypeOK
  <1>5. CASE r.step = "download"
    <2>1. r.entry \in Entry
      BY <1>0, <1>5 DEF Entry
    <2>2. dl' \in Download
      BY <1>5, <2>1, EntryFacts DEF EcuEffect, Download, Blocks
    <2> QED
      BY <1>0, <1>5, <2>2 DEF EcuEffect, TypeOK, EcuTypeOK
  <1>6. CASE r.step = "transfer"
    <2>1. dl' \in Download
      BY <1>6, CounterFacts DEF EcuEffect, Download, TypeOK, EcuTypeOK
    <2> QED
      BY <1>0, <1>6, <2>1, ExtendType DEF EcuEffect, TypeOK, EcuTypeOK
  <1>7. CASE r.step = "exit"
    BY <1>7, ClosedType DEF EcuEffect, TypeOK, EcuTypeOK
  <1>8. CASE r.step \in {"vin", "precondition", "checksum", "verify"} \cup Testers
    BY <1>8 DEF EcuEffect, Testers, ecu, TypeOK, EcuTypeOK
  <1> QED
    BY <1>0, <1>1, <1>2, <1>3, <1>4, <1>5, <1>6, <1>7, <1>8 DEF Steps

\* So it does when it refuses one.
LEMMA RefusedType == ASSUME TypeOK, NEW r, Refused(r) PROVE EcuTypeOK'
  <1>1. dl' \in Download
    BY CounterFacts DEF Refused, Download, TypeOK, EcuTypeOK
  <1> QED
    BY <1>1 DEF Refused, TypeOK, EcuTypeOK

\* Whatever the module and the bus do keeps the types.
LEMMA TypeModule ==
  ASSUME TypeOK, EcuAccept \/ EcuRefuse \/ EcuCatchUp \/ EcuLapse \/ Lose
  PROVE  TypeOK'
  <1>1. CASE EcuAccept
    <2>1. request \in Request
      BY <1>1 DEF EcuAccept, TypeOK, WireTypeOK
    <2>2. EcuTypeOK'
      BY <1>1, <2>1, EffectType DEF EcuAccept, TypeOK, WireTypeOK
    <2>3. reply' \in Reply
      BY <1>1, <2>1, ReplyType DEF EcuAccept, Code
    <2>4. WireTypeOK'
      BY <1>1, <2>3, WireType DEF EcuAccept, TypeOK, WireTypeOK
    <2> QED
      BY <1>1, <2>2, <2>4 DEF EcuAccept, TypeOK, ToolTypeOK, tool
  <1>2. CASE EcuRefuse
    <2>1. request \in Request
      BY <1>2 DEF EcuRefuse, TypeOK, WireTypeOK
    <2>2. reply' \in Reply
      BY <1>2, <2>1, ReplyType DEF EcuRefuse, Code
    <2>3. EcuTypeOK'
      BY <1>2, RefusedType DEF EcuRefuse
    <2>4. faulty' \in BOOLEAN
      BY <1>2, Zenon DEF EcuRefuse
    <2>5. WireTypeOK'
      BY <1>2, <2>2, <2>4, WireType DEF EcuRefuse, TypeOK, WireTypeOK
    <2> QED
      BY <1>2, <2>3, <2>5 DEF EcuRefuse, TypeOK, ToolTypeOK, tool
  <1>5. CASE EcuCatchUp
    <2>1. late \in Request
      BY <1>5 DEF EcuCatchUp, TypeOK, WireTypeOK
    <2>2. EcuTypeOK'
      BY <1>5, <2>1, EffectType, RefusedType DEF EcuCatchUp, TypeOK, WireTypeOK
    <2>3. stale' \in Reply
      BY <1>5, <2>1, ReplyType DEF EcuCatchUp, Code
    <2>4. WireTypeOK'
      BY <1>5, <2>3, WireType DEF EcuCatchUp, TypeOK, WireTypeOK
    <2> QED
      BY <1>5, <2>2, <2>4 DEF EcuCatchUp, TypeOK, ToolTypeOK, tool
  <1>3. CASE EcuLapse
    <2>1. seeded' \in BOOLEAN /\ access' \in BOOLEAN /\ faulty' \in BOOLEAN
      BY <1>3, Zenon DEF EcuLapse, EnterSession
    <2>2. dl' \in Download
      BY <1>3, ClosedType DEF EcuLapse, EnterSession
    <2> QED
      BY <1>3, <2>1, <2>2
      DEF EcuLapse, EnterSession, TypeOK, ToolTypeOK, WireTypeOK, EcuTypeOK, tool, wire
  <1>4. CASE Lose
    <2>1. faulty' \in BOOLEAN
      BY <1>4, Zenon DEF Lose
    <2>2. WireTypeOK'
      BY <1>4, <2>1, WireType DEF Lose, TypeOK, WireTypeOK
    <2> QED
      BY <1>4, <2>2 DEF Lose, TypeOK, ToolTypeOK, EcuTypeOK, tool, ecu
  <1> QED
    BY <1>1, <1>2, <1>3, <1>4, <1>5

\* Every step keeps the types.
LEMMA TypeStep == ASSUME TypeOK, Position, [Next]_vars PROVE TypeOK'
  <1>1. CASE ToolStep
    BY <1>1, TypeStart, TypeSend, TypeMandatory, TypeSimple, TypeSwitchPatch,
       TypeSecuritySeed, TypeNextBlock, TypeRequestDownload, TypeTransfer, TypeEnd,
       TypePending
    DEF ToolStep
  <1>2. CASE Crash
    BY <1>2, TypeEnd
  <1>3. CASE EcuAccept \/ EcuRefuse \/ EcuCatchUp \/ EcuLapse \/ Lose
    BY <1>3, TypeModule
  <1>4. CASE UNCHANGED vars
    BY <1>4 DEF vars, tool, wire, ecu, TypeOK, ToolTypeOK, WireTypeOK, EcuTypeOK
  <1> QED
    BY <1>1, <1>2, <1>3, <1>4, TypePending DEF Next

-----------------------------------------------------------------------------
(***************************************************************************)
(* Position: every step keeps the tool where its loop says it is.          *)
(***************************************************************************)
LEMMA PositionMove ==
  ASSUME Inv, pc # "idle", result' = result, idx' = idx, offset' = offset,
         \/ pc \in Early /\ pc' \in Early \cup {"key"}
         \/ pc \in Unlocking /\ pc' \in Unlocking
         \/ pc = "checksum" /\ pc' = "testerBlock"
         \/ pc \in {"erase", "eraseCal"} /\ pc' = "download"
         \/ pc = "exit" /\ pc' \in {"checksum", "testerBlock"}
         \/ pc \in Closing /\ pc' \in Closing
  PROVE  Position'
  BY DEF Inv, Position, Early, Unlocking, BlockSteps, Closing

\* A failed run has no position to keep.
LEMMA PositionFail ==
  ASSUME Inv, Fail, UNCHANGED <<idx, offset>>
  PROVE  Position'
  BY DEF Inv, Position, Fail, Early, Unlocking, BlockSteps, Closing

\* Calls with one successor keep the position.
LEMMA PositionMandatory == ASSUME Inv, Mandatory PROVE Position'
  <1>1. PICK o \in Outcome : Returns(o) /\ IF o = "ok" THEN Goto(After[pc]) ELSE Fail
    BY DEF Mandatory
  <1>2. CASE o = "ok"
    BY <1>1, <1>2, PositionMove
    DEF Mandatory, After, Goto, data, Early, Unlocking, Closing
  <1>3. CASE o # "ok"
    BY <1>1, <1>3, PositionFail DEF Mandatory, data
  <1> QED
    BY <1>2, <1>3

\* So do the calls before the key.
LEMMA PositionEarly ==
  ASSUME Inv, ReadVin \/ ProgrammingSession \/ SwitchPatch \/ SecuritySeed
  PROVE  Position'
  <1>1. CASE ReadVin
    BY <1>1, PositionMove DEF ReadVin, Goto, data, Early
  <1>2. CASE ProgrammingSession
    BY <1>2, PositionMove DEF ProgrammingSession, Goto, data, Early
  <1>3. CASE SwitchPatch
    BY <1>3, PositionMove, PositionFail DEF SwitchPatch, Goto, data, Early
  <1>4. CASE SecuritySeed
    BY <1>4, PositionMove, PositionFail DEF SecuritySeed, Goto, data, Early
  <1> QED
    BY <1>1, <1>2, <1>3, <1>4

\* So do the transfer exit and the calls after the last block.
LEMMA PositionExit ==
  ASSUME Inv, TransferExit \/ TesterAfterVerify \/ EcuReset \/ Crash
  PROVE  Position'
  <1>1. CASE TransferExit
    BY <1>1, PositionMove, PositionFail DEF TransferExit, Goto, data
  <1>2. CASE TesterAfterVerify
    BY <1>2, PositionMove DEF TesterAfterVerify, Goto, data, Closing
  <1>3. CASE EcuReset \/ Crash
    BY <1>3 DEF EcuReset, Crash, data, Inv, Position, Early, Unlocking, BlockSteps, Closing
  <1> QED
    BY <1>1, <1>2, <1>3

\* The loop starts every block at byte 0 and ends behind the last one.
LEMMA PositionNextBlock == ASSUME Inv, NextBlock PROVE Position'
  <1>0. idx \in 0..N /\ pc \in {"tester4", "testerBlock"} /\ offset' = 0 /\ result # "ok"
    BY DEF NextBlock, Inv, TypeOK, ToolTypeOK, Position
  <1>1. CASE idx < N /\ idx' = idx + 1 /\ Goto(FirstStep(idx + 1))
    <2>1. idx' \in Entry
      BY <1>0, <1>1 DEF Entry
    <2>2. Size[idx'] \in Nat /\ idx' # 0
      BY <2>1, EntryFacts
    <2>3. /\ pc' \in {"erase", "eraseCal", "download"} /\ result' = result
          /\ pc' = "erase" => ~IsPatch(idx')
          /\ pc' = "eraseCal" => IsPatch(idx')
      BY <1>1 DEF FirstStep, Goto
    <2> QED
      BY <1>0, <2>2, <2>3 DEF Position, Early, Unlocking, BlockSteps, Closing
  <1>2. CASE idx = N /\ idx' = idx /\ Goto("verify")
    <2>1. idx = 0 \/ Size[idx] \in Nat
      BY <1>0, EntryFacts DEF Entry
    <2> QED
      BY <1>0, <1>2, <2>1 DEF Goto, Position, Early, Unlocking, BlockSteps, Closing
  <1>3. CASE idx' = idx /\ Fail
    <2>1. idx = 0 \/ Size[idx] \in Nat
      BY <1>0, EntryFacts DEF Entry
    <2> QED
      BY <1>0, <1>3, <2>1 DEF Fail, Position, Early, Unlocking, BlockSteps, Closing
  <1> QED
    BY <1>1, <1>2, <1>3 DEF NextBlock

\* While a block is written idx names an entry and the chunk is within it.
LEMMA BlockFacts ==
  ASSUME Inv, pc \in BlockSteps
  PROVE  /\ idx \in Entry /\ idx # 0 /\ Size[idx] \in Nat /\ Size[idx] > 0
         /\ Target(idx) \in Blocks /\ IsPatch(idx) \in BOOLEAN
         /\ offset \in 0..Size[idx] /\ ChunkEnd \in 0..Size[idx]
         /\ pc = "transfer" => offset < ChunkEnd
  <1>1. idx # 0 /\ idx \in Entry
    BY DEF Inv, Position, TypeOK, ToolTypeOK, Entry
  <1>2. Size[idx] \in Nat /\ Size[idx] > 0 /\ Target(idx) \in Blocks /\ IsPatch(idx) \in BOOLEAN
    BY <1>1, EntryFacts
  <1>3. offset \in 0..Size[idx] /\ (pc = "transfer" => offset < Size[idx])
    BY <1>1, <1>2 DEF Inv, Position, TypeOK, ToolTypeOK
  <1> QED
    BY <1>1, <1>2, <1>3, ChunkFacts DEF Inv

\* The transfer loop ends exactly at the end of the payload.
LEMMA PositionTransfer ==
  ASSUME Inv, RequestDownload \/ TransferNormal \/ TransferPatch
  PROVE  Position'
  <1>0. /\ pc \in {"download", "transfer"} /\ pc \in BlockSteps /\ idx' = idx /\ result # "ok"
    BY DEF RequestDownload, TransferNormal, TransferPatch, BlockSteps, Inv, Position
  <1>1. ASSUME NEW o \in 0..Size[idx], Goto(LoopStep(o)), offset' = o
        PROVE  Position'
    BY <1>0, <1>1, BlockFacts
    DEF Goto, LoopStep, Position, Early, Unlocking, BlockSteps, Closing
  <1>2. CASE RequestDownload
    <2>1. offset' = offset /\ offset = 0 /\ 0 \in 0..Size[idx]
      BY <1>0, <1>2, BlockFacts DEF RequestDownload, Inv, Position
    <2>2. Goto(LoopStep(0)) \/ Fail
      BY <1>2 DEF RequestDownload
    <2> QED
      BY <1>0, <1>1, <2>1, <2>2, PositionFail
  <1>3. CASE TransferNormal
    <2>1. \/ Goto(LoopStep(ChunkEnd)) /\ offset' = ChunkEnd
          \/ Fail /\ offset' = offset
      BY <1>3 DEF TransferNormal
    <2> QED
      BY <1>0, <1>1, <2>1, BlockFacts, PositionFail
  <1>4. CASE TransferPatch
    <2>1. \/ Goto(LoopStep(ChunkEnd)) /\ offset' = ChunkEnd
          \/ Goto("transfer") /\ offset' = offset /\ pc = "transfer"
          \/ Fail /\ offset' = offset
      BY <1>4 DEF TransferPatch, RetryPatch
    <2>2. CASE Goto("transfer") /\ offset' = offset /\ pc = "transfer"
      BY <1>0, <2>2 DEF Goto, Inv, Position, Early, Unlocking, BlockSteps, Closing
    <2> QED
      BY <1>0, <1>1, <2>1, <2>2, BlockFacts, PositionFail
  <1> QED
    BY <1>2, <1>3, <1>4

\* Every step keeps the position.
LEMMA PositionStep == ASSUME Inv, [Next]_vars PROVE Position'
  <1>1. CASE Start
    BY <1>1 DEF Start, Position, Early, Unlocking, BlockSteps, Closing
  <1>2. CASE \/ Send \/ WaitOn \/ EcuAccept \/ EcuRefuse \/ EcuCatchUp \/ EcuPending
             \/ EcuLapse \/ Lose \/ UNCHANGED vars
    <2>1. UNCHANGED <<pc, result, idx, offset>>
      BY <1>2
      DEF Send, WaitOn, EcuAccept, EcuRefuse, EcuCatchUp, EcuPending, EcuLapse, Lose, vars, tool
    <2> QED
      BY <2>1 DEF Inv, Position
  <1> QED
    BY <1>1, <1>2, PositionMandatory, PositionEarly, PositionExit, PositionNextBlock,
       PositionTransfer
    DEF Next, ToolStep

-----------------------------------------------------------------------------
(***************************************************************************)
(* Wire: from the key on, an answer belongs to the request that was sent.  *)
(***************************************************************************)
Mid == Unlocking \cup BlockSteps \cup {"verify"}

\* The phases of a run do not overlap.
LEMMA StepSets ==
  /\ Early \cap (Unlocking \cup BlockSteps \cup Closing) = {}
  /\ Unlocking \cap (BlockSteps \cup Closing) = {} /\ BlockSteps \cap Closing = {}
  /\ "idle" \notin Early \cup Unlocking \cup BlockSteps \cup Closing
  BY DEF Early, Unlocking, BlockSteps, Closing

\* From the key on an outcome other than a timeout is the reply itself.
LEMMA ReturnsOwn ==
  ASSUME Inv, NEW o \in Code, Returns(o), pc \in Mid
  PROVE  /\ waiting /\ reply # None /\ reply.code = o /\ request = None
         /\ ~waiting' /\ request' = None /\ reply' = None /\ stale' = None /\ late' = None
  BY DEF Inv, Wire, Mid, Returns, Code

\* A call that returns, with whatever outcome, takes at most one answer off the wire.
LEMMA ReturnsError ==
  ASSUME Inv, NEW o, Returns(o)
  PROVE  /\ ~waiting' /\ request' = request /\ late' = late
         /\ stale' \in {stale, None} /\ reply' \in {reply, None}
  BY DEF Returns

\* A failed run waits for nothing.
LEMMA WireFail ==
  ASSUME Inv, Fail, ~waiting', late' = late, stale' \in {stale, None}, reply' \in {reply, None}
  PROVE  Wire'
  BY DEF Inv, Fail, Wire, Early, Unlocking, BlockSteps, Teardown

\* Moving on from the key on leaves nothing on the wire.
LEMMA WireMid ==
  ASSUME Inv, pc # "idle", pc' \in Mid \cup {"testerEnd"}, result' = result,
         ~waiting', request' = None, reply' = None, stale' = None, late' = None
  PROVE  Wire'
  BY DEF Inv, Position, Wire, Mid, Early, Unlocking, BlockSteps, Teardown

\* Before the key, moving on never brings an answer of security access with it.
LEMMA WireEarly ==
  ASSUME Inv, pc \in Early \ {"seed"}, pc' \in Early, result' = result,
         ~waiting', request' = request, late' = late,
         stale' \in {stale, None}, reply' \in {reply, None},
         pc = "extended" => ~Authenticates(stale) /\ ~Unlocks(late)
  PROVE  Wire'
  BY DEF Inv, Position, Wire, Early, Unlocking, BlockSteps, Teardown, Authenticates, Unlocks

\* Calls with one successor keep the wire.
LEMMA WireMandatory == ASSUME Inv, Mandatory PROVE Wire'
  <1>1. PICK o \in Outcome : Returns(o) /\ IF o = "ok" THEN Goto(After[pc]) ELSE Fail
    BY DEF Mandatory
  <1>2. CASE o # "ok"
    BY <1>1, <1>2, ReturnsError, WireFail
  <1>3. CASE o = "ok" /\ pc \in Early
    <2>1. pc \in Early \ {"seed"} /\ pc' \in Early /\ result' = result
      BY <1>1, <1>3 DEF Mandatory, After, Goto, Early
    <2>2. ASSUME pc = "extended" PROVE ~Authenticates(stale) /\ ~Unlocks(late)
      <3>1. Sid[pc] = "DiagnosticSessionControl"
        BY <2>2 DEF Sid, Steps
      <3>2. late = None /\ (stale = None \/ stale.sid = Sid[pc])
        BY <1>1, <1>3 DEF Returns, Inv, Wire
      <3> QED
        BY <3>1, <3>2 DEF Authenticates, Unlocks
    <2> QED
      BY <1>1, <2>1, <2>2, ReturnsError, WireEarly
  <1>4. CASE o = "ok" /\ pc \notin Early
    <2>1. pc \in Mid /\ pc # "idle" /\ pc' \in Mid \cup {"testerEnd"} /\ result' = result
      BY <1>1, <1>4 DEF Mandatory, After, Goto, Early, Mid, Unlocking, BlockSteps
    <2> QED
      BY <1>1, <1>4, <2>1, ReturnsOwn, WireMid DEF Code
  <1> QED
    BY <1>2, <1>3, <1>4

\* So do the calls before the seed.
LEMMA WireEarlySteps ==
  ASSUME Inv, ReadVin \/ ProgrammingSession \/ SwitchPatch
  PROVE  Wire'
  <1>1. CASE ReadVin
    <2>1. PICK o \in Outcome : Returns(o)
      BY <1>1 DEF ReadVin
    <2> QED
      BY <1>1, <2>1, ReturnsError, WireEarly DEF ReadVin, Goto, Early
  <1>2. CASE ProgrammingSession
    <2>1. PICK o \in Outcome :
            Returns(o) /\ Goto(IF o = "ok" THEN "tester2" ELSE "switchpatch")
      BY <1>2 DEF ProgrammingSession
    <2> QED
      BY <1>2, <2>1, ReturnsError, WireEarly DEF ProgrammingSession, Goto, Early
  <1>3. CASE SwitchPatch
    BY <1>3, WireEarly, WireFail DEF SwitchPatch, Goto, Early
  <1> QED
    BY <1>1, <1>2, <1>3

\* A late answer never opens security access: only its own one leads to the key.
LEMMA WireSeed == ASSUME Inv, SecuritySeed PROVE Wire'
  <1>1. CASE /\ Fail /\ ~waiting' /\ late' = late
             /\ stale' \in {stale, None} /\ reply' \in {reply, None}
    BY <1>1, WireFail
  <1>2. CASE Returns("ok") /\ Goto("key")
    <2>1. ~Authenticates(stale) /\ pc = "seed"
      BY DEF SecuritySeed, Inv, Wire, Early
    <2>2. stale = None /\ reply # None
      <3>1. Sid[pc] = "SecurityAccess"
        BY <2>1 DEF Sid, Steps
      <3> QED
        BY <1>2, <2>1, <3>1 DEF Returns, Authenticates
    <2>3. ~waiting' /\ request' = None /\ reply' = None /\ stale' = None /\ late' = None
      BY <1>2, <2>2 DEF Returns, Inv, Wire
    <2> QED
      BY <1>2, <2>1, <2>3, WireMid DEF Goto, Mid, Unlocking
  <1>3. \/ /\ Fail /\ ~waiting' /\ late' = late
           /\ stale' \in {stale, None} /\ reply' \in {reply, None}
        \/ Returns("ok") /\ Goto("key")
    BY DEF SecuritySeed, Returns
  <1> QED
    BY <1>1, <1>2, <1>3

\* So do the calls of the block loop: their error ends the run.
LEMMA WireBlocks ==
  ASSUME Inv, NextBlock \/ RequestDownload \/ TransferNormal \/ TransferPatch \/ TransferExit
  PROVE  Wire'
  <1>0. pc \in Mid /\ pc # "idle" /\ Code = {"ok", "nrc"}
    BY DEF NextBlock, RequestDownload, TransferNormal, TransferPatch, TransferExit, Mid,
           Unlocking, BlockSteps, Code
  <1>1. ASSUME NEW o \in Code, Returns(o), pc' \in Mid, result' = result
        PROVE  Wire'
    BY <1>0, <1>1, ReturnsOwn, WireMid
  <1>2. CASE NextBlock
    <2>1. \/ Fail /\ \E o \in Outcome : Returns(o)
          \/ Returns("ok") /\ (Goto(FirstStep(idx + 1)) \/ Goto("verify"))
      BY <1>2 DEF NextBlock
    <2>2. FirstStep(idx + 1) \in Mid /\ "verify" \in Mid
      BY DEF FirstStep, Mid, BlockSteps
    <2> QED
      BY <1>0, <1>1, <2>1, <2>2, ReturnsError, WireFail DEF Goto
  <1>3. CASE RequestDownload
    <2>1. \/ /\ Fail /\ ~waiting' /\ late' = late
             /\ stale' \in {stale, None} /\ reply' \in {reply, None}
          \/ Returns("ok") /\ Goto(LoopStep(0))
      BY <1>3 DEF RequestDownload, Returns
    <2>2. LoopStep(0) \in Mid
      BY DEF LoopStep, Mid, BlockSteps
    <2> QED
      BY <1>0, <1>1, <2>1, <2>2, WireFail DEF Goto
  <1>4. CASE TransferNormal \/ TransferPatch
    <2>1. \/ Fail /\ \E o \in Outcome : Returns(o)
          \/ Returns("ok") /\ Goto(LoopStep(ChunkEnd))
          \/ Returns("nrc") /\ Goto("transfer")
      BY <1>4 DEF TransferNormal, TransferPatch, RetryPatch
    <2>2. LoopStep(ChunkEnd) \in Mid /\ "transfer" \in Mid
      BY DEF LoopStep, Mid, BlockSteps
    <2> QED
      BY <1>0, <1>1, <2>1, <2>2, ReturnsError, WireFail DEF Goto
  <1>5. CASE TransferExit
    <2>1. \/ Fail /\ \E o \in Outcome : Returns(o)
          \/ Returns("ok") /\ Goto(IF IsPatch(idx) THEN "testerBlock" ELSE "checksum")
      BY <1>5 DEF TransferExit
    <2>2. (IF IsPatch(idx) THEN "testerBlock" ELSE "checksum") \in Mid
      BY DEF Mid, BlockSteps
    <2> QED
      BY <1>0, <1>1, <2>1, <2>2, ReturnsError, WireFail DEF Goto
  <1> QED
    BY <1>2, <1>3, <1>4, <1>5

\* After the verification only teardown requests are on the wire.
LEMMA WireTeardown ==
  ASSUME Inv, TesterAfterVerify \/ EcuReset \/ Crash
  PROVE  Wire'
  <1>1. CASE TesterAfterVerify \/ EcuReset
    <2>1. PICK o \in Outcome : Returns(o)
      BY <1>1 DEF TesterAfterVerify, EcuReset
    <2>2. /\ ~waiting' /\ request' = request /\ late' = late
          /\ stale' \in {stale, None} /\ reply' \in {reply, None}
      BY <2>1, ReturnsError
    <2>3. pc \in {"testerEnd", "reset"} /\ pc' \in {"reset", "idle"}
      BY <1>1 DEF TesterAfterVerify, EcuReset, Goto
    <2> QED
      BY <2>2, <2>3 DEF Inv, Wire, Early, Unlocking, BlockSteps, Teardown
  <1>2. CASE Crash
    BY <1>2 DEF Crash, Inv, Wire, Early, Unlocking, BlockSteps, Teardown
  <1> QED
    BY <1>1, <1>2

\* A request is sent on a wire that holds one old message at most.
LEMMA WireSend == ASSUME Inv, Send PROVE Wire'
  <1>1. UNCHANGED <<pc, idx, offset, counter, attempt, chunk, result, run>>
    BY DEF Send
  <1>2. CurrentRequest' = CurrentRequest
    BY <1>1 DEF CurrentRequest, ChunkEnd
  <1>3. waiting' /\ ~waiting /\ reply' = None /\ request' = CurrentRequest
    BY DEF Send
  <1>4. CurrentRequest.step = pc
    BY DEF CurrentRequest
  <1>a. \/ late' \in {late, request} /\ stale' = None
        \/ late' = None /\ stale' \in {reply, stale}
    BY DEF Send, Abandoned, Oldest
  <1>5. pc \in Early \ {"extended"} => ~Authenticates(stale)' /\ ~Unlocks(late)'
    BY <1>3, <1>a DEF Inv, Wire, Authenticates, Unlocks
  <1>b. pc \in Early /\ pc # "seed" => ~Authenticates(reply)' /\ ~Unlocks(request)'
    BY <1>3, <1>4 DEF Authenticates, Unlocks, Early
  <1>6. pc \in Mid => stale' = None /\ late' = None
    BY <1>a, <1>3 DEF Inv, Wire, Mid
  <1>c. Teardown' => late' = None \/ late'.step \in {"testerEnd", "reset"}
    BY <1>1, <1>a DEF Inv, Wire, Teardown
  <1>7. Teardown' => pc \in {"testerEnd", "reset"}
    BY <1>1 DEF Teardown, Send, Inv, Position
  <1>8. pc \in Early => pc # "key"
    BY DEF Early
  <1> QED
    BY <1>1, <1>2, <1>3, <1>4, <1>5, <1>6, <1>7, <1>8, <1>a, <1>b, <1>c DEF Wire, Mid

\* The module answers the request it was sent.
LEMMA WireModule ==
  ASSUME Inv, \/ EcuAccept \/ EcuRefuse \/ EcuCatchUp \/ EcuPending \/ WaitOn
              \/ EcuLapse \/ Lose \/ UNCHANGED vars
  PROVE  Wire'
  <1>0. UNCHANGED <<pc, waiting, result, run, idx, offset, counter, chunk>>
    BY DEF EcuAccept, EcuRefuse, EcuCatchUp, EcuPending, WaitOn, EcuLapse, Lose, vars, tool
  <1>1. CurrentRequest' = CurrentRequest
    BY <1>0 DEF CurrentRequest, ChunkEnd
  <1>2. CASE EcuAccept \/ EcuRefuse
    <2>1. /\ request \in Request /\ request # None /\ request' = None
          /\ stale' = stale /\ late = None /\ late' = None
      BY <1>2 DEF EcuAccept, EcuRefuse, Inv, TypeOK, WireTypeOK
    <2>a. \E c : reply' = [step |-> "answer", sid |-> Sid[request.step], code |-> c]
      BY <1>2, Zenon DEF EcuAccept, EcuRefuse, Answer
    <2>2. request.step \in Steps /\ reply'.sid = Sid[request.step]
      BY <2>1, <2>a DEF Request
    <2>3. request.step \notin {"seed", "key"} => reply'.sid # "SecurityAccess"
      BY <2>2 DEF Sid, Steps, Testers
    <2>4. pc \in Early /\ ~(waiting /\ pc = "seed") => ~Authenticates(reply)'
      BY <2>1, <2>3 DEF Inv, Wire, Authenticates, Unlocks
    <2>5. pc \in Mid => waiting
      BY <2>1 DEF Inv, Wire, Mid
    <2> QED
      BY <1>0, <1>1, <2>1, <2>4, <2>5
      DEF Inv, Wire, Mid, Authenticates, Unlocks, Teardown
  <1>3. CASE EcuLapse \/ Lose \/ EcuPending \/ WaitOn \/ UNCHANGED vars
    <2>1. /\ request' \in {request, None} /\ reply' \in {reply, None}
          /\ late' \in {late, None} /\ stale' \in {stale, None}
      BY <1>3 DEF EcuLapse, Lose, EcuPending, WaitOn, vars, wire
    <2> QED
      BY <1>0, <1>1, <2>1 DEF Inv, Wire, Authenticates, Unlocks, Teardown
  <1>4. CASE EcuCatchUp
    <2>1. /\ late \in Request /\ late # None /\ late' = None
          /\ UNCHANGED <<request, reply>>
      BY <1>4 DEF EcuCatchUp, Inv, TypeOK, WireTypeOK
    <2>a. \E c : stale' = [step |-> "answer", sid |-> Sid[late.step], code |-> c]
      BY <1>4, Zenon DEF EcuCatchUp, Answer
    <2>2. late.step \in Steps /\ stale'.sid = Sid[late.step]
      BY <2>1, <2>a DEF Request
    <2>3. late.step \notin {"seed", "key"} => stale'.sid # "SecurityAccess"
      BY <2>2 DEF Sid, Steps, Testers
    <2>4. pc \in Early \ {"extended"} => ~Authenticates(stale)'
      BY <2>1, <2>3 DEF Inv, Wire, Authenticates, Unlocks
    <2>5. pc \notin Mid
      BY <2>1 DEF Inv, Wire, Mid
    <2> QED
      BY <1>0, <1>1, <2>1, <2>4, <2>5
      DEF Inv, Wire, Mid, Authenticates, Unlocks, Teardown
  <1> QED
    BY <1>2, <1>3, <1>4

\* Every step keeps the wire.
LEMMA WireStep == ASSUME Inv, [Next]_vars PROVE Wire'
  <1>1. CASE Start
    BY <1>1
    DEF Start, Abandoned, Wire, Authenticates, Unlocks, Teardown, Early, Unlocking, BlockSteps
  <1> QED
    BY <1>1, WireMandatory, WireEarlySteps, WireSeed, WireBlocks, WireTeardown, WireSend,
       WireModule
    DEF Next, ToolStep

-----------------------------------------------------------------------------
(***************************************************************************)
(* Memory: what has been written stays whole.                              *)
(***************************************************************************)

\* The order of the prepared blocks: what entry j erases or programs is never
\* what an earlier entry i was written to.
LEMMA OrderFacts ==
  ASSUME NEW i \in Entry, NEW j \in Entry, i < j
  PROVE  /\ ~IsPatch(j) => Target(i) # Target(j)
         /\ IsPatch(j) => Target(i) # Cal
         /\ IsPatch(i) /\ IsPatch(j) => Target(i) # Target(j)
  <1>1. Number[i] \in 1..9 /\ Number[j] \in 1..9 /\ Cal \in 1..5 /\ i # j
    BY EntryFacts DEF Entry, Blocks
  <1>2. /\ Number[i] # Number[j]
        /\ IsPatch(j) => Number[i] # Cal /\ Number[i] # Cal + 5
        /\ IsPatch(i) => Number[j] # Target(i)
    BY <1>1, OrderAssumption
  <1> QED
    BY <1>1, <1>2 DEF IsPatch, Target

\* Where memory is unchanged, so is what is written.
LEMMA HeldSame ==
  ASSUME UNCHANGED <<image, patch>>
  PROVE  \A i : Held(i)' = Held(i) /\ Written(i)' = Written(i)
  BY DEF Held, Written

\* Outside the block loop and the closing steps there is nothing to show.
LEMMA MemoryOutside ==
  ASSUME pc' \notin BlockSteps \cup Closing, result' # "ok"
  PROVE  Memory'
  BY DEF Memory, BlockSteps, Closing

\* The tool moves on with the same block, or over the last one.
LEMMA MemoryMove ==
  ASSUME Inv, ~waiting', UNCHANGED <<idx, image, patch>>,
         pc' \notin {"transfer"},
         \/ pc \in BlockSteps /\ pc' \in {"erase", "eraseCal", "download"} /\ result' # "ok"
         \/ pc \in {"exit", "checksum", "testerBlock"} \cup Closing
         \/ idx = 0
  PROVE  Memory'
  <1>1. \A i : Written(i)' = Written(i)
    BY HeldSame
  <1>2. ~Answered("ok")'
    BY DEF Answered
  <1>3. pc \in BlockSteps \cup Closing => \A i \in Entry : i < idx => Written(i)
    BY DEF Inv, Memory
  <1>4. idx = 0 => \A i \in Entry : ~(i < idx)
    BY DEF Entry
  <1> QED
    BY <1>1, <1>2, <1>3, <1>4 DEF Inv, Memory, BlockSteps, Closing

\* Calls with one successor keep what is written.
LEMMA MemoryMandatory == ASSUME Inv, Mandatory PROVE Memory'
  <1>1. PICK o \in Outcome : Returns(o) /\ IF o = "ok" THEN Goto(After[pc]) ELSE Fail
    BY DEF Mandatory
  <1>2. CASE o # "ok"
    BY <1>1, <1>2, MemoryOutside DEF Fail, BlockSteps, Closing
  <1>3. CASE o = "ok"
    <2>1. ~waiting' /\ UNCHANGED <<idx, image, patch>> /\ pc' = After[pc] /\ result' = result
      BY <1>1, <1>3 DEF Mandatory, Returns, data, ecu, Goto
    <2>2. result # "ok"
      BY DEF Mandatory, After, Inv, Position
    <2>3. CASE pc \in {"erase", "eraseCal"}
      BY <2>1, <2>2, <2>3, MemoryMove DEF After, BlockSteps
    <2>4. CASE pc \in {"checksum", "verify"}
      BY <2>1, <2>4, MemoryMove DEF After, Closing
    <2>5. CASE pc \notin {"erase", "eraseCal", "checksum", "verify"}
      BY <2>1, <2>2, <2>5, MemoryOutside DEF Mandatory, After, BlockSteps, Closing
    <2> QED
      BY <2>3, <2>4, <2>5
  <1> QED
    BY <1>2, <1>3

\* Before the block loop there is nothing to keep.
LEMMA MemoryEarly ==
  ASSUME Inv, Start \/ ReadVin \/ ProgrammingSession \/ SwitchPatch \/ SecuritySeed \/ Crash
  PROVE  Memory'
  <1>1. result' # "ok"
    BY DEF Start, ReadVin, ProgrammingSession, SwitchPatch, SecuritySeed, Crash, Goto, Fail,
           Inv, Position
  <1>2. pc' \notin BlockSteps \cup Closing
    BY DEF Start, ReadVin, ProgrammingSession, SwitchPatch, SecuritySeed, Crash, Goto, Fail,
           BlockSteps, Closing
  <1> QED
    BY <1>1, <1>2, MemoryOutside

\* Nor after a failure.
LEMMA MemoryFail == ASSUME Fail PROVE Memory'
  BY MemoryOutside DEF Fail, BlockSteps, Closing

\* From the transfer exit on the current block is whole.
LEMMA MemoryClosing ==
  ASSUME Inv, TransferExit \/ TesterAfterVerify \/ EcuReset
  PROVE  Memory'
  <1>1. \/ Fail
        \/ /\ ~waiting' /\ UNCHANGED <<idx, image, patch>> /\ pc' # "transfer"
           /\ pc \in {"exit"} \cup Closing
    BY DEF TransferExit, TesterAfterVerify, EcuReset, Goto, Returns, data, ecu, Closing
  <1> QED
    BY <1>1, MemoryFail, MemoryMove

\* The loop goes on only when the current block is whole.
LEMMA MemoryNextBlock == ASSUME Inv, NextBlock PROVE Memory'
  <1>0. /\ ~waiting' /\ UNCHANGED <<image, patch>> /\ pc \in {"tester4", "testerBlock"}
        /\ idx \in 0..N
    BY DEF NextBlock, Returns, ecu, Inv, TypeOK, ToolTypeOK
  <1>1. \A i \in Entry : i <= idx => Written(i)
    <2>1. CASE pc = "tester4"
      BY <2>1 DEF Inv, Position, Unlocking, Entry
    <2>2. CASE pc = "testerBlock"
      <3>1. \A i \in Entry : i < idx => Written(i)
        BY <2>2 DEF Inv, Memory, BlockSteps
      <3>2. Written(idx)
        BY <2>2 DEF Inv, Memory, Position, BlockSteps
      <3> QED
        BY <1>0, <3>1, <3>2 DEF Entry
    <2> QED
      BY <1>0, <2>1, <2>2
  <1>2. \A i : Written(i)' = Written(i)
    BY <1>0, HeldSame
  <1>3. ~Answered("ok")'
    BY <1>0 DEF Answered
  <1>4. CASE Fail
    BY <1>4, MemoryFail
  <1>5. CASE idx' = idx + 1 /\ Goto(FirstStep(idx + 1))
    <2>1. pc' \in {"erase", "eraseCal", "download"} /\ result' # "ok"
      BY <1>0, <1>5 DEF FirstStep, Goto, Inv, Position
    <2>2. \A i \in Entry : i < idx' => Written(i)'
      BY <1>0, <1>1, <1>2, <1>5 DEF Entry
    <2> QED
      BY <1>3, <2>1, <2>2 DEF Memory, BlockSteps, Closing
  <1>6. CASE idx' = idx /\ Goto("verify")
    <2>1. pc' = "verify"
      BY <1>6 DEF Goto
    <2>2. \A i \in Entry : i < idx' => Written(i)'
      BY <1>0, <1>1, <1>2, <1>6 DEF Entry
    <2>3. idx' # 0 => Written(idx)'
      BY <1>0, <1>1, <1>2, <1>6 DEF Entry
    <2> QED
      BY <1>6, <2>1, <2>2, <2>3 DEF Memory, Written, Held, Whole, IsPatch, Target
  <1> QED
    BY <1>4, <1>5, <1>6 DEF NextBlock

\* The transfer loop goes on with n acknowledged bytes that the module holds.
LEMMA MemoryLoop ==
  ASSUME Inv, pc \in {"download", "transfer"}, ~waiting', UNCHANGED <<idx, image, patch, dl>>,
         DownloadFits, NEW n \in 0..Size[idx], offset' = n, Goto(LoopStep(n)),
         Held(idx) = Prefix(idx, n)
  PROVE  Memory'
  <1>0. idx \in Entry /\ idx # 0 /\ Size[idx] \in Nat /\ Size[idx] > 0 /\ result # "ok"
    BY BlockFacts DEF BlockSteps, Inv, Position
  <1>1. Held(idx)' = Prefix(idx, n) /\ (DownloadFits)'
    BY <1>0 DEF Held, DownloadFits, IsPatch, Target
  <1>2. \A i \in Entry : i < idx => Written(i)'
    BY HeldSame DEF Inv, Memory, BlockSteps
  <1>3. ~Answered("ok")' /\ result' # "ok"
    BY <1>0 DEF Answered, Goto
  <1>4. CASE n < Size[idx]
    <2>1. pc' = "transfer"
      BY <1>4 DEF Goto, LoopStep
    <2>2. Held(idx)' = Prefix(idx, offset)'
      BY <1>1 DEF Prefix
    <2> QED
      BY <1>1, <1>2, <1>3, <2>1, <2>2 DEF Memory, BlockSteps, Closing
  <1>5. CASE n = Size[idx]
    <2>1. pc' = "exit"
      BY <1>0, <1>5 DEF Goto, LoopStep
    <2>2. Written(idx)'
      BY <1>0, <1>1, <1>5 DEF Written, Whole, Prefix
    <2> QED
      BY <1>2, <1>3, <2>1, <2>2 DEF Memory, BlockSteps, Closing
  <1> QED
    BY <1>0, <1>4, <1>5

\* A granted download starts on blank cells.
LEMMA MemoryDownload == ASSUME Inv, RequestDownload PROVE Memory'
  <1>1. CASE Fail
    BY <1>1, MemoryFail
  <1>2. CASE Returns("ok") /\ Goto(LoopStep(0))
    <2>1. pc = "download" /\ offset' = 0 /\ idx' = idx
      BY DEF RequestDownload, Inv, Position
    <2>2. Answered("ok") /\ ~waiting' /\ UNCHANGED <<image, patch, dl>>
      BY <1>2, <2>1, ReturnsOwn DEF Answered, Code, Mid, BlockSteps, Returns, ecu
    <2>3. Held(idx) = Prefix(idx, 0) /\ DownloadFits
      BY <2>1, <2>2 DEF Inv, Memory, Prefix
    <2>4. 0 \in 0..Size[idx]
      BY <2>1, BlockFacts DEF BlockSteps
    <2> QED
      BY <1>2, <2>1, <2>2, <2>3, <2>4, MemoryLoop
  <1> QED
    BY <1>1, <1>2 DEF RequestDownload

\* A chunk is acknowledged only once it is held, and resent only if it is not.
LEMMA MemoryTransfer == ASSUME Inv, TransferNormal \/ TransferPatch PROVE Memory'
  <1>0. pc = "transfer" /\ idx' = idx /\ pc \in BlockSteps /\ pc \in Mid
    BY DEF TransferNormal, TransferPatch, BlockSteps, Mid
  <1>1. CASE Fail
    BY <1>1, MemoryFail
  <1>2. CASE Returns("ok") /\ Goto(LoopStep(ChunkEnd)) /\ offset' = ChunkEnd
    <2>1. Answered("ok") /\ ~waiting' /\ UNCHANGED <<image, patch, dl>>
      BY <1>0, <1>2, ReturnsOwn DEF Answered, Code, Returns, ecu
    <2>2. ChunkEnd \in 0..Size[idx] /\ ChunkEnd # 0
      BY <1>0, BlockFacts
    <2>3. Held(idx) = Prefix(idx, ChunkEnd) /\ DownloadFits
      BY <1>0, <2>1, <2>2 DEF Inv, Memory, Prefix
    <2> QED
      BY <1>0, <1>2, <2>1, <2>2, <2>3, MemoryLoop
  <1>3. CASE Returns("nrc") /\ Goto("transfer") /\ offset' = offset
    <2>1. Answered("nrc") /\ ~waiting' /\ UNCHANGED <<image, patch, dl>>
      BY <1>0, <1>3, ReturnsOwn DEF Answered, Code, Returns, ecu
    <2>2. Held(idx) = Prefix(idx, offset) /\ DownloadFits
      BY <1>0, <2>1 DEF Inv, Memory
    <2>3. offset \in 0..Size[idx] /\ offset < Size[idx]
      BY <1>0, BlockFacts DEF Inv, Position
    <2>4. Goto(LoopStep(offset))
      BY <1>3, <2>3 DEF LoopStep
    <2> QED
      BY <1>0, <1>3, <2>1, <2>2, <2>3, <2>4, MemoryLoop
  <1> QED
    BY <1>1, <1>2, <1>3 DEF TransferNormal, TransferPatch, RetryPatch

\* Sending does not touch the memory.
LEMMA MemorySend == ASSUME Inv, Send PROVE Memory'
  <1>1. /\ UNCHANGED <<pc, idx, offset, chunk, result, image, patch, dl>>
        /\ ~waiting /\ ~Answered("ok")' /\ ~Answered("nrc")'
    BY DEF Send, ecu, Answered
  <1>2. \A i : Held(i)' = Held(i) /\ Written(i)' = Written(i)
    BY <1>1, HeldSame
  <1>3. pc = "transfer" => DownloadFits /\ Held(idx) = Prefix(idx, offset)
    BY <1>1 DEF Inv, Memory
  <1>4. pc = "transfer" => DownloadFits' /\ Held(idx)' = Prefix(idx, offset)'
    BY <1>1, <1>3 DEF DownloadFits, Held, Prefix, IsPatch, Target
  <1>5. Written(idx) => Written(idx)'
    BY <1>1 DEF Written, Held, Whole, IsPatch, Target
  <1> QED
    BY <1>1, <1>2, <1>4, <1>5 DEF Inv, Memory

\* Nothing the bus or the module does short of carrying out a request counts as
\* progress.
LEMMA MemoryIdleModule ==
  ASSUME Inv, EcuRefuse \/ EcuPending \/ WaitOn \/ EcuLapse \/ Lose \/ UNCHANGED vars
  PROVE  Memory'
  <1>1. UNCHANGED <<pc, waiting, idx, offset, chunk, result, image, patch>>
    BY DEF EcuRefuse, Refused, EcuPending, WaitOn, EcuLapse, Lose, vars, tool, ecu
  <1>a. \/ request # None /\ \E s : reply' = [step |-> "answer", sid |-> s, code |-> "nrc"]
        \/ reply' \in {reply, None} /\ request' \in {request, None}
    <2>1. CASE EcuRefuse
      BY <2>1, Zenon DEF EcuRefuse, Answer
    <2>2. CASE EcuPending \/ WaitOn \/ EcuLapse \/ Lose \/ UNCHANGED vars
      BY <2>2 DEF EcuPending, WaitOn, EcuLapse, Lose, vars, wire
    <2> QED
      BY <2>1, <2>2
  <1>2. Answered("ok")' => Answered("ok")
    BY <1>1, <1>a DEF Answered
  <1>3. request # None \/ (request' = None /\ (Answered("nrc")' => Answered("nrc")))
    BY <1>1, <1>a DEF Answered
  <1>4. dl' = dl \/ dl' = Closed \/ (dl # Closed /\ dl'.block = dl.block /\ dl'.patching = dl.patching)
    <2>1. dl \in Download
      BY DEF Inv, TypeOK, EcuTypeOK
    <2> QED
      BY <2>1
      DEF EcuRefuse, Refused, NotReady, EcuPending, WaitOn, EcuLapse, Lose, vars, ecu,
          EnterSession, Download
  <1>5. DownloadFits => DownloadFits'
    BY <1>1, <1>4 DEF DownloadFits, IsPatch, Target
  <1>6. (\A i : Held(i)' = Held(i) /\ Written(i)' = Written(i)) /\ ChunkEnd' = ChunkEnd
    BY <1>1, HeldSame DEF ChunkEnd
  <1>7. (Held(idx))' = Held(idx) /\ (Written(idx))' = Written(idx)
    BY <1>1 DEF Written, Held, Whole, IsPatch, Target
  <1>8. Prefix(idx, offset)' = Prefix(idx, offset)
    BY <1>1 DEF Prefix
  <1> QED
    BY <1>1, <1>2, <1>3, <1>5, <1>6, <1>7, <1>8 DEF Inv, Memory

\* A request whose effect leaves the memory as it is, while none of it is
\* being downloaded.
LEMMA MemoryKept ==
  ASSUME Inv, UNCHANGED <<tool, image, patch>>, pc \notin {"download", "transfer"}
  PROVE  Memory'
  <1>1. UNCHANGED <<pc, idx, result>>
    BY DEF tool
  <1>2. (\A i : Written(i)' = Written(i)) /\ Written(idx)' = Written(idx)
    BY <1>1, HeldSame DEF Written, Held, Whole, IsPatch, Target
  <1> QED
    BY <1>1, <1>2 DEF Inv, Memory

\* What the module does for the requests of the block loop, one by one.
LEMMA EffectErase ==
  ASSUME NEW r, EcuEffect(r)
  PROVE  /\ r.step = "erase" => Erased(Target(r.entry)) /\ UNCHANGED dl
         /\ r.step = "eraseCal" => Erased(Cal) /\ UNCHANGED dl
         /\ r.step \in {"exit", "checksum", "testerBlock", "verify", "testerEnd", "reset"} =>
              UNCHANGED <<image, patch>>
  <1>1. r.step = "erase" => Erased(Target(r.entry)) /\ UNCHANGED dl
    BY DEF EcuEffect
  <1>2. r.step = "eraseCal" => Erased(Cal) /\ UNCHANGED dl
    BY DEF EcuEffect
  <1>3. r.step \in {"exit", "reset", "checksum", "testerBlock", "verify", "testerEnd"} =>
              UNCHANGED <<image, patch>>
    BY DEF EcuEffect, ecu
  <1> QED
    BY <1>1, <1>2, <1>3

\* What the module does for a download request.
LEMMA EffectDownload ==
  ASSUME NEW r, EcuEffect(r), r.step = "download"
  PROVE  /\ dl' = [block |-> Target(r.entry), patching |-> IsPatch(r.entry), counter |-> 1]
         /\ patch' = [patch EXCEPT ![Target(r.entry)] = Blank]
         /\ image' = IF IsPatch(r.entry) THEN image ELSE [image EXCEPT ![Target(r.entry)] = Blank]
  BY DEF EcuEffect

\* What the module does for a chunk.
LEMMA EffectTransfer ==
  ASSUME NEW r, EcuEffect(r), r.step = "transfer"
  PROVE  /\ \E n : dl' = [dl EXCEPT !.counter = n]
         /\ dl.patching =>
            /\ patch' = [patch EXCEPT ![dl.block] = Extend(@, r.entry, r.from, r.to)]
            /\ UNCHANGED image
         /\ ~dl.patching =>
            /\ image' = [image EXCEPT ![dl.block] = Extend(@, r.entry, r.from, r.to)]
            /\ UNCHANGED patch
  BY DEF EcuEffect

\* What entry idx erases and programs is nothing an entry before it was
\* written to.
LEMMA MemoryOthers ==
  ASSUME Inv, pc \in BlockSteps, UNCHANGED idx,
         \A b \in Blocks :
           /\ b # Target(idx) /\ (IsPatch(idx) => b # Cal) =>
                image'[b] = image[b] /\ patch'[b] = patch[b]
           /\ IsPatch(idx) /\ b # Cal => image'[b] = image[b]
  PROVE  \A i \in Entry : i < idx' => Written(i)'
  <1>1. SUFFICES ASSUME NEW i \in Entry, i < idx PROVE Written(i)'
    OBVIOUS
  <1>2. idx \in Entry /\ Target(i) \in Blocks /\ Written(i)
    BY <1>1, BlockFacts, EntryFacts DEF Inv, Memory
  <1>3. /\ ~IsPatch(idx) => Target(i) # Target(idx)
        /\ IsPatch(idx) => Target(i) # Cal
        /\ IsPatch(i) /\ IsPatch(idx) => Target(i) # Target(idx)
    BY <1>1, <1>2, OrderFacts
  <1>4. Held(i)' = Held(i)
    BY <1>2, <1>3 DEF Held, IsPatch, Target
  <1>5. Whole(i)' = Whole(i)
    BY DEF Whole
  <1> QED
    BY <1>2, <1>4, <1>5 DEF Written

\* What the module carries out while a block is being written.
LEMMA MemoryErase ==
  ASSUME Inv, EcuAccept, pc \in {"erase", "eraseCal"}, request = CurrentRequest
  PROVE  Memory'
  <1>1. UNCHANGED <<pc, idx, result>> /\ pc \in BlockSteps /\ result # "ok"
    BY DEF EcuAccept, tool, BlockSteps, Inv, Position
  <1>2. request.step = pc /\ request.entry = idx /\ EcuEffect(request)
    BY DEF CurrentRequest, EcuAccept
  <1>3. image \in [Blocks -> Content] /\ patch \in [Blocks -> Content]
    BY DEF Inv, TypeOK, EcuTypeOK
  <1>4. \/ ~IsPatch(idx) /\ Erased(Target(idx))
        \/ IsPatch(idx) /\ Erased(Cal)
    BY <1>2, EffectErase DEF Inv, Position
  <1>5. \A i \in Entry : i < idx' => Written(i)'
    BY <1>1, <1>3, <1>4, MemoryOthers DEF Erased
  <1> QED
    BY <1>1, <1>5 DEF Memory, BlockSteps, Closing

\* A granted download blanks the block of the current entry only.
LEMMA MemoryRequestDownload ==
  ASSUME Inv, EcuAccept, pc = "download", request = CurrentRequest
  PROVE  Memory'
  <1>1. UNCHANGED <<pc, idx, result>> /\ pc \in BlockSteps /\ result # "ok"
    BY DEF EcuAccept, tool, BlockSteps, Inv, Position
  <1>2. request.step = "download" /\ request.entry = idx /\ EcuEffect(request)
    BY DEF CurrentRequest, EcuAccept
  <1>3. image \in [Blocks -> Content] /\ patch \in [Blocks -> Content]
    BY DEF Inv, TypeOK, EcuTypeOK
  <1>4. /\ dl' = [block |-> Target(idx), patching |-> IsPatch(idx), counter |-> 1]
        /\ patch' = [patch EXCEPT ![Target(idx)] = Blank]
        /\ image' = IF IsPatch(idx) THEN image ELSE [image EXCEPT ![Target(idx)] = Blank]
    BY <1>2, EffectDownload
  <1>5. \A i \in Entry : i < idx' => Written(i)'
    BY <1>1, <1>3, <1>4, MemoryOthers
  <1>6. Target(idx) \in Blocks
    BY <1>1, BlockFacts
  <1>7. Held(idx)' = Blank /\ DownloadFits'
    BY <1>1, <1>3, <1>4, <1>6 DEF Held, DownloadFits, IsPatch, Target
  <1> QED
    BY <1>1, <1>5, <1>7 DEF Memory, BlockSteps, Closing

\* A chunk extends what the module holds of the current entry.
LEMMA MemoryTransferData ==
  ASSUME Inv, EcuAccept, pc = "transfer", request = CurrentRequest
  PROVE  Memory'
  <1>1. UNCHANGED <<pc, waiting, idx, offset, chunk, result>> /\ pc \in BlockSteps /\ result # "ok"
    BY DEF EcuAccept, tool, BlockSteps, Inv, Position
  <1>2. /\ request.step = "transfer" /\ request.entry = idx /\ request.from = offset
        /\ request.to = ChunkEnd /\ request # None /\ request' = None
        /\ Acceptable(request) /\ EcuEffect(request)
    BY DEF CurrentRequest, EcuAccept
  <1>3. image \in [Blocks -> Content] /\ patch \in [Blocks -> Content] /\ dl \in Download
    BY DEF Inv, TypeOK, EcuTypeOK
  <1>4. dl # Closed
    BY <1>2 DEF Acceptable
  <1>5. /\ dl.block = Target(idx) /\ dl.patching = IsPatch(idx)
        /\ Held(idx) = Prefix(idx, offset)
    BY <1>2, <1>4 DEF Inv, Memory, DownloadFits
  <1>6. Target(idx) \in Blocks /\ IsPatch(idx) \in BOOLEAN
    BY <1>1, BlockFacts
  <1>7. Extend(Held(idx), idx, offset, ChunkEnd) = [entry |-> idx, upto |-> ChunkEnd]
    BY <1>5 DEF Extend, Prefix
  <1>8. \/ /\ IsPatch(idx) /\ image' = image
           /\ patch' = [patch EXCEPT ![Target(idx)] = [entry |-> idx, upto |-> ChunkEnd]]
        \/ /\ ~IsPatch(idx) /\ patch' = patch
           /\ image' = [image EXCEPT ![Target(idx)] = [entry |-> idx, upto |-> ChunkEnd]]
    BY <1>2, <1>5, <1>6, <1>7, EffectTransfer DEF Held
  <1>9. \A i \in Entry : i < idx' => Written(i)'
    BY <1>1, <1>3, <1>8, MemoryOthers
  <1>10. Held(idx)' = [entry |-> idx, upto |-> ChunkEnd] /\ ChunkEnd' = ChunkEnd
    BY <1>1, <1>3, <1>6, <1>8 DEF Held, ChunkEnd, IsPatch, Target
  <1>11. DownloadFits'
    <2>1. PICK n : dl' = [dl EXCEPT !.counter = n]
      BY <1>2, EffectTransfer
    <2> QED
      BY <1>1, <1>3, <1>5, <2>1 DEF DownloadFits, Download, IsPatch, Target
  <1>12. reply'.code = "ok" /\ request' = None
    BY DEF EcuAccept, Answer
  <1>13. ~Answered("nrc")' /\ waiting'
    BY <1>1, <1>2, <1>12 DEF Answered, Inv, Wire
  <1> QED
    BY <1>1, <1>2, <1>9, <1>10, <1>11, <1>13 DEF Memory, BlockSteps, Closing

\* No request the module carries out harms what is written.
LEMMA MemoryModule == ASSUME Inv, EcuAccept PROVE Memory'
  <1>1. request # None /\ UNCHANGED <<pc, idx, result>> /\ UNCHANGED tool /\ EcuEffect(request)
    BY DEF EcuAccept, tool
  <1>2. pc \in BlockSteps \cup {"verify"} => request = CurrentRequest
    BY <1>1 DEF Inv, Wire
  <1>3. pc \in {"exit", "checksum", "testerBlock", "verify"} => request.step = pc
    BY <1>2 DEF BlockSteps, CurrentRequest
  <1>4. Teardown => request.step \in {"testerEnd", "reset"}
    BY <1>1 DEF Inv, Wire
  <1>5. CASE pc \in {"exit", "checksum", "testerBlock", "verify"} \/ Teardown
    <2>1. UNCHANGED <<image, patch>>
      BY <1>1, <1>3, <1>4, <1>5, EffectErase
    <2>2. pc \notin {"download", "transfer"}
      BY <1>5 DEF Teardown, Inv, Position
    <2> QED
      BY <1>1, <2>1, <2>2, MemoryKept
  <1>6. CASE pc \notin BlockSteps \cup Closing /\ result # "ok"
    BY <1>1, <1>6, MemoryOutside
  <1>7. CASE pc \in {"erase", "eraseCal", "download", "transfer"}
    BY <1>2, <1>7, MemoryErase, MemoryRequestDownload, MemoryTransferData DEF BlockSteps
  <1> QED
    BY <1>5, <1>6, <1>7 DEF BlockSteps, Closing, Teardown

\* Nor does what the tool has given up on: while a block is written nothing of it
\* is left, and from the teardown on it no longer alters the memory.
LEMMA MemoryCatchUp == ASSUME Inv, EcuCatchUp PROVE Memory'
  <1>1. late # None /\ UNCHANGED tool /\ UNCHANGED <<pc, idx, result>>
    BY DEF EcuCatchUp, tool
  <1>2. pc \notin BlockSteps \cup {"verify"}
    BY <1>1 DEF Inv, Wire
  <1>3. CASE Teardown
    <2>1. late.step \in {"testerEnd", "reset"}
      BY <1>1, <1>3 DEF Inv, Wire
    <2>2. UNCHANGED <<image, patch>>
      BY <2>1, EffectErase DEF EcuCatchUp, Refused
    <2> QED
      BY <1>1, <1>2, <2>2, MemoryKept DEF BlockSteps
  <1>4. CASE ~Teardown
    BY <1>1, <1>2, <1>4, MemoryOutside DEF Teardown, Closing
  <1> QED
    BY <1>3, <1>4

\* Every step keeps what is written.
LEMMA MemoryStep == ASSUME Inv, [Next]_vars PROVE Memory'
  BY MemoryMandatory, MemoryEarly, MemoryFail, MemoryClosing, MemoryNextBlock, MemoryDownload,
     MemoryTransfer, MemorySend, MemoryModule, MemoryIdleModule, MemoryCatchUp
  DEF Next, ToolStep

-----------------------------------------------------------------------------
(***************************************************************************)
(* The theorems.                                                           *)
(***************************************************************************)

\* The invariant is inductive.
LEMMA InvStep == ASSUME Inv, [Next]_vars PROVE Inv'
  BY TypeStep, PositionStep, WireStep, MemoryStep DEF Inv

\* In every reachable state the types hold, the tool is where its loop over the
\* prepared blocks says, the answers it sees are its own, and the blocks it has
\* finished are whole.
THEOREM Invariance == Spec => []Inv
  <1>1. Init => Inv
    BY InitInv
  <1>2. Inv /\ [Next]_vars => Inv'
    BY InvStep
  <1> QED
    BY <1>1, <1>2, PTL DEF Spec

\* Type correctness: in particular the counter stays a u8, the attempts stay
\* below MAX_PATCH_RETRIES and no request for block 0 is ever sent.
THEOREM TypeCorrect == Spec => []TypeOK
  <1>1. Inv => TypeOK
    BY DEF Inv
  <1> QED
    BY <1>1, Invariance, PTL

\* From the teardown on every prepared block is whole: those before the last by
\* Memory, the last one because the loop has gone past it.
LEMMA InvFlashed == Inv => OkMeansFlashed
  <1>1. SUFFICES ASSUME Inv, pc \in {"testerEnd", "reset"} \/ result = "ok", NEW i \in Entry
                 PROVE  Written(i)
    BY DEF OkMeansFlashed, AllWritten
  <1>2. idx = N /\ N \in Nat
    BY <1>1 DEF Inv, Position, Closing
  <1>3. i < idx => Written(i)
    BY <1>1 DEF Inv, Memory, Closing
  <1>4. i = idx => Written(i)
    BY <1>1, <1>2 DEF Inv, Memory, Closing, Entry
  <1> QED
    BY <1>2, <1>3, <1>4 DEF Entry

\* A run that reaches its teardown, or has returned Ok(()), has left every
\* prepared block whole in the module: for every plan that prepare_blocks can
\* produce, every block size and chunk table, and whatever the bus loses, the
\* module refuses or an earlier run left behind.
THEOREM Flashed == Spec => []OkMeansFlashed
  BY InvFlashed, Invariance, PTL

-----------------------------------------------------------------------------
(***************************************************************************)
(* The promise: no byte is programmed twice, nothing is altered before the *)
(* workshop code is written or after success is reported, the sequence     *)
(* implements EcuUpdate, and a run without a fault of the bus or the       *)
(* module never fails.                                                     *)
(***************************************************************************)
\* The calls of a run, without the one that sends the request.
Call == \/ Mandatory \/ ReadVin \/ ProgrammingSession \/ SwitchPatch \/ SecuritySeed
        \/ NextBlock \/ RequestDownload \/ TransferNormal \/ TransferPatch \/ TransferExit
        \/ TesterAfterVerify \/ EcuReset

\* A call that returns sends nothing and leaves the module alone; the tool goes
\* on or has a result.
LEMMA CallFacts ==
  ASSUME Inv, Call \/ Crash
  PROVE  /\ request' = request /\ late' = late /\ UNCHANGED <<run, ecu>>
         /\ pc # "idle" /\ waiting' = FALSE
         /\ \/ pc' \in Steps
            \/ pc' = "idle" /\ result' \in {"err", "crashed"}
            \/ pc' = "idle" /\ result' = "ok" /\ pc = "reset"
  <1>1. /\ request' = request /\ late' = late /\ UNCHANGED <<run, ecu>>
        /\ pc # "idle" /\ waiting' = FALSE
    <2>1. \A o : Returns(o) =>
            /\ request' = request /\ late' = late /\ UNCHANGED <<run, ecu>> /\ waiting' = FALSE
      BY DEF Returns
    <2>2. CASE Crash
      BY <2>2 DEF Crash, wire
    <2>3. CASE Mandatory \/ ReadVin \/ ProgrammingSession \/ SwitchPatch \/ SecuritySeed
      BY <2>1, <2>3 DEF Mandatory, After, ReadVin, ProgrammingSession, SwitchPatch, SecuritySeed
    <2>4. CASE NextBlock \/ TransferNormal \/ TransferPatch \/ TransferExit
      BY <2>1, <2>4 DEF NextBlock, TransferNormal, TransferPatch, RetryPatch, TransferExit
    <2>5. CASE RequestDownload \/ TesterAfterVerify \/ EcuReset
      BY <2>1, <2>5 DEF RequestDownload, TesterAfterVerify, EcuReset
    <2> QED
      BY <2>2, <2>3, <2>4, <2>5 DEF Call
  <1>2. \/ pc' \in Steps
        \/ pc' = "idle" /\ result' \in {"err", "crashed"}
        \/ pc' = "idle" /\ result' = "ok" /\ pc = "reset"
    <2>1. \A s \in Steps : Goto(s) => pc' \in Steps
      BY DEF Goto
    <2>2. Fail => pc' = "idle" /\ result' \in {"err", "crashed"}
      BY DEF Fail
    <2>3. CASE Mandatory
      <3>1. After[pc] \in Steps
        BY <2>3 DEF Mandatory, After, Steps, Testers
      <3> QED
        BY <2>1, <2>2, <2>3, <3>1 DEF Mandatory
    <2>4. CASE ReadVin \/ ProgrammingSession \/ SwitchPatch \/ SecuritySeed \/ TransferExit
               \/ TesterAfterVerify \/ EcuReset \/ Crash
      <3>1. {"precondition", "tester2", "switchpatch", "key", "testerBlock", "checksum", "reset"}
              \subseteq Steps
        BY DEF Steps, Testers
      <3> QED
        BY <2>1, <2>2, <2>4, <3>1
        DEF ReadVin, ProgrammingSession, SwitchPatch, SecuritySeed, TransferExit,
            TesterAfterVerify, EcuReset, Crash
    <2>5. CASE NextBlock \/ RequestDownload \/ TransferNormal \/ TransferPatch
      <3>1. /\ \A i : FirstStep(i) \in Steps
            /\ \A n : LoopStep(n) \in Steps
            /\ "verify" \in Steps /\ "transfer" \in Steps
        BY DEF Steps, FirstStep, LoopStep
      <3> QED
        BY <2>1, <2>2, <2>5, <3>1
        DEF NextBlock, RequestDownload, TransferNormal, TransferPatch, RetryPatch
    <2> QED
      BY <2>3, <2>4, <2>5 DEF Call
  <1> QED
    BY <1>1, <1>2

\* Every step is one of these.
LEMMA StepCases ==
  ASSUME [Next]_vars
  PROVE  Start \/ Send \/ WaitOn \/ Call \/ Crash \/ EcuAccept \/ EcuRefuse \/ EcuCatchUp
         \/ EcuPending \/ EcuLapse \/ Lose \/ UNCHANGED vars
  BY DEF Next, ToolStep, Call

-----------------------------------------------------------------------------
(***************************************************************************)
(* InFlight: a request that alters the memory fits what the module holds.  *)
(***************************************************************************)

\* What fits goes on doing so while the memory and the fingerprint stay as they
\* are and a download at most closes.
LEMMA FitsKept ==
  ASSUME NEW r, Fits(r), UNCHANGED <<fingerprint, image, patch>>, dl' \in {dl, Closed}
  PROVE  Fits(r)'
  BY DEF Fits, Held, Prefix, IsPatch, Target, Closed

\* Nothing in flight changes when neither the requests nor the module do.
LEMMA InFlightKept ==
  ASSUME InFlight, request' \in {request, None}, late' \in {late, None},
         UNCHANGED <<fingerprint, image, patch>>, dl' \in {dl, Closed},
         pc' = "idle" /\ result' = "none" => request' = None /\ late' = None
  PROVE  InFlight'
  <1>1. ASSUME NEW r \in {request', late'}, Alters(r)
        PROVE  Fits(r)'
    BY <1>1, FitsKept DEF InFlight, Alters
  <1>2. late' # None => ~Alters(request)'
    BY DEF InFlight, Alters
  <1> QED
    BY <1>1, <1>2 DEF InFlight, Alters

\* What is sent fits what the module holds.
LEMMA InFlightSend == ASSUME Inv, InFlight, Marked, Send PROVE InFlight'
  <1>1. /\ pc # "idle" /\ ~waiting /\ request' = CurrentRequest
        /\ UNCHANGED <<pc, idx, offset, result, run, ecu>>
    BY DEF Send
  <1>2. /\ request'.step = pc /\ request'.entry = idx /\ request'.from = offset
    BY <1>1 DEF CurrentRequest
  <1>3. pc \in Altering => pc \in BlockSteps
    BY DEF Altering, BlockSteps
  <1>4. pc \in Altering => fingerprint' = run' /\ idx # 0
    BY <1>1, <1>3 DEF Marked, ecu, Inv, Position
  <1>5. pc = "download" /\ IsPatch(idx) => image'[Cal] # Old
    BY <1>1 DEF Marked, ecu
  <1>6. pc = "transfer" =>
          /\ dl' # Closed => dl'.block = Target(idx) /\ dl'.patching = IsPatch(idx)
          /\ Held(idx)' = Prefix(idx, offset)
    BY <1>1, <1>3 DEF Inv, Position, Memory, DownloadFits, Held, ecu, IsPatch, Target, BlockSteps
  <1>7. ASSUME NEW r, r = request', Alters(r) PROVE Fits(r)'
    <2>1. r.run = run /\ run' = run
      BY <1>1, <1>7 DEF CurrentRequest
    <2>2. r.step = pc /\ r.entry = idx /\ r.from = offset /\ pc \in Altering
      BY <1>2, <1>7 DEF Alters
    <2>3. pc = "transfer" => Held(r.entry)' = Prefix(r.entry, r.from)
      BY <1>1, <1>6, <2>2 DEF Held, IsPatch, Target
    <2> QED
      BY <1>1, <1>4, <1>5, <1>6, <2>1, <2>2, <2>3 DEF Fits, Prefix, IsPatch, Target
  <1>8. late' \in {late, request, None}
    BY DEF Send, Abandoned, Oldest
  <1>9. ASSUME NEW r, r = late', Alters(r) PROVE Fits(r)'
    <2>1. r \in {request, late}
      BY <1>8, <1>9 DEF Alters
    <2>2. Fits(r)
      BY <1>9, <2>1 DEF InFlight
    <2>3. UNCHANGED <<fingerprint, image, patch>> /\ dl' = dl
      BY <1>1 DEF ecu
    <2> QED
      BY <2>2, <2>3, FitsKept
  <1>10. late' # None => ~Alters(request)'
    <2>1. pc \in BlockSteps => late' = None
      BY <1>1, <1>8 DEF Inv, Wire
    <2> QED
      BY <1>2, <1>3, <2>1 DEF Alters
  <1> QED
    BY <1>1, <1>7, <1>9, <1>10 DEF InFlight, Alters

\* Every step keeps it.
LEMMA InFlightStep ==
  ASSUME Inv, InFlight, Marked, [Next]_vars
  PROVE  InFlight'
  <1>1. CASE Start
    <2>1. /\ request' = None /\ late' \in {late, request, None} /\ pc' # "idle"
          /\ UNCHANGED ecu
      BY <1>1 DEF Start, Abandoned, Oldest
    <2>2. ASSUME NEW r, r = late', Alters(r) PROVE Fits(r)'
      BY <2>1, <2>2, FitsKept DEF InFlight, Alters, ecu
    <2> QED
      BY <2>1, <2>2 DEF InFlight, Alters
  <1>2. CASE Call \/ Crash
    <2>1. "idle" \notin Steps
      BY DEF Steps, Testers
    <2> QED
      BY <1>2, <2>1, CallFacts, InFlightKept DEF ecu
  <1>3. CASE EcuAccept \/ EcuRefuse
    BY <1>3 DEF EcuAccept, EcuRefuse, InFlight, Alters, tool
  <1>4. CASE EcuLapse
    BY <1>4, InFlightKept DEF EcuLapse, EnterSession, InFlight, tool, wire
  <1>5. CASE Lose \/ EcuPending \/ WaitOn
    BY <1>5, InFlightKept DEF Lose, EcuPending, WaitOn, tool, ecu, InFlight
  <1>6. CASE UNCHANGED vars
    BY <1>6, InFlightKept DEF vars, tool, wire, ecu, InFlight
  <1>7. CASE EcuCatchUp
    BY <1>7 DEF EcuCatchUp, InFlight, Alters, tool
  <1> QED
    BY <1>1, <1>2, <1>3, <1>4, <1>5, <1>6, <1>7, InFlightSend, StepCases

-----------------------------------------------------------------------------
(***************************************************************************)
(* Marked: the workshop code comes first, and the CAL block is erased      *)
(* before anything is patched.                                             *)
(***************************************************************************)


\* Where the calls that matter here come from: the blocks from the workshop
\* code, and the download of a patch from the erase of the CAL block.
LEMMA CallMarks ==
  ASSUME Inv, Call
  PROVE  /\ pc' \in BlockSteps \cup {"tester4"} =>
              pc \in BlockSteps \cup {"tester4"} \/ (pc = "workshop" /\ Answered("ok"))
         /\ pc' = "download" /\ IsPatch(idx') => pc = "eraseCal" /\ Answered("ok")
  <1>1. CASE Mandatory
    <2>1. PICK o \in Outcome : Returns(o) /\ IF o = "ok" THEN Goto(After[pc]) ELSE Fail
      BY <1>1 DEF Mandatory
    <2>2. CASE o = "ok"
      <3>1. pc' = After[pc] /\ idx' = idx /\ pc \in DOMAIN After
        BY <1>1, <2>1, <2>2 DEF Mandatory, Goto, data
      <3>2. pc \in Mid => Answered("ok")
        BY <2>1, <2>2, ReturnsOwn DEF Answered, Code
      <3>3. pc \in {"workshop", "eraseCal", "erase"} => pc \in Mid
        BY DEF Mid, Unlocking, BlockSteps
      <3>4. pc = "erase" => ~IsPatch(idx)
        BY DEF Inv, Position
      <3> QED
        BY <3>1, <3>2, <3>3, <3>4 DEF After, BlockSteps
    <2>3. CASE o # "ok"
      BY <2>1, <2>3 DEF Fail, BlockSteps
    <2> QED
      BY <2>2, <2>3
  <1>2. CASE ReadVin \/ ProgrammingSession \/ SwitchPatch \/ SecuritySeed \/ TesterAfterVerify
             \/ EcuReset
    <2>1. pc' \in {"precondition", "tester2", "switchpatch", "key", "reset", "idle"}
      BY <1>2 DEF ReadVin, ProgrammingSession, SwitchPatch, SecuritySeed, TesterAfterVerify,
                  EcuReset, Goto, Fail
    <2> QED
      BY <2>1 DEF BlockSteps
  <1>3. CASE NextBlock
    <2>1. pc' \in {"verify", "idle"} \/ (idx' = idx + 1 /\ pc' = FirstStep(idx'))
      BY <1>3 DEF NextBlock, Goto, Fail
    <2>2. pc' = "download" => ~IsPatch(idx')
      BY <2>1 DEF FirstStep
    <2> QED
      BY <1>3, <2>2 DEF NextBlock, BlockSteps
  <1>4. CASE RequestDownload \/ TransferNormal \/ TransferPatch \/ TransferExit
    <2>1. pc \in {"download", "transfer", "exit"}
      BY <1>4 DEF RequestDownload, TransferNormal, TransferPatch, TransferExit
    <2>2. pc' # "download"
      BY <1>4 DEF RequestDownload, TransferNormal, TransferPatch, RetryPatch, TransferExit,
                  Goto, Fail, LoopStep
    <2> QED
      BY <2>1, <2>2 DEF BlockSteps
  <1> QED
    BY <1>1, <1>2, <1>3, <1>4 DEF Call

\* What was there before the tool came never comes back.
LEMMA OldGone ==
  ASSUME TypeOK, NEW r \in Request, EcuEffect(r), NEW b \in Blocks, image[b] # Old
  PROVE  image'[b] # Old
  <1>1. /\ image \in [Blocks -> Content] /\ Blank # Old
        /\ r.entry \in Nat
    BY DEF TypeOK, EcuTypeOK, Blank, Old, Request
  <1>2. CASE r.step \in {"erase", "eraseCal"}
    BY <1>1, <1>2 DEF EcuEffect, Erased
  <1>3. CASE r.step = "download"
    BY <1>1, <1>3, EffectDownload
  <1>4. CASE r.step = "transfer"
    <2>1. \A c : Extend(c, r.entry, r.from, r.to) # Old
      BY <1>1 DEF Extend, Old, Garbled
    <2> QED
      BY <1>1, <1>4, <2>1, EffectTransfer
  <1>5. CASE r.step \notin Altering
    BY <1>5 DEF EcuEffect, Altering, ecu
  <1> QED
    BY <1>2, <1>3, <1>4, <1>5 DEF Altering

\* The memory changes for four requests only, the fingerprint for one.
LEMMA EffectOther ==
  ASSUME NEW r, EcuEffect(r)
  PROVE  /\ r.step \notin Altering => UNCHANGED <<image, patch>>
         /\ fingerprint' \in {fingerprint, r.run}
         /\ r.step = "workshop" => fingerprint' = r.run
         /\ r.step # "download" => dl' = Closed \/ \E n : dl' \in {dl, [dl EXCEPT !.counter = n]}
  <1>1. r.step \notin Altering => UNCHANGED <<image, patch>>
    BY DEF EcuEffect, Altering, ecu
  <1>2. /\ fingerprint' \in {fingerprint, r.run}
        /\ r.step = "workshop" => fingerprint' = r.run
    <2>1. CASE r.step \in Altering
      BY <2>1 DEF EcuEffect, Altering
    <2>2. CASE r.step \notin Altering
      BY <2>2 DEF EcuEffect, EnterSession, Altering, ecu
    <2> QED
      BY <2>1, <2>2
  <1>3. r.step # "download" => dl' = Closed \/ \E n : dl' \in {dl, [dl EXCEPT !.counter = n]}
    <2>1. CASE r.step = "transfer"
      BY <2>1, EffectTransfer
    <2>2. CASE r.step \notin {"transfer", "download"}
      <3>1. dl' \in {Closed, dl}
        BY <2>2 DEF EcuEffect, EnterSession, ecu
      <3> QED
        BY <3>1
    <2> QED
      BY <2>1, <2>2
  <1> QED
    BY <1>1, <1>2, <1>3

\* A download keeps its kind while it is open.
LEMMA DownloadKept ==
  ASSUME TypeOK,
         dl' = Closed \/ \E n : dl' \in {dl, [dl EXCEPT !.counter = n]}
  PROVE  /\ dl' # Closed => dl'.block = dl.block
         /\ dl'.patching => dl.patching
  BY DEF TypeOK, EcuTypeOK, Download, Closed

\* Whatever request the module carries out, of this call or one that is over,
\* nothing is patched while the CAL block is as it was found.
LEMMA MarkedEffect ==
  ASSUME Inv, InFlight, Marked, NEW r \in {request, late}, r # None, EcuEffect(r)
  PROVE  /\ image[Cal] # Old => image'[Cal] # Old
         /\ dl'.patching => image'[Cal] # Old
         /\ \A b \in Blocks : patch'[b] # Blank => image'[Cal] # Old
  <1>1. r \in Request
    BY DEF Inv, TypeOK, WireTypeOK
  <1>2. TypeOK /\ Cal \in Blocks
    BY PlanAssumption DEF Inv
  <1>3. image[Cal] # Old => image'[Cal] # Old
    BY <1>1, <1>2, OldGone
  <1>6. dl'.patching => image'[Cal] # Old
    <2>1. CASE r.step = "download"
      <3>1. /\ dl' = [block |-> Target(r.entry), patching |-> IsPatch(r.entry), counter |-> 1]
            /\ IsPatch(r.entry) => image[Cal] # Old
        BY <2>1, EffectDownload DEF InFlight, Alters, Fits, Altering
      <3> QED
        BY <1>3, <3>1
    <2>2. CASE r.step # "download"
      BY <1>1, <1>2, <1>3, <2>2, EffectOther, DownloadKept DEF Marked
    <2> QED
      BY <2>1, <2>2
  <1>8. ASSUME NEW b \in Blocks, patch'[b] # Blank
        PROVE  image'[Cal] # Old
    <2>1. patch \in [Blocks -> Content]
      BY <1>2 DEF TypeOK, EcuTypeOK
    <2>2. patch[b] # Blank \/ dl.patching
      <3>1. CASE r.step \in {"erase", "eraseCal"}
        BY <1>8, <2>1, <3>1, EffectErase DEF Erased
      <3>2. CASE r.step = "download"
        BY <1>8, <2>1, <3>2, EffectDownload
      <3>3. CASE r.step = "transfer"
        BY <1>8, <2>1, <3>3, EffectTransfer
      <3>4. CASE r.step \notin Altering
        BY <1>8, <3>4, EffectOther
      <3> QED
        BY <3>1, <3>2, <3>3, <3>4 DEF Altering
    <2> QED
      BY <1>3, <2>2 DEF Marked
  <1> QED
    BY <1>3, <1>6, <1>8

\* What the module carries out keeps the marks.
LEMMA MarkedAccept == ASSUME Inv, InFlight, Marked, EcuAccept PROVE Marked'
  <1>1. /\ request # None /\ EcuEffect(request) /\ request \in Request /\ request' = None
        /\ UNCHANGED <<pc, waiting, idx, run>> /\ UNCHANGED tool
    BY DEF EcuAccept, tool, Inv, TypeOK, WireTypeOK
  <1>2. TypeOK /\ Cal \in Blocks
    BY PlanAssumption DEF Inv
  <1>3. image[Cal] # Old => image'[Cal] # Old
    BY <1>1, MarkedEffect
  <1>4. Answered("ok")' /\ pc \in {"workshop", "eraseCal"} => request.step = pc
    BY <1>1 DEF Answered, Inv, Wire, Unlocking, BlockSteps, CurrentRequest
  <1>5. pc \in BlockSteps \cup {"tester4"} \/ (pc = "workshop" /\ Answered("ok")') =>
          fingerprint' = run
    <2>1. pc \in BlockSteps \cup {"tester4", "workshop"} => waiting /\ request = CurrentRequest
      BY <1>1 DEF Inv, Wire, Unlocking
    <2>2. pc \in BlockSteps \cup {"tester4", "workshop"} => request.run = run
      BY <2>1 DEF CurrentRequest
    <2> QED
      BY <1>1, <1>4, <2>2, EffectOther DEF Marked
  <1>6. dl'.patching => image'[Cal] # Old
    BY <1>1, MarkedEffect
  <1>7. pc = "eraseCal" /\ Answered("ok")' => image'[Cal] # Old
    BY <1>1, <1>2, <1>4, EffectErase DEF Erased, Blank, Old, TypeOK, EcuTypeOK
  <1>8. ASSUME NEW b \in Blocks, patch'[b] # Blank
        PROVE  image'[Cal] # Old
    BY <1>1, <1>8, MarkedEffect
  <1>9. pc = "download" /\ IsPatch(idx) => image'[Cal] # Old
    BY <1>3 DEF Marked
  <1> QED
    BY <1>1, <1>5, <1>6, <1>7, <1>8, <1>9 DEF Marked, IsPatch

\* So does what it carries out or refuses of a call, or a run, that is over.
LEMMA MarkedCatchUp == ASSUME Inv, InFlight, Marked, EcuCatchUp PROVE Marked'
  <1>1. late # None /\ UNCHANGED <<pc, waiting, idx, run, reply>>
    BY DEF EcuCatchUp, tool
  <1>2. pc \notin BlockSteps \cup {"tester4", "workshop"}
    BY <1>1 DEF Inv, Wire, Unlocking
  <1>3. dl'.patching \/ (\E b \in Blocks : patch'[b] # Blank) => image'[Cal] # Old
    <2>1. CASE EcuEffect(late)
      BY <1>1, <2>1, MarkedEffect
    <2>2. CASE Refused(late)
      <3>1. dl'.patching => dl.patching
        BY <2>2, DownloadKept DEF Refused, Inv
      <3> QED
        BY <2>2, <3>1 DEF Refused, Marked
    <2> QED
      BY <2>1, <2>2 DEF EcuCatchUp
  <1> QED
    BY <1>1, <1>2, <1>3 DEF Marked, BlockSteps

\* Every step keeps the marks.
LEMMA MarkedStep ==
  ASSUME Inv, InFlight, Marked, [Next]_vars
  PROVE  Marked'
  <1>1. CASE Start
    BY <1>1 DEF Start, ecu, Marked, BlockSteps
  <1>2. CASE Send \/ EcuPending \/ WaitOn
    BY <1>2 DEF Send, EcuPending, WaitOn, tool, ecu, Marked, Answered, IsPatch
  <1>3. CASE Crash
    BY <1>3 DEF Crash, data, wire, ecu, Marked, BlockSteps
  <1>4. CASE Call
    <2>1. UNCHANGED <<run, fingerprint, dl, image, patch>> /\ ~Answered("ok")'
      BY <1>4, CallFacts DEF ecu, Answered
    <2> QED
      BY <1>4, <2>1, CallMarks DEF Marked
  <1>5. CASE EcuRefuse
    <2>1. UNCHANGED <<pc, waiting, idx, run, fingerprint, image, patch>> /\ ~Answered("ok")'
      BY <1>5 DEF EcuRefuse, Refused, Answer, tool, Answered
    <2>2. dl'.patching => dl.patching
      BY <1>5, DownloadKept DEF EcuRefuse, Refused, Inv
    <2> QED
      BY <2>1, <2>2 DEF Marked, IsPatch
  <1>6. CASE EcuLapse
    BY <1>6 DEF EcuLapse, EnterSession, tool, wire, Marked, Answered, IsPatch, Closed
  <1>7. CASE Lose
    BY <1>7 DEF Lose, tool, ecu, Marked, Answered, IsPatch
  <1>8. CASE UNCHANGED vars
    BY <1>8 DEF vars, tool, wire, ecu, Marked, Answered, IsPatch
  <1> QED
    BY <1>1, <1>2, <1>3, <1>4, <1>5, <1>6, <1>7, <1>8, MarkedAccept, MarkedCatchUp, StepCases

-----------------------------------------------------------------------------
(***************************************************************************)
(* What changes the memory, and to what.                                   *)
(***************************************************************************)

\* Only a request the module carries out changes the memory: an altering one that
\* fits, sent after the workshop code of its run, while no run has reported success.
LEMMA AlteredBy ==
  ASSUME Inv, InFlight, [Next]_vars, image' # image \/ patch' # patch
  PROVE  /\ UNCHANGED tool
         /\ Oldest \in {request, late} /\ Oldest # None /\ Oldest \in Request
         /\ EcuEffect(Oldest) /\ Acceptable(Oldest) /\ Oldest.step \in Altering
         /\ Fits(Oldest) /\ result # "ok" /\ ~(pc = "idle" /\ result = "none")
  <1>1. EcuAccept \/ EcuCatchUp
    <2>1. Start \/ Send \/ WaitOn \/ EcuPending \/ EcuLapse \/ Lose \/ UNCHANGED vars =>
            UNCHANGED <<image, patch>>
      BY DEF Start, Send, WaitOn, EcuPending, EcuLapse, Lose, vars, ecu
    <2>2. EcuRefuse => UNCHANGED <<image, patch>>
      BY DEF EcuRefuse, Refused
    <2>3. Call \/ Crash => UNCHANGED <<image, patch>>
      BY CallFacts DEF ecu
    <2> QED
      BY <2>1, <2>2, <2>3, StepCases
  <1>2. /\ UNCHANGED tool /\ Oldest \in {request, late} /\ Oldest # None
        /\ EcuEffect(Oldest) /\ Acceptable(Oldest)
    BY <1>1 DEF EcuAccept, EcuCatchUp, Refused, Oldest
  <1>3. Oldest \in Request
    BY <1>2 DEF Inv, TypeOK, WireTypeOK
  <1>4. Oldest.step \in Altering
    BY <1>2, EffectOther
  <1>5. Fits(Oldest) /\ ~(pc = "idle" /\ result = "none")
    BY <1>2, <1>4 DEF InFlight, Alters
  <1>6. result # "ok"
    BY <1>2, <1>4 DEF Inv, Wire, Teardown, Altering
  <1> QED
    BY <1>2, <1>3, <1>4, <1>5, <1>6

\* A chunk continues what its block holds, so that it is not programmed twice.
LEMMA ChunkContinues ==
  ASSUME NEW r \in Request, Fits(r), r.step = "transfer", Acceptable(r)
  PROVE  LET c == IF dl.patching THEN patch[dl.block] ELSE image[dl.block] IN
         /\ dl.block \in Blocks /\ r.entry \in Entry
         /\ Extend(c, r.entry, r.from, r.to) = [entry |-> r.entry, upto |-> r.to]
  <1>1. dl # Closed
    BY DEF Acceptable
  <1>2. /\ r.entry # 0
        /\ dl.block = Target(r.entry) /\ dl.patching = IsPatch(r.entry)
        /\ Held(r.entry) = Prefix(r.entry, r.from)
    BY <1>1 DEF Fits
  <1>3. r.entry \in Entry
    BY <1>2, PlanAssumption DEF Request, Entry
  <1>4. dl.block \in Blocks
    BY <1>2, <1>3, EntryFacts
  <1>5. (IF dl.patching THEN patch[dl.block] ELSE image[dl.block])
          = Prefix(r.entry, r.from)
    BY <1>2 DEF Held
  <1> QED
    BY <1>3, <1>4, <1>5 DEF Extend, Prefix

\* A step garbles nothing.
LEMMA NothingTwiceStep ==
  ASSUME Inv, InFlight, NothingTwice, [Next]_vars
  PROVE  NothingTwice'
  <1>1. CASE UNCHANGED <<image, patch>>
    BY <1>1 DEF NothingTwice
  <1>2. CASE image' # image \/ patch' # patch
    <2>1. PICK r \in Request : /\ EcuEffect(r) /\ Acceptable(r) /\ Fits(r)
                               /\ r.step \in Altering
      BY <1>2, AlteredBy
    <2>2. /\ image \in [Blocks -> Content] /\ patch \in [Blocks -> Content]
          /\ Blank # Garbled
      BY DEF Inv, TypeOK, EcuTypeOK, Blank, Garbled
    <2>3. CASE r.step \in {"erase", "eraseCal"}
      BY <2>1, <2>2, <2>3, EffectErase DEF Erased, NothingTwice
    <2>4. CASE r.step = "download"
      BY <2>1, <2>2, <2>4, EffectDownload DEF NothingTwice
    <2>5. CASE r.step = "transfer"
      <3>1. [entry |-> r.entry, upto |-> r.to] # Garbled
        BY <2>1 DEF Request, Garbled
      <3>2. \E c : /\ Extend(c, r.entry, r.from, r.to) # Garbled
                   /\ \/ dl.patching /\ c = patch[dl.block]
                      \/ ~dl.patching /\ c = image[dl.block]
        BY <2>1, <2>5, <3>1, ChunkContinues
      <3>3. \/ /\ dl.patching /\ image' = image
               /\ patch' = [patch EXCEPT ![dl.block] = Extend(@, r.entry, r.from, r.to)]
            \/ /\ ~dl.patching /\ patch' = patch
               /\ image' = [image EXCEPT ![dl.block] = Extend(@, r.entry, r.from, r.to)]
        BY <2>1, <2>5, EffectTransfer
      <3> QED
        BY <2>2, <3>2, <3>3 DEF NothingTwice
    <2> QED
      BY <2>1, <2>3, <2>4, <2>5 DEF Altering
  <1> QED
    BY <1>1, <1>2

\* Whatever alters the memory leaves a block that is not as it was found.
LEMMA AlteredNotOld ==
  ASSUME Inv, InFlight, Marked, [Next]_vars, image' # image \/ patch' # patch
  PROVE  \E b \in Blocks : image'[b] # Old
  <1>1. PICK r \in Request : /\ EcuEffect(r) /\ Acceptable(r) /\ Fits(r)
                             /\ r.step \in Altering
    BY AlteredBy
  <1>2. /\ image \in [Blocks -> Content] /\ Blank # Old /\ Cal \in Blocks /\ TypeOK
    BY PlanAssumption DEF Inv, TypeOK, EcuTypeOK, Blank, Old
  <1>3. r.entry \in Entry
    BY <1>1, PlanAssumption DEF Fits, Request, Entry
  <1>4. CASE r.step \in {"erase", "eraseCal"}
    BY <1>1, <1>2, <1>3, <1>4, EffectErase, EntryFacts DEF Erased
  <1>5. CASE r.step = "download"
    BY <1>1, <1>2, <1>3, <1>5, EffectDownload, EntryFacts DEF Fits
  <1>6. CASE r.step = "transfer"
    <2>1. CASE dl.patching
      BY <1>1, <1>2, <1>6, <2>1, EffectTransfer DEF Marked
    <2>2. CASE ~dl.patching
      <3>1. [entry |-> r.entry, upto |-> r.to] # Old
        BY <1>3, PlanAssumption DEF Entry, Old
      <3>2. dl.block \in Blocks /\ Extend(image[dl.block], r.entry, r.from, r.to) # Old
        BY <1>1, <1>6, <2>2, <3>1, ChunkContinues
      <3>3. image' = [image EXCEPT ![dl.block] = Extend(@, r.entry, r.from, r.to)]
        BY <1>1, <1>6, <2>2, EffectTransfer
      <3> QED
        BY <1>2, <3>2, <3>3
    <2> QED
      BY <2>1, <2>2
  <1> QED
    BY <1>1, <1>4, <1>5, <1>6 DEF Altering

\* Nothing is ever as it was found again.
LEMMA StaysAltered ==
  ASSUME Inv, InFlight, Marked, [Next]_vars, ~Untouched
  PROVE  ~Untouched'
  <1>1. CASE UNCHANGED <<image, patch>>
    BY <1>1 DEF Untouched
  <1>2. CASE image' # image \/ patch' # patch
    BY <1>2, AlteredNotOld DEF Untouched
  <1> QED
    BY <1>1, <1>2

-----------------------------------------------------------------------------
(***************************************************************************)
(* The sequence implements EcuUpdate.                                      *)
(***************************************************************************)

\* It starts as the abstract update does.
LEMMA PromiseInit == ASSUME Init PROVE Promise!Init
  <1>1. Untouched /\ Verdict = "none"
    BY DEF Init, Untouched, Verdict
  <1> QED
    BY <1>1 DEF Promise!Init, Device

\* While the memory stays as it is, so does what the module counts as.
LEMMA DeviceSame ==
  ASSUME UNCHANGED <<image, patch>>
  PROVE  Device' = Device
  <1>1. AllWritten' <=> AllWritten
    BY DEF AllWritten, Written, Held, Whole, IsPatch, Target
  <1>2. Untouched' <=> Untouched
    BY DEF Untouched
  <1> QED
    BY <1>1, <1>2 DEF Device

\* Every step is one of the abstract update, or leaves it where it is.
LEMMA PromiseStep ==
  ASSUME Inv, InFlight, Marked, [Next]_vars
  PROVE  [Promise!Next]_(Promise!vars)
  <1>1. result \in {"none", "ok", "err", "crashed"} /\ (pc # "idle" => result # "ok")
    BY DEF Inv, TypeOK, ToolTypeOK, Position
  <1>2. CASE image' # image \/ patch' # patch
    <2>1. /\ UNCHANGED <<pc, result>> /\ result # "ok" /\ ~(pc = "idle" /\ result = "none")
          /\ ~Untouched'
      BY <1>2, AlteredBy, AlteredNotOld DEF tool, Untouched
    <2>2. Verdict' = Verdict /\ Verdict \in {"running", "failed"}
      BY <1>1, <2>1 DEF Verdict
    <2>3. Device' \in {"torn", "new"}
      BY <2>1 DEF Device
    <2> QED
      BY <2>2, <2>3 DEF Promise!Next, Promise!Alter, Promise!vars
  <1>3. CASE UNCHANGED <<image, patch>>
    <2>0. Device' = Device
      BY <1>3, DeviceSame
    <2>1. CASE Start
      <3>1. Verdict' = "running" /\ Verdict # "running"
        BY <1>1, <2>1 DEF Start, Verdict
      <3> QED
        BY <2>0, <3>1 DEF Promise!Next, Promise!Begin
    <2>2. CASE Call \/ Crash
      <3>1. Verdict = "running" /\ "idle" \notin Steps
        BY <2>2, CallFacts DEF Verdict, Steps, Testers
      <3>2. CASE pc' \in Steps
        BY <2>0, <3>1, <3>2 DEF Verdict, Promise!vars
      <3>3. CASE pc' = "idle" /\ result' \in {"err", "crashed"}
        BY <2>0, <3>1, <3>3 DEF Verdict, Promise!Next, Promise!GiveUp
      <3>4. CASE pc' = "idle" /\ result' = "ok" /\ pc = "reset"
        <4>1. Device = "new"
          BY <3>4, InvFlashed DEF OkMeansFlashed, Device
        <4> QED
          BY <2>0, <3>1, <3>4, <4>1 DEF Verdict, Promise!Next, Promise!Succeed
      <3> QED
        BY <2>2, <3>2, <3>3, <3>4, CallFacts
    <2>3. CASE UNCHANGED <<pc, result>>
      BY <2>0, <2>3 DEF Verdict, Promise!vars
    <2> QED
      BY <2>1, <2>2, <2>3, StepCases
      DEF Send, WaitOn, EcuAccept, EcuRefuse, EcuCatchUp, EcuPending, EcuLapse, Lose, vars, tool
  <1> QED
    BY <1>2, <1>3

-----------------------------------------------------------------------------
(***************************************************************************)
(* Clean: without a fault the module can carry out whatever it is asked,   *)
(* so that no call fails.                                                  *)
(***************************************************************************)

\* The request in flight is that of the awaited call, and a strict module
\* cannot but accept it.
LEMMA CleanAcceptable ==
  ASSUME Inv, Clean, ~faulty, pc # "idle", request # None
  PROVE  /\ waiting /\ request = CurrentRequest /\ request.step = pc /\ request.entry = idx
         /\ reply = None /\ Acceptable(request)
  <1>1. OwnAnswers /\ SessionReached /\ DownloadReached
    BY DEF Clean
  <1>2. waiting /\ request = CurrentRequest /\ reply = None
    BY <1>1 DEF OwnAnswers
  <1>3. request.step = pc /\ request.entry = idx /\ request.counter = counter
    BY <1>2 DEF CurrentRequest
  <1>4. Unanswered
    BY DEF Unanswered
  <1>5. CASE pc \in BlockSteps
    <2>1. Programming
      BY <1>1, <1>5 DEF SessionReached
    <2>2. pc = "transfer" => dl # Closed /\ dl.counter = request.counter
      BY <1>1, <1>3, <1>4 DEF DownloadReached
    <2>3. pc = "exit" => dl # Closed
      BY <1>1, <1>4 DEF DownloadReached
    <2>4. pc = "download" /\ ShouldErase(idx) /\ ~IsPatch(idx) => BlankTarget
      BY <1>1 DEF DownloadReached
    <2> QED
      BY <1>2, <1>3, <1>5, <2>1, <2>2, <2>3, <2>4 DEF Acceptable, BlankTarget, BlockSteps
  <1>6. CASE pc \notin BlockSteps
    <2>1. /\ pc = "precondition" => session # "default"
          /\ pc = "seed" => session = "programming"
          /\ pc = "key" => session = "programming" /\ seeded
          /\ pc \in {"workshop", "verify"} => Programming
      BY <1>1 DEF SessionReached
    <2> QED
      BY <1>2, <1>3, <1>6, <2>1 DEF Acceptable, BlockSteps
  <1> QED
    BY <1>2, <1>3, <1>5, <1>6

\* Without a fault a call returns the answer to its own request: success, or
\* "not ready" while attempts at a patch chunk are left.
LEMMA CleanReturns ==
  ASSUME Inv, Clean, pc # "idle", NEW o, Returns(o), ~faulty'
  PROVE  /\ ~faulty /\ OwnAnswers /\ SessionReached /\ DownloadReached
         /\ waiting /\ request = None /\ reply # None /\ o = reply.code /\ Answered(o)
         /\ o \in Code
         /\ o = "nrc" => pc = "transfer" /\ IsPatch(idx) /\ attempt + 1 < MaxPatchRetries
         /\ waiting' = FALSE /\ request' = None /\ reply' = None /\ stale' = None /\ late' = None
         /\ UNCHANGED <<run, ecu>>
  <1>1. ~faulty
    BY DEF Returns
  <1>2. OwnAnswers /\ SessionReached /\ DownloadReached
    BY <1>1 DEF Clean
  <1>3. /\ waiting /\ ~pending /\ waiting' = FALSE /\ stale = None /\ reply # None /\ o = reply.code
        /\ reply' = None /\ stale' = None /\ request' = request /\ late' = None
        /\ UNCHANGED <<run, ecu>>
    BY <1>1, <1>2 DEF Returns, OwnAnswers
  <1>4. request = None /\ (reply.code = "nrc" =>
          pc = "transfer" /\ IsPatch(idx) /\ attempt + 1 < MaxPatchRetries)
    BY <1>2, <1>3 DEF OwnAnswers
  <1>5. reply.code \in Code
    BY <1>3 DEF Inv, TypeOK, WireTypeOK, Reply
  <1> QED
    BY <1>1, <1>2, <1>3, <1>4, <1>5 DEF Answered

\* A run that goes on with nothing on the wire is clean when the module has
\* been brought to where the next request needs it.
LEMMA CleanGoes ==
  ASSUME waiting' = FALSE, request' = None, reply' = None, stale' = None, late' = None,
         pc' # "switchpatch", result' \notin {"err", "crashed"},
         SessionReached', DownloadReached'
  PROVE  Clean'
  BY DEF Clean, OwnAnswers

\* In a clean run nothing has failed yet.
LEMMA CleanResult ==
  ASSUME Clean, ~faulty
  PROVE  result \notin {"err", "crashed"}
  BY DEF Clean

\* Calls with one successor.
LEMMA CleanMandatory == ASSUME Inv, Clean, Mandatory, ~faulty' PROVE Clean'
  <1>1. PICK o \in Outcome : Returns(o) /\ IF o = "ok" THEN Goto(After[pc]) ELSE Fail
    BY DEF Mandatory
  <1>2. pc \in DOMAIN After /\ pc # "idle" /\ pc # "transfer" /\ UNCHANGED data
    BY DEF Mandatory, After
  <1>3. /\ ~faulty /\ SessionReached /\ DownloadReached /\ Answered("ok") /\ o = "ok"
        /\ waiting' = FALSE /\ request' = None /\ reply' = None /\ stale' = None /\ late' = None
        /\ UNCHANGED ecu
    BY <1>1, <1>2, CleanReturns DEF Code
  <1>4. pc' = After[pc] /\ result' = result
    BY <1>1, <1>3 DEF Goto
  <1>5. SessionReached'
    BY <1>2, <1>3, <1>4 DEF SessionReached, After, ecu, Answered, BlockSteps, Programming
  <1>6. DownloadReached'
    <2>1. pc' \notin {"erase", "eraseCal", "transfer", "exit"}
      BY <1>2, <1>4 DEF After
    <2>2. pc' = "download" => pc \in {"erase", "eraseCal"}
      <3>1. pc \in {"extended", "precondition", "tester1", "tester2", "key", "tester3",
                    "workshop", "erase", "eraseCal", "checksum", "verify"}
        BY <1>2 DEF After
      <3> QED
        BY <1>4, <3>1 DEF After
    <2>3. pc = "erase" => BlankTarget
      BY <1>3 DEF DownloadReached
    <2>4. pc = "eraseCal" => IsPatch(idx)
      BY DEF Inv, Position
    <2>5. pc \in {"erase", "eraseCal"} => counter = 1
      BY <1>3 DEF DownloadReached
    <2> QED
      BY <1>2, <1>3, <2>1, <2>2, <2>3, <2>4, <2>5
      DEF DownloadReached, BlankTarget, Answered, data, ecu, IsPatch, Target
  <1>7. pc' # "switchpatch"
    BY <1>2, <1>4 DEF After
  <1> QED
    BY <1>3, <1>4, <1>5, <1>6, <1>7, CleanGoes, CleanResult

\* Calls before the key, and the teardown.
LEMMA CleanSimple ==
  ASSUME Inv, Clean, ~faulty',
         ReadVin \/ ProgrammingSession \/ SwitchPatch \/ SecuritySeed \/ TesterAfterVerify
         \/ EcuReset
  PROVE  Clean'
  <1>1. CASE ReadVin \/ TesterAfterVerify
    <2>1. PICK o : Returns(o)
      BY <1>1 DEF ReadVin, TesterAfterVerify
    <2>2. /\ pc \in {"vin", "testerEnd"} /\ result' = result
          /\ \/ pc = "vin" /\ pc' = "precondition"
             \/ pc' = "reset"
      BY <1>1 DEF ReadVin, TesterAfterVerify, Goto
    <2>3. /\ ~faulty /\ SessionReached /\ UNCHANGED ecu
          /\ waiting' = FALSE /\ request' = None /\ reply' = None /\ stale' = None /\ late' = None
      BY <2>1, <2>2, CleanReturns
    <2>4. SessionReached' /\ DownloadReached'
      BY <2>2, <2>3 DEF SessionReached, DownloadReached, ecu, BlockSteps
    <2> QED
      BY <2>2, <2>3, <2>4, CleanGoes, CleanResult
  <1>2. CASE ProgrammingSession \/ (SecuritySeed /\ \E o \in Outcome :
                Returns(o) /\ IF o = "ok" THEN Goto("key") ELSE Fail)
    <2>1. PICK o : /\ Returns(o)
                   /\ o = "ok" => \/ pc = "programming" /\ Goto("tester2")
                                  \/ pc = "seed" /\ Goto("key")
      BY <1>2 DEF ProgrammingSession, SecuritySeed
    <2>2. pc \in {"programming", "seed"}
      BY <1>2 DEF ProgrammingSession, SecuritySeed
    <2>3. /\ ~faulty /\ SessionReached /\ UNCHANGED ecu /\ Answered(o) /\ o \in Code /\ o # "nrc"
          /\ waiting' = FALSE /\ request' = None /\ reply' = None /\ stale' = None /\ late' = None
      BY <2>1, <2>2, CleanReturns
    <2>6. o = "ok" /\ Answered("ok")
      BY <2>3 DEF Code
    <2>4. /\ result' = result
          /\ \/ pc = "programming" /\ pc' = "tester2"
             \/ pc = "seed" /\ pc' = "key"
      BY <2>1, <2>6 DEF Goto
    <2>5. SessionReached' /\ DownloadReached'
      BY <2>3, <2>4, <2>6 DEF SessionReached, DownloadReached, ecu, BlockSteps, Answered
    <2> QED
      BY <2>3, <2>4, <2>5, CleanGoes, CleanResult
  <1>3. CASE SwitchPatch
    <2>1. pc = "switchpatch" /\ ~faulty
      BY <1>3 DEF SwitchPatch
    <2> QED
      BY <2>1 DEF Clean, OwnAnswers
  <1>4. CASE SecuritySeed /\ faulty' = TRUE
    BY <1>4
  <1>5. CASE EcuReset
    <2>1. PICK o : Returns(o)
      BY <1>5 DEF EcuReset
    <2>2. pc' = "idle" /\ result' = "ok"
      BY <1>5 DEF EcuReset
    <2> QED
      BY <2>2 DEF Clean
  <1> QED
    BY <1>1, <1>2, <1>3, <1>4, <1>5 DEF SecuritySeed

\* The loop over the blocks: each starts with the counter at 1, and one that is
\* not erased needs no blank cells.
LEMMA CleanNextBlock == ASSUME Inv, Clean, NextBlock, ~faulty' PROVE Clean'
  <1>1. PICK o \in Outcome :
          /\ Returns(o)
          /\ \/ /\ o = "ok" /\ idx < N
                /\ idx' = idx + 1 /\ Goto(FirstStep(idx + 1))
             \/ o = "ok" /\ idx = N /\ UNCHANGED idx /\ Goto("verify")
             \/ o # "ok" /\ UNCHANGED idx /\ Fail
    BY DEF NextBlock
  <1>2. pc \in {"tester4", "testerBlock"} /\ counter' = 1
    BY DEF NextBlock
  <1>3. /\ ~faulty /\ SessionReached /\ Answered(o) /\ o \in Code /\ o # "nrc"
        /\ waiting' = FALSE /\ request' = None /\ reply' = None /\ stale' = None /\ late' = None
        /\ UNCHANGED ecu
    BY <1>1, <1>2, CleanReturns
  <1>4. o = "ok" /\ Answered("ok") /\ ~Answered("ok")'
    BY <1>3 DEF Code, Answered
  <1>5. /\ result' = result
        /\ \/ idx' = idx + 1 /\ pc' = FirstStep(idx')
           \/ pc' = "verify"
    BY <1>1, <1>4 DEF Goto
  <1>6. /\ pc' \in {"eraseCal", "erase", "download", "verify"}
        /\ pc' = "download" => ~ShouldErase(idx')
    BY <1>5 DEF FirstStep
  <1>7. Programming'
    BY <1>2, <1>3 DEF SessionReached, Programming, ecu, BlockSteps
  <1>8. SessionReached'
    BY <1>4, <1>6, <1>7 DEF SessionReached
  <1>9. DownloadReached'
    BY <1>2, <1>4, <1>6 DEF DownloadReached, ShouldErase
  <1> QED
    BY <1>3, <1>5, <1>6, <1>8, <1>9, CleanGoes, CleanResult

\* The transfer loop: tool and module count alike, a chunk that was "not ready"
\* included.
LEMMA CleanTransfer ==
  ASSUME Inv, Clean, ~faulty',
         RequestDownload \/ TransferNormal \/ TransferPatch \/ TransferExit
  PROVE  Clean'
  <1>0. /\ pc \in {"download", "transfer", "exit"} /\ pc # "idle" /\ pc \in BlockSteps
    BY DEF RequestDownload, TransferNormal, TransferPatch, TransferExit, BlockSteps
  <1>1. PICK o : Returns(o)
    BY <1>0 DEF RequestDownload, TransferNormal, TransferPatch, RetryPatch, TransferExit
  <1>2. /\ ~faulty /\ SessionReached /\ DownloadReached /\ waiting /\ request = None
        /\ Answered(o) /\ o \in Code
        /\ waiting' = FALSE /\ request' = None /\ reply' = None /\ stale' = None /\ late' = None
        /\ UNCHANGED ecu
    BY <1>0, <1>1, CleanReturns
  <1>3. \A q : Returns(q) => /\ q \in Code /\ Answered(q)
                             /\ q = "nrc" => pc = "transfer" /\ IsPatch(idx)
                                             /\ attempt + 1 < MaxPatchRetries
    BY <1>0, CleanReturns
  <1>4. \A q : Returns(q) => q = "ok" \/ q = "nrc"
    BY <1>3 DEF Code
  <1>5. Programming' /\ ~Unanswered /\ Unanswered' /\ ~Answered("ok")'
    BY <1>0, <1>2 DEF SessionReached, Programming, ecu, Unanswered, Answered
  <1>6. ASSUME pc' \in {"transfer", "exit", "checksum", "testerBlock"}, result' = result,
               pc' \in {"transfer", "exit"} => dl # Closed,
               pc' = "transfer" => dl.counter = counter'
        PROVE  Clean'
    <2>1. SessionReached'
      BY <1>5, <1>6 DEF SessionReached
    <2>2. DownloadReached'
      BY <1>2, <1>5, <1>6 DEF DownloadReached, ecu
    <2> QED
      BY <1>2, <1>6, <2>1, <2>2, CleanGoes, CleanResult
  <1>7. \A n : LoopStep(n) \in {"transfer", "exit"}
    BY DEF LoopStep
  <1>8. CASE RequestDownload
    <2>1. /\ pc = "download" /\ counter' = counter
          /\ \E n : Goto(LoopStep(n)) /\ Returns("ok")
      BY <1>3, <1>4, <1>8 DEF RequestDownload
    <2>2. dl # Closed /\ dl.counter = 1 /\ counter = 1
      BY <1>2, <1>3, <2>1 DEF DownloadReached
    <2> QED
      BY <1>6, <1>7, <2>1, <2>2 DEF Goto
  <1>9. CASE TransferNormal
    <2>1. pc = "transfer" /\ ~IsPatch(idx)
      BY <1>9 DEF TransferNormal
    <2>2. Goto(LoopStep(ChunkEnd)) /\ counter' = NextCounter
      BY <1>3, <1>4, <1>9, <2>1 DEF TransferNormal
    <2> QED
      BY <1>2, <1>5, <1>6, <1>7, <2>1, <2>2 DEF DownloadReached, Goto
  <1>10. CASE TransferPatch
    <2>1. pc = "transfer"
      BY <1>10 DEF TransferPatch
    <2>2. PICK q \in Outcome : RetryPatch(q, {"nrc"}, NextCounter, attempt + 1)
      BY <1>10 DEF TransferPatch
    <2>3. q \in {"ok", "nrc"} /\ (q = "nrc" => attempt + 1 < MaxPatchRetries)
      BY <1>3, <1>4, <2>2 DEF RetryPatch
    <2>4. attempt \in Nat /\ MaxPatchRetries \in Nat
      BY LimitAssumption DEF Inv, TypeOK, ToolTypeOK
    <2>5. (Goto(LoopStep(ChunkEnd)) \/ Goto("transfer")) /\ counter' = NextCounter
      BY <2>2, <2>3, <2>4 DEF RetryPatch
    <2> QED
      BY <1>2, <1>5, <1>6, <1>7, <2>1, <2>5 DEF DownloadReached, Goto
  <1>11. CASE TransferExit
    <2>1. pc = "exit" /\ pc # "transfer"
      BY <1>11 DEF TransferExit
    <2>2. Goto("testerBlock") \/ Goto("checksum")
      BY <1>3, <1>4, <1>11, <2>1 DEF TransferExit
    <2> QED
      BY <1>6, <2>2 DEF Goto
  <1> QED
    BY <1>8, <1>9, <1>10, <1>11

\* What the module carries out brings it to where the answer says it is.
LEMMA CleanAccept == ASSUME Inv, Clean, EcuAccept, ~faulty' PROVE Clean'
  <1>1. /\ UNCHANGED tool /\ ~faulty /\ request # None /\ EcuEffect(request)
        /\ request' = None /\ stale' = stale /\ late' = late
        /\ reply' = [step |-> "answer", sid |-> Sid[request.step], code |-> "ok"]
    BY DEF EcuAccept, Answer
  <1>2. CASE pc = "idle"
    BY <1>1, <1>2 DEF Clean, tool
  <1>3. CASE pc # "idle"
    <2>1. /\ OwnAnswers /\ SessionReached /\ DownloadReached
          /\ result \notin {"err", "crashed"}
      BY <1>1, <1>3 DEF Clean
    <2>2. /\ waiting /\ request = CurrentRequest /\ request.step = pc /\ request.entry = idx
          /\ Acceptable(request)
      BY <1>1, <1>3, CleanAcceptable
    <2>3. /\ UNCHANGED <<pc, waiting, idx, offset, counter, attempt, chunk, result, run>>
          /\ ~Unanswered' /\ Unanswered /\ NextCounter' = NextCounter
      BY <1>1, <2>2 DEF tool, Unanswered, NextCounter
    <2>4. OwnAnswers'
      <3>1. reply' # None /\ reply'.code = "ok" /\ reply'.sid = Sid[pc]
        BY <1>1, <2>2 DEF None
      <3> QED
        BY <1>1, <2>1, <2>2, <2>3, <3>1 DEF OwnAnswers
    <2>5. SessionReached'
      <3>1. CASE pc \in {"extended", "programming", "switchpatch", "reset", "seed", "key"}
        BY <1>1, <2>1, <2>2, <2>3, <3>1
        DEF SessionReached, EcuEffect, EnterSession, OwnAnswers, BlockSteps, Programming,
            Acceptable
      <3>2. CASE pc \notin {"extended", "programming", "switchpatch", "reset", "seed", "key"}
        <4>1. UNCHANGED <<session, access>>
          BY <1>1, <2>2, <3>2 DEF EcuEffect, ecu
        <4> QED
          BY <2>1, <2>3, <3>2, <4>1 DEF SessionReached, Programming
      <3> QED
        BY <3>1, <3>2
    <2>6. DownloadReached'
      <3>0. /\ image \in [Blocks -> Content] /\ patch \in [Blocks -> Content] /\ dl \in Download
            /\ UNCHANGED <<Target(idx), IsPatch(idx), ShouldErase(idx)>>
        BY <2>3 DEF Inv, TypeOK, EcuTypeOK, Target, IsPatch, ShouldErase
      <3>1. CASE pc = "erase"
        <4>1. Erased(Target(idx)) /\ Target(idx) \in Blocks
          BY <1>1, <2>2, <3>1, EffectErase, BlockFacts DEF BlockSteps
        <4> QED
          BY <2>1, <2>3, <3>0, <3>1, <4>1 DEF DownloadReached, Erased, BlankTarget
      <3>2. CASE pc = "download"
        <4>1. /\ dl' = [block |-> Target(idx), patching |-> IsPatch(idx), counter |-> 1]
              /\ patch' = [patch EXCEPT ![Target(idx)] = Blank]
              /\ image' = IF IsPatch(idx) THEN image ELSE [image EXCEPT ![Target(idx)] = Blank]
              /\ Target(idx) \in Blocks /\ idx \in Entry
          BY <1>1, <2>2, <3>2, EffectDownload, BlockFacts DEF BlockSteps
        <4>2. dl' # Closed /\ dl'.counter = 1
          BY <4>1 DEF Closed, Blocks
        <4>3. ~IsPatch(idx) => BlankTarget'
          BY <2>3, <3>0, <4>1 DEF BlankTarget
        <4> QED
          BY <2>1, <2>3, <3>0, <3>2, <4>2, <4>3 DEF DownloadReached
      <3>3. CASE pc = "transfer"
        <4>1. dl' = [dl EXCEPT !.counter = (dl.counter + 1) % CounterMod] /\ dl # Closed
          BY <1>1, <2>1, <2>2, <3>3 DEF EcuEffect, DownloadReached
        <4>2. dl.counter = counter
          BY <2>1, <2>3, <3>3 DEF DownloadReached
        <4>3. dl' # Closed /\ dl'.counter = NextCounter
          <5>1. dl.block # 0
            BY <3>3, BlockFacts, <4>1 DEF BlockSteps, Inv, Memory, DownloadFits, Blocks
          <5> QED
            BY <3>0, <4>1, <4>2, <5>1 DEF Download, Closed, NextCounter
        <4> QED
          BY <2>1, <2>3, <3>3, <4>3 DEF DownloadReached
      <3>4. CASE pc \notin {"erase", "download", "transfer"}
        BY <2>1, <2>3, <3>4 DEF DownloadReached
      <3> QED
        BY <3>1, <3>2, <3>3, <3>4
    <2> QED
      BY <2>1, <2>3, <2>4, <2>5, <2>6 DEF Clean
  <1> QED
    BY <1>2, <1>3

\* What the module could have carried out it refuses without a fault only to
\* say that it is not ready for a chunk of a patch, and it counts that chunk.
LEMMA CleanRefuse == ASSUME Inv, Clean, EcuRefuse, ~faulty' PROVE Clean'
  <1>1. /\ UNCHANGED tool /\ request # None /\ request' = None /\ stale' = stale
        /\ late' = late /\ UNCHANGED <<session, seeded, access, image, patch>>
        /\ reply' = [step |-> "answer", sid |-> Sid[request.step], code |-> "nrc"]
    BY DEF EcuRefuse, Refused, Answer
  <1>2. /\ ~faulty
        /\ Acceptable(request) =>
             /\ request.step = "transfer" /\ dl # Closed /\ dl.patching
             /\ ~(attempt + 1 >= MaxPatchRetries)
             /\ dl' = [dl EXCEPT !.counter = (dl.counter + 1) % CounterMod]
    BY DEF EcuRefuse, Refused, NotReady
  <1>3. CASE pc = "idle"
    BY <1>1, <1>2, <1>3 DEF Clean, tool
  <1>4. CASE pc # "idle"
    <2>1. /\ OwnAnswers /\ SessionReached /\ DownloadReached
          /\ result \notin {"err", "crashed"}
      BY <1>2, <1>4 DEF Clean
    <2>2. /\ waiting /\ request = CurrentRequest /\ request.step = pc /\ Acceptable(request)
      BY <1>1, <1>2, <1>4, CleanAcceptable
    <2>3. /\ UNCHANGED <<pc, waiting, idx, offset, counter, attempt, chunk, result, run>>
          /\ ~Unanswered' /\ Unanswered /\ NextCounter' = NextCounter
          /\ reply' # None /\ reply'.code = "nrc" /\ reply'.sid = Sid[pc]
      BY <1>1, <2>2 DEF tool, Unanswered, NextCounter, None
    <2>4. pc = "transfer" /\ dl # Closed /\ dl.patching /\ attempt + 1 < MaxPatchRetries
      BY <1>2, <2>2, LimitAssumption DEF Inv, TypeOK, ToolTypeOK
    <2>5. IsPatch(idx) /\ dl.block # 0
      <3>1. dl.block = Target(idx) /\ dl.patching = IsPatch(idx)
        BY <2>4 DEF Inv, Memory, DownloadFits
      <3>2. Target(idx) \in Blocks
        BY <2>4, BlockFacts DEF BlockSteps
      <3>3. IsPatch(idx)
        BY <2>4, <3>1, Zenon
      <3> QED
        BY <3>1, <3>2, <3>3 DEF Blocks
    <2>6. OwnAnswers'
      BY <1>1, <2>1, <2>3, <2>4, <2>5 DEF OwnAnswers, IsPatch
    <2>7. SessionReached'
      BY <1>1, <2>1, <2>3, <2>4 DEF SessionReached, Programming, BlockSteps
    <2>8. DownloadReached'
      <3>1. dl' # Closed /\ dl'.counter = NextCounter
        <4>1. dl' = [dl EXCEPT !.counter = (dl.counter + 1) % CounterMod] /\ dl \in Download
          BY <1>2, <2>2 DEF Inv, TypeOK, EcuTypeOK
        <4>2. dl.counter = counter
          BY <2>1, <2>3, <2>4 DEF DownloadReached
        <4> QED
          BY <2>5, <4>1, <4>2 DEF Download, Closed, NextCounter
      <3> QED
        BY <2>3, <2>4, <3>1 DEF DownloadReached
    <2> QED
      BY <2>1, <2>3, <2>6, <2>7, <2>8 DEF Clean
  <1> QED
    BY <1>3, <1>4

\* A clean run sends with nothing on the wire.
LEMMA CleanSend == ASSUME Inv, Clean, Send, ~faulty' PROVE Clean'
  <1>1. /\ pc # "idle" /\ ~waiting /\ waiting' /\ request' = CurrentRequest
        /\ \/ late' \in {late, request} /\ stale' = None
           \/ late' = None /\ stale' \in {reply, stale}
        /\ reply' = None
        /\ UNCHANGED <<pc, idx, offset, counter, attempt, chunk, result, run, ecu, faulty>>
    BY DEF Send, Abandoned, Oldest
  <1>2. /\ OwnAnswers /\ SessionReached /\ DownloadReached
        /\ result \notin {"err", "crashed"}
    BY <1>1 DEF Clean
  <1>3. CurrentRequest' = CurrentRequest /\ CurrentRequest # None
    BY <1>1, CurrentRequestType DEF CurrentRequest, ChunkEnd, IsPatch, Target, Inv
  <1>4. OwnAnswers'
    BY <1>1, <1>2, <1>3 DEF OwnAnswers
  <1>5. ~Answered("ok")' /\ Unanswered' /\ Unanswered
    BY <1>1, <1>3 DEF Answered, Unanswered
  <1>6. SessionReached' /\ DownloadReached'
    BY <1>1, <1>2, <1>5
    DEF SessionReached, DownloadReached, ecu, Programming, BlankTarget, IsPatch, Target,
        ShouldErase
  <1> QED
    BY <1>1, <1>2, <1>4, <1>6 DEF Clean

\* Every step keeps a run clean, or is itself the fault.
LEMMA CleanStep == ASSUME Inv, Clean, [Next]_vars PROVE Clean'
  <1> SUFFICES ASSUME ~faulty' PROVE Clean'
    BY DEF Clean
  <1>1. CASE Start
    BY <1>1
    DEF Start, Clean, OwnAnswers, SessionReached, DownloadReached, BlockSteps, Answered
  <1>2. CASE Call
    BY <1>2, CleanMandatory, CleanSimple, CleanNextBlock, CleanTransfer DEF Call
  <1>3. CASE Crash \/ EcuLapse \/ Lose
    BY <1>3 DEF Crash, EcuLapse, Lose
  <1>4. CASE WaitOn \/ EcuPending \/ UNCHANGED vars
    <2>1. UNCHANGED <<tool, request, reply, late, stale, ecu, faulty>>
      BY <1>4 DEF WaitOn, EcuPending, vars, wire
    <2> QED
      BY <2>1
      DEF tool, ecu, Clean, OwnAnswers, SessionReached, DownloadReached, Answered, Unanswered,
          Programming, BlankTarget, IsPatch, Target, ShouldErase, NextCounter, CurrentRequest,
          ChunkEnd
  <1>5. CASE EcuCatchUp
    <2>1. ~faulty /\ late # None /\ UNCHANGED tool
      BY <1>5 DEF EcuCatchUp
    <2>2. pc = "idle" /\ result \notin {"err", "crashed"}
      BY <2>1 DEF Clean, OwnAnswers
    <2> QED
      BY <2>1, <2>2 DEF Clean, tool
  <1> QED
    BY <1>1, <1>2, <1>3, <1>4, <1>5, CleanSend, CleanAccept, CleanRefuse, StepCases

-----------------------------------------------------------------------------
(***************************************************************************)
(* The theorems.                                                           *)
(***************************************************************************)

\* Before the first run nothing is in flight, marked or failed.
LEMMA InitFull == Init => FullInv
  <1>1. Init => InFlight /\ Marked /\ Clean
    BY DEF Init, InFlight, Alters, Marked, Clean, BlockSteps, Closed
  <1> QED
    BY <1>1, InitInv DEF FullInv

\* The full invariant is inductive.
LEMMA FullStep == FullInv /\ [Next]_vars => FullInv'
  BY InvStep, InFlightStep, MarkedStep, CleanStep DEF FullInv

\* In every reachable state, besides what Invariance says: a request that alters
\* the memory fits what the module holds even after its run has ended, the run
\* that sent it has written its workshop code, and a run without a fault has
\* brought the module to where it can carry out the next request.
THEOREM FullInvariance == Spec => []FullInv
  BY InitFull, FullStep, PTL DEF Spec

\* No byte is programmed twice or out of place, in failing runs either: a chunk
\* is repeated only after a negative response, and one still in flight when its
\* run gives up continues exactly what its block holds.
THEOREM NeverGarbled == Spec => []NothingTwice
  <1>1. Init => NothingTwice
    BY DEF Init, NothingTwice, Old, Blank, Garbled
  <1>2. FullInv /\ NothingTwice /\ [Next]_vars => NothingTwice'
    BY NothingTwiceStep DEF FullInv
  <1> QED
    BY <1>1, <1>2, FullInvariance, PTL DEF Spec

\* The memory changes only by a request of the run whose workshop code the module
\* holds, which may be over when the request is carried out, and never once a run
\* has reported success.
THEOREM MarkFirst == Spec => FingerprintFirst
  <1>1. FullInv /\ [Next]_vars =>
          [image' # image \/ patch' # patch => fingerprint = Oldest.run /\ result # "ok"]_vars
    BY AlteredBy DEF FullInv, Fits
  <1> QED
    BY <1>1, FullInvariance, PTL DEF Spec, FingerprintFirst

\* A run fails only if the bus or the module did: the order of the blocks, the
\* wrap of the u8 counter, the "not ready" answers of a patch and whatever an
\* interrupted run left behind never make a strict module refuse.
THEOREM CleanRuns == Spec => []CleanRunSucceeds
  <1>1. FullInv => CleanRunSucceeds
    BY DEF FullInv, Clean, CleanRunSucceeds
  <1> QED
    BY <1>1, FullInvariance, PTL

\* The flash sequence implements EcuUpdate: it alters the module in a run only,
\* reports success only over a module that holds exactly the prepared blocks,
\* and a module once altered never counts as untouched again.
THEOREM Implements == Spec => ImplementsPromise
  <1>1. Init => Promise!Init
    BY PromiseInit
  <1>2. FullInv /\ [Next]_vars => [Promise!Next]_(Promise!vars)
    BY PromiseStep DEF FullInv
  <1> QED
    BY <1>1, <1>2, FullInvariance, PTL DEF Spec, ImplementsPromise, Promise!Spec
=============================================================================

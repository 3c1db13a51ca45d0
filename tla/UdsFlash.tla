------------------------------ MODULE UdsFlash ------------------------------
(***************************************************************************)
(* The UDS flash sequence of mqb-flash-uds/src/flash.rs                    *)
(* (run_flash_sequence, flash_normal_block, flash_patch_block,             *)
(* send_switchpatch) against the control module it rewrites.               *)
(*                                                                         *)
(* The tool is a straight line of awaited requests.  Each request is sent  *)
(* (Send), may be carried out or refused by the module (EcuAccept,         *)
(* EcuRefuse), which may first ask for more time any number of times       *)
(* (EcuPending), and returns to the tool with an outcome (Returns): "ok",  *)
(* a negative response "nrc", or "error" (a timeout, or an answer of       *)
(* another service).  Requests and answers may be lost, a request or an    *)
(* answer may outlive the call or the run that waited for it, the module   *)
(* may drop its session, and the tool may be killed between any two steps  *)
(* and run again on whatever the module was left with.                     *)
(*                                                                         *)
(* The control module is not in the repository: its part of the state and  *)
(* its actions are modelled from what flash.rs expects of it.  It enforces *)
(* session, security access, blank cells and the block counter, and may    *)
(* refuse anything at any time; its own checks (0x0202, 0xFF01) are        *)
(* allowed to pass whatever the memory holds.                              *)
(***************************************************************************)
EXTENDS Integers

CONSTANTS
  N,                      \* number of prepared blocks, in the caller's order
  Number,                 \* Number[i]: block_number of prepared block i
  Size,                   \* Size[i]: length of block_encrypted_bytes
  NoEraseMaxBlock,        \* no_erase_max_block: blocks up to it are never erased
  Cal,                    \* the CAL block, 5
  CounterMod,             \* values of the u8 block counter, 256
  MaxPatchRetries,        \* MAX_PATCH_RETRIES, 200
  TableSize,              \* block_transfer_size of the module, or 0xFFD
  MaxBlockLengths,        \* values the module may report to RequestDownload
  PatchChunkSize(_, _),   \* patch_info.block_transfer_size_fn
  MaxRuns                 \* bound: runs of the tool

(***************************************************************************)
(* Blocks up to 5 are written whole; a block above 5 is a patch written    *)
(* without erase onto block number - 5.                                    *)
(***************************************************************************)
Entry == 1..N
IsPatch(i) == Number[i] > 5
Target(i) == IF IsPatch(i) THEN Number[i] - 5 ELSE Number[i]
Blocks == 1..5
ShouldErase(i) == Number[i] > NoEraseMaxBlock

ASSUME PlanAssumption ==
  /\ N \in Nat
  /\ Number \in [Entry -> 1..9]
  /\ Size \in [Entry -> Nat \ {0}]
  /\ NoEraseMaxBlock \in Nat
  /\ Cal \in Blocks
ASSUME LimitAssumption ==
  /\ CounterMod \in Nat /\ CounterMod > 1
  /\ MaxPatchRetries \in Nat \ {0}
  /\ TableSize \in Nat \ {0}
  /\ MaxBlockLengths \subseteq Nat
  /\ MaxRuns \in Nat
ASSUME ChunkAssumption ==
  \A i \in Entry : \A o \in 0..Size[i] : PatchChunkSize(Target(i), o) \in Nat \ {0}
\* What prepare_blocks and cmd_unlock establish: a block is written once and
\* patched once, and neither a whole write of the patched block nor the CAL
\* erase of a patch comes after what it would destroy.
ASSUME OrderAssumption ==
  \A i, j \in Entry :
    /\ i # j => Number[i] # Number[j]
    /\ i < j /\ IsPatch(j) => Number[i] # Cal /\ Number[i] # Cal + 5
    /\ i < j /\ IsPatch(i) => Number[j] # Target(i)

VARIABLES
  \* the tool
  pc,           \* the awaited request of run_flash_sequence, or "idle"
  waiting,      \* is the request of pc sent and unanswered?
  idx,          \* prepared block being flashed, 0 before the first
  offset,       \* bytes of it the module has acknowledged
  counter,      \* blockSequenceCounter, u8
  attempt,      \* attempt at the current patch chunk
  chunk,        \* transfer_size of a normal block
  result,       \* of the last run: "none", "ok", "err" or "crashed"
  run,          \* runs started
  \* the bus
  request,      \* request on its way to the module
  reply,        \* answer to the latest request
  late,         \* request the tool has given up on and the module has not
  stale,        \* answer to a request the tool has given up on
  pending,      \* the call has been asked for more time (NRC 0x78)
  \* the control module
  session, seeded, access,
  fingerprint,  \* run whose workshop code was written last
  dl,           \* open download: block, entry kind and expected counter
  image,        \* image[b]: what block b holds
  patch,        \* patch[b]: what has been patched over block b
  \* history
  faulty        \* did the bus or the module misbehave in this run?

tool == <<pc, waiting, idx, offset, counter, attempt, chunk, result, run>>
wire == <<request, reply, late, stale, pending>>
ecu == <<session, seeded, access, fingerprint, dl, image, patch>>
vars == <<tool, wire, ecu, faulty>>

-----------------------------------------------------------------------------
(***************************************************************************)
(* Requests and answers.                                                   *)
(***************************************************************************)
Testers == {"tester1", "tester2", "tester3", "tester4", "testerBlock", "testerEnd"}
Steps == {"extended", "vin", "precondition", "programming", "switchpatch", "seed",
          "key", "workshop", "erase", "eraseCal", "download", "transfer", "exit",
          "checksum", "verify", "reset"} \cup Testers

\* UDS services: the tool tells answers apart by the service identifier only.
Sid == [s \in Steps |->
  CASE s \in {"extended", "programming"} -> "DiagnosticSessionControl"
    [] s = "vin" -> "ReadDataByIdentifier"
    [] s \in {"seed", "key"} -> "SecurityAccess"
    [] s = "workshop" -> "WriteDataByIdentifier"
    [] s = "download" -> "RequestDownload"
    [] s = "transfer" -> "TransferData"
    [] s = "exit" -> "RequestTransferExit"
    [] s = "reset" -> "ECUReset"
    [] s \in {"precondition", "erase", "eraseCal", "checksum", "verify"} -> "RoutineControl"
    [] OTHER -> "TesterPresent"]

Code == {"ok", "nrc"}
Services == {Sid[s] : s \in Steps}
None == [step |-> "none"]
Request == [step : Steps, run : 0..MaxRuns, entry : 0..N, from : Nat, to : Nat,
            counter : 0..(CounterMod - 1)]
Reply == [step : {"answer"}, sid : Services, code : Code]

Smaller(a, b) == IF a < b THEN a ELSE b

\* End of the chunk that starts at offset: (offset + size).min(data.len()).
ChunkEnd ==
  IF idx = 0 THEN 0
  ELSE IF IsPatch(idx)
    THEN Smaller(offset + PatchChunkSize(Target(idx), offset), Size[idx])
    ELSE Smaller(offset + chunk, Size[idx])

\* min(max_chunk.saturating_sub(2)) of flash_normal_block
TransferSize(max) == Smaller(TableSize, IF max < 2 THEN 0 ELSE max - 2)

NextCounterNoWrap == counter + 1
NextCounter == (counter + 1) % CounterMod        \* wrapping_add(1) on a u8

\* The stretch of entry i's payload a block holds from its start.  Old and
\* Garbled stand for content no prefix of a prepared block explains.
Content == [entry : 0..N, upto : Nat] \cup {[entry |-> -1, upto |-> 0], [entry |-> -2, upto |-> 0]}
Blank == [entry |-> 0, upto |-> 0]
Old == [entry |-> -1, upto |-> 0]
Garbled == [entry |-> -2, upto |-> 0]
Whole(i) == [entry |-> i, upto |-> Size[i]]
Closed == [block |-> 0, patching |-> FALSE, counter |-> 0]
Download == [block : 0..5, patching : BOOLEAN, counter : 0..(CounterMod - 1)]

Init ==
  /\ pc = "idle" /\ waiting = FALSE
  /\ idx = 0 /\ offset = 0 /\ counter = 1 /\ attempt = 0 /\ chunk = 1
  /\ result = "none" /\ run = 0
  /\ request = None /\ reply = None /\ late = None /\ stale = None /\ pending = FALSE
  /\ session = "default" /\ seeded = FALSE /\ access = FALSE
  /\ fingerprint = 0 /\ dl = Closed
  /\ image = [b \in Blocks |-> Old] /\ patch = [b \in Blocks |-> Blank]
  /\ faulty = FALSE

-----------------------------------------------------------------------------
(***************************************************************************)
(* The tool.                                                               *)
(***************************************************************************)

\* What is left on the bus when a new request goes out.  The module works off
\* requests in order and holds one while it is busy: of what the tool has given up
\* on, that request or the last answer survives (a bound: one message).
Oldest == IF late # None THEN late ELSE request
Abandoned(answers) ==
  \/ late' = Oldest /\ stale' = None
  \/ late' = None /\ stale' \in answers

\* flash_blocks opens a fresh session over whatever the last run has left on the
\* bus: a request the module is still busy with, or an answer that comes now.
Start ==
  /\ pc = "idle" /\ run < MaxRuns
  /\ pc' = "extended" /\ waiting' = FALSE /\ run' = run + 1
  /\ idx' = 0 /\ offset' = 0 /\ counter' = 1 /\ attempt' = 0 /\ chunk' = 1
  /\ result' = "none"
  /\ Abandoned({None, reply, stale})
  /\ request' = None /\ reply' = None /\ pending' = FALSE
  /\ faulty' = (late' # None \/ stale' # None)
  /\ UNCHANGED ecu

CurrentRequest ==
  [step |-> pc, run |-> run, entry |-> idx, from |-> offset, to |-> ChunkEnd, counter |-> counter]

\* An awaited call sends its request.  A request or an answer nobody waits for
\* any more (the call before returned without it) is now an old one.
Send ==
  /\ pc # "idle" /\ ~waiting
  /\ waiting' = TRUE
  /\ request' = CurrentRequest
  /\ Abandoned({IF reply # None THEN reply ELSE stale})
  /\ reply' = None
  /\ UNCHANGED <<pc, idx, offset, counter, attempt, chunk, result, run, pending, ecu, faulty>>

\* A response-pending answer, to whichever request, is consumed and gives the
\* call a fresh timeout, however often it comes (send_switchpatch; UDSClient, by
\* the comment of IDENT_TIMEOUT).
WaitOn ==
  /\ pending /\ pending' = FALSE
  /\ UNCHANGED <<tool, request, reply, late, stale, ecu, faulty>>

\* An awaited call of UDSClient returns o.  Frames arrive in order; a negative
\* response is taken whatever it answers, a positive one by its service.
Returns(o) ==
  /\ waiting /\ ~pending /\ waiting' = FALSE
  /\ UNCHANGED <<request, late, pending, run, ecu>>
  /\ \/ /\ stale = None /\ reply # None /\ o = reply.code
        /\ reply' = None /\ UNCHANGED <<stale, faulty>>
     \/ /\ stale # None
        /\ o = IF stale.code = "nrc" \/ stale.sid = Sid[pc] THEN stale.code ELSE "error"
        /\ stale' = None /\ UNCHANGED <<reply, faulty>>
     \/ /\ o = "error"                           \* Timeout
        /\ faulty' = TRUE /\ UNCHANGED <<reply, stale>>

Outcome == {"ok", "nrc", "error"}

Goto(step) == pc' = step /\ UNCHANGED result
Fail == pc' = "idle" /\ result' = "err"
data == <<idx, offset, counter, attempt, chunk>>

\* Calls whose error ends the run (the ? operator) and whose success leads to
\* one fixed next call.
AfterNoWorkshopCode ==
  [extended |-> "vin", precondition |-> "tester1", tester1 |-> "programming",
   tester2 |-> "seed", key |-> "tester4", erase |-> "download",
   eraseCal |-> "download", checksum |-> "testerBlock", verify |-> "testerEnd"]
After ==
  [extended |-> "vin", precondition |-> "tester1", tester1 |-> "programming",
   tester2 |-> "seed", key |-> "tester3", tester3 |-> "workshop",
   workshop |-> "tester4", erase |-> "download", eraseCal |-> "download",
   checksum |-> "testerBlock", verify |-> "testerEnd"]

Mandatory ==
  /\ pc \in DOMAIN After
  /\ \E o \in Outcome : Returns(o) /\ IF o = "ok" THEN Goto(After[pc]) ELSE Fail
  /\ UNCHANGED data

\* The VIN is informative: a failed read is logged.
ReadVin ==
  /\ pc = "vin"
  /\ \E o \in Outcome : Returns(o)
  /\ Goto("precondition") /\ UNCHANGED data

\* Any failure of the normal request falls back to SwitchPatch.
ProgrammingSession ==
  /\ pc = "programming"
  /\ \E o \in Outcome :
       Returns(o) /\ Goto(IF o = "ok" THEN "tester2" ELSE "switchpatch")
  /\ UNCHANGED data

\* send_switchpatch reads the bus itself and looks at the first byte only: a
\* late answer of the refused session request is taken for its own.
SwitchPatch ==
  /\ pc = "switchpatch" /\ waiting /\ ~pending /\ waiting' = FALSE
  /\ \/ /\ stale = None /\ reply # None /\ reply' = None
        /\ IF reply.code = "ok" THEN Goto("tester2") ELSE Fail
        /\ UNCHANGED <<stale, faulty>>
     \/ /\ stale # None /\ stale' = None
        /\ IF stale.code = "ok" /\ stale.sid \in {"TesterPresent", "DiagnosticSessionControl"}
             THEN Goto("tester2") ELSE Fail
        /\ UNCHANGED <<reply, faulty>>
     \/ /\ Fail /\ faulty' = TRUE
        /\ UNCHANGED <<reply, stale>>
  /\ UNCHANGED <<request, late, pending, run, ecu, data>>

\* A seed shorter than four bytes is an authentication failure.
SecuritySeed ==
  /\ pc = "seed"
  /\ \/ /\ \E o \in Outcome : Returns(o) /\ IF o = "ok" THEN Goto("key") ELSE Fail
     \/ /\ waiting /\ ~pending /\ waiting' = FALSE
        /\ stale = None /\ reply # None /\ reply.code = "ok" /\ reply' = None
        /\ Fail /\ faulty' = TRUE
        /\ UNCHANGED <<request, late, stale, pending, run, ecu>>
  /\ UNCHANGED data

FirstStep(i) ==
  CASE IsPatch(i) -> "eraseCal"
    [] ~IsPatch(i) /\ ShouldErase(i) -> "erase"
    [] OTHER -> "download"

NextBlockSkipsLast ==
  /\ pc \in {"tester4", "testerBlock"}
  /\ \E o \in Outcome :
       /\ Returns(o)
       /\ \/ /\ o = "ok" /\ idx + 1 < N
             /\ idx' = idx + 1 /\ Goto(FirstStep(idx + 1))
          \/ o = "ok" /\ idx + 1 >= N /\ UNCHANGED idx /\ Goto("verify")
          \/ o # "ok" /\ UNCHANGED idx /\ Fail
  /\ offset' = 0 /\ counter' = 1 /\ attempt' = 0
  /\ UNCHANGED chunk

\* The keep-alive before the first block and after each one: go on with the
\* next prepared block, or verify once all are written.
NextBlock ==
  /\ pc \in {"tester4", "testerBlock"}
  /\ \E o \in Outcome :
       /\ Returns(o)
       /\ \/ /\ o = "ok" /\ idx < N
             /\ idx' = idx + 1 /\ Goto(FirstStep(idx + 1))
          \/ o = "ok" /\ idx = N /\ UNCHANGED idx /\ Goto("verify")
          \/ o # "ok" /\ UNCHANGED idx /\ Fail
  /\ offset' = 0 /\ counter' = 1 /\ attempt' = 0
  /\ UNCHANGED chunk

\* Where the transfer loop goes at byte o.
LoopStepShort(o) == IF o + 1 < Size[idx] THEN "transfer" ELSE "exit"
LoopStep(o) == IF o < Size[idx] THEN "transfer" ELSE "exit"

\* RequestDownload.  A normal block sizes its chunks by the length the module
\* reports, and gives up when that leaves no room; a patch has its own table.
RequestDownload ==
  /\ pc = "download"
  /\ \/ /\ \E o \in {"nrc", "error"} : Returns(o)
        /\ Fail /\ UNCHANGED chunk
     \/ /\ IsPatch(idx) /\ Returns("ok")
        /\ Goto(LoopStep(0)) /\ UNCHANGED chunk
     \/ /\ ~IsPatch(idx)
        /\ \E max \in MaxBlockLengths :
             /\ TransferSize(max) > 0 /\ Returns("ok")
             /\ chunk' = TransferSize(max) /\ Goto(LoopStep(0))
     \/ /\ ~IsPatch(idx)
        /\ \E max \in MaxBlockLengths : TransferSize(max) = 0
        /\ waiting /\ ~pending /\ waiting' = FALSE
        /\ stale = None /\ reply # None /\ reply.code = "ok" /\ reply' = None
        /\ Fail /\ faulty' = TRUE
        /\ UNCHANGED <<request, late, stale, pending, run, ecu, chunk>>
  /\ UNCHANGED <<idx, offset, counter, attempt>>

\* One chunk of a normal block: any failure ends the run.
TransferNormal ==
  /\ pc = "transfer" /\ ~IsPatch(idx)
  /\ \E o \in Outcome :
       /\ Returns(o)
       /\ \/ /\ o = "ok" /\ Goto(LoopStep(ChunkEnd))
             /\ offset' = ChunkEnd /\ counter' = NextCounter
          \/ o # "ok" /\ Fail /\ UNCHANGED <<offset, counter>>
  /\ UNCHANGED <<idx, attempt, chunk>>

\* One attempt at a chunk of a patch returns o: outcomes in again are retried
\* with the counter next while attempts are left.
RetryPatch(o, again, next, tries) ==
  /\ Returns(o)
  /\ \/ /\ o = "ok" /\ Goto(LoopStep(ChunkEnd))
        /\ offset' = ChunkEnd /\ counter' = NextCounter /\ attempt' = 0
     \/ /\ o \in again /\ attempt + 1 < MaxPatchRetries
        /\ Goto("transfer") /\ counter' = next
        /\ attempt' = tries /\ UNCHANGED offset
     \/ /\ o # "ok" /\ (o \notin again \/ attempt + 1 >= MaxPatchRetries)
        /\ Fail /\ UNCHANGED <<offset, counter, attempt>>

\* Defects a patch transfer could have: the retry forgets the counter, retries
\* whatever failed, or is not bounded.
TransferPatchSameCounter ==
  /\ pc = "transfer" /\ IsPatch(idx)
  /\ \E o \in Outcome : RetryPatch(o, {"nrc"}, counter, attempt + 1)
  /\ UNCHANGED <<idx, chunk>>
TransferPatchRetriesAll ==
  /\ pc = "transfer" /\ IsPatch(idx)
  /\ \E o \in Outcome : RetryPatch(o, {"nrc", "error"}, NextCounter, attempt + 1)
  /\ UNCHANGED <<idx, chunk>>
TransferPatchUnbounded ==
  /\ pc = "transfer" /\ IsPatch(idx)
  /\ \E o \in Outcome : RetryPatch(o, {"nrc"}, NextCounter, 0)
  /\ UNCHANGED <<idx, chunk>>

\* One attempt at a chunk of a patch: a negative response means "not ready,
\* send it again" while attempts are left; anything else ends the run.
TransferPatch ==
  /\ pc = "transfer" /\ IsPatch(idx)
  /\ \E o \in Outcome : RetryPatch(o, {"nrc"}, NextCounter, attempt + 1)
  /\ UNCHANGED <<idx, chunk>>

\* A patch has no checksum routine.
TransferExit ==
  /\ pc = "exit"
  /\ \E o \in Outcome :
       /\ Returns(o)
       /\ IF o = "ok" THEN Goto(IF IsPatch(idx) THEN "testerBlock" ELSE "checksum") ELSE Fail
  /\ UNCHANGED data

\* Teardown: from here on nothing the module answers makes the run a failure.
TesterAfterVerify ==
  /\ pc = "testerEnd"
  /\ \E o \in Outcome : Returns(o)
  /\ Goto("reset") /\ UNCHANGED data

EcuReset ==
  /\ pc = "reset"
  /\ \E o \in Outcome : Returns(o)
  /\ pc' = "idle" /\ result' = "ok" /\ UNCHANGED data

\* The process is killed.
Crash ==
  /\ pc # "idle"
  /\ pc' = "idle" /\ waiting' = FALSE /\ result' = "crashed" /\ faulty' = TRUE
  /\ pending' = FALSE
  /\ UNCHANGED <<data, run, request, reply, late, stale, ecu>>

ToolStep ==
  \/ Start \/ Send \/ WaitOn \/ Mandatory \/ ReadVin \/ ProgrammingSession \/ SwitchPatch
  \/ SecuritySeed \/ NextBlock \/ RequestDownload \/ TransferNormal
  \/ TransferPatch \/ TransferExit \/ TesterAfterVerify \/ EcuReset

-----------------------------------------------------------------------------
(***************************************************************************)
(* The control module and the bus.                                         *)
(***************************************************************************)

Programming == session = "programming" /\ access

\* What a strict module requires of a request before it may carry it out.
Acceptable(r) ==
  CASE r.step = "precondition" -> session # "default"
    [] r.step = "seed" -> session = "programming"
    [] r.step = "key" -> session = "programming" /\ seeded
    [] r.step \in {"workshop", "erase", "eraseCal", "checksum", "verify"} -> Programming
    [] r.step = "download" ->
         /\ Programming
         /\ ShouldErase(r.entry) /\ ~IsPatch(r.entry) =>
              image[Target(r.entry)] = Blank /\ patch[Target(r.entry)] = Blank
    [] r.step = "transfer" -> Programming /\ dl # Closed /\ dl.counter = r.counter
    [] r.step = "exit" -> Programming /\ dl # Closed
    [] OTHER -> TRUE

\* Content c after the bytes from+1..to of entry i were programmed behind it.
Extend(c, i, from, to) ==
  IF (from = 0 /\ c = Blank) \/ c = [entry |-> i, upto |-> from]
  THEN [entry |-> i, upto |-> to] ELSE Garbled

Erased(b) ==
  /\ image' = [image EXCEPT ![b] = Blank]
  /\ patch' = [patch EXCEPT ![b] = Blank]

EnterSession(s) ==
  /\ session' = s /\ seeded' = FALSE /\ access' = FALSE /\ dl' = Closed

EcuEffect(r) ==
  CASE r.step = "extended" ->
         EnterSession("extended") /\ UNCHANGED <<fingerprint, image, patch>>
    [] r.step \in {"programming", "switchpatch"} ->
         EnterSession("programming") /\ UNCHANGED <<fingerprint, image, patch>>
    [] r.step = "reset" ->
         EnterSession("default") /\ UNCHANGED <<fingerprint, image, patch>>
    [] r.step = "seed" ->
         seeded' = TRUE /\ UNCHANGED <<session, access, fingerprint, dl, image, patch>>
    [] r.step = "key" ->
         access' = TRUE /\ UNCHANGED <<session, seeded, fingerprint, dl, image, patch>>
    [] r.step = "workshop" ->
         fingerprint' = r.run /\ UNCHANGED <<session, seeded, access, dl, image, patch>>
    [] r.step = "erase" ->
         Erased(Target(r.entry)) /\ UNCHANGED <<session, seeded, access, fingerprint, dl>>
    [] r.step = "eraseCal" ->
         Erased(Cal) /\ UNCHANGED <<session, seeded, access, fingerprint, dl>>
    [] r.step = "download" ->
         /\ dl' = [block |-> Target(r.entry), patching |-> IsPatch(r.entry), counter |-> 1]
         /\ patch' = [patch EXCEPT ![Target(r.entry)] = Blank]
         /\ image' = IF IsPatch(r.entry) THEN image
                     ELSE [image EXCEPT ![Target(r.entry)] = Blank]
         /\ UNCHANGED <<session, seeded, access, fingerprint>>
    [] r.step = "transfer" ->
         /\ dl' = [dl EXCEPT !.counter = (@ + 1) % CounterMod]
         /\ IF dl.patching
            THEN /\ patch' = [patch EXCEPT ![dl.block] = Extend(@, r.entry, r.from, r.to)]
                 /\ UNCHANGED image
            ELSE /\ image' = [image EXCEPT ![dl.block] = Extend(@, r.entry, r.from, r.to)]
                 /\ UNCHANGED patch
         /\ UNCHANGED <<session, seeded, access, fingerprint>>
    [] r.step = "exit" ->
         dl' = Closed /\ UNCHANGED <<session, seeded, access, fingerprint, image, patch>>
    [] OTHER -> UNCHANGED ecu

Answer(r, code) == [step |-> "answer", sid |-> Sid[r.step], code |-> code]

\* The module answers in order: first what the tool has given up on.
EcuAccept ==
  /\ late = None /\ request # None /\ Acceptable(request)
  /\ EcuEffect(request)
  /\ reply' = Answer(request, "ok")
  /\ request' = None
  /\ UNCHANGED <<tool, late, stale, pending, faulty>>

\* A refusal.  While a patch is written, "not ready" is part of the handshake
\* and the module counts the refused chunk; otherwise refusing what it could
\* have carried out is a fault of this run, and so is never getting ready.
NotReady(r) == r.step = "transfer" /\ dl # Closed /\ dl.patching
Refused(r) ==
  /\ dl' = IF NotReady(r) THEN [dl EXCEPT !.counter = (@ + 1) % CounterMod] ELSE dl
  /\ UNCHANGED <<session, seeded, access, fingerprint, image, patch>>
EcuRefuse ==
  /\ late = None /\ request # None /\ Refused(request)
  /\ faulty' = \/ faulty
               \/ Acceptable(request) /\ (NotReady(request) => attempt + 1 >= MaxPatchRetries)
  /\ reply' = Answer(request, "nrc")
  /\ request' = None
  /\ UNCHANGED <<tool, late, stale, pending>>

\* It carries out or refuses a request of a call, or of a run, that is over.
EcuCatchUp ==
  /\ late # None /\ late' = None
  /\ \/ Acceptable(late) /\ EcuEffect(late) /\ stale' = Answer(late, "ok")
     \/ Refused(late) /\ stale' = Answer(late, "nrc")
  /\ UNCHANGED <<tool, request, reply, pending, faulty>>

\* Response pending, as often as the module likes, while it has work.
EcuPending ==
  /\ waiting /\ Oldest # None
  /\ pending' = TRUE
  /\ UNCHANGED <<tool, request, reply, late, stale, ecu, faulty>>

\* Session timeout (S3) or reboot: the module falls back to the default session.
EcuLapse ==
  /\ session # "default"
  /\ EnterSession("default") /\ faulty' = TRUE
  /\ UNCHANGED <<tool, wire, fingerprint, image, patch>>

Lose ==
  /\ \/ request # None /\ request' = None /\ UNCHANGED <<reply, late, stale>>
     \/ reply # None /\ reply' = None /\ UNCHANGED <<request, late, stale>>
     \/ late # None /\ late' = None /\ UNCHANGED <<request, reply, stale>>
     \/ stale # None /\ stale' = None /\ UNCHANGED <<request, reply, late>>
  /\ faulty' = TRUE
  /\ UNCHANGED <<tool, pending, ecu>>

Next ==
  ToolStep \/ Crash \/ EcuAccept \/ EcuRefuse \/ EcuCatchUp \/ EcuPending \/ EcuLapse \/ Lose

Spec == Init /\ [][Next]_vars

\* While a run lasts the runtime polls its task, and every await has a timer.
\* Nobody has to start another run, and nothing is assumed of the module, which
\* may be silent, refuse, or ask for more time.
FairSpec == Spec /\ WF_vars(pc # "idle" /\ ToolStep)

-----------------------------------------------------------------------------
(***************************************************************************)
(* Properties.                                                             *)
(***************************************************************************)
ToolTypeOK ==
  /\ pc \in Steps \cup {"idle"} /\ waiting \in BOOLEAN
  /\ idx \in 0..N /\ offset \in Nat /\ counter \in 0..(CounterMod - 1)
  /\ attempt \in 0..(MaxPatchRetries - 1) /\ chunk \in Nat \ {0}
  /\ result \in {"none", "ok", "err", "crashed"} /\ run \in 0..MaxRuns
WireTypeOK ==
  /\ request \in Request \cup {None}
  /\ late \in Request \cup {None} /\ pending \in BOOLEAN
  /\ \A r \in {request, late} : r # None /\ r.step = "download" => r.entry # 0
  /\ reply \in Reply \cup {None} /\ stale \in Reply \cup {None}
  /\ faulty \in BOOLEAN
EcuTypeOK ==
  /\ session \in {"default", "extended", "programming"}
  /\ seeded \in BOOLEAN /\ access \in BOOLEAN
  /\ fingerprint \in 0..MaxRuns /\ dl \in Download
  /\ image \in [Blocks -> Content] /\ patch \in [Blocks -> Content]
TypeOK == ToolTypeOK /\ WireTypeOK /\ EcuTypeOK

\* What the module holds of entry i.
Held(i) == IF IsPatch(i) THEN patch[Target(i)] ELSE image[Target(i)]
Written(i) == Held(i) = Whole(i)
AllWritten == \A i \in Entry : Written(i)

\* "The flash itself is written and verified at this point" (flash.rs, before
\* the teardown): from the teardown on, and after a run that returned Ok(()),
\* the module holds every prepared block whole - whatever was lost, refused or
\* left behind by earlier runs, and although the module's own checks may lie.
OkMeansFlashed == pc \in {"testerEnd", "reset"} \/ result = "ok" => AllWritten

\* Why OkMeansFlashed holds.  Position: where the loop over the prepared blocks
\* is.  Wire: from the key on, an answer the tool sees belongs to the request it
\* sent, because a call that is not answered ends the run, and an authentication
\* left on the bus by an earlier run ends the first call.  Memory: finished blocks
\* stay whole, and the current one holds what has been acknowledged.
Early == {"extended", "vin", "precondition", "tester1", "programming", "switchpatch",
          "tester2", "seed"}
Unlocking == {"key", "tester3", "workshop", "tester4"}
BlockSteps == {"erase", "eraseCal", "download", "transfer", "exit", "checksum", "testerBlock"}
Closing == {"verify", "testerEnd", "reset"}
Teardown == pc \in {"testerEnd", "reset"} \/ result = "ok"

Position ==
  /\ pc \in Early \cup Unlocking => idx = 0
  /\ pc \in BlockSteps => idx # 0
  /\ pc \in Closing \/ result = "ok" => idx = N
  /\ result = "ok" => pc = "idle"
  /\ IF idx = 0 THEN offset = 0 ELSE offset <= Size[idx]
  /\ pc \in {"erase", "eraseCal", "download"} => offset = 0
  /\ pc = "erase" => ~IsPatch(idx)
  /\ pc = "eraseCal" => IsPatch(idx)
  /\ pc = "transfer" => offset < Size[idx]

Authenticates(answer) == answer # None /\ answer.sid = "SecurityAccess"
Unlocks(r) == r # None /\ r.step \in {"seed", "key"}
Wire ==
  /\ late # None => stale = None /\ reply = None
  /\ waiting /\ reply # None => request = None
  /\ pc \in Early \ {"extended"} => ~Authenticates(stale) /\ ~Unlocks(late)
  /\ pc \in Early /\ ~(waiting /\ pc = "seed") => ~Authenticates(reply) /\ ~Unlocks(request)
  /\ pc \in Unlocking \cup BlockSteps \cup {"verify"} =>
       /\ stale = None /\ late = None
       /\ waiting => request \in {None, CurrentRequest}
       /\ ~waiting => request = None /\ reply = None
  /\ Teardown => \A r \in {request, late} : r = None \/ r.step \in {"testerEnd", "reset"}

Answered(code) == waiting /\ reply # None /\ reply.code = code
DownloadFits == dl # Closed => dl.block = Target(idx) /\ dl.patching = IsPatch(idx)
Prefix(i, k) == IF k = 0 THEN Blank ELSE [entry |-> i, upto |-> k]
Memory ==
  /\ pc \in BlockSteps \cup Closing \/ result = "ok" =>
       \A i \in Entry : i < idx => Written(i)
  /\ idx # 0 /\ (pc \in {"exit", "checksum", "testerBlock"} \cup Closing \/ result = "ok") =>
       Written(idx)
  /\ pc = "download" /\ Answered("ok") => Held(idx) = Blank /\ DownloadFits
  /\ pc = "transfer" =>
       /\ DownloadFits
       /\ ~waiting \/ request # None \/ Answered("nrc") => Held(idx) = Prefix(idx, offset)
       /\ Answered("ok") => Held(idx) = [entry |-> idx, upto |-> ChunkEnd]

Inv == TypeOK /\ Position /\ Wire /\ Memory

\* Why the other properties hold.  InFlight: a request that alters the memory,
\* even one whose run has ended, was sent after the workshop code of its run and
\* still fits what the module holds, and no other is carried out in between.
\* Marked: from the workshop code on the run has left its mark, and nothing is
\* patched before the CAL block is erased.
\* Clean: while nothing misbehaves the module can carry out what it is asked.
Altering == {"erase", "eraseCal", "download", "transfer"}
Alters(r) == r # None /\ r.step \in Altering
Fits(r) ==
  /\ fingerprint = r.run /\ r.entry # 0
  /\ r.step = "download" /\ IsPatch(r.entry) => image[Cal] # Old
  /\ r.step = "transfer" =>
       /\ dl # Closed => dl.block = Target(r.entry) /\ dl.patching = IsPatch(r.entry)
       /\ Held(r.entry) = Prefix(r.entry, r.from)
InFlight ==
  /\ pc = "idle" /\ result = "none" => request = None /\ late = None
  /\ \A r \in {request, late} : Alters(r) => Fits(r)
  /\ late # None => ~Alters(request)

Marked ==
  /\ pc \in BlockSteps \cup {"tester4"} \/ (pc = "workshop" /\ Answered("ok")) =>
       fingerprint = run
  /\ \/ dl.patching
     \/ pc = "eraseCal" /\ Answered("ok")
     \/ pc = "download" /\ IsPatch(idx)
     \/ \E b \in Blocks : patch[b] # Blank
     => image[Cal] # Old

\* What a run without a fault has brought the module to when it sends a
\* request (Unanswered), and when the answer to it is on its way.
Unanswered == ~waiting \/ request # None
BlankTarget == image[Target(idx)] = Blank /\ patch[Target(idx)] = Blank
SessionReached ==
  /\ pc \in {"vin", "precondition", "tester1", "programming"}
       \/ (pc = "extended" /\ Answered("ok")) => session # "default"
  /\ pc \in {"tester2", "seed", "key"} \/ (pc = "programming" /\ Answered("ok")) =>
       session = "programming"
  /\ pc = "key" \/ (pc = "seed" /\ Answered("ok")) => seeded
  /\ pc \in {"tester3", "workshop", "tester4", "verify"} \cup BlockSteps
       \/ (pc = "key" /\ Answered("ok")) => Programming
DownloadReached ==
  /\ pc = "erase" /\ Answered("ok") => BlankTarget
  /\ pc = "download" =>
       /\ counter = 1
       /\ ShouldErase(idx) /\ ~IsPatch(idx) => BlankTarget
       /\ Answered("ok") => dl # Closed /\ dl.counter = 1
  /\ pc \in {"erase", "eraseCal"} => counter = 1
  /\ pc = "transfer" =>
       /\ dl # Closed
       /\ dl.counter = IF Unanswered THEN counter ELSE NextCounter
  /\ pc = "exit" /\ Unanswered => dl # Closed
OwnAnswers ==
  /\ stale = None /\ late = None /\ pc # "switchpatch"
  /\ waiting => request \in {None, CurrentRequest}
  /\ ~waiting => request = None /\ reply = None
  /\ reply # None => /\ request = None /\ reply.sid = Sid[pc]
                     /\ reply.code = "nrc" =>
                          pc = "transfer" /\ IsPatch(idx) /\ attempt + 1 < MaxPatchRetries
Clean ==
  ~faulty => /\ result \notin {"err", "crashed"}
             /\ pc # "idle" => OwnAnswers /\ SessionReached /\ DownloadReached

FullInv == Inv /\ InFlight /\ Marked /\ Clean

\* A run fails only if the bus or the module did: no order of prepared blocks,
\* wrap of the u8 counter, "not ready" answer of a patch or memory left by an
\* interrupted run makes the tool send what a strict module has to refuse.
CleanRunSucceeds == result = "err" => faulty

\* No byte is ever programmed twice or out of place, in failing runs either:
\* every block holds a prefix of one prepared payload (or is as it was found).
\* This is why flash_patch_block resends on a negative response only.
NothingTwice == \A b \in Blocks : image[b] # Garbled /\ patch[b] # Garbled

\* The memory changes only by a request of the run whose workshop code (step 9)
\* the module holds, even if that run is over and the next one has begun, and
\* never once a run has reported success.
FingerprintFirst ==
  [][image' # image \/ patch' # patch => fingerprint = Oldest.run /\ result # "ok"]_vars

\* A run comes to an end however the module behaves, unless the module asks for
\* more time for ever: retries are bounded and every await has a timer, but each
\* response-pending answer restarts it, without a limit.
RunEnds == <>[]~pending => (pc # "idle" ~> pc = "idle")

-----------------------------------------------------------------------------
(***************************************************************************)
(* What the sequence promises its caller, see EcuUpdate.                   *)
(***************************************************************************)
Untouched == image = [b \in Blocks |-> Old] /\ patch = [b \in Blocks |-> Blank]

Device == IF AllWritten THEN "new" ELSE IF Untouched THEN "old" ELSE "torn"
Verdict == IF pc # "idle" THEN "running"
           ELSE IF result \in {"err", "crashed"} THEN "failed" ELSE result

Promise == INSTANCE EcuUpdate WITH device <- Device, verdict <- Verdict
ImplementsPromise == Promise!Spec
=============================================================================

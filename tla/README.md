# TLA+ models of mqb-flash-rs

mqb-flash-rs reads, unlocks and rewrites the control modules of MQB cars over
UDS and adapts their immobilizer. What must not go wrong is the rewriting: a
module that is erased and half written does not start, and the tool talks to it
over a bus that loses frames, from a process that may be killed, after screens a
user may walk through in any order. This directory models that: the flash
sequence against the module it rewrites, the device it is done over, the bytes
that are sent, the wizard that decides what they are, and the console that reads,
judges, emulates and adapts the immobilizer.

    UdsFlash         the flash sequence, the bus and the control module
    EcuUpdate        what the sequence promises its caller (abstract)
    Session          who holds the diagnostic device; the calls made over it
    FlashWizard      the wizard of mqb-flash-gui
    ImmoConsole      the console of mqb-immo-gui: its screen and its connection
    ImmoMaster       the emulated immobilizer master against an ECU that asks
    DFlash           NVRAM records of a DFlash image, as operators
    DFlashEditor     the console's DFlash tab over them
    Identify         identification of a module, as operators
    ImmoRules        the rules about an immobilizer, as operators
    EcuReports       the reports built on both, against ECUs that move
    ModuleTables     the modules' block tables and policies
    Bytes            bytes and their sums
    Lzss, Checksums, BlockCodec    from a block to the wire and back, as operators
    FlashFile        the file commands and what a flash makes of the files
    A2lViewer        the A2L viewer
    *Proofs          theorems about the module of that name, checked by TLAPS
                     (UdsFlashProofs: also about EcuUpdate; ViewerEditorProofs:
                     A2lViewer and DFlashEditor)
    FlashFileInvariants
                     what the theorems of FlashFileProofs say, down to the three
                     inductive invariants
    MC*              instances for TLC and their configurations

Check a model with `tlc -config MCUdsFlash.cfg MCUdsFlash`, the proofs of a
module with `tlapm UdsFlashProofs.tla`. In the modules a definition under a comment that
starts with "Defect:" is a plausible bug; nothing uses it, and putting it in
place of the definition that follows it makes a property of the run fail.

## 1. Inventory

Paths are relative to `src/crates/`.

| component | state | operations | interacts with |
|---|---|---|---|
| flash sequence (`mqb-flash-uds/src/flash.rs`) | the current request, block, byte offset, u8 block counter, attempt | `flash_blocks`, `flash_normal_block`, `flash_patch_block`, `send_switchpatch`, DTC clear, read-only probes | one awaited UDS request at a time to the module; progress events to its caller |
| session (`mqb-flash-uds/src/session.rs`, `mqb-transport`) | one open device, its UDS or raw CAN kind | open, probe, clear DTCs, flash, close, drop, scan of all channels | owns the device all others borrow |
| unlock probe (`unlock.rs`) | none of its own; leaves the module in CBOOT | `probe_unlock_state`, `leave_bootloader` | the module's session |
| identification (`identify.rs`) | none | read three DIDs of a channel, name the candidates | scan of the wizard and the command line |
| block preparation (`prepare.rs`, `fixup.rs`) | none | extract, fix checksums, patch, compress, encrypt, order | `flash_blocks` relies on its order |
| wizard (`mqb-flash-gui/src/main.rs`) | screen, selected module, unlock file, operation, firmware, prepared blocks, immobilizer report, running flash | 25 messages: navigation, choices, file dialogs, results of tasks | spawns scan, probe, preflight, flash and post-flash tasks |
| command line tool (`mqb-flash-cli`) | files on the disk between commands | flash, unlock, identify, DTCs, extract, split, combine, checksum | `flash_blocks`, file formats |
| immobilizer console, connection (`mqb-immo-gui/src/connection.rs`) | the open transport, the mode, the master | commands in, events out, two nested `select!` loops | queue of commands, queue of events |
| immobilizer console, state (`mqb-immo-gui/src/state.rs`) | live reading, plan, preflight, key sources, edited DFlash image, `sending` | messages of the user, events of the connection | the connection task, files |
| immobilizer master (`mqb-immo/src/auth.rs`) | candidate keys, last randoms, variant, last status | `handle_request`, `observe_slave_response`, `note_status` | answers the ECU's authentication requests |
| immobilizer rules (`mqb-immo/src/state.rs`) | none | `resolve_state`, `assess`, `diff_after_flash` | console and wizard |
| immobilizer adaptation (`adapt.rs`) | none | `adapt_plan`, `adapt_preflight` | console |
| DFlash images (`mqb-nvcrypt/src/dflash.rs`) | an image with three copies of the immobilizer record, a generation | parse, `find_generation`, `rewrite_channel` | `save_dflash` of the console |
| checksums, compression, formats, tables (`mqb-checksum`, `mqb-lzss`, `mqb-binfile`, `mqb-modules`, ...) | none | pure functions | preparation and file commands |
| A2L viewer (`mqb-a2l-viewer`) | three loaded files, filters, list, selection, comparison | about 20 messages; loads and comparisons as tasks | reads files only |
| A2L parser, logger, protocol log, workshop code, adapters | see section 6 | | |

Behaviours that are hard to get right or to test, and the properties that
answer them:

* *The flash sequence.* An answer may be lost, arrive after its call timed out,
  and be read by a later call of the same service (`UDSClient` matches by
  service identifier); the module may refuse, reboot or drop its session at any
  request; the process may die between any two. A patch is resent on a negative
  response while a normal block is not, the block counter wraps, and the erase
  that precedes a patch destroys CAL. Correct is: success implies every block is
  whole; nothing is programmed twice; nothing else than the outside world makes
  a run fail; a run ends, unless the module asks for more time for ever.
* *What is sent.* Three corrections change bytes that another one sums up, the
  layout differs per module, and files are cut, edited and reassembled between
  the commands. Correct is: the module accepts what it unpacks, and nothing but
  checksums differs from the file.
* *The wizard.* Its file dialogs are asynchronous, its tasks report whenever
  they end, and eight screens can be left backwards and re-entered. Correct is:
  what gets written was prepared for the module and from the file shown, in an
  order the sequence can write, with warnings acknowledged; it never hangs.
* *Sessions.* One device with one owner; dropping it tears it down in a task
  nobody awaits; on hardware ISO 15765 the DTC clear needs the device for
  itself. Correct is: no call in its own way, no device leaked by a failure, the
  clears where they are needed, the module not left in its bootloader by accident.
* *The console.* Commands cross a queue and a reconnect; the plan is judged
  against a reading that polling replaces. Correct is: what is sent is what was
  judged, against what is still connected; the screen agrees with the task.
* *The master.* A status frame judges the reply before it; frames get lost, and
  late answers meet later questions. Correct is: a valid key is never discarded
  by a verdict on another one, no random is repeated, and the search ends with
  the right key if it is there.
* *Reports.* Three states are reported as one value, records are read one after
  the other and any may be missing. Correct is: what is named is so, nothing is
  named for want of an answer, and a bricked immobilizer is seen.
* *DFlash.* Three copies must agree; a rewrite may fail half-way; what is on the
  screen derives from a chain of sources. Correct is: nothing outlives its
  source, and a save changes the identity and nothing else.
* *The viewer.* It indexes lists by positions computed for files that may have
  been replaced. Correct is: what is shown is that of the files of now.

Every hazard is listed with its line in `PROJECT.json`.

## 2. What is modelled

### UdsFlash

The state is the tool's (`pc` is the request being awaited, `waiting` whether it
has been sent), the wire's (`request` and `reply` of the present call, `late` and
`stale`, a request and an answer of a call already given up, and `pending`, a
response-pending answer, 0x78, nobody has read yet) and the module's. `flash.rs` is straight-line code of awaited
requests, so each await is one value of `pc` and the code between two awaits is
the action that consumes the answer: `Send` sends what `CurrentRequest` says,
and the action for that `pc` calls `Returns(o)` and does what the code does with
`Ok`, `NegativeResponse` or any other error.

| action | code |
|---|---|
| `Start` | `flash_blocks` opens its session and enters `run_flash_sequence` |
| `Mandatory` with `After` | steps whose `?` ends the run: session, precondition, keep-alives, key, workshop code, erase, checksum, verify |
| `ReadVin` | the VIN read whose failure is only logged |
| `ProgrammingSession`, `SwitchPatch` | the programming session and its fallback, which reads the bus itself |
| `WaitOn` | a response-pending answer is read and the timer starts again |
| `SecuritySeed` | seed, with its length check |
| `NextBlock`, `RequestDownload`, `TransferNormal`, `TransferExit` | the loop over blocks, `flash_normal_block` |
| `TransferPatch` (`RetryPatch`) | `flash_patch_block`: retries on a negative response, counter advanced |
| `TesterAfterVerify`, `EcuReset` | the teardown, whose failures are not failures |
| `Crash` | the process is killed |
| `EcuAccept`, `EcuRefuse`, `EcuCatchUp`, `EcuPending`, `EcuLapse`, `Lose` | the module and the bus (outside the repository): `EcuCatchUp` works off a request of a call, or of a run, that is over; `EcuPending` asks for more time |

The module is modelled from what `flash.rs` expects of it: it insists on
session, security access, blank cells for erased blocks and the block counter,
and counts a refused patch chunk like an accepted one. Beyond that it is
adversarial: it may refuse anything, lapse at any time, and its own final checks
(checksum routine, `0xFF01`) may pass whatever the memory holds, which is what a
patched bootloader does. So `OkMeansFlashed` cannot lean on them.

Payload bytes are abstracted to "the first k bytes of prepared block i", block
content to such a prefix, `Blank`, `Old` or `Garbled`. A request that the tool has
given up on, by a timeout or because the process was killed, may still be carried
out, and answered, after the next request, or the next run, has begun: the module
works off requests in order, so `late` comes before `request`, and an answer that is
`stale` is read before `reply`. Of all that the tool has given up on, one message
survives (`Abandoned`): the request the module is still busy with, or the last
answer. That is the one bound of the bus; a module that holds a queue of several
abandoned requests is left out.

### EcuUpdate

The abstract promise: a device is `old`, `torn` or `new`; only a run (or a
request still in flight after a failed one) alters it; `ok` is reported only
over a `new` device, which then stays as it is. `UdsFlash` implements it under
the mapping at its end (`ImplementsPromise`).

### FlashWizard

One action per `Message` that changes what is flashed; `advance` is split into
one action per screen, `Next*`. A task is a record in `tasks` holding the
clones its closure captured, and reports by the `*Finished` actions; a dialog is
a member of `dialogs` and answers on any screen. The guards of a user action are
those of the controls the `view_*` functions render, so the model presses only
buttons that exist. Interface values, texts, progress, STmin and logging are
left out; a firmware file is what each module's reader finds in it (`Parsed`)
and whether it is the stock file of the unlock patch (`Stock`). `Plan` is
`prepare_blocks`: the numbers it puts out, in order.

### ImmoConsole

Two processes and two queues. The screen's actions are the messages of `update`,
guarded by the controls that the views render, and one action for each event
that `handle_connection_event` tells apart. The task is `run`, `connected`,
`master_loop` and `handle_command`: a handler is cut at its awaits, and `task`
names the await it is in, so that commands pile up behind a read, a write, an
open or a close as they do in the code. An ECU is known by the key it holds; the
bench may be rewired while no session is open.

A plan is the key its payload is encrypted under; the new key of a transplant is
any other one. A preflight is empty, clear or blocked, and clear only if the
last reading proved the plan's key; a reading without that proof counts as one
that blocks. The payload, the frames answered by the master, the DFlash tab and
the way a key source is read are left out. A session whose adapter fails is an
ECU that does not answer.

### Session

One process at the screen (or the command line), `front`, and the one the wizard
spawns after a flash, `post`. A call is the sequence of steps it has left: open,
clear, identify, unlock, immo, read, flash, close, and `join` for the wait until
the device is gone; `Probe`, `FlashBlocks` and `Scan` are `probe`, `flash_blocks`
and `identify_all_channels`. What makes the steps differ is `interface`: raw CAN reaches
every channel over one connection, hardware ISO 15765 fixes it when it opens,
DoIP is refused. `Follows` is the order in which the wizard makes its calls; the
command line makes one. A failed open goes on as the code does: a clear is best
effort, a scan goes to the next channel (a shared session that cannot be opened
to one session each), anything else is an error. What the module answers is open,
a flash is one step (UdsFlash has it in detail), and each leaves the module in
its application or in CBOOT.

### ImmoMaster

`handle_request` with the three variants is `Answered`; `note_status`,
`observe_slave_response`, `fresh_random` and `ecu_status_hint` are operators of
the same names on the struct. The ECU asks, repeats a question that is not
answered, gives it up and judges what answers it gets, which is what `auth.rs`
says of it. Frames wait in the two queues of `connection.rs`; they are lost,
repeated and answered late, and the ignition may go off and on. A word of the
cipher is the tuple of its operands (Hitag2 and the CRCs are injective here), a
random the two bits the code treats apart. A question of variant B whose random
bytes read as another variant's type is a fault of its own (`LookAlike`), whether it
is the first question or one asked after giving up.

### DFlash, DFlashEditor

An image is what the two scans find: channel records by offset, and page headers.
`find_generation` takes the sequence number of the first valid page header and says
whether the counter found by brute force agrees, or takes that one when there is
no header; `rewrite_channel` stages, verifies and fails as the code does. A CRC is the generation under which it checks, a ciphertext the
Device ID it is for. `DFlashEditor` has one action per message of the tab: source
kind, dump, Device ID, pasted record, manual fields, channel, revert, edit, tick,
and the save dialog, which is a window of its own behind which all others go on.
`WriteCopy` folds `save_dflash` over the channels and stops at the first error.

### Identify, ImmoRules, EcuReports

`Identify` is the evidence in three identification answers (trimming, ODX file
name, project prefix, box code) and the candidates it leaves on each channel.
`ImmoRules` is `resolve_state` with its tuning check, `assess`,
`diff_after_flash`, `adapt_plan` and `adapt_preflight`, and the immobilizer
(external): what it stores, reports and accepts. `EcuReports` runs them: an ECU of
`Benches` is scanned, chosen and read, flashed and read again, or gets a download.
Every snapshot may be torn by one move of the immobilizer between two reads and
lack one record or have it cut short: to nothing of use (`Short`), or so that it no
longer decodes but still has the bytes that 0x2F9 signs (`Clipped`: 3 to 9 of the ten
bytes of 0x2ED, 2 to 9 of 0x2EE). A download may be hindered by what no record tells,
a moving vehicle, a running engine or a timeout (errors 0x1A, 0x1B, 0x1E). A flash may leave anything `Consistent`. What an ECU may
be is `BenchAssumption`: it answers on its own channel, names no other module's
project, and its immobilizer is `Consistent`.

### ModuleTables, Bytes, Lzss, Checksums, BlockCodec, FlashFile

`ModuleTables` holds the block tables with the source's own offsets and lengths,
versions, box-code places and the six policies of `prepare.rs`, for each module.
`Checksums` has the sums of the four families, the two ECM3 sums, the CBOOT patch
and `checksum_and_patch_blocks`, the pass over all blocks, in its order and with
its failures (an ECM3 sum that cannot be corrected is none, `fixup.rs:186`). `Lzss` has both compressors and their decoder; `BlockCodec` padding,
encryption, `prepare_block`, `prepare_patch_block`, the module's unpacking
(external) and the vendor's containers. The bijections of AES and the bytes of a
CRC are small stand-ins that depend on every byte and its place.

`FlashFile` is one action per file command: `ExtractFrf`, `ExtractOdx`, `SplitBin`,
`CombineBin`, `Checksum`, `Flash`, `Unlock`, with the user's edits and cut files
in between (`TuneFile`, `TuneImage`, `CutImage`). An image is the sequence of its
blocks' cells in the order of their offsets; the gaps between two regions are left
out. Blocks have a few cells, one per field the code reads; where the real regions of
two blocks overlap, they share cells here, in either order of writing. The length a
block of the Haldex states is one of the cells, an edit may change it, and it counts
as `types.rs:230` has it: as long as it ends inside of the image, over the region of
the block or not. So a block file may be longer than its region, and combining writes
it over the block behind. What a vendor builds is `VendorAssumption` (blocks of the
module's own version that its own checksums accept). `LayoutAssumption` says that no
checksum is computed over itself or over one that is corrected after it: an area
table that fits in its block covers none of the block's stored CRCs, and an ECM3
range begins behind both places of its sum. It need not end inside of the CAL: not
every row of `box_codes.csv` does (SA100EB0), and the instance has one that does not.
TLC evaluates both for the instance.

### A2lViewer

One action per message of `update` that changes files, list, selection or
comparison. Dialogs, loads and comparisons are members of `tasks` and answer in
any order, because no button waits for one. What a characteristic reads in an
image is given by a constant; filters, the tracking of functions and the marks
for changed, rescaled and uniform characteristics are the code's.

### How they meet

* `FlashWizard` and `UdsFlash` meet in `PlanWritable`, a part of `VettedPlan`: it is
  `OrderAssumption` of `UdsFlash`, said of every plan the wizard prepares. The
  theorems about `UdsFlash` hold under that assumption, and the wizard's run
  shows that its caller keeps it. `Flash` of `FlashFile` prepares ascending blocks
  (`TypeOK` there), which satisfy it, and `cmd_unlock` sends the unlock plan.
* What `UdsFlash` takes for "block i" is a block of `BlockCodec`; that a whole
  block is one the module accepts is `PreparedExactly`.
* `Session` has the calls of the wizard's tasks in the order the screens allow.
* `ImmoConsole` treats a preflight as empty, clear or blocked; what makes it so is
  `adapt_preflight` in `EcuReports`. Its master mode is `ImmoMaster`.
* `EcuReports` composes `Identify` and `ImmoRules`; `DFlashEditor` extends `DFlash`;
  `FlashFile` extends `BlockCodec`, `Checksums`, `Lzss`, `Bytes` and `ModuleTables`.

## 3. Runs

Nine runs must pass, three must be violated (section 4). `CHECK_DEADLOCK` is off
except in `a2l_viewer`: after `MaxRuns` runs nothing has to happen, a released ECU has
nothing to ask, and a program nobody touches may stop.

### uds_flash (`MCUdsFlash`, 262 000 states)

The plan of an unlock, six entries: four blocks, a patch, CAL. Bounds and why they
are enough:

* sizes of 1 to 4 bytes and chunks of 1 or 2: blocks of one chunk, of two, with
  a short last chunk, and of as many chunks as it takes to wrap the counter;
* `CounterMod = 3` for 256: the counter wraps within a block;
* `MaxPatchRetries = 3` for 200: attempts succeed first, later, last, and run out;
* `MaxBlockLengths = {2, 3, 8}`: no room, one byte, more than `TableSize`;
* `NoEraseMaxBlock = 1`: one block is written without an erase;
* `MaxRuns = 3`: the second run starts on everything the first can leave, and the
  third on what a run that itself was disturbed leaves behind.

| property | what it says |
|---|---|
| `TypeOK`, `FullInv` | types; the inductive invariant of the proofs |
| `OkMeansFlashed` | from the teardown on and after `Ok`, every block is whole |
| `CleanRunSucceeds` | a run fails only if the bus or the module misbehaved in it |
| `NothingTwice` | no byte is programmed twice or out of place, in failing runs either |
| `FingerprintFirst` | memory changes only by a request of the run whose workshop code the module holds, even when that run is over, and never after success |
| `RunEnds` | a run ends, unless the module asks for more time for ever |
| `ImplementsPromise` | the sequence implements `EcuUpdate` |

`CleanRunSucceeds` counts as a fault: a loss, a timeout, a lapse, a kill, a
refusal of what the module could have accepted (a "not ready" to a patch chunk
excepted, until the retries are used up), a short seed and a reported length
without room. It says the tool is never the reason.

### wizard (`MCFlashWizard`, 775 000 states)

An unlockable engine ECU and a gearbox that is not, the stock file, which only the
engine reads, and another file both read. Two modules and two files are what it
takes to confuse one with the other; nothing else is bounded: dialogs stay open
across screens and `StartOver`, and walks are as long as they like.

| property | what it says |
|---|---|
| `TypeOK` | types |
| `BusyTracksWork` | busy exactly while one task is outstanding, on the screen that started it, never during a flash |
| `VettedPlan` | a full flash and a pending unlock file never coexist (`FullFlashExcludesUnlockFile`); what Confirm offers and Flashing writes is for the module selected (`PreparedForSelected`), in an order `UdsFlash` can write (`PlanWritable`), and a warning was acknowledged for that very report (`RiskVetted`) |
| `WorkEnds` | busy and flashing end |

### immo_console (`MCImmoConsole`, 335 000 states)

Two keys, so that a plan may be under the wrong one. `Capacity = 1` and
`MaxCommands = 1`: one event on its way, and one command beside the automatic read
and Connect, which is what a command queued behind a disconnect, a read or a
download takes; with one producer and one consumer per queue, longer queues only
delay what they hold. Connections, downloads and rewirings are not bounded.

| property | what it says |
|---|---|
| `TypeOK` | types, and that an emulator exists on raw CAN only |
| `QueueDiscipline` | no command of one session is left for the ECU of the next (`CommandsStayInSession`); one download under way at most, the button being off meanwhile (`OneDownload`) |
| `AgreedIsShown` | plan and checks are not replaced under a tick |
| `ScreenAgrees` | when all is handled, screen and task agree on connection and master |
| `Answered` | a download the task begins is reported, a connect is answered, a close is told |

`ScreenAgrees` does not say that a ticked refresh box refreshes: ticked while
disconnected it does nothing and stays ticked (`state.rs:414`).

### session (`MCSession`, 194 000 states)

All three interfaces, devices that open once or several times, two channels (one with
an engine that can be unlocked and has an immobilizer, one with neither; a third
would only lengthen the scan), each with or without a module. Calls are not bounded.

| property | what it says |
|---|---|
| `TypeOK` | types, and that a task between calls holds no device |
| `NeverInOwnWay` | no call is refused the device because of a connection of its own task, open or closing |
| `ScanFindsAll` | a scan reports every module but those whose own question or device failed, and no other |
| `ClearsBracket` | the DTCs are cleared once before and once after a flash, on either hardware, and before an unlock probe |
| `CallsReturn` | every call returns |

That the wizard's post-flash check and its next scan never collide is not among
them: they are two tasks over one device, and one may be refused it.

### immo_master (`MCImmoMaster`, 118 000 states)

Three candidate keys (a first, a middle and a last) and an ECU that has one of them
or none; two randoms of the ECU; one repetition before it gives up (it
"retries for three cycles", `connection.rs:291`), which already makes a question and its repetition overlap; three faults of
a behaviour. Which faults are possible depends on the variant: `Survivable` names
those after which no frame reports on a lost answer. The others are in section 4.

| property | what it says |
|---|---|
| `TypeOK` | types |
| `KeysSound` | the right key is never dropped, a key is confirmed and a PIN blamed only where that is so |
| `NeverReplayed` | consecutive randoms differ, also across repeated questions, and in variant C keep bit 0 |
| `Releases` | with the right secrets the ECU is released in the end |

### dflash (`MCDFlashEditor`, 55 000 states)

Nine images: three copies with a superseded one, a counter found by brute force, a
torn copy, copies across a block boundary with the foreign byte in the identity or
behind it, a header the records dispute, one they confirm in 16 bits only, none
that fits, a module never adapted, an empty image. Two Device IDs, two identities.

| property | what it says |
|---|---|
| `TypeOK` | types |
| `EditorAgrees` | secrets, keys and record are those of the source on the screen (`OwnSource`); the tick was given for the record that would be written (`ConfirmCovers`) |
| `SavedImage` | a save changes the identity in the live, readable copies and nothing else, its CRCs and counter hold |

### ecu_reports (`MCEcuReports`, 202 000 states)

Every combination of identification answers for seven modules, and every
`Consistent` immobilizer over three power classes and four allow-lists, read with at
most one fault (a move between two reads, a refused, short or clipped record), flashed into
any other, or sent one download from two dumps with the index 0, 1 or 2.

| property | what it says |
|---|---|
| `Inv` | the inductive invariant of section 5, types included |
| `IdentifiedRight` | identification settles on the module that answers or on none, and offers it |
| `ReportIsTrue` | the state named is one the ECU was in while it was read (`StateIsTrue`); a missing record is no risk, a complete reading hides none (`FailsOpen`) |
| `BricksAreSeen` | a flash that ends the adapted state is a warning, except one to `NotAdapted` while a zero pads the allow-list |
| `PreflightSound` | a download without blockers leaves a usable ECU under the new key or changes nothing but the error code, the latter only for what the preflight does not ask about |

### flash_file (`MCFlashFile`, 11 600 states)

Five modules (simos18, simos8, dq250, dq381, haldex), every checksum family among them, with
blocks of 3 to 11 cells: areas of one and of two ranges, an area outside the block, both
places of the ECM3 sum and a version whose range lies outside the CAL, a patch
needle, blocks longer than `WINDOW_SIZE` so that references occur and the window
slides. One mishap: an edited byte (`TuneValues = {4, 7, 84}`) in the summed part of a
block, in its area table, its version or its stated length, which then ends before
the region, with it or over the next one; a file that was not written; or an image
cut short.

| property | what it says |
|---|---|
| `TypeOK` | types; the length of an image and of a block file, which may exceed its region only where the block states its length; ascending order of what is sent |
| `PreparedExactly` | the module accepts what it unpacks (`SentPassesChecks`, which claims nothing of an ECM3 sum whose range is not inside the CAL), and that differs from the file in checksums and the patch only (`OnlyChecksumsChange`) |
| `WorkflowAgrees` | `checksum` before a flash changes nothing about what is flashed, as long as no block of the image states a length over its region (`Apart`) |
| `ExtractedIsSound` | an image extracted from a sound file holds every block, sound |

### a2l_viewer (`MCA2lViewer`, 82 000 states)

Two descriptions that number their characteristics differently, two images of
different modules, four file dialogs: a load overtaken by another, and a comparison by
both.

| property | what it says |
|---|---|
| `ViewerTypeOK` | types; list and selection index the file that is loaded |
| `ScreenFollows` | the values are those of the files of now, the list is what the filters leave given the changes that are held (`ScreenIsCurrent`); nothing is announced that is not under way (`AnnouncedWorkIsUnderWay`) |

`ScreenFollows` takes the changes as given. That they are those between the files on
the screen is `ChangesAreCurrent`, which fails (section 4), and with it the marks, the
counts, the rescale banner and what "Changed only" lists may be of other files.

### Fairness

`FairSpec` of `UdsFlash` assumes that the runtime goes on polling the task of a run:
every request is awaited with a timer, so a step of the tool is always possible.
Nothing is assumed of the module or the bus: it may be silent, refuse, or ask for more
time; nor that somebody starts another run. A response-pending answer restarts the
timer, though, and neither `send_switchpatch` (`flash.rs:326-333`) nor the DTC clear
(430-436) nor `UDSClient` (by the comment at 261-263) counts them, so a module that
sends nothing else keeps the tool for ever. `RunEnds` is therefore claimed only of
behaviours in which the module stops asking (`<>[]~pending`), and `CallsReturn` of
`Session` is to be read with the same proviso.
`FairSpec` of `FlashWizard` assumes the same of the spawned tasks and nothing of the
user. `FairSpec` of `Session` assumes that each task's calls go on, for the same
reason, and that a device closes; a request is one step there, its answers are not
told apart. `FairSpec` of `ImmoConsole` assumes that
screen and task are polled, that drivers return and requests time out (weak
fairness of `ScreenHandles` and `Resume`), and that `select!`, which picks among
ready arms at random, does not pass over a queued command for ever (strong
fairness of `HandleCommand`). In `master_loop` the `select!` is biased and frames
come first; there it rests on the bus being silent between the ECU's requests.
`FairSpec` of `ImmoMaster` assumes that the master answers what it is asked, which
the biased `select!` gives, and that the ECU (external) goes on asking and judging.

## 4. Findings and observations

Three runs are expected to be violated. Each states what a comment of the code says.

* **wizard_file**, `PreparedFromRightFile`. Choose a valid unlock file, then one that
  is rejected: `mqb-flash-gui/src/main.rs:678` clears `unlock_file` only. `operation`
  is still Unlock, so Next leads to the Operation screen with the unlock preset, then
  to the Firmware screen, where any file is taken. "Only one file works for this ECU"
  (1642) no longer holds, and neither does 1697–1699. In this run the user answers
  every dialog before doing anything else (`PromptUser = TRUE`).
* **session_bootloader**, `ReadsInApplication`. `probe_unlock_state` leaves the module
  in CBOOT. `leave_bootloader` is called for the Reset probe alone (`flash.rs:918`),
  which nothing asks for, and the wizard goes on to read the immobilizer
  (`main.rs:938`). `immo.rs:11-13` says that all reads are in the default session.
* **flash_file_simos16**, `ExtractedIsSound`. CBOOT of Simos16 reaches 0x3E00 bytes
  over the start of ASW1 (`simos16.rs:43`, 62); `bin_from_blocks` writes the blocks in
  the order of a hash map, so either is damaged.

The following was met while modelling. Each definition named is in its module, is in
no configuration, and is violated when it is put into the one named.

* `UnlockUsesValidatedFile`, `FlashUsesChosenFile`, `PreparedAsRead`, the parts of
  `PreparedFromRightFile` (MCFlashWizardFile). Besides the finding: with a firmware file
  chosen earlier, choose an unlock file, then Clear it. `firmware` keeps the unlock
  file because `firmware_path` is set (`main.rs:695`, 716 likewise), and a calibration
  flash writes it, though 713–715 says it must not be reused silently. And: go back to
  the interface and rescan; a single other module is preselected (608) without what
  `CandidateChosen` clears, and a file read with the layout of the first module is
  prepared for the second.
* `ConfirmDescribes` (MCFlashWizard). Leave the firmware dialog open, go on, and
  answer it while the preflight runs: Confirm names the new file over the blocks of
  the old one. It needs a platform whose dialogs do not block the window.
* `CheckedKeyHolds` (MCImmoConsole). Build a plan over a clear preflight and send it;
  the ECU takes it and now holds another key. Plan and checks stay on the screen, and
  ticking them again sends the same payload, now under a wrong key. A disconnect and
  another ECU lead there as well.
* `SendingEnds` (MCImmoConsole). Press Disconnect and then Send before the session has
  closed: `connection.rs:172` discards the download without an event, and only one
  (`state.rs:654`) clears `sending`.
* `RightKeyKept` with `Faults <- LossOfReport` (MCImmoMaster). In variant C each question
  reports on the answer before. When an answer is lost, the next question repeats the
  old report, `note_status` (`auth.rs:512`) takes it for the verdict on the lost
  answer, and the right key is dropped. Without any fault, the first status after a
  release and a new ignition is empty, and marks the keys as exhausted.
* `BrickIsReported` (MCEcuReports). A list such as `[0x6A, 0, 0, 0, 0]`
  (`state.rs:1519`) is padded with zeros, among which a zeroed `idxTun` is found: a
  module that lost its adaptation by the flash is then compared as before, and
  nothing is reported. `BricksAreSeen` excludes that case.
* `ChangesAreCurrent` (MCA2lViewer). `A2lLoaded` clears `changed_set` only and starts no
  comparison (`update.rs:74–86`), and `ChangedSetComputed` (213) is taken whatever was
  loaded since: the marks are then of another description or image.

* `PreflightSound` names what a preflight lets pass (`Unasked`). A 0x2ED answer of 3
  to 9 bytes proves the key (`diag.rs:225`) but does not decode (`state.rs:419`), so
  `adapt.rs:297` skips the check for a dead state, and a refused or short 0x2EF skips
  that for a lockout (288). The ECU's refusals 0x1A and 0x1B (`diag.rs:313`) are asked
  about nowhere. In none of these does the download harm more than the error code. A
  zero-padded allow-list contains the index 0 (321).

* `WorkflowAgrees` without its premise `Apart` (MCFlashFile, from two edits on).
  `resolve_block_length` (`types.rs:230-234`) believes any stated length that ends
  inside of the file. One that ends in the next block makes `split-bin` write a file
  that holds the beginning of that block as well, and a correction of that block by
  `checksum` changes what the first one is summed over. `combine-bin` writes the longer
  file over its neighbour, in the order of a hash map.

Smaller ones, which no definition states: DFlash: a `stStatFct` that is none of the four is
written back as Adapted; edits and errors made while the save dialog is open are
written without a new tick; the secrets shown after a save are those of the image
before; the image is written with one `fs::write`; `WriteError::KeysRequired` is never
returned; a header with a sequence beyond 16 bits may be confirmed while no CRC
checks under it; copies that do not decode are passed over. Files: `checksum` has no
ECM3 pass; a CAL whose ECM3 range lies outside of it is sent with the sum it came with
and a note (`fixup.rs:186`); the encoder's window starts with 0x11, the decoder's with 0x20; a corrected
ECM3 sum in the alternate place may be zero, which is its own flag (`FlagLost`);
`combine-bin` fills missing blocks with zeros; `split-bin` drops blocks of another
version; of two names for one block the last in hash order counts; `unlock` sends
blocks without correcting them. Viewer: the path is shown before its load succeeds;
filters survive a new description; "changed only" over an empty set shows all.

## 5. Proofs

TLC checks the runs of section 3 on small instances. The theorems hold for every
value of the constants that the modules' assumptions allow.

| module | theorem | statement |
|---|---|---|
| `UdsFlashProofs` | `Invariance` | `Spec => []Inv` |
| | `TypeCorrect` | `Spec => []TypeOK` |
| | `Flashed` | `Spec => []OkMeansFlashed` |
| | `FullInvariance` | `Spec => []FullInv` |
| | `NeverGarbled` | `Spec => []NothingTwice` |
| | `MarkFirst` | `Spec => FingerprintFirst` |
| | `CleanRuns` | `Spec => []CleanRunSucceeds` |
| | `Implements` | `Spec => ImplementsPromise`, which is `Promise!Spec` of `EcuUpdate` |
| `SessionProofs` | `Invariance` | `Spec => []Inv` |
| | `NothingLeaks` | `Spec => []TypeOK` |
| | `NoSelfBlocking` | `Spec => []NeverInOwnWay` |
| | `CompleteScan` | `Spec => []ScanFindsAll` |
| | `ClearedAround` | `Spec => []ClearsBracket` |
| `FlashWizardProofs` | `Invariance` | `Spec => []Inv` |
| | `BusyIsTrue` | `Spec => []BusyTracksWork` |
| | `PlanIsVetted` | `Spec => []VettedPlan` |
| `ImmoConsoleProofs` | `Invariance` | `Spec => []Inv` |
| | `CommandsOnce` | `Spec => []QueueDiscipline` |
| | `EndsAgree` | `Spec => []ScreenAgrees` |
| | `AgreementHolds` | `Spec => AgreedIsShown` |
| `ImmoMasterProofs` | `TypeCorrect` | `Spec => []TypeOK` |
| | `RandomsDiffer` | `Spec => NeverReplayed` |
| | `KeysAreSound` | `Spec => []KeysSound`, if `Faults \subseteq Survivable` |
| `ViewerEditorProofs` | `Invariance` | `Spec => []Inv`, of `DFlashEditor` |
| | `TypeCorrect` | `Spec => []TypeOK` |
| | `OneImageOneEdit` | `Spec => []EditorAgrees` |
| | `SaveTouchesIdentityOnly` | `Spec => SavedImage` |
| `EcuReportsProofs` | `Invariance` | `Spec => []Inv` |
| | `NeverMistaken` | `Spec => []IdentifiedRight` |
| | `ReportsAreTrue` | `Spec => []ReportIsTrue` |
| | `LossesAreSeen` | `Spec => []BricksAreSeen` |
| | `DownloadsSucceed` | `Spec => PreflightSound` |
| `ViewerEditorProofs` | `CollectedLists` | what the filter of `A2lViewer` collects, for every length |
| | `InBounds` | `ViewerSpec => []ViewerTypeOK` |
| | `ScreenHolds` | `ViewerSpec => []ScreenFollows` |
| `FlashFileProofs` | `LayoutKept` | `Spec => []Inv` |
| | `TypeCorrect` | `Spec => []TypeOK` |
| | `ExtractedSound` | `Spec => ExtractedIsSound`, without `simos16` |
| | `PreparedRight` | `Spec => []PreparedExactly` |
| | `WorkflowRight` | `Spec => []WorkflowAgrees`, without `simos16`, if `NEEDLE \notin TuneValues`; of images that are `Apart` |

### UdsFlash

For every plan, size, chunk table, retry limit, counter width and number of runs,
under four assumptions:

* `PlanAssumption`: block numbers are 1 to 9, and no payload is empty;
* `LimitAssumption`: the limits are natural numbers, `CounterMod > 1`;
* `ChunkAssumption`: a patch's chunk size is positive;
* `OrderAssumption`: a block is written once, nothing but the CAL write follows
  a patch's erase of it, and no whole write follows the patch of a block.

That the wizard's plans meet the last one is `PlanIsVetted`.

`OkMeansFlashed` is not inductive: that the last block is whole when the teardown
begins depends on each acknowledged chunk having been programmed, which depends on
the answer read being the answer to that chunk. `Inv` adds what carries it:

* `TypeOK`;
* `Position`: where in the block loop the tool is (`pc`, block, offset and counter
  belong together);
* `Wire`: from the security key on, nothing is on the wire but the request being
  awaited or its answer. Before, there may be what earlier calls or runs have left,
  but past the first call nothing of the security service: the module works off such a
  request before it answers the first call, which the answer to it then ends. After,
  an unanswered call ends the run, so nothing is left over;
* `Memory`: blocks already done are whole, and the current one holds exactly the
  prefix acknowledged, or one chunk more if its answer is still out. That later
  blocks leave the finished ones whole is `OrderAssumption`.

`Memory` speaks of the tool that runs. `NothingTwice` and the refinement are about
runs that failed too, and about requests a dead tool has left on the wire.
`FullInv` adds three parts:

* `InFlight`: a request on the wire that alters memory, of the present run or late, is
  one of the run whose workshop code the module holds, and a chunk continues exactly
  the prefix the module holds; while a late request is out, no other alters memory;
* `Marked`: the same of the steps of the tool, and that no patch is written over a
  CAL that was not erased;
* `Clean`: as long as there was no fault, how far the module's session, security and
  download are is determined by `pc`, so nothing sent is refused.

`Implements` maps each step to one of `EcuUpdate` or to a stutter, from `FullInv`.

### Session

For every list of channels without a duplicate, every interface, and either kind of
device. What a call has left follows a grammar, `Plan`: each rule is about
neighbouring steps (after an opening a request, after the last request the close,
a connection that may be passed over is a `Triple`). So what is left after any step
follows it as well (`SuffixPlan`), however long the scan. The invariant reads
everything off the steps left:

* `Planned`: the grammar, and `Brackets`: one programming session with at most one
  clear on each side;
* `Connected`: a task holds the device exactly when its next step is a request or the
  close, and tears it down exactly before the step that waits for that; it is the
  connection of the right channel. A task that opens therefore holds nothing, which
  is `NeverInOwnWay`;
* `Numbered`: the clears attempted, as a function of those left (`Counted`);
* `Covered`: what is there has been found, was excused, or is still to be asked.

### FlashWizard

For every set of modules and files, with `CAL` block 5 in modules that can be
unlocked, as in the tables. `VettedPlan` needs to know how a screen was reached: `Reached`
(what has been chosen by the time a screen is shown), `Current` (what is prepared,
or being prepared, belongs to the module selected and is dropped with the operation)
and `Told` (the tick of the checkbox is one for the last report). That a plan is
writable is computed from the files once, in lemmas about `Plan`.

### ImmoConsole

For queues of every capacity. `ScreenAgrees` speaks of empty queues only; the
invariant says what is on its way otherwise. `Linked`: how far the screen's idea of
the connection may be from the task's, and the one message that will bring them
together. `MasterTold` and `PollingTold`: the last news, or the last order, in the
queue is true. `Bounded` is about the length of the command queue, which `TypeOK`
bounds; `MaxCommands` limits the user of the model, and stands for any number.

### ImmoMaster

For every list of distinct keys and any number of repetitions and faults. Types and
`RandomsDiffer` hold under every fault, lookalikes and stale answers included.
`KeysAreSound` assumes the faults of `Survivable`, as the run does; outside of them the
code drops the right key (section 4). `KeysSound` needs to know what is on the wire,
and that differs by variant, so `KeysInv` has a part for each:

* `KeysA`: in the queue of requests a report comes last, at most once, and judges the
  candidate on top; the answers that the ECU still waits for were computed with that
  candidate;
* `KeysB`: every question carries the ECU's own word and reads as variant B;
* `KeysC`: exactly one frame is under way while the ECU waits, the status of the next
  question is the verdict on the master's last answer (`Judges`), and once released
  the ECU's word is over the random that the master has.

`FrameTrue` says of every request that a word sent with "released" was computed with
the ECU's key; by `Observed` it then leaves that key alone, since the candidates
are distinct. The filter of `observe_slave_response` is written with `Kept`, whose
value `KeptOne` computes for the one place that can remain.

### DFlashEditor

For every set of images, devices and identities. `Derived`: keys, survey and secrets are
those of the source chosen. `Opened`: what is edited is the readable record of the
image loaded. `Ticked`: the tick was given for the record now in the editor. That a save
touches identities only is an argument about three rewrites in a row: the search
for the counter looks at generations and framings (`SameCounter`), so a copy that was
rewritten leaves every other copy as readable as it was (`ReadAlike`).

### EcuReports

For every set of ECUs, immobilizers and dumps, any number of disturbed reads and any
number of downloads. `BenchAssumption` says which ECUs (section 2); no power class,
allow-list, key or VIN is special, and `AnswerAssumption` and `ReportsAssumption` say
only that the marks for "refused" and "nothing" are no answers and no results.

* `ReportsAreTrue` rests on facts about the rules. A reading is described by
  `Genuine` (each record is from before or after the move) and `Lesser` (some are
  missing). `ResolvedTrue`: since an immobilizer only learns by itself, and the tuning
  check does not change by it, the records name a state from before or after,
  whichever of them are torn. `LessRisk`: the risks (`Risks` lists the
  findings that are one) only grow with the records, although a missing state
  makes the tuning check speak: where it would have been silent, the state is a
  risk itself. `EachStateIsARisk`: with all records no state but "adapted" is
  without one.
* `LossesAreSeen` (`LossIsSeen`) goes by the state that the flash leaves, dead, hidden or
  without an index; the last goes unseen only if zeroes pad both lists.
* `DownloadsSucceed` (`NoBlockers`): each blocker excludes one refusal of the
  immobilizer. What is left is in the statement: a hindered service, a lockout or a state
  that did not decode. The proof of the key by 0x2F9 does not exclude the last: it
  holds over a clipped state too, and the check for a dead state is then passed over.
* `NeverMistaken` (`Identified`): the project prefix of the three Simos variants
  differs, so at most one module of a channel can match, and every other evidence
  leaves all of them.

Over time, `Standing` says that what the tool holds of an immobilizer that has not
moved is its own answers, `Silent` that no immobilizer appears, `Compared` that
the findings compare the snapshot reported on with one of the ECU as it is now, and
`Planned` that the blockers belong to the plan and the reading on the screen.

### A2lViewer

For every description, image, filter and number of dialogs. `ViewerTypeOK` and
`ScreenFollows` are inductive together. The list is computed by recursion over the
indices. What it holds is proved by induction on a set of numbers, which
`SetInduction` reduces to the pigeonhole principle, as the induction theorems of the
library take an operator that no prover here can instantiate.

### FlashFile

For every vendor, area table, box-code table, patch, number of edits and window size,
under `VendorAssumption`, `LayoutAssumption`, `TablesAssumption`, `PatchAssumption`,
`SizesAssumption`, `BoundsAssumption` and `NoneAssumption`, and for the module tables
as they are in the source.

`LayoutKept` says that what the commands leave on the disk is laid out as the table
says (`Inv`, in `FlashFileInvariants`): an image has a byte in every cell and, unless it
was cut, the length of its layout; a block file is exactly as long as its region, or,
where the block states its length, ends inside of an image. Nothing keeps the stated
length inside the region, and no proof uses that it is. `LayoutKept` rests on what the
commands compute: decoders and decompressors put out bytes, corrections keep the
length of a block, and writing blocks over an image keeps the length of the image.

`ExtractedSound` follows a vendor's block to the image and back. Decryption undoes
encryption (`CipherRoundTrip`, for the rolling cipher by a state that both directions
share), either decompressor undoes what the vendor packs (`VendorLzssRoundTrip`,
`LegacyRoundTrip`), and what is written into an image is cut out of it again, if no
two regions share cells (`WrittenHolds`, `RestoredIs`; which tables have such regions
is computed from them: only Simos16's, in which a run shows the damage). A block of
stated length comes back with the zeros behind it where its length says zero;
`HaldexRestored` shows that the sum over it is the same.

`PreparedRight` follows a block file to the wire, for every argument of a flash,
edited or not. It has two halves. What is encoded is decoded again: the window
encoder emits a literal or a reference that does not run into itself and lies inside
the window, so that the decoder, from the same starting window, rebuilds the input
item by item; padding only appends, and the announced length cuts it off
(`PackedDecodes`, `ReceivedIs`, for every window size and every bytes). And what is
corrected is right: a correction writes its own cells alone (`AgreeBut`), the sum is
over others (`LayoutAssumption`), so the same check run over the result accepts it
(`BlockAgain` for the four families). ECM3 comes before the patch and the CRC; where its range is inside the CAL, its sum
survives both, as neither writes into its range or its places (`Ecm3Stays`), and with
one exception it is found again where it was: a corrected sum may overwrite the flag
by which the alternate place is chosen, which is `FlagLost`. The invariant is
`SentInv`: what is on the wire was made of block files that `Inv` describes, by
`checksum_and_patch_blocks` or, for an unlock, by nothing. The patch of an unlock is
numbered above the blocks (`PatchIndex`, from the tables).

`WorkflowRight` compares two ways to a flash: `checksum`, split and flash, or split
and flash at once. `checksum` cuts the blocks from the image, corrects each and writes
them back. What it may write of a block is neither its version nor its stated length
(`CorrectedSplits`), so the image splits into the same blocks, corrected (`WrittenSplit`);
a second correction changes nothing (`OwnAgain`), and ECM3, which `checksum` leaves to
the flash, comes to the same before or after the block's own sum, which lies outside of
the ECM3 range and is computed once more behind it (`CalSame`); hence `PassOver`. With
the patch there is one way to disagree: `checksum` patches the region of CBOOT in place,
whatever is in it, while a flash patches a block, and discards one of a foreign version
before that. `BootInv` excludes it: every block file of CBOOT has a version of the
module's own (`BootFile`), and so has what is in its place in the image, or there is no
needle there (`BootImage`). It is inductive as long as no edit writes a needle, the second hypothesis; the needle is a
stretch of machine code, which a user who changes a value does not write. Without the
hypothesis TLC refutes `WorkflowAgrees` from three edits on: CBOOT is not split, the
image is combined without it, and two needles are written where it would be. As in
`ExtractedSound`, Simos16 is left out, because a block that is written back changes its
neighbour there; `Apart` leaves out the images in which a stated length does the same.
An image in which it does not splits alike before and after `checksum`, as a correction
does not write a stated length.

A recursive function is defined by CHOOSE and may, for all the prover knows, not
exist. `RunExists` builds the function of a recursion over a finite range, and
`Stepwise` is the induction over that range (proved from finite sets, like
`SetInduction` above).

### What is only model-checked

* Liveness under fairness, and everything that needs `ENABLED`: `RunEnds`, `WorkEnds`,
  `Answered`, `CallsReturn`, `Releases`.
* What the hypotheses of a theorem leave out: the images of Simos16
  (`ExtractedSound`, `WorkflowRight`), whose run is refuted, edits that write a needle
  (`WorkflowRight`), and the faults outside `Survivable` (`KeysAreSound`).
* That the constants of a run satisfy the modules' assumptions, which TLC evaluates.

## 6. Not modelled

* The bit-level algorithms: Hitag2, AES, the CRC polynomials, the SA2 interpreter,
  Device ID derivation. They are pure, have reference vectors in the tests, and no
  property tells more of them apart than being one-to-one or depending on every byte.
* ZIP, XML and hex parsing, the box-code table beyond a sample, names, labels and
  reasons: what control depends on is in the models as its outcome.
* The workshop code: an encoding of a date and a dealer number with unit tests. The
  tools always write the fallback code; that it is written first is
  `FingerprintFirst`.
* The A2L parser, which keeps no state, and the logger, which edits a list of
  measurements; neither talks to a module.
* The transport adapters and ISO-TP: the `automotive` crate and a test double. Their
  losses, delays and timeouts are in `UdsFlash`, their ownership in `Session`. That a
  call subscribes to the receive stream before it sends (`flash.rs:425`) is below what
  the models see.
* Progress, STmin, the protocol log, printing and argument parsing: they decide
  nothing about what is written.

## 7. Plan

The models are complete as far as section 6 says, and every safety property that a
passing run checks is proved, under the hypotheses named in section 5. What is left is
outside of what these tools do: liveness stays with TLC, and the overlapping regions
of Simos16 stay refuted until the tool writes them in an order of its own.

------------------------------ MODULE Session ------------------------------
(***************************************************************************)
(* Who holds the diagnostic device, and when: session.rs, the calls of     *)
(* flash.rs and unlock.rs that open sessions, and the order in which the   *)
(* wizard and the command line make them.                                  *)
(*                                                                         *)
(* A raw CAN device reaches every channel over one connection.  Hardware   *)
(* ISO 15765 fixes the channel of a connection when it is opened, and the  *)
(* emission DTC clear, on the OBD channel, needs a connection of its own.  *)
(* Most devices open once at a time; closing one takes a while.            *)
(*                                                                         *)
(* A call is the sequence of steps it has left.  What the ECU answers, and *)
(* whether it does, is open; the requests of a flash are in UdsFlash.      *)
(***************************************************************************)
EXTENDS Naturals, Sequences, Functions

CONSTANTS
  Channels,      \* the channels of a scan, in order: IDENT_CHANNELS
  Unlockable,    \* those whose module has a patch_info
  Immobilized,   \* those whose module has an ImmoSupport
  None

ASSUME SessionAssumption ==
  /\ Channels \in Seq(STRING) /\ Channels # <<>> /\ IsInjective(Channels)
  /\ Unlockable \subseteq Range(Channels) /\ Immobilized \subseteq Unlockable
  /\ "obd" \notin Range(Channels) /\ None \notin Range(Channels) \cup {"obd"}

VARIABLES
  interface,     \* "raw", "native" (hardware ISO 15765) or "doip"
  exclusive,     \* does the device refuse a second connection?
  ecu,           \* by channel: "absent", "app" or "cboot"
  call,          \* by task: the call it is executing, "none" between calls
  steps,         \* by task: what is left of that call
  connection,    \* by task: the channel its connection was opened for, or None
  teardown,      \* tasks whose connection is being closed
  failed,        \* by task: has the call failed?
  found,         \* what the last scan reported
  last,          \* the call before
  postcheck,     \* is a post-flash check due?
  \* history, for the properties
  excused,       \* channels the running scan could not ask
  clears,        \* by task: attempts at a DTC clear, before and after the flash
  blocked        \* <<s, t>>: task s was refused a device that t was holding

vars == <<interface, exclusive, ecu, call, steps, connection, teardown, failed, found,
          last, postcheck, excused, clears, blocked>>

\* The task of the screen (or of the command line), and the one that the wizard
\* spawns after a flash.
Tasks == {"front", "post"}
Fitted == {c \in Range(Channels) : ecu[c] # "absent"}

supports_raw_can == interface = "raw"

\* Defect: every interface is taken to reach all channels.
SharesAlways == TRUE
shares_one_session == supports_raw_can
\* Defect: only one kind of hardware is thought of.
ClearsInside == FALSE
obd_clear_needs_own_device == ~supports_raw_can

Step(do, channel) == [do |-> do, channel |-> channel]

-----------------------------------------------------------------------------
(***************************************************************************)
(* The calls.                                                              *)
(***************************************************************************)
\* clear_obd_dtcs, on a connection of its own.
OwnClear == <<Step("open", "obd"), Step("clear", "obd"), Step("close", "obd")>>

FlashBlocks(m) ==
  IF obd_clear_needs_own_device
  THEN OwnClear \o <<Step("open", m), Step("flash", m), Step("close", m)>> \o OwnClear
  ELSE <<Step("open", m), Step("clear", m), Step("flash", m), Step("clear", m),
         Step("close", m)>>

\* The unlock probe enters the programming session, so it needs the clear too.
Probe(m, what) ==
  CASE what # "unlock" -> <<Step("open", m), Step(what, m), Step("close", m)>>
    [] what = "unlock" /\ obd_clear_needs_own_device ->
         OwnClear \o <<Step("open", m), Step("unlock", m), Step("close", m)>>
    [] OTHER -> <<Step("open", m), Step("clear", m), Step("unlock", m), Step("close", m)>>

\* Three steps for each channel.
ScanEach ==
  [n \in 1..(3 * Len(Channels)) |->
     Step(<<"open", "identify", "close">>[((n - 1) % 3) + 1], Channels[((n - 1) \div 3) + 1])]

\* Defect: the shared session is not closed.
ScanLeavesOpen ==
  IF shares_one_session
  THEN <<Step("open", Channels[1])>>
       \o [i \in DOMAIN Channels |-> Step("identify", Channels[i])]
  ELSE ScanEach
Scan ==
  IF shares_one_session
  THEN <<Step("open", Channels[1])>>
       \o [i \in DOMAIN Channels |-> Step("identify", Channels[i])]
       \o <<Step("close", Channels[1])>>
  ELSE ScanEach

\* The order in which the wizard lets the user make its calls, Back and Start
\* over included; the command line makes one call of a process.
Follows(what) ==
  CASE what = "scan" -> last # "read"
    [] what = "unlock" -> last \in {"scan", "unlock", "immo"}
    [] what = "immo" -> last \in {"unlock", "immo"}
    [] what = "flash" -> last \in {"none", "scan", "unlock", "immo"}
    [] what = "read" -> last = "none"

StepsOf(what, m) ==
  CASE what = "scan" -> Scan [] what = "flash" -> FlashBlocks(m) [] OTHER -> Probe(m, what)

\* The wizard selects among what the scan has found; the command line names any.
Askable(what) ==
  LET named == IF last = "none" THEN Range(Channels) ELSE found IN
  CASE what = "scan" -> {Channels[1]}
    [] what = "unlock" -> named \cap Unlockable
    [] what = "immo" -> named \cap Immobilized
    [] OTHER -> named

Begin(what) ==
  /\ call["front"] = "none" /\ Follows(what)
  /\ \E m \in Askable(what) : steps' = [steps EXCEPT !["front"] = StepsOf(what, m)]
  /\ call' = [call EXCEPT !["front"] = what]
  /\ failed' = [failed EXCEPT !["front"] = FALSE]
  /\ clears' = [clears EXCEPT !["front"] = <<0, 0>>]
  /\ found' = IF what = "scan" THEN {} ELSE found
  /\ excused' = IF what = "scan" THEN {} ELSE excused
  /\ UNCHANGED <<interface, exclusive, ecu, connection, teardown, last, postcheck, blocked>>

\* start_post_flash_check: three seconds after a flash, whatever the user does.
BeginPostCheck ==
  /\ postcheck # None /\ call["post"] = "none"
  /\ steps' = [steps EXCEPT !["post"] = Probe(postcheck, "immo")]
  /\ call' = [call EXCEPT !["post"] = "immo"]
  /\ failed' = [failed EXCEPT !["post"] = FALSE] /\ postcheck' = None
  /\ UNCHANGED <<interface, exclusive, ecu, connection, teardown, found, last, excused,
                 clears, blocked>>

Doing(s, do) == steps[s] # <<>> /\ Head(steps[s]).do = do
Channel(s) == Head(steps[s]).channel
Proceed(s) == steps' = [steps EXCEPT ![s] = Tail(@)]

Return(s) ==
  /\ call[s] # "none" /\ steps[s] = <<>>
  /\ call' = [call EXCEPT ![s] = "none"]
  /\ last' = IF s = "front" THEN call[s] ELSE last
  /\ UNCHANGED <<interface, exclusive, ecu, steps, connection, teardown, failed, found,
                 postcheck, excused, clears, blocked>>

-----------------------------------------------------------------------------
(***************************************************************************)
(* Opening and closing.                                                    *)
(***************************************************************************)
Holders == {t \in Tasks : connection[t] # None} \cup teardown

\* DoIP is no CAN bus, and a device may be missing.
Openable(s) == interface # "doip" /\ (exclusive => Holders = {})

\* What a call does when its connection cannot be opened: a clear is best
\* effort, a scan goes on, anything else is an error.
AfterFailedOpen(s) ==
  CASE Channel(s) = "obd" -> SubSeq(steps[s], 4, Len(steps[s]))
    [] call[s] = "scan" /\ steps[s] = Scan /\ shares_one_session -> ScanEach
    [] call[s] = "scan" /\ ~(steps[s] = Scan /\ shares_one_session) ->
         SubSeq(steps[s], 4, Len(steps[s]))
    [] OTHER -> <<>>

CountClear(s, channel) ==
  IF channel # "obd" THEN clears
  ELSE [clears EXCEPT ![s] = IF \E i \in DOMAIN steps[s] : steps[s][i].do \in {"flash", "unlock"}
                             THEN <<@[1] + 1, @[2]>> ELSE <<@[1], @[2] + 1>>]

\* Defect: a connection that cannot be opened is tried again for ever.
OpenRetries(s) ==
  /\ Doing(s, "open")
  /\ IF Openable(s) THEN Proceed(s) /\ connection' = [connection EXCEPT ![s] = Channel(s)]
     ELSE UNCHANGED <<steps, connection>>
  /\ UNCHANGED <<interface, exclusive, ecu, call, teardown, failed, found, last, postcheck,
                 excused, clears, blocked>>
Open(s) ==
  /\ Doing(s, "open")
  /\ \/ /\ Openable(s)
        /\ connection' = [connection EXCEPT ![s] = Channel(s)]
        /\ Proceed(s) /\ UNCHANGED <<failed, excused, clears, blocked>>
     \/ /\ blocked' = IF exclusive THEN blocked \cup {<<s, t>> : t \in Holders} ELSE blocked
        /\ steps' = [steps EXCEPT ![s] = AfterFailedOpen(s)]
        /\ failed' = [failed EXCEPT ![s] = @ \/ (AfterFailedOpen(s) = <<>> /\ Channel(s) # "obd")]
        /\ excused' = IF call[s] = "scan" /\ AfterFailedOpen(s) # ScanEach
                      THEN excused \cup {Channel(s)} ELSE excused
        /\ clears' = CountClear(s, Channel(s))
        /\ UNCHANGED connection
  /\ UNCHANGED <<interface, exclusive, ecu, call, teardown, found, last, postcheck>>

\* Defect: the teardown is handed over, as Drop does, and not awaited.
CloseUnawaited(s) ==
  /\ Doing(s, "close")
  /\ connection' = [connection EXCEPT ![s] = None] /\ teardown' = teardown \cup {s}
  /\ Proceed(s)
  /\ UNCHANGED <<interface, exclusive, ecu, call, failed, found, last, postcheck, excused,
                 clears, blocked>>
\* Session::close: a blocking thread drops the device, and the call waits for it.
Close(s) ==
  /\ Doing(s, "close")
  /\ connection' = [connection EXCEPT ![s] = None] /\ teardown' = teardown \cup {s}
  /\ steps' = [steps EXCEPT ![s] = <<Step("join", Channel(s))>> \o Tail(@)]
  /\ UNCHANGED <<interface, exclusive, ecu, call, failed, found, last, postcheck, excused,
                 clears, blocked>>

TornDown(s) ==
  /\ s \in teardown /\ teardown' = teardown \ {s}
  /\ steps' = IF Doing(s, "join") THEN [steps EXCEPT ![s] = Tail(@)] ELSE steps
  /\ UNCHANGED <<interface, exclusive, ecu, call, connection, failed, found, last, postcheck,
                 excused, clears, blocked>>

-----------------------------------------------------------------------------
(***************************************************************************)
(* Requests.                                                               *)
(***************************************************************************)
can_serve(s, channel) == connection[s] # None /\ (supports_raw_can \/ connection[s] = channel)

\* The emission DTC clear is best effort, and what it clears is not modelled; a
\* native session cannot carry it.
Clear(s) ==
  /\ Doing(s, "clear") /\ Proceed(s)
  /\ clears' = IF can_serve(s, "obd") THEN CountClear(s, "obd") ELSE clears
  /\ UNCHANGED <<interface, exclusive, ecu, call, connection, teardown, failed, found, last,
                 postcheck, excused, blocked>>

\* Defect: the scan ends at the first channel that does not answer.
IdentifyGivesUp(s) ==
  /\ Doing(s, "identify")
  /\ \/ /\ can_serve(s, Channel(s)) /\ Channel(s) \in Fitted /\ Proceed(s)
        /\ found' = found \cup {Channel(s)} /\ UNCHANGED excused
     \/ /\ steps' = [steps EXCEPT ![s] = <<steps[s][Len(steps[s])]>>]
        /\ excused' = IF can_serve(s, Channel(s)) THEN excused \cup {Channel(s)} ELSE excused
        /\ UNCHANGED found
  /\ UNCHANGED <<interface, exclusive, ecu, call, connection, teardown, failed, last,
                 postcheck, clears, blocked>>
\* A silent channel costs its timeout and nothing else.
Identify(s) ==
  /\ Doing(s, "identify") /\ Proceed(s)
  /\ \/ /\ can_serve(s, Channel(s)) /\ Channel(s) \in Fitted
        /\ found' = found \cup {Channel(s)} /\ UNCHANGED excused
     \/ /\ excused' = IF can_serve(s, Channel(s)) THEN excused \cup {Channel(s)} ELSE excused
        /\ UNCHANGED found
  /\ UNCHANGED <<interface, exclusive, ecu, call, connection, teardown, failed, last,
                 postcheck, clears, blocked>>

\* probe_unlock_state leaves the module in CBOOT once it has accepted the
\* programming session, whatever it answers then.  leave_bootloader, the way
\* back, is called by the Reset probe only, and nobody asks for that one.
UnlockState(s) ==
  /\ Doing(s, "unlock") /\ Proceed(s)
  /\ IF can_serve(s, Channel(s)) /\ Channel(s) \in Fitted
     THEN /\ ecu' \in {ecu, [ecu EXCEPT ![Channel(s)] = "cboot"]}
          /\ failed' \in {failed, [failed EXCEPT ![s] = TRUE]}
     ELSE UNCHANGED ecu /\ failed' = [failed EXCEPT ![s] = TRUE]
  /\ UNCHANGED <<interface, exclusive, call, connection, teardown, found, last, postcheck,
                 excused, clears, blocked>>

\* Reading DIDs or records changes nothing; an ECU that does not answer leaves
\* an empty immobilizer snapshot, and fails the record sweep.
Read(s) ==
  /\ (Doing(s, "immo") \/ Doing(s, "read"))
  /\ Proceed(s)
  /\ failed' \in {failed, [failed EXCEPT ![s] = TRUE]}
  /\ Doing(s, "immo") => ~failed'[s]
  /\ Doing(s, "read") /\ Channel(s) \notin Fitted => failed'[s]
  /\ UNCHANGED <<interface, exclusive, ecu, call, connection, teardown, found, last,
                 postcheck, excused, clears, blocked>>

\* A flash that failed may have got into the programming session; the session
\* is closed and the second clear left out.
Flash(s) ==
  /\ Doing(s, "flash")
  /\ \/ /\ can_serve(s, Channel(s)) /\ Channel(s) \in Fitted
        /\ ecu' = [ecu EXCEPT ![Channel(s)] = "app"]
        /\ postcheck' = IF Channel(s) \in Immobilized /\ last = "immo" THEN Channel(s) ELSE postcheck
        /\ Proceed(s) /\ UNCHANGED failed
     \/ /\ ecu' \in {ecu} \cup (IF Channel(s) \in Fitted
                                THEN {[ecu EXCEPT ![Channel(s)] = "cboot"]} ELSE {})
        /\ steps' = [steps EXCEPT ![s] = <<Step("close", Channel(s))>>]
        /\ failed' = [failed EXCEPT ![s] = TRUE]
        /\ UNCHANGED postcheck
  /\ UNCHANGED <<interface, exclusive, call, connection, teardown, found, last, excused,
                 clears, blocked>>

\* The user turns the ignition off and on.
IgnitionCycled ==
  /\ call["front"] = "none"
  /\ ecu' = [c \in DOMAIN ecu |-> IF ecu[c] = "cboot" THEN "app" ELSE ecu[c]]
  /\ ecu' # ecu
  /\ UNCHANGED <<interface, exclusive, call, steps, connection, teardown, failed, found, last,
                 postcheck, excused, clears, blocked>>

-----------------------------------------------------------------------------
Init ==
  /\ interface \in {"raw", "native", "doip"}
  /\ exclusive \in BOOLEAN /\ (interface = "native" => exclusive)
  /\ ecu \in [Range(Channels) -> {"absent", "app"}]
  /\ call = [s \in Tasks |-> "none"] /\ steps = [s \in Tasks |-> <<>>]
  /\ connection = [s \in Tasks |-> None] /\ teardown = {}
  /\ failed = [s \in Tasks |-> FALSE] /\ found = {} /\ last = "none" /\ postcheck = None
  /\ excused = {} /\ clears = [s \in Tasks |-> <<0, 0>>] /\ blocked = {}

Progress(s) ==
  \/ Return(s) \/ Open(s) \/ Close(s) \/ TornDown(s)
  \/ Clear(s) \/ Identify(s) \/ UnlockState(s) \/ Read(s) \/ Flash(s)

Next ==
  \/ \E what \in {"scan", "unlock", "immo", "read", "flash"} : Begin(what)
  \/ BeginPostCheck \/ IgnitionCycled
  \/ \E s \in Tasks : Progress(s)

Spec == Init /\ [][Next]_vars

\* Every await has a timeout, and a device closes.
FairSpec == Spec /\ \A s \in Tasks : WF_vars(Progress(s))

-----------------------------------------------------------------------------
(***************************************************************************)
(* Properties.                                                             *)
(***************************************************************************)
\* Types; and between calls a task holds no connection and closes none, so a
\* failed or partial scan, flash or probe leaks no device (session.rs:354).
TypeOK ==
  /\ ecu \in [Range(Channels) -> {"absent", "app", "cboot"}]
  /\ found \subseteq Range(Channels) /\ postcheck \in Immobilized \cup {None}
  /\ \A s \in Tasks :
       /\ connection[s] \in Range(Channels) \cup {"obd", None}
       /\ call[s] = "none" => steps[s] = <<>>
       /\ steps[s] = <<>> => connection[s] = None /\ s \notin teardown

\* "PassThruOpen landing mid-close is ERR_DEVICE_IN_USE at best": the device is
\* never refused to a call because of a connection of its own task, neither one
\* that is open nor one that is still being closed.
NeverInOwnWay == \A pair \in blocked : pair[1] # pair[2]

\* One silent channel, and one failed open, hide no other: a scan reports only
\* modules that are there, and every one that is, unless the question to that
\* very channel was lost or its own device would not open.
ScanFindsAll ==
  call["front"] = "scan" /\ steps["front"] = <<>> =>
    found \subseteq Fitted /\ Fitted \ excused \subseteq found

\* The DTC clear is attempted once before the programming session of a flash and,
\* when the flash succeeded, once after the reset, on either kind of hardware;
\* a probe of the unlock state is preceded by one as well.
ClearsBracket ==
  /\ \A s \in Tasks : Doing(s, "flash") \/ Doing(s, "unlock") => clears[s] = <<1, 0>>
  /\ call["front"] = "flash" /\ steps["front"] = <<>> /\ ~failed["front"]
       => clears["front"] = <<1, 1>>

\* Every call returns, also without a device, a bus or an ECU, as long as each of
\* its requests ends: an ECU that asks for more time for ever keeps it from that.
CallsReturn == \A s \in Tasks : call[s] # "none" ~> call[s] = "none"

\* What the repository says and does not hold, see the README.

\* "All reads are ReadDataByIdentifier [...] in the default session": the
\* immobilizer is never read from a module that sits in its bootloader.
ReadsInApplication ==
  \A s \in Tasks : Doing(s, "immo") => ecu[Channel(s)] # "cboot"
=============================================================================

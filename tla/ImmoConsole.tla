---------------------------- MODULE ImmoConsole ----------------------------
(***************************************************************************)
(* The immobilizer console of mqb-immo-gui: the screen (state.rs, with the *)
(* controls that the view_* modules render) and the task that owns the     *)
(* connection (connection.rs).  They share two queues: commands, unbounded *)
(* in the code, and events, on which the task waits when it is full.       *)
(*                                                                         *)
(* The task awaits the bus in the middle of its handlers; the value of     *)
(* `task` says in which.  Which ECU is on the bench, and which key it      *)
(* holds, is outside of the program.                                       *)
(*                                                                         *)
(* Left out: the DFlash tab, activity log and texts, the frames that the   *)
(* master answers, and where secrets come from: a plan may be built under  *)
(* any key.                                                                *)
(***************************************************************************)
EXTENDS Naturals, Sequences, FiniteSets, SequencesExt

CONSTANTS
  Keys,          \* values of noKeySecu
  None,
  Capacity,      \* events the channel takes, 64 and the sender's own
  MaxCommands    \* bound: commands the user has in the queue beside Connect

Checks == {"none", "clear", "blocked"}
Downloads == [plan : Keys, checks : Checks]

ASSUME ConsoleAssumption ==
  /\ None \notin Keys \cup Downloads
  /\ Capacity \in Nat \ {0} /\ MaxCommands \in Nat

VARIABLES
  \* the screen
  commands_ready,    \* is State::commands Some?
  connection,        \* "Disconnected", "Connecting", or Connected with "raw" CAN or without
  live,              \* key proved by the last reading, None if there is none
  polling,
  running,           \* master.running
  plan,              \* the download, known by the key it is encrypted under
  preflight,         \* "none" (empty), "clear" or "blocked"
  confirm_download,
  sending,
  \* the queues
  commands, events,
  \* the task
  task,              \* what it awaits
  session,           \* the open session: "none", "iso" or "raw"
  refreshing,        \* its own polling flag
  master,            \* is there an emulator?
  download,          \* the SendDownload being executed
  \* the bench
  key                \* noKeySecu of the ECU that is wired up

screen == <<commands_ready, connection, live, polling, running, plan, preflight,
            confirm_download, sending>>
taskvars == <<task, session, refreshing, master, download>>
vars == <<screen, commands, events, taskvars, key>>

Connected == connection \in {"iso", "raw"}
Interfaces == {"iso", "raw"}
Plan == Keys

Command(kind, arg) == [kind |-> kind, arg |-> arg]
Event(kind, arg) == [kind |-> kind, arg |-> arg]

Init ==
  /\ commands_ready = FALSE /\ connection = "Disconnected" /\ live = None
  /\ polling = FALSE /\ running = FALSE
  /\ plan = None /\ preflight = "none" /\ confirm_download = FALSE /\ sending = FALSE
  /\ commands = <<>> /\ events = <<Event("Ready", None)>>
  /\ task = "waiting" /\ session = "none" /\ refreshing = FALSE /\ master = FALSE
  /\ download = None /\ key \in Keys

-----------------------------------------------------------------------------
(***************************************************************************)
(* The screen.                                                             *)
(***************************************************************************)
\* State::send: without a sender the command is lost.
Send(kind, arg) ==
  /\ Len(commands) < MaxCommands \/ kind = "Connect"
  /\ commands' = IF commands_ready THEN Append(commands, Command(kind, arg)) ELSE commands

ConnectPressed ==
  /\ connection = "Disconnected"
  /\ connection' = "Connecting"
  /\ \E interface \in Interfaces : Send("Connect", interface)
  /\ UNCHANGED <<commands_ready, live, polling, running, plan, preflight,
                 confirm_download, sending, events, taskvars, key>>

DisconnectPressed ==
  /\ Connected /\ Send("Disconnect", None)
  /\ UNCHANGED <<screen, events, taskvars, key>>

RefreshPressed ==
  /\ Connected /\ Send("ReadState", None)
  /\ UNCHANGED <<screen, events, taskvars, key>>

\* "Keep refreshing" is never disabled.
PollingToggled ==
  /\ polling' = ~polling
  /\ Send("SetPolling", polling')
  /\ UNCHANGED <<commands_ready, connection, live, running, plan, preflight,
                 confirm_download, sending, events, taskvars, key>>

\* Defect: the tick survives the plan it was given for.
invalidate_plan_keeps_confirm ==
  plan' = None /\ preflight' = "none" /\ UNCHANGED confirm_download
invalidate_plan ==
  plan' = None /\ preflight' = "none" /\ confirm_download' = FALSE

\* Anything the plan is built from: the sources of the secrets, the mode, the
\* overrides.
InputChanged ==
  /\ plan # None /\ invalidate_plan
  /\ UNCHANGED <<commands_ready, connection, live, polling, running, sending,
                 commands, events, taskvars, key>>

\* adapt_preflight: the key must be the one the ECU proved to hold; ignition,
\* lockout, state and power class may each block as well.  It is never empty.
adapt_preflight(p) ==
  IF live = None THEN {"none"} ELSE IF live = p THEN {"clear", "blocked"} ELSE {"blocked"}

\* The target's or the donor's secrets may be missing, or an input not parse:
\* then there is no plan.
BuildPlanPressed ==
  /\ \/ invalidate_plan
     \/ /\ plan' \in Plan
        /\ preflight' \in adapt_preflight(plan')
        /\ confirm_download' = FALSE
  /\ UNCHANGED <<commands_ready, connection, live, polling, running, sending,
                  commands, events, taskvars, key>>

ConfirmDownloadToggled ==
  /\ plan # None
  /\ confirm_download' = ~confirm_download
  /\ UNCHANGED <<commands_ready, connection, live, polling, running, plan, preflight,
                 sending, commands, events, taskvars, key>>

can_send == plan # None /\ Connected /\ confirm_download /\ ~sending

SendDownloadPressed ==
  /\ can_send
  /\ sending' = TRUE
  /\ Send("SendDownload", [plan |-> plan, checks |-> preflight])
  /\ UNCHANGED <<commands_ready, connection, live, polling, running, plan, preflight,
                 confirm_download, events, taskvars, key>>

StartMasterPressed ==
  /\ ~running /\ connection = "raw"
  /\ Send("StartMaster", None)
  /\ UNCHANGED <<screen, events, taskvars, key>>

StopMasterPressed ==
  /\ running /\ Send("StopMaster", None)
  /\ UNCHANGED <<screen, events, taskvars, key>>

User ==
  \/ ConnectPressed \/ DisconnectPressed \/ RefreshPressed \/ PollingToggled
  \/ InputChanged \/ BuildPlanPressed \/ ConfirmDownloadToggled
  \/ SendDownloadPressed \/ StartMasterPressed \/ StopMasterPressed

(***************************************************************************)
(* handle_connection_event.  A reading outlives its connection, and so do  *)
(* the plan and its preflight.                                             *)
(***************************************************************************)
\* The first event of the queue is of this kind and is taken off it.
Take(kind) == events # <<>> /\ Head(events).kind = kind /\ events' = Tail(events)
arg == Head(events).arg

Ready ==
  /\ Take("Ready") /\ commands_ready' = TRUE
  /\ UNCHANGED <<connection, live, polling, running, plan, preflight,
                 confirm_download, sending, commands, taskvars, key>>

\* One read straight away.
ConnectedEvent ==
  /\ Take("Connected")
  /\ connection' = arg
  /\ commands' = Append(commands, Command("ReadState", None))
  /\ UNCHANGED <<commands_ready, live, polling, running, plan, preflight,
                 confirm_download, sending, taskvars, key>>

ConnectFailed ==
  /\ Take("ConnectFailed") /\ connection' = "Disconnected"
  /\ UNCHANGED <<commands_ready, live, polling, running, plan, preflight,
                 confirm_download, sending, commands, taskvars, key>>

\* Defect: the master is still shown running after the connection has gone.
DisconnectedKeepsMaster ==
  /\ Take("Disconnected")
  /\ connection' = "Disconnected" /\ polling' = FALSE /\ UNCHANGED running
  /\ UNCHANGED <<commands_ready, live, plan, preflight, confirm_download, sending,
                 commands, taskvars, key>>
Disconnected ==
  /\ Take("Disconnected")
  /\ connection' = "Disconnected" /\ polling' = FALSE /\ running' = FALSE
  /\ UNCHANGED <<commands_ready, live, plan, preflight, confirm_download, sending,
                 commands, taskvars, key>>

\* State and StateFailed.
StateEvent ==
  /\ Take("State") /\ live' = arg
  /\ UNCHANGED <<commands_ready, connection, polling, running, plan, preflight,
                 confirm_download, sending, commands, taskvars, key>>

\* MasterStarted and MasterStopped.
MasterEvent ==
  /\ Take("Master") /\ running' = arg
  /\ UNCHANGED <<commands_ready, connection, live, polling, plan, preflight,
                 confirm_download, sending, commands, taskvars, key>>

DownloadFinished ==
  /\ Take("DownloadFinished")
  /\ sending' = FALSE /\ confirm_download' = FALSE
  /\ UNCHANGED <<commands_ready, connection, live, polling, running, plan, preflight,
                 commands, taskvars, key>>

ScreenHandles ==
  \/ Ready \/ ConnectedEvent \/ ConnectFailed \/ Disconnected \/ StateEvent
  \/ MasterEvent \/ DownloadFinished

-----------------------------------------------------------------------------
(***************************************************************************)
(* The task.                                                               *)
(***************************************************************************)
Emit(kind, value) ==
  Len(events) < Capacity /\ events' = Append(events, Event(kind, value))
Receive(kind) ==
  commands # <<>> /\ Head(commands).kind = kind /\ commands' = Tail(commands)
NextCommand == Head(commands)

\* run: while there is no session, everything but Connect is discarded.
\* Defect: commands of the session before are left in the queue behind Connect.
RunKeepsCommands ==
  /\ task = "waiting" /\ commands # <<>>
  /\ \E i \in DOMAIN commands :
       /\ commands[i].kind = "Connect"
       /\ commands' = RemoveAt(commands, i)
       /\ task' = "opening" /\ session' = commands[i].arg
  /\ UNCHANGED <<screen, events, refreshing, master, download, key>>
Run ==
  /\ task = "waiting" /\ commands # <<>> /\ commands' = Tail(commands)
  /\ IF NextCommand.kind = "Connect"
     THEN task' = "opening" /\ session' = NextCommand.arg
     ELSE UNCHANGED <<task, session>>
  /\ UNCHANGED <<screen, events, refreshing, master, download, key>>

Opened ==
  /\ task = "opening"
  /\ \/ /\ task' = "connected" /\ UNCHANGED session
        /\ Emit("Connected", session)
     \/ /\ task' = "waiting" /\ session' = "none"
        /\ Emit("ConnectFailed", None)
  /\ UNCHANGED <<screen, commands, refreshing, master, download, key>>

\* handle_command, up to its first await.
HandleCommand ==
  /\ task = "connected"
  /\ \/ Receive("Connect") /\ UNCHANGED <<task, refreshing, master, download, events>>
     \/ /\ Receive("Disconnect") /\ task' = "closing"
        /\ UNCHANGED <<refreshing, master, download, events>>
     \/ /\ Receive("ReadState") /\ task' = "reading"
        /\ UNCHANGED <<refreshing, master, download, events>>
     \/ /\ Receive("SetPolling") /\ refreshing' = NextCommand.arg
        /\ UNCHANGED <<task, master, download, events>>
     \/ /\ Receive("StartMaster")
        /\ task' = IF session = "raw" THEN "starting" ELSE task
        /\ UNCHANGED <<refreshing, master, download, events>>
     \/ /\ Receive("StopMaster") /\ master' = FALSE
        /\ IF master THEN Emit("Master", FALSE) ELSE UNCHANGED events
        /\ UNCHANGED <<task, refreshing, download>>
     \/ /\ Receive("SendDownload") /\ task' = "writing" /\ download' = NextCommand.arg
        /\ UNCHANGED <<refreshing, master, events>>
  /\ UNCHANGED <<screen, session, key>>

\* The ticker.  Beside a master the select is biased: commands come first.
Tick ==
  /\ task = "connected" /\ refreshing /\ (master => commands = <<>>)
  /\ task' = "reading"
  /\ UNCHANGED <<screen, commands, events, session, refreshing, master, download, key>>

\* read_state: the ECU answers, or not one DID is read.  A reading without the
\* key proof counts as one that blocks.
Reading == {key, None}
ReadState ==
  /\ task \in {"reading", "rereading"}
  /\ \E reading \in Reading : Emit("State", reading)
  /\ task' = IF task = "reading" THEN "connected" ELSE "reporting"
  /\ UNCHANGED <<screen, commands, session, refreshing, master, download, key>>

\* StartMaster, once idxLab is read or not.
MasterStarted ==
  /\ task = "starting" /\ master' = TRUE /\ Emit("Master", TRUE) /\ task' = "connected"
  /\ UNCHANGED <<screen, commands, session, refreshing, download, key>>

\* The stream of frames ends.
StreamEnds ==
  /\ task = "connected" /\ master /\ master' = FALSE /\ Emit("Master", FALSE)
  /\ UNCHANGED <<screen, commands, task, session, refreshing, download, key>>

\* write_did: a download under another key fails its CRC; the ECU may refuse
\* any, and may take one of which the answer is lost.
WriteFinished ==
  /\ task = "writing" /\ task' = "rereading"
  /\ \/ UNCHANGED key
     \/ download.plan = key /\ key' \in Keys \ {key}
  /\ UNCHANGED <<screen, commands, events, session, refreshing, master, download>>

\* Defect: the outcome of a download is not reported.
DownloadReportedNever ==
  /\ task = "reporting" /\ task' = "connected" /\ download' = None
  /\ UNCHANGED <<screen, commands, events, session, refreshing, master, key>>
DownloadReported ==
  /\ task = "reporting" /\ task' = "connected" /\ download' = None
  /\ Emit("DownloadFinished", None)
  /\ UNCHANGED <<screen, commands, session, refreshing, master, key>>

\* Defect: the emulator belongs to the task and not to the connection.
ClosedKeepsMaster ==
  /\ task = "closing" /\ task' = "waiting"
  /\ session' = "none" /\ refreshing' = FALSE
  /\ Emit("Disconnected", None)
  /\ UNCHANGED <<screen, commands, master, download, key>>

\* session.close; the locals of `connected` are gone.
Closed ==
  /\ task = "closing" /\ task' = "waiting"
  /\ session' = "none" /\ refreshing' = FALSE /\ master' = FALSE
  /\ Emit("Disconnected", None)
  /\ UNCHANGED <<screen, commands, download, key>>

\* The task goes on with what it awaits.
Resume ==
  \/ Run \/ Opened \/ ReadState \/ MasterStarted \/ WriteFinished
  \/ DownloadReported \/ Closed
TaskStep == Resume \/ HandleCommand \/ Tick \/ StreamEnds

\* Another ECU is wired up, while nothing is connected.
Rewire ==
  /\ session = "none" /\ key' \in Keys \ {key}
  /\ UNCHANGED <<screen, commands, events, taskvars>>

Next == User \/ ScreenHandles \/ TaskStep \/ Rewire

Spec == Init /\ [][Next]_vars

\* The runtime polls the task and the screen, drivers return and requests have
\* timers.  select! picks among the arms that are ready at random, and beside a
\* master the bus is silent between requests, so a command is not passed over for
\* ever.  Nothing is assumed of the user.
FairSpec == Spec /\ WF_vars(ScreenHandles) /\ WF_vars(Resume) /\ SF_vars(HandleCommand)

-----------------------------------------------------------------------------
(***************************************************************************)
(* Properties.                                                             *)
(***************************************************************************)
Tasks == {"waiting", "opening", "connected", "reading", "starting", "writing", "rereading",
          "reporting", "closing"}
Commands == [kind : {"Connect"}, arg : Interfaces] \cup [kind : {"SetPolling"}, arg : BOOLEAN]
            \cup [kind : {"SendDownload"}, arg : Downloads]
            \cup [kind : {"Disconnect", "ReadState", "StartMaster", "StopMaster"}, arg : {None}]
Events == [kind : {"Connected"}, arg : Interfaces] \cup [kind : {"Master"}, arg : BOOLEAN]
          \cup [kind : {"State"}, arg : Keys \cup {None}]
          \cup [kind : {"Ready", "ConnectFailed", "Disconnected", "DownloadFinished"}, arg : {None}]
TypeOK ==
  /\ commands_ready \in BOOLEAN /\ polling \in BOOLEAN /\ running \in BOOLEAN
  /\ connection \in {"Disconnected", "Connecting"} \cup Interfaces
  /\ live \in Keys \cup {None}
  /\ plan \in Plan \cup {None} /\ preflight \in Checks
  /\ confirm_download \in BOOLEAN /\ sending \in BOOLEAN
  /\ commands \in Seq(Commands) /\ Len(commands) <= MaxCommands + 2
  /\ events \in Seq(Events) /\ Len(events) <= Capacity
  /\ task \in Tasks /\ session \in {"none"} \cup Interfaces
  /\ task = "waiting" <=> session = "none"
  /\ refreshing \in BOOLEAN /\ master \in BOOLEAN
  /\ task \in {"waiting", "opening"} => ~refreshing /\ ~master
  /\ master \/ task = "starting" => session = "raw"
  /\ download \in Downloads \cup {None}
  /\ download # None <=> task \in {"writing", "rereading", "reporting"}
  /\ key \in Keys

\* A command is executed in the session it was given in: while the screen has
\* not yet heard of the open session, nothing that was queued behind the
\* disconnect before it is left for the ECU of this one.  (Only the refresh box
\* can be used while connecting.)
CommandsStayInSession ==
  session # "none" /\ connection = "Connecting" =>
    \A i \in DOMAIN commands : commands[i].kind = "SetPolling"

\* At most one download is under way (queued, executed or reported), and while
\* one is, the send button is disabled.
InQueue(queue, kind) == {i \in DOMAIN queue : queue[i].kind = kind}
Has(queue, kind) == InQueue(queue, kind) # {}
AtMostOne(queue, kind) == \A i, j \in InQueue(queue, kind) : i = j
OneDownload ==
  LET queued == Has(commands, "SendDownload")
      executed == download # None
      reported == Has(events, "DownloadFinished")
  IN  /\ queued \/ executed \/ reported => sending
      /\ ~(queued /\ executed) /\ ~(queued /\ reported) /\ ~(executed /\ reported)
      /\ AtMostOne(commands, "SendDownload") /\ AtMostOne(events, "DownloadFinished")

\* Each command has its effect once, in the session it was given in (run,
\* handle_command).
QueueDiscipline == CommandsStayInSession /\ OneDownload

\* What the tick stands for is the plan and the checks on the screen: neither is
\* replaced under it.
AgreedIsShown ==
  [][confirm_download /\ confirm_download' => UNCHANGED <<plan, preflight>>]_vars

\* Once everything queued has been handled, the screen and the task agree on the
\* connection and the master, and nothing is refreshed with the box unticked.
\* The converse does not hold: ticked while disconnected, the box stays ticked
\* and SetPolling is discarded.
ScreenAgrees ==
  commands = <<>> /\ events = <<>> /\ task \in {"waiting", "connected"} =>
    /\ IF session = "none" THEN ~Connected ELSE connection = session
    /\ running <=> master
    /\ refreshing => polling

\* Why.  Linked: how far the screen's idea of the connection may be from the
\* task's, and which one message is on its way to bring them together.
Linked ==
  /\ ~commands_ready => commands = <<>> /\ session = "none"
  /\ AtMostOne(commands, "Connect")
  /\ \A kind \in {"Connected", "ConnectFailed", "Disconnected"} : AtMostOne(events, kind)
  /\ \A i \in InQueue(events, "Connected") : events[i].arg = session
  /\ CASE connection = "Disconnected" ->
            /\ session = "none" /\ ~Has(commands, "Connect") /\ ~Has(events, "Connected")
            /\ ~Has(events, "ConnectFailed") /\ ~Has(events, "Disconnected")
       [] connection = "Connecting" ->
            /\ Has(commands, "Connect") => session = "none" /\ ~Has(events, "ConnectFailed")
            /\ session # "none" => ~Has(events, "ConnectFailed")
            /\ Has(events, "Connected") <=> session # "none" /\ task # "opening"
            /\ session # "none" => task \in {"opening", "connected", "reading"}
            /\ ~Has(events, "Disconnected")
       [] OTHER ->
            /\ ~Has(commands, "Connect") /\ ~Has(events, "Connected")
            /\ ~Has(events, "ConnectFailed") /\ task # "opening"
            /\ Has(events, "Disconnected") <=> session = "none"
            /\ session # "none" => session = connection

\* Bounded: a Connect is the last of the commands, or all are the user's; behind
\* it the refresh box alone can be used.
Bounded ==
  /\ ~Has(commands, "Connect") => Len(commands) <= MaxCommands + 1
  /\ session # "none" /\ connection = "Connecting" => Len(commands) <= MaxCommands
  /\ \A i \in InQueue(commands, "Connect") :
       /\ i = Len(commands) \/ Len(commands) <= MaxCommands
       /\ \A j \in DOMAIN commands : i < j => commands[j].kind = "SetPolling"

\* MasterTold: the last news of the master is true, and there is none without a
\* connection: a master ends before its connection is reported closed.
News == InQueue(events, "Master") \cup InQueue(events, "Disconnected")
MasterTold ==
  /\ News = {} => (running <=> master)
  /\ \A i \in News : (\A j \in News : j <= i) =>
       (master <=> events[i].kind = "Master" /\ events[i].arg)
  /\ ~Connected => ~running /\ ~master /\ ~Has(events, "Master")
  /\ \A m \in InQueue(events, "Master"), d \in InQueue(events, "Disconnected") : m < d

\* PollingTold: so is the last order about refreshing that this session, or the
\* one asked for, will execute.
Orders ==
  {i \in InQueue(commands, "SetPolling") :
     session # "none" \/ \E c \in InQueue(commands, "Connect") : c < i}
PollingTold ==
  /\ Orders = {} => (refreshing => polling)
  /\ \A i \in Orders : (\A j \in Orders : j <= i) => (commands[i].arg <=> polling)

Inv ==
  /\ TypeOK /\ QueueDiscipline /\ Linked /\ Bounded /\ MasterTold /\ PollingTold

\* A download that the task has begun is reported, and the screen released.
DownloadAnswered == task = "writing" ~> ~sending

\* A Connect in the queue is answered one way or the other, and so is a
\* disconnect.
ConnectionAnswered ==
  /\ InQueue(commands, "Connect") # {} ~> connection # "Connecting"
  /\ task = "closing" ~> ~Connected

\* The screen never waits for the task for ever once the task has taken its
\* command (Out::send).
Answered == DownloadAnswered /\ ConnectionAnswered

\* What the repository says of the console and does not hold, see the README.

\* "A read, so unlike a trial download it proves the key without risking the
\* wrong-attempt lockout ladder" (adapt_preflight): a download sent over a
\* preflight without blockers is encrypted under the key the ECU holds.
CheckedKeyHolds ==
  task = "writing" /\ download.checks = "clear" => download.plan = key

\* "Nothing else is meaningful while disconnected" (run): yet the screen waits
\* for the answer to each download it has sent.
SendingEnds == sending ~> ~sending
=============================================================================

------------------------- MODULE ImmoConsoleProofs -------------------------
(***************************************************************************)
(* Proofs about the immobilizer console, for queues of every capacity and  *)
(* every interleaving of the screen, the task and the user.                *)
(***************************************************************************)
EXTENDS ImmoConsole, TLAPS

\* None is neither a key nor a download.
LEMMA NoneFacts == None \notin Keys /\ None \notin Downloads
  BY ConsoleAssumption

\* The bounds are numbers.
LEMMA BoundFacts == Capacity \in Nat \ {0} /\ MaxCommands \in Nat
  BY ConsoleAssumption

-----------------------------------------------------------------------------
(***************************************************************************)
(* Queues.                                                                 *)
(***************************************************************************)

\* Putting a message into a queue.
LEMMA PushFacts ==
  ASSUME NEW S, NEW q \in Seq(S), NEW x \in S, NEW r, r = Append(q, x)
  PROVE  /\ r \in Seq(S) /\ Len(q) \in Nat /\ Len(r) = Len(q) + 1
         /\ DOMAIN q = 1..Len(q) /\ DOMAIN r = 1..(Len(q) + 1)
         /\ \A i \in DOMAIN q : r[i] = q[i]
         /\ r[Len(q) + 1] = x
  OBVIOUS

\* Taking the first message off a queue.
LEMMA PopFacts ==
  ASSUME NEW S, NEW q \in Seq(S), q # <<>>, NEW r, r = Tail(q)
  PROVE  /\ r \in Seq(S) /\ Len(q) \in Nat \ {0} /\ Len(r) = Len(q) - 1
         /\ DOMAIN q = 1..Len(q) /\ DOMAIN r = 1..(Len(q) - 1)
         /\ \A i \in DOMAIN r : r[i] = q[i + 1]
         /\ Head(q) = q[1] /\ Head(q) \in S
  OBVIOUS

\* A message put into a queue adds its kind to those in it.
LEMMA PushKinds ==
  ASSUME NEW S, NEW q \in Seq(S), NEW x \in S, NEW r, r = Append(q, x), NEW k
  PROVE  /\ Has(r, k) <=> Has(q, k) \/ x.kind = k
         /\ AtMostOne(q, k) /\ (x.kind = k => ~Has(q, k)) => AtMostOne(r, k)
  <1>1. InQueue(r, k) = InQueue(q, k) \cup (IF x.kind = k THEN {Len(q) + 1} ELSE {})
    BY PushFacts DEF InQueue
  <1> QED
    BY <1>1 DEF Has, AtMostOne

\* Taking a message off a queue takes its kind away, if there was only one.
LEMMA PopKinds ==
  ASSUME NEW S, NEW q \in Seq(S), q # <<>>, NEW r, r = Tail(q), NEW k
  PROVE  /\ Has(r, k) => Has(q, k)
         /\ Head(q).kind = k => Has(q, k)
         /\ Head(q).kind # k => (Has(r, k) <=> Has(q, k))
         /\ AtMostOne(q, k) => AtMostOne(r, k)
         /\ AtMostOne(q, k) /\ Head(q).kind = k => ~Has(r, k)
  <1>1. \A i : i \in InQueue(r, k) <=> i \in 1..(Len(q) - 1) /\ i + 1 \in InQueue(q, k)
    BY PopFacts DEF InQueue
  <1>2. /\ InQueue(q, k) \subseteq 1..Len(q) /\ Len(q) \in Nat \ {0}
        /\ 1 \in InQueue(q, k) <=> Head(q).kind = k
    BY PopFacts DEF InQueue
  <1>3. \A i \in InQueue(q, k) : i # 1 => i - 1 \in InQueue(r, k)
    BY <1>1, <1>2
  <1> QED
    BY <1>1, <1>2, <1>3 DEF Has, AtMostOne

\* Has and AtMostOne of the next state are those of the next queues.
LEMMA Primed ==
  /\ \A k : (Has(commands, k)' <=> Has(commands', k))
            /\ (AtMostOne(commands, k)' <=> AtMostOne(commands', k))
  /\ \A k : (Has(events, k)' <=> Has(events', k))
            /\ (AtMostOne(events, k)' <=> AtMostOne(events', k))
  BY DEF Has, AtMostOne, InQueue

\* The task emits an event.
LEMMA Emitted ==
  ASSUME TypeOK, NEW kind, NEW value, Event(kind, value) \in Events, Emit(kind, value)
  PROVE  /\ events' \in Seq(Events) /\ Len(events') <= Capacity
         /\ \A k : Has(events, k)' <=> Has(events, k) \/ k = kind
         /\ \A k : AtMostOne(events, k) /\ (k = kind => ~Has(events, k)) => AtMostOne(events, k)'
         /\ Len(events) \in Nat /\ DOMAIN events = 1..Len(events)
         /\ DOMAIN events' = 1..(Len(events) + 1)
         /\ \A i \in DOMAIN events : events'[i] = events[i]
         /\ events'[Len(events) + 1].kind = kind /\ events'[Len(events) + 1].arg = value
  <1> DEFINE x == Event(kind, value)
  <1>1. events \in Seq(Events) /\ events' = Append(events, x) /\ Len(events) < Capacity
    BY DEF TypeOK, Emit
  <1>2. x.kind = kind /\ x.arg = value /\ x \in Events
    BY DEF Event
  <1> HIDE DEF x
  <1>3. \A k : /\ Has(events', k) <=> Has(events, k) \/ k = kind
               /\ AtMostOne(events, k) /\ (k = kind => ~Has(events, k)) => AtMostOne(events', k)
    BY <1>1, <1>2, PushKinds
  <1>4. /\ events' \in Seq(Events) /\ Len(events) \in Nat /\ Len(events') = Len(events) + 1
        /\ DOMAIN events = 1..Len(events) /\ DOMAIN events' = 1..(Len(events) + 1)
        /\ \A i \in DOMAIN events : events'[i] = events[i]
        /\ events'[Len(events) + 1] = x
    BY <1>1, <1>2, PushFacts
  <1> QED
    BY <1>1, <1>2, <1>3, <1>4, Primed, BoundFacts

\* The screen takes an event.
LEMMA Taken ==
  ASSUME TypeOK, NEW kind, Take(kind)
  PROVE  /\ events' \in Seq(Events) /\ Len(events') <= Capacity
         /\ Has(events, kind)
         /\ \A k : Has(events, k)' => Has(events, k)
         /\ \A k : k # kind => (Has(events, k)' <=> Has(events, k))
         /\ \A k : AtMostOne(events, k) => AtMostOne(events, k)'
         /\ AtMostOne(events, kind) => ~Has(events, kind)'
         /\ Len(events) \in Nat \ {0} /\ DOMAIN events = 1..Len(events)
         /\ DOMAIN events' = 1..(Len(events) - 1)
         /\ \A i \in DOMAIN events' : events'[i] = events[i + 1]
         /\ events[1].kind = kind /\ events[1].arg = arg /\ events[1] \in Events
  <1>1. /\ events \in Seq(Events) /\ events # <<>> /\ events' = Tail(events)
        /\ Head(events).kind = kind /\ Len(events) <= Capacity
    BY DEF TypeOK, Take
  <1>2. \A k : /\ Has(events', k) => Has(events, k)
               /\ kind = k => Has(events, k)
               /\ k # kind => (Has(events', k) <=> Has(events, k))
               /\ AtMostOne(events, k) => AtMostOne(events', k)
               /\ AtMostOne(events, k) /\ kind = k => ~Has(events', k)
    BY <1>1, PopKinds
  <1>3. /\ events' \in Seq(Events) /\ Len(events) \in Nat \ {0} /\ Len(events') = Len(events) - 1
        /\ DOMAIN events = 1..Len(events) /\ DOMAIN events' = 1..(Len(events) - 1)
        /\ \A i \in DOMAIN events' : events'[i] = events[i + 1]
        /\ Head(events) = events[1] /\ Head(events) \in Events
    BY <1>1, PopFacts
  <1> QED
    BY <1>1, <1>2, <1>3, Primed, BoundFacts DEF arg

\* A command is queued, as it is when the screen has its sender.
LEMMA Queued ==
  ASSUME TypeOK, NEW kind, NEW value, Command(kind, value) \in Commands,
         commands' = Append(commands, Command(kind, value))
  PROVE  /\ commands' \in Seq(Commands) /\ Len(commands') = Len(commands) + 1
         /\ \A k : Has(commands, k)' <=> Has(commands, k) \/ k = kind
         /\ \A k : AtMostOne(commands, k) /\ (k = kind => ~Has(commands, k))
                     => AtMostOne(commands, k)'
         /\ Len(commands) \in Nat /\ DOMAIN commands = 1..Len(commands)
         /\ DOMAIN commands' = 1..(Len(commands) + 1)
         /\ \A i \in DOMAIN commands : commands'[i] = commands[i]
         /\ commands'[Len(commands) + 1].kind = kind /\ commands'[Len(commands) + 1].arg = value
  <1> DEFINE x == Command(kind, value)
  <1>1. commands \in Seq(Commands) /\ commands' = Append(commands, x)
    BY DEF TypeOK
  <1>2. x.kind = kind /\ x.arg = value /\ x \in Commands
    BY DEF Command
  <1> HIDE DEF x
  <1>3. \A k : /\ Has(commands', k) <=> Has(commands, k) \/ k = kind
               /\ AtMostOne(commands, k) /\ (k = kind => ~Has(commands, k))
                    => AtMostOne(commands', k)
    BY <1>1, <1>2, PushKinds
  <1>4. /\ commands' \in Seq(Commands) /\ Len(commands) \in Nat /\ Len(commands') = Len(commands) + 1
        /\ DOMAIN commands = 1..Len(commands) /\ DOMAIN commands' = 1..(Len(commands) + 1)
        /\ \A i \in DOMAIN commands : commands'[i] = commands[i]
        /\ commands'[Len(commands) + 1] = x
    BY <1>1, <1>2, PushFacts
  <1> QED
    BY <1>1, <1>2, <1>3, <1>4, Primed

\* The task receives a command.
LEMMA Received ==
  ASSUME TypeOK, NEW kind, commands # <<>>, NextCommand.kind = kind, commands' = Tail(commands)
  PROVE  /\ commands' \in Seq(Commands) /\ Len(commands') = Len(commands) - 1
         /\ Has(commands, kind)
         /\ \A k : Has(commands, k)' => Has(commands, k)
         /\ \A k : k # kind => (Has(commands, k)' <=> Has(commands, k))
         /\ \A k : AtMostOne(commands, k) => AtMostOne(commands, k)'
         /\ AtMostOne(commands, kind) => ~Has(commands, kind)'
         /\ Len(commands) \in Nat \ {0} /\ DOMAIN commands = 1..Len(commands)
         /\ DOMAIN commands' = 1..(Len(commands) - 1)
         /\ \A i \in DOMAIN commands' : commands'[i] = commands[i + 1]
         /\ NextCommand = commands[1] /\ NextCommand \in Commands
  <1>1. commands \in Seq(Commands) /\ Head(commands).kind = kind
    BY DEF TypeOK, NextCommand
  <1>2. \A k : /\ Has(commands', k) => Has(commands, k)
               /\ kind = k => Has(commands, k)
               /\ k # kind => (Has(commands', k) <=> Has(commands, k))
               /\ AtMostOne(commands, k) => AtMostOne(commands', k)
               /\ AtMostOne(commands, k) /\ kind = k => ~Has(commands', k)
    BY <1>1, PopKinds
  <1>3. /\ commands' \in Seq(Commands) /\ Len(commands) \in Nat \ {0}
        /\ Len(commands') = Len(commands) - 1
        /\ DOMAIN commands = 1..Len(commands) /\ DOMAIN commands' = 1..(Len(commands) - 1)
        /\ \A i \in DOMAIN commands' : commands'[i] = commands[i + 1]
        /\ Head(commands) = commands[1] /\ Head(commands) \in Commands
    BY <1>1, PopFacts
  <1> QED
    BY <1>2, <1>3, Primed DEF NextCommand

\* A queue that nobody touches.
LEMMA SameQueues ==
  /\ UNCHANGED events => \A k : (Has(events, k)' <=> Has(events, k))
                                /\ (AtMostOne(events, k)' <=> AtMostOne(events, k))
  /\ UNCHANGED commands => \A k : (Has(commands, k)' <=> Has(commands, k))
                                  /\ (AtMostOne(commands, k)' <=> AtMostOne(commands, k))
  BY DEF Has, AtMostOne, InQueue

-----------------------------------------------------------------------------
(***************************************************************************)
(* Types.                                                                  *)
(***************************************************************************)

\* What a command carries.
LEMMA CommandFacts ==
  /\ \A c \in Commands : /\ c.kind = "Connect" => c.arg \in Interfaces
                         /\ c.kind = "SetPolling" => c.arg \in BOOLEAN
                         /\ c.kind = "SendDownload" => c.arg \in Downloads
                         /\ c.kind \in {"Connect", "SetPolling", "SendDownload", "Disconnect",
                                       "ReadState", "StartMaster", "StopMaster"}
  /\ \A i \in Interfaces : Command("Connect", i) \in Commands
  /\ \A b \in BOOLEAN : Command("SetPolling", b) \in Commands
  /\ \A d \in Downloads : Command("SendDownload", d) \in Commands
  /\ \A k \in {"Disconnect", "ReadState", "StartMaster", "StopMaster"} :
       Command(k, None) \in Commands
  BY DEF Commands, Command

\* What an event carries.
LEMMA EventFacts ==
  /\ \A e \in Events : /\ e.kind = "Connected" => e.arg \in Interfaces
                       /\ e.kind = "Master" => e.arg \in BOOLEAN
                       /\ e.kind = "State" => e.arg \in Keys \cup {None}
  /\ \A i \in Interfaces : Event("Connected", i) \in Events
  /\ \A b \in BOOLEAN : Event("Master", b) \in Events
  /\ \A r \in Keys \cup {None} : Event("State", r) \in Events
  /\ \A k \in {"Ready", "ConnectFailed", "Disconnected", "DownloadFinished"} :
       Event(k, None) \in Events
  BY DEF Events, Event

\* A command that is sent keeps the queue one of commands, within its bound: the
\* one that may exceed it is sent while no other of its kind is queued.
LEMMA SentType ==
  ASSUME Inv, NEW kind, NEW value, Command(kind, value) \in Commands, Send(kind, value),
         kind = "Connect" => ~Has(commands, "Connect")
  PROVE  commands' \in Seq(Commands) /\ Len(commands') <= MaxCommands + 2
  <1>1. TypeOK /\ Len(commands) \in Nat /\ Len(commands) <= MaxCommands + 2
        /\ commands \in Seq(Commands)
    BY DEF Inv, TypeOK
  <1>2. Len(commands) < MaxCommands \/ Len(commands) <= MaxCommands + 1
    BY DEF Inv, Bounded, Send
  <1>3. CASE commands_ready
    BY <1>1, <1>2, <1>3, Queued, BoundFacts DEF Send
  <1>4. CASE ~commands_ready
    BY <1>1, <1>4 DEF Send
  <1> QED
    BY <1>3, <1>4

\* The user's flags stay flags.
LEMMA UserFlags ==
  ASSUME TypeOK, User
  PROVE  /\ commands_ready' \in BOOLEAN /\ polling' \in BOOLEAN /\ running' \in BOOLEAN
         /\ confirm_download' \in BOOLEAN /\ sending' \in BOOLEAN
         /\ refreshing' \in BOOLEAN /\ master' \in BOOLEAN
  <1> USE DEF TypeOK, screen, taskvars
  <1>1. CASE ConnectPressed \/ DisconnectPressed \/ RefreshPressed \/ StartMasterPressed
             \/ StopMasterPressed
    BY <1>1, Zenon DEF ConnectPressed, DisconnectPressed, RefreshPressed, StartMasterPressed,
       StopMasterPressed
  <1>2. CASE PollingToggled
    BY <1>2, Zenon DEF PollingToggled
  <1>3. CASE InputChanged \/ BuildPlanPressed
    BY <1>3, Zenon DEF InputChanged, BuildPlanPressed, invalidate_plan
  <1>4. CASE ConfirmDownloadToggled
    BY <1>4, Zenon DEF ConfirmDownloadToggled
  <1>5. CASE SendDownloadPressed
    BY <1>5, Zenon DEF SendDownloadPressed
  <1> QED
    BY <1>1, <1>2, <1>3, <1>4, <1>5 DEF User

\* What the user does keeps the types.
LEMMA TypeUser == ASSUME Inv, User PROVE TypeOK'
  <1>0. TypeOK
    BY DEF Inv
  <1>1. UNCHANGED <<live, events, taskvars, key>>
    BY DEF User, ConnectPressed, DisconnectPressed, RefreshPressed, PollingToggled,
       InputChanged, BuildPlanPressed, ConfirmDownloadToggled, SendDownloadPressed,
       StartMasterPressed, StopMasterPressed, screen
  <1>2. commands' \in Seq(Commands) /\ Len(commands') <= MaxCommands + 2
    <2>1. CASE ConnectPressed
      <3>1. ~Has(commands, "Connect")
        BY <2>1 DEF ConnectPressed, Inv, Linked
      <3>2. PICK i \in Interfaces : Send("Connect", i)
        BY <2>1 DEF ConnectPressed
      <3>3. Command("Connect", i) \in Commands
        BY CommandFacts
      <3> QED
        BY <3>1, <3>2, <3>3, SentType
    <2>2. CASE DisconnectPressed \/ RefreshPressed \/ StartMasterPressed \/ StopMasterPressed
      <3>1. PICK k \in {"Disconnect", "ReadState", "StartMaster", "StopMaster"} : Send(k, None)
        BY <2>2 DEF DisconnectPressed, RefreshPressed, StartMasterPressed, StopMasterPressed
      <3>2. Command(k, None) \in Commands /\ k # "Connect"
        BY CommandFacts
      <3> QED
        BY <3>1, <3>2, SentType
    <2>3. CASE PollingToggled
      <3>1. Send("SetPolling", polling')
        BY <2>3 DEF PollingToggled
      <3>2. Command("SetPolling", polling') \in Commands
        BY <1>0, UserFlags, CommandFacts
      <3> QED
        BY <3>1, <3>2, SentType
    <2>4. CASE InputChanged \/ BuildPlanPressed \/ ConfirmDownloadToggled
      BY <1>0, <2>4 DEF InputChanged, BuildPlanPressed, ConfirmDownloadToggled, TypeOK
    <2>5. CASE SendDownloadPressed
      <3> DEFINE d == [plan |-> plan, checks |-> preflight]
      <3>1. Send("SendDownload", d)
        BY <2>5 DEF SendDownloadPressed
      <3>2. d \in Downloads
        BY <1>0, <2>5 DEF SendDownloadPressed, can_send, TypeOK, Plan, Downloads
      <3>3. Command("SendDownload", d) \in Commands
        BY <3>2, CommandFacts
      <3> QED
        BY <3>1, <3>3, SentType
    <2> QED
      BY <2>1, <2>2, <2>3, <2>4, <2>5 DEF User
  <1>3. /\ connection' \in {"Disconnected", "Connecting"} \cup Interfaces
        /\ plan' \in Plan \cup {None} /\ preflight' \in Checks
    BY <1>0 DEF User, ConnectPressed, DisconnectPressed, RefreshPressed, PollingToggled,
       InputChanged, BuildPlanPressed, ConfirmDownloadToggled, SendDownloadPressed,
       StartMasterPressed, StopMasterPressed, screen, invalidate_plan, adapt_preflight,
       TypeOK, Checks
  <1> QED
    BY <1>0, <1>1, <1>2, <1>3, UserFlags DEF TypeOK, taskvars

\* What the screen makes of an event keeps the types.
LEMMA TypeScreen == ASSUME Inv, ScreenHandles PROVE TypeOK'
  <1>0. TypeOK
    BY DEF Inv
  <1>1. PICK k : Take(k) /\ k = Head(events).kind
    BY DEF ScreenHandles, Ready, ConnectedEvent, ConnectFailed, Disconnected, StateEvent,
       MasterEvent, DownloadFinished, Take
  <1>2. /\ events' \in Seq(Events) /\ Len(events') <= Capacity
        /\ k = "Connected" => arg \in Interfaces
        /\ k = "Master" => arg \in BOOLEAN
        /\ k = "State" => arg \in Keys \cup {None}
    BY <1>0, <1>1, Taken, EventFacts
  <1>3. commands' \in Seq(Commands) /\ Len(commands') <= MaxCommands + 2
    <2>1. CASE ConnectedEvent
      <3>1. commands' = Append(commands, Command("ReadState", None))
        BY <2>1 DEF ConnectedEvent
      <3>2. Len(commands) <= MaxCommands + 1
        <4>1. Has(events, "Connected")
          BY <1>0, <2>1, Taken DEF ConnectedEvent
        <4>2. ~Has(commands, "Connect")
          BY <1>0, <4>1 DEF Inv, Linked, TypeOK
        <4> QED
          BY <4>2 DEF Inv, Bounded
      <3> QED
        BY <1>0, <3>1, <3>2, Queued, CommandFacts, BoundFacts
    <2>2. CASE ~ConnectedEvent
      BY <1>0, <2>2 DEF ScreenHandles, Ready, ConnectFailed, Disconnected, StateEvent,
         MasterEvent, DownloadFinished, TypeOK
    <2> QED
      BY <2>1, <2>2
  <1>4. /\ UNCHANGED <<plan, preflight, taskvars, key>>
        /\ connection' \in {connection, "Disconnected"} \cup Interfaces
        /\ live' \in {live, None} \cup Keys
    BY <1>1, <1>2 DEF ScreenHandles, Ready, ConnectedEvent, ConnectFailed, Disconnected,
       StateEvent, MasterEvent, DownloadFinished, Take
  <1>5. /\ commands_ready' \in BOOLEAN /\ polling' \in BOOLEAN /\ running' \in BOOLEAN
        /\ confirm_download' \in BOOLEAN /\ sending' \in BOOLEAN
    <2>1. CASE MasterEvent
      <3>1. k = "Master"
        BY <1>1, <2>1 DEF MasterEvent, Take
      <3> QED
        BY <1>0, <1>2, <2>1, <3>1 DEF MasterEvent, TypeOK
    <2>2. CASE ~MasterEvent
      BY <1>0, <2>2, Zenon DEF ScreenHandles, Ready, ConnectedEvent, ConnectFailed,
         Disconnected, StateEvent, DownloadFinished, TypeOK
    <2> QED
      BY <2>1, <2>2
  <1> QED
    BY <1>0, <1>2, <1>3, <1>4, <1>5 DEF TypeOK, taskvars

\* What a command does to the task keeps the types.
LEMMA TypeHandle == ASSUME Inv, HandleCommand PROVE TypeOK'
  <1>0. TypeOK /\ task = "connected" /\ UNCHANGED <<screen, session, key>>
    BY DEF Inv, HandleCommand
  <1>1. commands # <<>> /\ commands' = Tail(commands)
    BY DEF HandleCommand, Receive
  <1>2. commands' \in Seq(Commands) /\ Len(commands') <= MaxCommands + 2 /\ NextCommand \in Commands
    BY <1>0, <1>1, Received, BoundFacts DEF TypeOK
  <1>3. events' \in Seq(Events) /\ Len(events') <= Capacity
    <2>1. CASE UNCHANGED events
      BY <1>0, <2>1 DEF TypeOK
    <2>2. CASE Emit("Master", FALSE)
      BY <1>0, <2>2, Emitted, EventFacts
    <2> QED
      BY <2>1, <2>2 DEF HandleCommand
  <1>4. CASE Receive("Connect") \/ Receive("Disconnect") \/ Receive("ReadState")
             \/ Receive("StartMaster")
    <2>1. NextCommand.kind \in {"Connect", "Disconnect", "ReadState", "StartMaster"}
      BY <1>4 DEF Receive, NextCommand
    <2>2. /\ UNCHANGED <<refreshing, master, download>>
          /\ task' \in {task, "closing", "reading"} \/ (task' = "starting" /\ session = "raw")
      BY <2>1 DEF HandleCommand, Receive, NextCommand
    <2> QED
      BY <1>0, <1>2, <1>3, <2>2 DEF TypeOK, Tasks, screen
  <1>5. CASE Receive("SetPolling")
    <2>1. NextCommand.kind = "SetPolling"
      BY <1>5 DEF Receive, NextCommand
    <2>2. UNCHANGED <<task, master, download>> /\ refreshing' = NextCommand.arg
      BY <2>1 DEF HandleCommand, Receive, NextCommand
    <2>3. refreshing' \in BOOLEAN
      BY <1>2, <2>1, <2>2, CommandFacts
    <2> QED
      BY <1>0, <1>2, <1>3, <2>2, <2>3 DEF TypeOK, screen
  <1>6. CASE Receive("StopMaster")
    <2>1. NextCommand.kind = "StopMaster"
      BY <1>6 DEF Receive, NextCommand
    <2>2. UNCHANGED <<task, refreshing, download>> /\ master' = FALSE
      BY <2>1 DEF HandleCommand, Receive, NextCommand
    <2> QED
      BY <1>0, <1>2, <1>3, <2>2 DEF TypeOK, screen
  <1>7. CASE Receive("SendDownload")
    <2>1. NextCommand.kind = "SendDownload"
      BY <1>7 DEF Receive, NextCommand
    <2>2. UNCHANGED <<refreshing, master>> /\ task' = "writing" /\ download' = NextCommand.arg
      BY <2>1 DEF HandleCommand, Receive, NextCommand
    <2>3. download' \in Downloads /\ download' # None
      BY <1>2, <2>1, <2>2, CommandFacts, NoneFacts
    <2> QED
      BY <1>0, <1>2, <1>3, <2>2, <2>3 DEF TypeOK, Tasks, screen
  <1> QED
    BY <1>4, <1>5, <1>6, <1>7 DEF HandleCommand

\* What the task does keeps the types.
LEMMA TypeTask == ASSUME Inv, TaskStep PROVE TypeOK'
  <1>0. TypeOK
    BY DEF Inv
  <1>1. CASE Run
    <2>1. /\ commands # <<>> /\ commands' = Tail(commands) /\ task = "waiting"
          /\ UNCHANGED <<screen, events, refreshing, master, download, key>>
          /\ \/ /\ NextCommand.kind = "Connect" /\ task' = "opening"
                /\ session' = NextCommand.arg
             \/ UNCHANGED <<task, session>>
      BY <1>1 DEF Run
    <2>2. /\ commands' \in Seq(Commands) /\ Len(commands') <= MaxCommands + 2
          /\ NextCommand \in Commands
      BY <1>0, <2>1, Received, BoundFacts DEF TypeOK
    <2>3. NextCommand.kind = "Connect" => NextCommand.arg \in Interfaces
      BY <2>2, CommandFacts
    <2> QED
      BY <1>0, <2>1, <2>2, <2>3 DEF TypeOK, Tasks, screen, Interfaces
  <1>2. CASE Opened
    <2>1. /\ task = "opening" /\ UNCHANGED <<screen, commands, refreshing, master, download, key>>
          /\ \/ task' = "connected" /\ UNCHANGED session /\ Emit("Connected", session)
             \/ task' = "waiting" /\ session' = "none" /\ Emit("ConnectFailed", None)
      BY <1>2 DEF Opened
    <2>2. session \in Interfaces
      BY <1>0, <2>1 DEF TypeOK
    <2>3. events' \in Seq(Events) /\ Len(events') <= Capacity
      BY <1>0, <2>1, <2>2, Emitted, EventFacts
    <2> QED
      BY <1>0, <2>1, <2>2, <2>3 DEF TypeOK, Tasks, screen, Interfaces
  <1>3. CASE ReadState \/ DownloadReported
    <2>1. UNCHANGED <<screen, commands, session, refreshing, master, key>>
      BY <1>3 DEF ReadState, DownloadReported
    <2>2. /\ task = "reading" => task' = "connected" /\ UNCHANGED download
          /\ task = "rereading" => task' = "reporting" /\ UNCHANGED download
          /\ task = "reporting" => task' = "connected" /\ download' = None
          /\ task \in {"reading", "rereading", "reporting"}
      BY <1>3 DEF ReadState, DownloadReported
    <2>3. events' \in Seq(Events) /\ Len(events') <= Capacity
      <3>1. CASE ReadState
        <4>1. PICK r \in Keys \cup {None} : Emit("State", r)
          BY <1>0, <3>1 DEF ReadState, Reading, TypeOK
        <4> QED
          BY <1>0, <4>1, Emitted, EventFacts
      <3>2. CASE DownloadReported
        BY <1>0, <3>2, Emitted, EventFacts DEF DownloadReported
      <3> QED
        BY <1>3, <3>1, <3>2
    <2> QED
      BY <1>0, <2>1, <2>2, <2>3 DEF TypeOK, Tasks, screen
  <1>4. CASE MasterStarted \/ StreamEnds
    <2>1. /\ UNCHANGED <<screen, commands, session, refreshing, download, key>>
          /\ task' = "connected" /\ task \in {"starting", "connected"} /\ master' \in BOOLEAN
          /\ Emit("Master", TRUE) \/ Emit("Master", FALSE)
          /\ session = "raw"
      BY <1>0, <1>4 DEF MasterStarted, StreamEnds, TypeOK
    <2>2. events' \in Seq(Events) /\ Len(events') <= Capacity
      BY <1>0, <2>1, Emitted, EventFacts
    <2> QED
      BY <1>0, <2>1, <2>2 DEF TypeOK, Tasks, screen
  <1>5. CASE WriteFinished \/ Tick
    BY <1>0, <1>5 DEF WriteFinished, Tick, TypeOK, Tasks, screen
  <1>6. CASE Closed
    <2>1. /\ task = "closing" /\ task' = "waiting" /\ session' = "none" /\ refreshing' = FALSE
          /\ master' = FALSE /\ UNCHANGED <<screen, commands, download, key>>
      BY <1>6 DEF Closed
    <2>2. events' \in Seq(Events) /\ Len(events') <= Capacity
      BY <1>0, <1>6, Emitted, EventFacts DEF Closed
    <2> QED
      BY <1>0, <2>1, <2>2 DEF TypeOK, Tasks, screen
  <1> QED
    BY <1>1, <1>2, <1>3, <1>4, <1>5, <1>6, TypeHandle DEF TaskStep, Resume

\* Every step keeps the types.
LEMMA TypeStep == ASSUME Inv, [Next]_vars PROVE TypeOK'
  <1>1. CASE Rewire \/ UNCHANGED vars
    BY <1>1 DEF Rewire, vars, screen, taskvars, Inv, TypeOK
  <1> QED
    BY <1>1, TypeUser, TypeScreen, TypeTask DEF Next

-----------------------------------------------------------------------------
(***************************************************************************)
(* The effect of each step on the queues.                                  *)
(***************************************************************************)

\* What is sent is queued behind the rest, or lost.
LEMMA SentMove ==
  ASSUME Inv, NEW kind, NEW value, Send(kind, value)
  PROVE  \/ UNCHANGED commands /\ ~commands_ready /\ commands = <<>> /\ session = "none"
         \/ commands_ready /\ commands' = Append(commands, Command(kind, value))
  BY DEF Send, Inv, Linked, TypeOK

\* Who puts what into the queue of commands, and who takes it out.
CommandFrom(kind) ==
  CASE kind = "Connect" -> ConnectPressed
    [] kind = "SetPolling" -> PollingToggled
    [] kind = "SendDownload" -> SendDownloadPressed
    [] kind = "ReadState" -> RefreshPressed \/ ConnectedEvent
    [] kind = "Disconnect" -> DisconnectPressed
    [] OTHER -> StartMasterPressed \/ StopMasterPressed
LEMMA CommandsMove ==
  ASSUME Inv, [Next]_vars
  PROVE  \/ UNCHANGED commands /\ (ConnectPressed \/ PollingToggled => ~commands_ready)
         \/ (Run \/ HandleCommand) /\ commands # <<>> /\ commands' = Tail(commands)
         \/ \E k, v : /\ CommandFrom(k) /\ Command(k, v) \in Commands
                      /\ commands' = Append(commands, Command(k, v))
  <1>0. TypeOK
    BY DEF Inv
  <1>1. CASE ConnectPressed
    <2>1. PICK i \in Interfaces : Send("Connect", i)
      BY <1>1 DEF ConnectPressed
    <2>2. Command("Connect", i) \in Commands /\ CommandFrom("Connect")
      BY <1>1, CommandFacts DEF CommandFrom
    <2> QED
      BY <2>1, <2>2, SentMove
  <1>2. CASE PollingToggled
    <2>1. Send("SetPolling", polling') /\ User
      BY <1>2 DEF PollingToggled, User
    <2>2. Command("SetPolling", polling') \in Commands /\ CommandFrom("SetPolling")
      BY <1>0, <1>2, <2>1, UserFlags, CommandFacts DEF CommandFrom
    <2> QED
      BY <2>1, <2>2, SentMove
  <1>3. CASE SendDownloadPressed
    <2> DEFINE d == [plan |-> plan, checks |-> preflight]
    <2>1. Send("SendDownload", d) /\ connection \in {"iso", "raw"}
      BY <1>3 DEF SendDownloadPressed, can_send, Connected
    <2>2. d \in Downloads
      BY <1>0, <1>3 DEF SendDownloadPressed, can_send, TypeOK, Plan, Downloads
    <2>3. Command("SendDownload", d) \in Commands /\ CommandFrom("SendDownload")
      BY <1>3, <2>2, CommandFacts DEF CommandFrom
    <2>4. ~ConnectPressed
      BY <2>1 DEF ConnectPressed
    <2>5. ~PollingToggled
      BY <1>3 DEF SendDownloadPressed, PollingToggled, can_send, Inv, TypeOK
    <2> QED
      BY <2>1, <2>3, <2>4, <2>5, SentMove
  <1>4. CASE DisconnectPressed \/ RefreshPressed \/ StartMasterPressed \/ StopMasterPressed
    <2>1. PICK k \in {"Disconnect", "ReadState", "StartMaster", "StopMaster"} :
            Send(k, None) /\ CommandFrom(k)
      BY <1>4 DEF DisconnectPressed, RefreshPressed, StartMasterPressed, StopMasterPressed,
         CommandFrom
    <2>2. Command(k, None) \in Commands
      BY CommandFacts
    <2> QED
      BY <2>1, <2>2, SentMove
  <1>5. CASE ConnectedEvent
    <2>1. commands' = Append(commands, Command("ReadState", None)) /\ CommandFrom("ReadState")
      BY <1>5 DEF ConnectedEvent, CommandFrom
    <2> QED
      BY <2>1, CommandFacts
  <1>6. CASE Run \/ HandleCommand
    BY <1>6 DEF Run, HandleCommand, Receive
  <1>7. CASE \/ InputChanged \/ BuildPlanPressed \/ ConfirmDownloadToggled \/ Rewire
             \/ Ready \/ ConnectFailed \/ Disconnected \/ StateEvent \/ MasterEvent
             \/ DownloadFinished \/ Opened \/ ReadState \/ MasterStarted \/ WriteFinished
             \/ DownloadReported \/ Closed \/ Tick \/ StreamEnds \/ UNCHANGED vars
    <2>1. UNCHANGED commands
      BY <1>7 DEF InputChanged, BuildPlanPressed, ConfirmDownloadToggled, Rewire,
         Ready, ConnectFailed, Disconnected, StateEvent, MasterEvent, DownloadFinished, Opened,
         ReadState, MasterStarted, WriteFinished, DownloadReported, Closed, Tick, StreamEnds, vars
    <2>2. CASE ConnectPressed
      BY <1>1, <2>2
    <2>3. CASE PollingToggled
      BY <1>2, <2>3
    <2> QED
      BY <2>1, <2>2, <2>3
  <1> QED
    BY <1>1, <1>2, <1>3, <1>4, <1>5, <1>6, <1>7 DEF Next, User, ScreenHandles, TaskStep, Resume

\* Who emits what, and who takes it.
EventFrom(kind, value) ==
  CASE kind = "Connected" -> Opened /\ value = session
    [] kind = "ConnectFailed" -> Opened
    [] kind = "Disconnected" -> Closed
    [] kind = "Master" -> MasterStarted \/ StreamEnds \/ HandleCommand
    [] kind = "DownloadFinished" -> DownloadReported
    [] OTHER -> ReadState
EventTo(kind) ==
  CASE kind = "Ready" -> Ready
    [] kind = "Connected" -> ConnectedEvent
    [] kind = "ConnectFailed" -> ConnectFailed
    [] kind = "Disconnected" -> Disconnected
    [] kind = "Master" -> MasterEvent
    [] kind = "DownloadFinished" -> DownloadFinished
    [] kind = "State" -> StateEvent
LEMMA EventsMove ==
  ASSUME Inv, [Next]_vars
  PROVE  \/ UNCHANGED events /\ (User \/ HandleCommand \/ Run \/ Tick \/ WriteFinished
                                \/ Rewire \/ UNCHANGED vars)
         \/ \E k : Take(k) /\ EventTo(k)
                   /\ k \in {"Ready", "Connected", "ConnectFailed", "Disconnected", "Master",
                            "DownloadFinished", "State"}
         \/ \E k, v : EventFrom(k, v) /\ Event(k, v) \in Events /\ Emit(k, v)
  <1>0. TypeOK
    BY DEF Inv
  <1>1. CASE ScreenHandles
    <2>1. PICK k \in {"Ready", "Connected", "ConnectFailed", "Disconnected", "Master",
                      "DownloadFinished", "State"} : Take(k) /\ EventTo(k)
      BY <1>1 DEF ScreenHandles, Ready, ConnectedEvent, ConnectFailed, Disconnected, StateEvent,
         MasterEvent, DownloadFinished, EventTo
    <2> QED
      BY <2>1
  <1>2. CASE Opened
    <2>1. /\ session \in Interfaces
          /\ EventFrom("Connected", session) /\ EventFrom("ConnectFailed", None)
      BY <1>0, <1>2 DEF Opened, TypeOK, EventFrom
    <2>2. Emit("Connected", session) \/ Emit("ConnectFailed", None)
      BY <1>2 DEF Opened
    <2> QED
      BY <2>1, <2>2, EventFacts
  <1>3. CASE ReadState
    <2>1. PICK r \in Keys \cup {None} : Emit("State", r)
      BY <1>0, <1>3 DEF ReadState, Reading, TypeOK
    <2>2. EventFrom("State", r)
      BY <1>3 DEF EventFrom
    <2> QED
      BY <2>1, <2>2, EventFacts
  <1>4. CASE MasterStarted \/ StreamEnds
    <2>1. PICK b \in BOOLEAN : Emit("Master", b)
      BY <1>4 DEF MasterStarted, StreamEnds
    <2>2. EventFrom("Master", b)
      BY <1>4 DEF EventFrom
    <2> QED
      BY <2>1, <2>2, EventFacts
  <1>5. CASE DownloadReported \/ Closed
    <2>1. PICK k \in {"DownloadFinished", "Disconnected"} : Emit(k, None) /\ EventFrom(k, None)
      BY <1>5 DEF DownloadReported, Closed, EventFrom
    <2> QED
      BY <2>1, EventFacts
  <1>6. CASE HandleCommand
    <2>1. UNCHANGED events \/ Emit("Master", FALSE)
      BY <1>6 DEF HandleCommand
    <2>2. EventFrom("Master", FALSE)
      BY <1>6 DEF EventFrom
    <2> QED
      BY <1>6, <2>1, <2>2, EventFacts
  <1>7. CASE User
    BY <1>7 DEF User, ConnectPressed, DisconnectPressed, RefreshPressed, PollingToggled,
       InputChanged, BuildPlanPressed, ConfirmDownloadToggled, SendDownloadPressed,
       StartMasterPressed, StopMasterPressed
  <1>8. CASE Run \/ WriteFinished \/ Tick \/ Rewire \/ UNCHANGED vars
    BY <1>8 DEF Run, WriteFinished, Tick, Rewire, vars
  <1> QED
    BY <1>1, <1>2, <1>3, <1>4, <1>5, <1>6, <1>7, <1>8 DEF Next, TaskStep, Resume

\* An event is taken by the handler of its kind.
LEMMA EventsTake ==
  ASSUME Inv, [Next]_vars, NEW k, Take(k)
  PROVE  EventTo(k)
  <1>1. Len(events) \in Nat \ {0} /\ Len(events') = Len(events) - 1
    BY PopFacts DEF Take, Inv, TypeOK
  <1>2. ~(UNCHANGED events)
    BY <1>1
  <1>3. \A l, v : ~(Event(l, v) \in Events /\ Emit(l, v))
    BY <1>1, PushFacts DEF Emit, Inv, TypeOK
  <1> QED
    BY <1>2, <1>3, EventsMove DEF Take

\* A kind of command that this step does not queue does not appear.
LEMMA CommandsFewer ==
  ASSUME Inv, [Next]_vars, NEW kind, ~CommandFrom(kind)
  PROVE  /\ Has(commands, kind)' => Has(commands, kind)
         /\ AtMostOne(commands, kind) => AtMostOne(commands, kind)'
  <1>0. TypeOK
    BY DEF Inv
  <1>1. CASE UNCHANGED commands
    BY <1>1, SameQueues
  <1>2. CASE commands # <<>> /\ commands' = Tail(commands)
    <2>1. PICK k : k = NextCommand.kind
      OBVIOUS
    <2> QED
      BY <1>0, <1>2, <2>1, Received
  <1>3. ASSUME NEW k, NEW v, CommandFrom(k), Command(k, v) \in Commands,
               commands' = Append(commands, Command(k, v))
        PROVE  /\ Has(commands, kind)' => Has(commands, kind)
               /\ AtMostOne(commands, kind) => AtMostOne(commands, kind)'
    <2>1. k # kind
      BY <1>3
    <2> QED
      BY <1>0, <1>3, <2>1, Queued
  <1> QED
    BY <1>1, <1>2, <1>3, CommandsMove

\* Neither does a kind of event that it does not emit.
LEMMA EventsFewer ==
  ASSUME Inv, [Next]_vars, NEW kind, \A v : ~EventFrom(kind, v)
  PROVE  /\ Has(events, kind)' => Has(events, kind)
         /\ AtMostOne(events, kind) => AtMostOne(events, kind)'
  <1>0. TypeOK
    BY DEF Inv
  <1>1. CASE UNCHANGED events
    BY <1>1, SameQueues
  <1>2. ASSUME NEW k, Take(k)
        PROVE  /\ Has(events, kind)' => Has(events, kind)
               /\ AtMostOne(events, kind) => AtMostOne(events, kind)'
    BY <1>0, <1>2, Taken
  <1>3. ASSUME NEW k, NEW v, EventFrom(k, v), Event(k, v) \in Events, Emit(k, v)
        PROVE  /\ Has(events, kind)' => Has(events, kind)
               /\ AtMostOne(events, kind) => AtMostOne(events, kind)'
    <2>1. k # kind
      BY <1>3
    <2> QED
      BY <1>0, <1>3, <2>1, Emitted
  <1> QED
    BY <1>1, <1>2, <1>3, EventsMove

\* A kind of event that is not taken stays.
LEMMA EventsStay ==
  ASSUME Inv, [Next]_vars, NEW kind, ~Take(kind), Has(events, kind)
  PROVE  Has(events, kind)'
  <1>0. TypeOK
    BY DEF Inv
  <1>1. CASE UNCHANGED events
    BY <1>1, SameQueues
  <1>2. ASSUME NEW k, Take(k) PROVE Has(events, kind)'
    <2>1. k # kind
      BY <1>2
    <2> QED
      BY <1>0, <1>2, <2>1, Taken
  <1>3. ASSUME NEW k, NEW v, Event(k, v) \in Events, Emit(k, v) PROVE Has(events, kind)'
    BY <1>0, <1>3, Emitted
  <1> QED
    BY <1>1, <1>2, <1>3, EventsMove

-----------------------------------------------------------------------------
(***************************************************************************)
(* OneDownload.                                                            *)
(***************************************************************************)

\* Every step keeps at most one download under way.
LEMMA DownloadStep == ASSUME Inv, [Next]_vars PROVE OneDownload'
  <1>0. TypeOK /\ OneDownload
    BY DEF Inv, QueueDiscipline
  <1>1. CASE SendDownloadPressed
    <2>1. /\ ~Has(commands, "SendDownload") /\ download = None /\ ~Has(events, "DownloadFinished")
          /\ AtMostOne(events, "DownloadFinished")
      BY <1>0, <1>1, Zenon DEF SendDownloadPressed, can_send, OneDownload
    <2>2. sending' = TRUE /\ UNCHANGED <<download, events>>
      BY <1>1 DEF SendDownloadPressed, taskvars
    <2>3. AtMostOne(commands, "SendDownload")'
      <3> DEFINE d == [plan |-> plan, checks |-> preflight]
      <3>1. Send("SendDownload", d) /\ d \in Downloads
        BY <1>0, <1>1 DEF SendDownloadPressed, can_send, TypeOK, Plan, Downloads
      <3>2. Command("SendDownload", d) \in Commands
        BY <3>1, CommandFacts
      <3>3. AtMostOne(commands, "SendDownload")
        BY <1>0 DEF OneDownload
      <3> HIDE DEF d
      <3> QED
        BY <1>0, <2>1, <3>1, <3>2, <3>3, Queued, SentMove, SameQueues
    <2>4. ~Has(events, "DownloadFinished")' /\ AtMostOne(events, "DownloadFinished")'
      BY <2>1, <2>2, SameQueues
    <2> QED
      BY <2>1, <2>2, <2>3, <2>4 DEF OneDownload
  <1>2. CASE DownloadFinished
    <2>1. Take("DownloadFinished") /\ UNCHANGED <<download, commands>>
      BY <1>2 DEF DownloadFinished, taskvars
    <2>2. /\ Has(events, "DownloadFinished") /\ ~Has(events, "DownloadFinished")'
          /\ AtMostOne(events, "DownloadFinished")'
      BY <1>0, <2>1, Taken DEF OneDownload
    <2>3. /\ download = None /\ ~Has(commands, "SendDownload")'
          /\ AtMostOne(commands, "SendDownload")'
      BY <1>0, <2>1, <2>2, SameQueues DEF OneDownload
    <2> QED
      BY <2>1, <2>2, <2>3 DEF OneDownload
  <1>3. CASE DownloadReported
    <2>1. download # None /\ download' = None /\ UNCHANGED <<sending, commands>>
      BY <1>0, <1>3 DEF DownloadReported, TypeOK, screen
    <2>2. /\ ~Has(events, "DownloadFinished") /\ ~Has(commands, "SendDownload") /\ sending
          /\ AtMostOne(events, "DownloadFinished") /\ AtMostOne(commands, "SendDownload")
      BY <1>0, <2>1, Zenon DEF OneDownload
    <2>3. AtMostOne(events, "DownloadFinished")'
      BY <1>0, <1>3, <2>2, Emitted, EventFacts DEF DownloadReported
    <2>4. ~Has(commands, "SendDownload")' /\ AtMostOne(commands, "SendDownload")' /\ sending'
      BY <2>1, <2>2, SameQueues
    <2> QED
      BY <2>1, <2>3, <2>4 DEF OneDownload
  <1>4. CASE HandleCommand /\ NextCommand.kind = "SendDownload"
    <2>1. commands # <<>> /\ commands' = Tail(commands) /\ UNCHANGED <<sending, events>>
      BY <1>4 DEF HandleCommand, Receive, NextCommand, screen
    <2>2. /\ Has(commands, "SendDownload") /\ ~Has(commands, "SendDownload")'
          /\ AtMostOne(commands, "SendDownload")'
      BY <1>0, <1>4, <2>1, Received DEF OneDownload
    <2>3. sending /\ ~Has(events, "DownloadFinished") /\ AtMostOne(events, "DownloadFinished")
      BY <1>0, <2>2, Zenon DEF OneDownload
    <2>4. sending' /\ ~Has(events, "DownloadFinished")' /\ AtMostOne(events, "DownloadFinished")'
      BY <2>1, <2>3, SameQueues
    <2> QED
      BY <2>2, <2>4 DEF OneDownload
  <1>5. CASE ~SendDownloadPressed /\ ~DownloadFinished /\ ~DownloadReported
             /\ ~(HandleCommand /\ NextCommand.kind = "SendDownload")
    <2>1. /\ Has(commands, "SendDownload")' => Has(commands, "SendDownload")
          /\ AtMostOne(commands, "SendDownload") => AtMostOne(commands, "SendDownload")'
      BY <1>5, CommandsFewer DEF CommandFrom
    <2>2. /\ Has(events, "DownloadFinished")' => Has(events, "DownloadFinished")
          /\ AtMostOne(events, "DownloadFinished") => AtMostOne(events, "DownloadFinished")'
      BY <1>5, EventsFewer DEF EventFrom
    <2>3. UNCHANGED <<sending, download>>
      <3>1. CASE HandleCommand
        BY <1>5, <3>1 DEF HandleCommand, Receive, NextCommand, screen
      <3>2. CASE Run \/ Opened \/ ReadState \/ MasterStarted \/ WriteFinished \/ Closed \/ Tick
                 \/ StreamEnds
        BY <3>2 DEF Run, Opened, ReadState, MasterStarted, WriteFinished, Closed, Tick,
           StreamEnds, screen
      <3>3. CASE User
        BY <1>5, <3>3 DEF User, ConnectPressed, DisconnectPressed, RefreshPressed,
           PollingToggled, InputChanged, BuildPlanPressed, ConfirmDownloadToggled,
           StartMasterPressed, StopMasterPressed, screen, taskvars
      <3>4. CASE ScreenHandles \/ Rewire \/ UNCHANGED vars
        BY <1>5, <3>4 DEF ScreenHandles, Ready, ConnectedEvent, ConnectFailed, Disconnected,
           StateEvent, MasterEvent, Rewire, vars, screen, taskvars
      <3> QED
        BY <1>5, <3>1, <3>2, <3>3, <3>4 DEF Next, TaskStep, Resume
    <2>4. sending' <=> sending
      BY <2>3
    <2> QED
      BY <1>0, <2>1, <2>2, <2>3, <2>4 DEF OneDownload
  <1> QED
    BY <1>1, <1>2, <1>3, <1>4, <1>5

-----------------------------------------------------------------------------
(***************************************************************************)
(* Linked.                                                                 *)
(***************************************************************************)

\* The kinds of events that are about the connection.
ConnectionEvents == {"Connected", "ConnectFailed", "Disconnected"}

\* The task opens a session for the screen only while the screen waits for it,
\* and closes one only while the screen believes in it.
LEMMA LinkFacts ==
  ASSUME Inv
  PROVE  /\ task = "opening" => /\ connection = "Connecting" /\ session # "none"
                                /\ \A k \in ConnectionEvents : ~Has(events, k)
                                /\ ~Has(commands, "Connect")
         /\ task = "closing" => /\ connection \in Interfaces /\ session # "none"
                                /\ \A k \in ConnectionEvents : ~Has(events, k)
                                /\ ~Has(commands, "Connect")
         /\ Has(commands, "Connect") =>
              /\ connection = "Connecting" /\ session = "none" /\ task = "waiting"
              /\ \A k \in ConnectionEvents : ~Has(events, k)
  <1>1. TypeOK /\ Linked
    BY DEF Inv
  <1>2. task = "opening" \/ task = "closing" => session # "none"
    BY <1>1 DEF TypeOK
  <1>3. connection \in {"Disconnected", "Connecting"} \cup Interfaces
    BY <1>1 DEF TypeOK
  <1>4. task = "opening" => connection = "Connecting"
    BY <1>1, <1>2, <1>3 DEF Linked, Interfaces
  <1>5. task = "closing" => connection \in Interfaces
    BY <1>1, <1>2, <1>3 DEF Linked, Interfaces
  <1>6. Has(commands, "Connect") => connection = "Connecting"
    BY <1>1, <1>3 DEF Linked, Interfaces
  <1>7. connection \in Interfaces => connection # "Connecting" /\ connection # "Disconnected"
    BY DEF Interfaces
  <1> QED
    BY <1>1, <1>2, <1>4, <1>5, <1>6, <1>7 DEF Linked, ConnectionEvents, TypeOK

\* A Connected event in the queue names the session that is open.
NamesSession == \A i \in InQueue(events, "Connected") : events[i].arg = session
LEMMA NamesStep ==
  ASSUME Inv, [Next]_vars, UNCHANGED session
  PROVE  NamesSession'
  <1>0. TypeOK /\ NamesSession
    BY DEF Inv, Linked, NamesSession
  <1>1. CASE UNCHANGED events
    BY <1>0, <1>1 DEF NamesSession, InQueue
  <1>2. ASSUME NEW k, Take(k) PROVE NamesSession'
    BY <1>0, <1>2, Taken DEF NamesSession, InQueue
  <1>3. ASSUME NEW k, NEW v, EventFrom(k, v), Event(k, v) \in Events, Emit(k, v)
        PROVE  NamesSession'
    <2>1. k = "Connected" => v = session
      BY <1>3 DEF EventFrom
    <2>2. \A i \in DOMAIN events' : i = Len(events) + 1 \/ i \in DOMAIN events
      BY <1>0, <1>3, Emitted
    <2> QED
      BY <1>0, <1>3, <2>1, <2>2, Emitted DEF NamesSession, InQueue
  <1> QED
    BY <1>1, <1>2, <1>3, EventsMove
LEMMA NamesNone == ~Has(events, "Connected")' => NamesSession'
  BY DEF NamesSession, Has

\* What is said of the queues alone.
LEMMA OnceStep ==
  ASSUME Inv, [Next]_vars
  PROVE  /\ AtMostOne(commands, "Connect")'
         /\ \A k \in ConnectionEvents : AtMostOne(events, k)'
         /\ ~commands_ready' => commands' = <<>> /\ session' = "none"
  <1>0. TypeOK
    BY DEF Inv
  <1>1. AtMostOne(commands, "Connect")'
    <2>1. CASE ConnectPressed
      <3>1. ~Has(commands, "Connect") /\ AtMostOne(commands, "Connect")
        BY <2>1 DEF ConnectPressed, Inv, Linked
      <3>2. PICK i \in Interfaces : Send("Connect", i)
        BY <2>1 DEF ConnectPressed
      <3> QED
        BY <1>0, <3>1, <3>2, Queued, SentMove, SameQueues, CommandFacts
    <2>2. CASE ~ConnectPressed
      BY <2>2, CommandsFewer DEF CommandFrom, Inv, Linked
    <2> QED
      BY <2>1, <2>2
  <1>2. ASSUME NEW k \in ConnectionEvents PROVE AtMostOne(events, k)'
    <2>0. AtMostOne(events, k)
      BY DEF Inv, Linked, ConnectionEvents
    <2>1. CASE \E v : EventFrom(k, v)
      <3>1. ~Has(events, k)
        BY <2>1, LinkFacts DEF EventFrom, Opened, Closed, ConnectionEvents
      <3>2. CASE UNCHANGED events
        BY <2>0, <3>2, SameQueues
      <3>3. ASSUME NEW l, Take(l) PROVE AtMostOne(events, k)'
        BY <1>0, <2>0, <3>3, Taken
      <3>4. ASSUME NEW l, NEW v, Event(l, v) \in Events, Emit(l, v) PROVE AtMostOne(events, k)'
        BY <1>0, <2>0, <3>1, <3>4, Emitted
      <3> QED
        BY <3>2, <3>3, <3>4, EventsMove
    <2>2. CASE \A v : ~EventFrom(k, v)
      BY <2>0, <2>2, EventsFewer
    <2> QED
      BY <2>1, <2>2
  <1>3. ASSUME ~commands_ready' PROVE commands' = <<>> /\ session' = "none"
    <2>1. ~commands_ready /\ commands = <<>> /\ session = "none" /\ task = "waiting"
      <3>1. CASE User
        BY <1>3, <3>1, Zenon DEF User, ConnectPressed, DisconnectPressed, RefreshPressed,
           PollingToggled, InputChanged, BuildPlanPressed, ConfirmDownloadToggled,
           SendDownloadPressed, StartMasterPressed, StopMasterPressed, screen, Inv, Linked, TypeOK
      <3>2. CASE ScreenHandles
        BY <1>3, <3>2, Zenon DEF ScreenHandles, Ready, ConnectedEvent, ConnectFailed,
           Disconnected, StateEvent, MasterEvent, DownloadFinished, Inv, Linked, TypeOK
      <3>3. CASE TaskStep \/ Rewire \/ UNCHANGED vars
        <4>1. UNCHANGED screen
          BY <3>3 DEF TaskStep, Resume, Run, Opened, HandleCommand, Tick, ReadState,
             MasterStarted, StreamEnds, WriteFinished, DownloadReported, Closed, Rewire, vars
        <4> QED
          BY <1>3, <4>1 DEF screen, Inv, Linked, TypeOK
      <3> QED
        BY <3>1, <3>2, <3>3 DEF Next
    <2>2. ~Has(events, "Connected")
      BY <2>1, <1>0 DEF Inv, Linked, TypeOK, Interfaces
    <2>3. ~ConnectedEvent
      BY <1>0, <2>2, Taken DEF ConnectedEvent
    <2>4. ~Run /\ ~HandleCommand
      BY <2>1 DEF Run, HandleCommand
    <2>6. UNCHANGED session
      BY <2>1, <2>4 DEF Next, User, ScreenHandles, TaskStep, Resume, ConnectPressed,
         DisconnectPressed, RefreshPressed, PollingToggled, InputChanged, BuildPlanPressed,
         ConfirmDownloadToggled, SendDownloadPressed, StartMasterPressed, StopMasterPressed,
         Ready, ConnectedEvent, ConnectFailed, Disconnected, StateEvent, MasterEvent,
         DownloadFinished, Opened, Tick, ReadState, MasterStarted, StreamEnds, WriteFinished,
         DownloadReported, Closed, Rewire, vars, taskvars
    <2>7. UNCHANGED commands
      <3>1. CASE ConnectPressed \/ DisconnectPressed \/ RefreshPressed \/ PollingToggled
                 \/ SendDownloadPressed \/ StartMasterPressed \/ StopMasterPressed
        BY <2>1, <3>1 DEF ConnectPressed, DisconnectPressed, RefreshPressed, PollingToggled,
           SendDownloadPressed, StartMasterPressed, StopMasterPressed, Send
      <3>2. CASE ~(ConnectPressed \/ DisconnectPressed \/ RefreshPressed \/ PollingToggled
                 \/ SendDownloadPressed \/ StartMasterPressed \/ StopMasterPressed)
        BY <2>3, <2>4, <3>2, CommandsMove DEF CommandFrom
      <3> QED
        BY <3>1, <3>2
    <2> QED
      BY <2>1, <2>6, <2>7
  <1> QED
    BY <1>1, <1>2, <1>3

\* The part of Linked that relates the screen to the task.
Ends ==
  /\ connection = "Disconnected" =>
       /\ session = "none" /\ ~Has(commands, "Connect") /\ ~Has(events, "Connected")
       /\ ~Has(events, "ConnectFailed") /\ ~Has(events, "Disconnected")
  /\ connection = "Connecting" =>
       /\ Has(commands, "Connect") => session = "none" /\ ~Has(events, "ConnectFailed")
       /\ session # "none" => ~Has(events, "ConnectFailed")
       /\ Has(events, "Connected") <=> session # "none" /\ task # "opening"
       /\ session # "none" => task \in {"opening", "connected", "reading"}
       /\ ~Has(events, "Disconnected")
  /\ connection \in Interfaces =>
       /\ ~Has(commands, "Connect") /\ ~Has(events, "Connected")
       /\ ~Has(events, "ConnectFailed") /\ task # "opening"
       /\ Has(events, "Disconnected") <=> session = "none"
       /\ session # "none" => session = connection
LEMMA LinkedEnds == Inv => Ends
  BY DEF Inv, Linked, Ends, Interfaces

\* A step that is not about the connection leaves them where they are.
LEMMA EndsKept ==
  ASSUME Inv, [Next]_vars, UNCHANGED <<connection, session>>,
         ~ConnectPressed, ~Opened, ~Closed, ~ConnectedEvent, ~ConnectFailed, ~Disconnected,
         task' = "opening" <=> task = "opening",
         connection = "Connecting" /\ session # "none" => task' \in {"opening", "connected", "reading"}
  PROVE  Ends'
  <1>1. Has(commands, "Connect")' => Has(commands, "Connect")
    BY CommandsFewer DEF CommandFrom
  <1>2. \A k \in ConnectionEvents : Has(events, k)' <=> Has(events, k)
    <2> SUFFICES ASSUME NEW k \in ConnectionEvents PROVE Has(events, k)' <=> Has(events, k)
      OBVIOUS
    <2>1. Has(events, k)' => Has(events, k)
      BY EventsFewer DEF EventFrom, ConnectionEvents
    <2>2. CASE Take(k)
      BY <2>2, EventsTake DEF ConnectionEvents, EventTo
    <2> QED
      BY <2>1, <2>2, EventsStay
  <1> QED
    BY <1>1, <1>2, LinkedEnds DEF Ends, ConnectionEvents

\* The screen asks for a connection, or hears of one.
LEMMA EndsScreen ==
  ASSUME Inv, [Next]_vars, ConnectPressed \/ ConnectedEvent \/ ConnectFailed \/ Disconnected
  PROVE  Ends' /\ NamesSession'
  <1>0. TypeOK /\ Ends /\ NamesSession /\ \A k \in ConnectionEvents : AtMostOne(events, k)
    BY LinkedEnds DEF Inv, Linked, NamesSession, ConnectionEvents
  <1>1. UNCHANGED <<session, task>>
    BY DEF ConnectPressed, ConnectedEvent, ConnectFailed, Disconnected, taskvars
  <1>2. CASE ConnectPressed
    <2>1. /\ connection = "Disconnected" /\ connection' = "Connecting" /\ UNCHANGED events
          /\ connection' \notin Interfaces
      BY <1>2 DEF ConnectPressed, Interfaces
    <2>2. \A k \in ConnectionEvents : ~Has(events, k)'
      BY <1>0, <2>1, SameQueues DEF Ends, ConnectionEvents
    <2> QED
      BY <1>0, <1>1, <2>1, <2>2, NamesStep DEF Ends, ConnectionEvents
  <1>3. CASE ConnectedEvent
    <2>1. /\ Take("Connected") /\ connection' = arg /\ Has(events, "Connected")
      BY <1>0, <1>3, Taken DEF ConnectedEvent
    <2>2. connection = "Connecting"
      BY <1>0, <2>1 DEF Ends, TypeOK
    <2>3. /\ session # "none" /\ task # "opening" /\ ~Has(commands, "Connect")
          /\ ~Has(events, "ConnectFailed") /\ ~Has(events, "Disconnected")
      BY <1>0, <2>1, <2>2 DEF Ends
    <2>4. ~Has(commands, "Connect")'
      <3>1. ~ConnectPressed
        BY <2>2 DEF ConnectPressed
      <3> QED
        BY <2>3, <3>1, CommandsFewer DEF CommandFrom
    <2>5. \A k \in ConnectionEvents : ~Has(events, k)'
      BY <1>0, <2>1, <2>3, Taken DEF ConnectionEvents
    <2>6. arg = session
      BY <1>0, <2>1, Taken DEF NamesSession, InQueue
    <2>7. session \in Interfaces
      BY <1>0, <2>3 DEF TypeOK
    <2> QED
      BY <1>0, <1>1, <2>1, <2>3, <2>4, <2>5, <2>6, <2>7, NamesStep
      DEF Ends, ConnectionEvents, Interfaces
  <1>4. CASE ConnectFailed \/ Disconnected
    <2>1. PICK k \in {"ConnectFailed", "Disconnected"} : Take(k)
      BY <1>4 DEF ConnectFailed, Disconnected
    <2>2. connection' = "Disconnected" /\ UNCHANGED commands /\ connection' \notin Interfaces
      BY <1>4 DEF ConnectFailed, Disconnected, Interfaces
    <2>3. Has(events, k)
      BY <1>0, <2>1, Taken
    <2>4. /\ session = "none" /\ ~Has(commands, "Connect")
          /\ \A l \in ConnectionEvents : l # k => ~Has(events, l)
      <3>1. connection = "Connecting" \/ connection \in Interfaces
        BY <1>0, <2>1, <2>3 DEF Ends, TypeOK
      <3>2. CASE connection = "Connecting"
        BY <1>0, <2>1, <2>3, <3>2 DEF Ends, ConnectionEvents
      <3>3. CASE connection \in Interfaces
        BY <1>0, <2>1, <2>3, <3>3 DEF Ends, ConnectionEvents
      <3> QED
        BY <3>1, <3>2, <3>3
    <2>5. \A l \in ConnectionEvents : ~Has(events, l)'
      BY <1>0, <2>1, <2>4, Taken DEF ConnectionEvents
    <2>6. ~Has(commands, "Connect")'
      BY <2>2, <2>4, SameQueues
    <2> QED
      BY <1>1, <2>2, <2>4, <2>5, <2>6, NamesStep DEF Ends, ConnectionEvents
  <1> QED
    BY <1>2, <1>3, <1>4

\* The task opens a session, or closes one.
LEMMA EndsTask ==
  ASSUME Inv, [Next]_vars, Run \/ Opened \/ Closed
  PROVE  Ends' /\ NamesSession'
  <1>0. TypeOK /\ Ends /\ UNCHANGED screen
    BY LinkedEnds DEF Inv, Run, Opened, Closed
  <1>1. CASE Run
    <2>1. /\ task = "waiting" /\ commands # <<>> /\ commands' = Tail(commands) /\ UNCHANGED events
      BY <1>1 DEF Run
    <2>2. CASE NextCommand.kind # "Connect"
      <3>1. UNCHANGED <<connection, session, task>>
        BY <1>0, <1>1, <2>2 DEF Run, screen
      <3>2. session = "none"
        BY <1>0, <2>1 DEF TypeOK
      <3>3. \A k : Has(events, k)' <=> Has(events, k)
        BY <2>1, SameQueues
      <3>4. Has(commands, "Connect")' => Has(commands, "Connect")
        <4>1. PICK k : k = NextCommand.kind
          OBVIOUS
        <4> QED
          BY <1>0, <2>1, <4>1, Received
      <3> QED
        BY <1>0, <3>1, <3>2, <3>3, <3>4, NamesStep DEF Ends
    <2>3. CASE NextCommand.kind = "Connect"
      <3>1. task' = "opening" /\ session' = NextCommand.arg /\ UNCHANGED connection
        BY <1>0, <1>1, <2>3 DEF Run, screen
      <3>2. Has(commands, "Connect") /\ ~Has(commands, "Connect")'
        BY <1>0, <2>1, <2>3, Received DEF Inv, Linked
      <3>3. connection = "Connecting" /\ \A k \in ConnectionEvents : ~Has(events, k)
        BY <3>2, LinkFacts
      <3>4. \A k \in ConnectionEvents : ~Has(events, k)'
        BY <2>1, <3>3, SameQueues
      <3>5. connection' \notin Interfaces /\ connection' = "Connecting"
        BY <3>1, <3>3 DEF Interfaces
      <3> QED
        BY <3>1, <3>2, <3>4, <3>5, NamesNone DEF Ends, ConnectionEvents
    <2> QED
      BY <2>2, <2>3
  <1>2. CASE Opened
    <2>1. /\ task = "opening" /\ UNCHANGED <<connection, commands>> /\ connection = "Connecting"
          /\ \A k \in ConnectionEvents : ~Has(events, k)
          /\ ~Has(commands, "Connect") /\ session # "none"
      BY <1>0, <1>2, LinkFacts DEF Opened, screen
    <2>2. ~Has(commands, "Connect")' /\ connection' = "Connecting" /\ connection' \notin Interfaces
      BY <2>1, SameQueues DEF Interfaces
    <2>3. session \in Interfaces
      BY <1>0, <2>1 DEF TypeOK
    <2>4. CASE task' = "connected" /\ UNCHANGED session /\ Emit("Connected", session)
      <3>1. Has(events, "Connected")' /\ \A k \in ConnectionEvents : k # "Connected" => ~Has(events, k)'
        BY <1>0, <2>1, <2>3, <2>4, Emitted, EventFacts
      <3> QED
        BY <2>1, <2>2, <2>4, <3>1, NamesStep DEF Ends, ConnectionEvents
    <2>5. CASE task' = "waiting" /\ session' = "none" /\ Emit("ConnectFailed", None)
      <3>1. \A k \in ConnectionEvents : k # "ConnectFailed" => ~Has(events, k)'
        BY <1>0, <2>1, <2>5, Emitted, EventFacts
      <3> QED
        BY <2>1, <2>2, <2>5, <3>1, NamesNone DEF Ends, ConnectionEvents
    <2> QED
      BY <1>2, <2>4, <2>5 DEF Opened
  <1>3. CASE Closed
    <2>1. /\ task = "closing" /\ UNCHANGED <<connection, commands>> /\ connection \in Interfaces
          /\ \A k \in ConnectionEvents : ~Has(events, k)
          /\ ~Has(commands, "Connect")
          /\ task' = "waiting" /\ session' = "none" /\ Emit("Disconnected", None)
      BY <1>0, <1>3, LinkFacts DEF Closed, screen
    <2>2. ~Has(commands, "Connect")' /\ connection' \in Interfaces
      BY <2>1, SameQueues
    <2>3. /\ Has(events, "Disconnected")'
          /\ \A k \in ConnectionEvents : k # "Disconnected" => ~Has(events, k)'
      BY <1>0, <2>1, Emitted, EventFacts
    <2> QED
      BY <2>1, <2>2, <2>3, NamesNone DEF Ends, ConnectionEvents, Interfaces
  <1> QED
    BY <1>1, <1>2, <1>3

\* Every step keeps the screen and the task linked.
LEMMA LinkedStep == ASSUME Inv, [Next]_vars PROVE Linked'
  <1>0. TypeOK
    BY DEF Inv
  <1>1. Ends' /\ NamesSession'
    <2>1. CASE ConnectPressed \/ ConnectedEvent \/ ConnectFailed \/ Disconnected
      BY <2>1, EndsScreen
    <2>2. CASE Run \/ Opened \/ Closed
      BY <2>2, EndsTask
    <2>3. ASSUME ~(ConnectPressed \/ ConnectedEvent \/ ConnectFailed \/ Disconnected),
                 ~(Run \/ Opened \/ Closed)
          PROVE  Ends' /\ NamesSession'
      <3>1. UNCHANGED <<connection, session>>
        BY <2>3 DEF Next, User, ScreenHandles, TaskStep, Resume, DisconnectPressed,
           RefreshPressed, PollingToggled, InputChanged, BuildPlanPressed,
           ConfirmDownloadToggled, SendDownloadPressed, StartMasterPressed, StopMasterPressed,
           Ready, StateEvent, MasterEvent, DownloadFinished, HandleCommand, Tick, ReadState,
           MasterStarted, StreamEnds, WriteFinished, DownloadReported, Rewire, vars, screen, taskvars
      <3>2. CASE HandleCommand
        <4>1. /\ commands # <<>> /\ NextCommand = commands[1] /\ 1 \in DOMAIN commands
              /\ task = "connected" /\ session # "none"
          <5>1. commands # <<>> /\ task = "connected"
            BY <3>2 DEF HandleCommand, Receive
          <5> QED
            BY <1>0, <5>1, PopFacts DEF NextCommand, TypeOK
        <4>2. connection = "Connecting" => NextCommand.kind = "SetPolling"
          BY <4>1 DEF Inv, QueueDiscipline, CommandsStayInSession
        <4>3. NextCommand.kind = "SetPolling" => UNCHANGED task
          BY <3>2 DEF HandleCommand, Receive, NextCommand
        <4>4. task' # "opening"
          BY <3>2, <4>1 DEF HandleCommand
        <4> QED
          BY <2>3, <3>1, <4>1, <4>2, <4>3, <4>4, EndsKept, NamesStep
      <3>3. CASE ~HandleCommand
        <4>1. task' = "opening" <=> task = "opening"
          BY <2>3, <3>3 DEF Next, User, ScreenHandles, TaskStep, Resume, DisconnectPressed,
             RefreshPressed, PollingToggled, InputChanged, BuildPlanPressed,
             ConfirmDownloadToggled, SendDownloadPressed, StartMasterPressed, StopMasterPressed,
             Ready, StateEvent, MasterEvent, DownloadFinished, Tick, ReadState,
             MasterStarted, StreamEnds, WriteFinished, DownloadReported, Rewire, vars, taskvars
        <4>2. task \in {"opening", "connected", "reading"}
                => task' \in {"opening", "connected", "reading"}
          BY <2>3, <3>3 DEF Next, User, ScreenHandles, TaskStep, Resume, DisconnectPressed,
             RefreshPressed, PollingToggled, InputChanged, BuildPlanPressed,
             ConfirmDownloadToggled, SendDownloadPressed, StartMasterPressed, StopMasterPressed,
             Ready, StateEvent, MasterEvent, DownloadFinished, Tick, ReadState,
             MasterStarted, StreamEnds, WriteFinished, DownloadReported, Rewire, vars, taskvars
        <4>3. connection = "Connecting" /\ session # "none"
                => task \in {"opening", "connected", "reading"}
          BY DEF Inv, Linked
        <4> QED
          BY <2>3, <3>1, <4>1, <4>2, <4>3, EndsKept, NamesStep
      <3> QED
        BY <3>2, <3>3
    <2> QED
      BY <2>1, <2>2, <2>3
  <1>2. TypeOK'
    BY TypeStep
  <1> QED
    BY <1>1, <1>2, OnceStep DEF Linked, NamesSession, ConnectionEvents, Ends, TypeOK,
       Interfaces

-----------------------------------------------------------------------------
(***************************************************************************)
(* CommandsStayInSession and Bounded.                                      *)
(***************************************************************************)

\* While the screen is connecting it sends nothing but orders about refreshing.
LEMMA SentWhileConnecting ==
  ASSUME Inv, [Next]_vars, connection = "Connecting", connection' = "Connecting",
         NEW k, CommandFrom(k), NEW v, Command(k, v) \in Commands
  PROVE  k = "SetPolling" /\ PollingToggled
  <1>0. k \in {"Connect", "SetPolling", "SendDownload", "Disconnect", "ReadState", "StartMaster",
               "StopMaster"}
    BY CommandFacts DEF Command
  <1>1. ~Connected /\ connection # "raw"
    BY DEF Connected
  <1>2. ~ConnectedEvent
    <2> SUFFICES ASSUME ConnectedEvent PROVE FALSE
      OBVIOUS
    <2>1. Take("Connected") /\ connection' = arg
      BY DEF ConnectedEvent
    <2>2. arg \in Interfaces
      BY <2>1, Taken, EventFacts DEF Inv
    <2> QED
      BY <2>1, <2>2 DEF Interfaces
  <1>3. ~StopMasterPressed
    BY <1>1 DEF StopMasterPressed, Inv, MasterTold
  <1>4. ~ConnectPressed /\ ~SendDownloadPressed /\ ~RefreshPressed /\ ~DisconnectPressed
        /\ ~StartMasterPressed
    BY <1>1 DEF ConnectPressed, SendDownloadPressed, can_send, RefreshPressed,
       DisconnectPressed, StartMasterPressed
  <1> QED
    BY <1>0, <1>2, <1>3, <1>4 DEF CommandFrom

\* The user's commands are bounded.
LEMMA UserBound ==
  ASSUME NEW k, CommandFrom(k), k # "Connect", ~ConnectedEvent
  PROVE  Len(commands) < MaxCommands
  <1>1. \E l, v : l # "Connect" /\ Send(l, v)
    <2>1. CASE PollingToggled
      BY <2>1 DEF PollingToggled
    <2>2. CASE SendDownloadPressed
      BY <2>2 DEF SendDownloadPressed
    <2>3. CASE RefreshPressed \/ DisconnectPressed \/ StartMasterPressed \/ StopMasterPressed
      BY <2>3 DEF RefreshPressed, DisconnectPressed, StartMasterPressed, StopMasterPressed
    <2> QED
      BY <2>1, <2>2, <2>3 DEF CommandFrom
  <1> QED
    BY <1>1 DEF Send

\* Steps about the connection, by what they do to the screen and the session.
LEMMA ConnectingStep ==
  ASSUME Inv, [Next]_vars, connection' = "Connecting", session' # "none"
  PROVE  /\ connection = "Connecting"
         /\ session = "none" => /\ Run /\ NextCommand.kind = "Connect" /\ commands # <<>>
                                /\ commands' = Tail(commands)
  <1>1. CASE ConnectPressed
    <2>1. session' = "none"
      BY <1>1 DEF ConnectPressed, taskvars, Inv, Linked
    <2> QED
      BY <2>1
  <1>2. CASE Run
    <2>1. UNCHANGED connection /\ commands # <<>> /\ commands' = Tail(commands)
      BY <1>2 DEF Run, screen
    <2>2. session = "none" => NextCommand.kind = "Connect"
      BY <1>2 DEF Run
    <2> QED
      BY <1>2, <2>1, <2>2
  <1>3. CASE Opened \/ Closed
    BY <1>3 DEF Opened, Closed, screen, Inv, TypeOK
  <1>4. CASE ConnectedEvent
    <2>1. Take("Connected") /\ connection' = arg
      BY <1>4 DEF ConnectedEvent
    <2>2. arg \in Interfaces
      BY <2>1, Taken, EventFacts DEF Inv
    <2> QED
      BY <2>1, <2>2 DEF Interfaces
  <1>5. ASSUME ~ConnectPressed, ~Run, ~Opened, ~Closed, ~ConnectedEvent
        PROVE  connection = "Connecting" /\ session # "none"
    BY <1>5 DEF Next, User, ScreenHandles, TaskStep, Resume, DisconnectPressed,
       RefreshPressed, PollingToggled, InputChanged, BuildPlanPressed,
       ConfirmDownloadToggled, SendDownloadPressed, StartMasterPressed, StopMasterPressed,
       Ready, ConnectFailed, Disconnected, StateEvent, MasterEvent, DownloadFinished,
       HandleCommand, Tick, ReadState, MasterStarted, StreamEnds, WriteFinished,
       DownloadReported, Rewire, vars, screen, taskvars
  <1> QED
    BY <1>1, <1>2, <1>3, <1>4, <1>5

\* Every step keeps the commands in their session.
LEMMA StayStep == ASSUME Inv, [Next]_vars PROVE CommandsStayInSession'
  <1> SUFFICES ASSUME session' # "none", connection' = "Connecting", NEW i \in DOMAIN commands'
               PROVE  commands'[i].kind = "SetPolling"
    BY DEF CommandsStayInSession
  <1>0. TypeOK /\ connection = "Connecting"
    BY ConnectingStep DEF Inv
  <1>1. session # "none" => \A j \in DOMAIN commands : commands[j].kind = "SetPolling"
    BY <1>0 DEF Inv, QueueDiscipline, CommandsStayInSession
  <1>2. CASE session = "none"
    <2>1. commands # <<>> /\ commands' = Tail(commands) /\ NextCommand.kind = "Connect"
      BY <1>2, ConnectingStep
    <2>2. /\ 1 \in InQueue(commands, "Connect") /\ i + 1 \in DOMAIN commands /\ 1 < i + 1
          /\ commands'[i] = commands[i + 1]
      BY <1>0, <2>1, Received DEF InQueue
    <2> QED
      BY <2>2 DEF Inv, Bounded
  <1>3. CASE UNCHANGED commands
    BY <1>1, <1>2, <1>3
  <1>4. CASE commands # <<>> /\ commands' = Tail(commands)
    <2>1. i + 1 \in DOMAIN commands /\ commands'[i] = commands[i + 1]
      BY <1>0, <1>4, PopFacts DEF TypeOK
    <2> QED
      BY <1>1, <1>2, <2>1
  <1>5. ASSUME NEW k, NEW v, CommandFrom(k), Command(k, v) \in Commands,
               commands' = Append(commands, Command(k, v))
        PROVE  commands'[i].kind = "SetPolling"
    <2>1. k = "SetPolling"
      BY <1>0, <1>5, SentWhileConnecting
    <2>2. (i \in DOMAIN commands /\ commands'[i] = commands[i]) \/ commands'[i].kind = k
      BY <1>0, <1>5, Queued
    <2> QED
      BY <1>1, <1>2, <2>1, <2>2
  <1> QED
    BY <1>3, <1>4, <1>5, CommandsMove

\* Every step keeps the commands bounded.
LEMMA BoundedStep == ASSUME Inv, [Next]_vars PROVE Bounded'
  <1> DEFINE B == /\ ~Has(commands', "Connect") => Len(commands') <= MaxCommands + 1
                  /\ session' # "none" /\ connection' = "Connecting" => Len(commands') <= MaxCommands
                  /\ \A i \in InQueue(commands', "Connect") :
                       /\ i = Len(commands') \/ Len(commands') <= MaxCommands
                       /\ \A j \in DOMAIN commands' : i < j => commands'[j].kind = "SetPolling"
  <1>0. TypeOK /\ Bounded /\ MaxCommands \in Nat
    BY BoundFacts DEF Inv
  <1>1. CASE UNCHANGED commands
    <2>1. session' # "none" /\ connection' = "Connecting" => session # "none" /\ connection = "Connecting"
      <3> SUFFICES ASSUME session' # "none", connection' = "Connecting", session = "none" PROVE FALSE
        BY ConnectingStep
      <3>1. commands # <<>> /\ commands' = Tail(commands)
        BY ConnectingStep
      <3> QED
        BY <1>0, <1>1, <3>1, PopFacts DEF TypeOK
    <2> QED
      BY <1>0, <1>1, <2>1 DEF Bounded, Has, InQueue
  <1>2. CASE commands # <<>> /\ commands' = Tail(commands)
    <2>0. /\ Len(commands) \in Nat \ {0} /\ Len(commands') = Len(commands) - 1
          /\ Len(commands) <= MaxCommands + 2
          /\ DOMAIN commands = 1..Len(commands) /\ DOMAIN commands' = 1..(Len(commands) - 1)
          /\ \A i \in DOMAIN commands' : commands'[i] = commands[i + 1]
          /\ NextCommand = commands[1]
      BY <1>0, <1>2, PopFacts DEF TypeOK, NextCommand
    <2>1. session' # "none" /\ connection' = "Connecting" => Len(commands') <= MaxCommands
      <3> SUFFICES ASSUME session' # "none", connection' = "Connecting"
                   PROVE  Len(commands') <= MaxCommands
        OBVIOUS
      <3>1. CASE session = "none"
        <4>1. 1 \in InQueue(commands, "Connect")
          BY <2>0, <3>1, ConnectingStep DEF InQueue
        <4>2. 1 = Len(commands) \/ Len(commands) <= MaxCommands
          BY <1>0, <4>1 DEF Bounded
        <4> QED
          BY <1>0, <2>0, <4>2
      <3>2. CASE session # "none"
        BY <1>0, <2>0, <3>2, ConnectingStep DEF Bounded
      <3> QED
        BY <3>1, <3>2
    <2>2. Len(commands') <= MaxCommands + 1
      BY <1>0, <2>0
    <2>3. ASSUME NEW i \in InQueue(commands', "Connect")
          PROVE  /\ i = Len(commands') \/ Len(commands') <= MaxCommands
                 /\ \A j \in DOMAIN commands' : i < j => commands'[j].kind = "SetPolling"
      <3>1. i + 1 \in InQueue(commands, "Connect") /\ i \in Nat
        BY <2>0, <2>3 DEF InQueue
      <3>2. /\ i + 1 = Len(commands) \/ Len(commands) <= MaxCommands
            /\ \A j \in DOMAIN commands : i + 1 < j => commands[j].kind = "SetPolling"
        BY <1>0, <3>1 DEF Bounded
      <3> QED
        BY <1>0, <2>0, <3>1, <3>2
    <2>4. B
      BY <2>1, <2>2, <2>3
    <2> QED
      BY <2>4 DEF Bounded, Has, InQueue
  <1>3. ASSUME NEW k, NEW v, CommandFrom(k), Command(k, v) \in Commands,
               commands' = Append(commands, Command(k, v))
        PROVE  Bounded'
    <2>0. /\ Len(commands) \in Nat /\ Len(commands') = Len(commands) + 1
          /\ DOMAIN commands = 1..Len(commands) /\ DOMAIN commands' = 1..(Len(commands) + 1)
          /\ \A i \in DOMAIN commands : commands'[i] = commands[i]
          /\ commands'[Len(commands) + 1].kind = k
      BY <1>0, <1>3, Queued
    <2>1. CASE ConnectedEvent
      <3>1. Take("Connected") /\ connection' = arg /\ UNCHANGED session
            /\ commands' = Append(commands, Command("ReadState", None))
        BY <2>1 DEF ConnectedEvent, taskvars
      <3>2. Has(events, "Connected") /\ arg \in Interfaces
        BY <1>0, <3>1, Taken, EventFacts
      <3>3. connection = "Connecting" /\ session # "none" /\ ~Has(commands, "Connect")
        BY <1>0, <3>2, LinkedEnds DEF Ends, TypeOK
      <3>4. Len(commands) <= MaxCommands
        BY <1>0, <3>3 DEF Bounded
      <3>5. connection' # "Connecting"
        BY <3>1, <3>2 DEF Interfaces
      <3>6. ~Has(commands, "Connect")'
        BY <1>0, <3>1, <3>3, Queued, CommandFacts
      <3> QED
        BY <1>0, <2>0, <3>4, <3>5, <3>6 DEF Bounded, Has
    <2>2. CASE k = "Connect"
      <3>1. ConnectPressed
        BY <1>3, <2>2 DEF CommandFrom
      <3>2. ~Has(commands, "Connect") /\ session' = "none"
        BY <3>1 DEF ConnectPressed, Inv, Linked, taskvars
      <3>3. Has(commands, "Connect")'
        BY <1>0, <1>3, <2>2, Queued
      <3>4. \A i \in InQueue(commands', "Connect") : i = Len(commands')
        BY <2>0, <3>2 DEF Has, InQueue
      <3>5. B
        <4>1. Has(commands', "Connect")
          BY <3>3, Primed
        <4> QED
          BY <2>0, <3>2, <3>4, <4>1 DEF InQueue
      <3> QED
        BY <3>5 DEF Bounded, Has, InQueue
    <2>3. CASE k # "Connect" /\ ~ConnectedEvent
      <3>1. Len(commands') <= MaxCommands
        BY <1>0, <1>3, <2>0, <2>3, UserBound
      <3>2. ASSUME NEW i \in InQueue(commands', "Connect"), NEW j \in DOMAIN commands', i < j
            PROVE  commands'[j].kind = "SetPolling"
        <4>1. i \in InQueue(commands, "Connect")
          BY <2>0, <2>3, <3>2 DEF InQueue
        <4>2. connection = "Connecting" /\ Has(commands, "Connect")
          BY <4>1, LinkFacts DEF Has
        <4>3. connection' = "Connecting"
          BY <1>3, <2>3, <4>2 DEF CommandFrom, PollingToggled, SendDownloadPressed,
             RefreshPressed, DisconnectPressed, StartMasterPressed, StopMasterPressed, screen
        <4>4. k = "SetPolling"
          BY <1>3, <4>2, <4>3, SentWhileConnecting
        <4> QED
          BY <1>0, <2>0, <3>2, <4>1, <4>4 DEF Bounded
      <3>3. B
        BY <1>0, <2>0, <3>1, <3>2
      <3> QED
        BY <3>3 DEF Bounded, Has, InQueue
    <2> QED
      BY <2>1, <2>2, <2>3
  <1> QED
    BY <1>1, <1>2, <1>3, CommandsMove

-----------------------------------------------------------------------------
(***************************************************************************)
(* MasterTold.                                                             *)
(***************************************************************************)

\* What an event says of the master.
Says(e) == e.kind = "Master" /\ e.arg

\* The last news is true.
LastNews ==
  /\ News = {} => (running <=> master)
  /\ \A i \in News : (\A j \in News : j <= i) => (master <=> Says(events[i]))
LEMMA LastNewsIs == Inv => LastNews
  BY DEF Inv, MasterTold, LastNews, Says

\* Who changes what the screen or the task says of the master.
LEMMA MasterMoves ==
  ASSUME Inv, [Next]_vars
  PROVE  /\ ~MasterEvent /\ ~Disconnected => (running' <=> running)
         /\ ~MasterStarted /\ ~StreamEnds /\ ~HandleCommand /\ ~Closed => (master' <=> master)
         /\ HandleCommand => \/ (master' <=> master) /\ UNCHANGED events
                             \/ ~master' /\ Emit("Master", FALSE) /\ master
  <1>1. ASSUME ~MasterEvent, ~Disconnected PROVE UNCHANGED running
    BY <1>1 DEF Next, User, ScreenHandles, TaskStep, Resume, ConnectPressed, DisconnectPressed,
       RefreshPressed, PollingToggled, InputChanged, BuildPlanPressed, Run, Opened, Closed,
       ConfirmDownloadToggled, SendDownloadPressed, StartMasterPressed, StopMasterPressed,
       Ready, ConnectedEvent, ConnectFailed, StateEvent, DownloadFinished,
       HandleCommand, Tick, ReadState, MasterStarted, StreamEnds, WriteFinished,
       DownloadReported, Rewire, vars, screen, taskvars
  <1>2. ASSUME ~MasterStarted, ~StreamEnds, ~HandleCommand, ~Closed PROVE UNCHANGED master
    BY <1>2 DEF Next, User, ScreenHandles, TaskStep, Resume, ConnectPressed, DisconnectPressed,
       RefreshPressed, PollingToggled, InputChanged, BuildPlanPressed, Run, Opened,
       ConfirmDownloadToggled, SendDownloadPressed, StartMasterPressed, StopMasterPressed,
       Ready, ConnectedEvent, ConnectFailed, Disconnected, StateEvent, MasterEvent,
       DownloadFinished, Tick, ReadState, WriteFinished,
       DownloadReported, Rewire, vars, screen, taskvars
  <1>3. ASSUME HandleCommand
        PROVE  \/ (master' <=> master) /\ UNCHANGED events
               \/ ~master' /\ Emit("Master", FALSE) /\ master
    BY <1>3, Zenon DEF HandleCommand
  <1>4. ASSUME UNCHANGED running PROVE running' <=> running
    BY <1>4
  <1>5. ASSUME UNCHANGED master PROVE master' <=> master
    BY <1>5
  <1> QED
    BY <1>1, <1>2, <1>3, <1>4, <1>5

\* Nothing new.
LEMMA NewsSame ==
  ASSUME Inv, UNCHANGED events, running' <=> running, master' <=> master
  PROVE  LastNews'
  <1>1. News' = News
    BY DEF News, InQueue
  <1> QED
    BY <1>1, LastNewsIs DEF LastNews

\* The task tells the screen what it has done.
LEMMA NewsPush ==
  ASSUME Inv, NEW k, NEW v, Event(k, v) \in Events, Emit(k, v), running' <=> running,
         k \in {"Master", "Disconnected"} => (master' <=> k = "Master" /\ v),
         k \notin {"Master", "Disconnected"} => (master' <=> master)
  PROVE  LastNews'
  <1>0. /\ LastNews /\ DOMAIN events = 1..Len(events) /\ Len(events) \in Nat
        /\ DOMAIN events' = 1..(Len(events) + 1)
        /\ \A i \in DOMAIN events : events'[i] = events[i]
        /\ events'[Len(events) + 1].kind = k /\ events'[Len(events) + 1].arg = v
    BY LastNewsIs, Emitted DEF Inv
  <1>1. News' = News \cup (IF k \in {"Master", "Disconnected"} THEN {Len(events) + 1} ELSE {})
    BY <1>0 DEF News, InQueue
  <1>2. News \subseteq 1..Len(events)
    BY <1>0 DEF News, InQueue
  <1>3. CASE k \in {"Master", "Disconnected"}
    <2>1. master' <=> Says(events'[Len(events) + 1])
      <3>1. master' <=> k = "Master" /\ v
        BY <1>3
      <3>2. Says(events'[Len(events) + 1]) <=> k = "Master" /\ v
        BY <1>0, Zenon DEF Says
      <3> QED
        BY <3>1, <3>2, Zenon
    <2>2. \A i \in News' : (\A j \in News' : j <= i) => i = Len(events) + 1
      BY <1>0, <1>1, <1>2, <1>3
    <2>3. News' # {}
      BY <1>1, <1>3
    <2> QED
      BY <2>1, <2>2, <2>3 DEF LastNews, Says
  <1>4. CASE k \notin {"Master", "Disconnected"}
    <2>1. News' = News /\ \A i \in News : events'[i] = events[i]
      BY <1>0, <1>1, <1>2, <1>4
    <2>2. master' <=> master
      BY <1>4
    <2>3. \A i \in News : Says(events'[i]) <=> Says(events[i])
      BY <2>1 DEF Says
    <2> QED
      BY <1>0, <2>1, <2>2, <2>3 DEF LastNews, Says
  <1> QED
    BY <1>3, <1>4

\* The screen shows what it is told.
LEMMA NewsPop ==
  ASSUME Inv, NEW k, Take(k), master' <=> master,
         k \in {"Master", "Disconnected"} => (running' <=> k = "Master" /\ arg),
         k \notin {"Master", "Disconnected"} => (running' <=> running)
  PROVE  LastNews'
  <1>0. /\ LastNews /\ Len(events) \in Nat \ {0} /\ DOMAIN events = 1..Len(events)
        /\ DOMAIN events' = 1..(Len(events) - 1)
        /\ \A i \in DOMAIN events' : events'[i] = events[i + 1]
        /\ events[1].kind = k /\ events[1].arg = arg
    BY LastNewsIs, Taken DEF Inv
  <1>1. \A i : i \in News' <=> i \in 1..(Len(events) - 1) /\ i + 1 \in News
    BY <1>0 DEF News, InQueue
  <1>2. 1 \in News <=> k \in {"Master", "Disconnected"}
    BY <1>0 DEF News, InQueue
  <1>3. \A i \in News : i \in 1..Len(events) /\ (i # 1 => i - 1 \in News')
    BY <1>0, <1>1 DEF News, InQueue
  <1>4. k \in {"Master", "Disconnected"} => (running' <=> Says(events[1]))
    <2>1. Says(events[1]) <=> k = "Master" /\ arg
      BY <1>0, Zenon DEF Says
    <2> QED
      BY <2>1, Zenon
  <1>5. ASSUME News' = {} PROVE running' <=> master'
    <2>1. CASE News = {}
      BY <1>0, <1>2, <2>1 DEF LastNews
    <2>2. CASE News # {}
      <3>1. News = {1}
        BY <1>3, <1>5, <2>2
      <3>2. master <=> Says(events[1])
        BY <1>0, <3>1 DEF LastNews
      <3> QED
        BY <1>2, <1>4, <3>1, <3>2
    <2> QED
      BY <2>1, <2>2
  <1>6. ASSUME NEW i \in News', \A j \in News' : j <= i
        PROVE  master' <=> Says(events'[i])
    <2>1. i + 1 \in News /\ i \in 1..(Len(events) - 1) /\ events'[i] = events[i + 1]
      BY <1>0, <1>1, <1>6
    <2>2. \A j \in News : j <= i + 1
      <3> SUFFICES ASSUME NEW j \in News PROVE j <= i + 1
        OBVIOUS
      <3>1. j \in 1..Len(events) /\ (j # 1 => j - 1 <= i)
        BY <1>3, <1>6
      <3> QED
        BY <1>0, <2>1, <3>1
    <2>3. master <=> Says(events[i + 1])
      BY <1>0, <2>1, <2>2 DEF LastNews
    <2> QED
      BY <2>1, <2>3
  <1> QED
    BY <1>5, <1>6 DEF LastNews, Says

\* The last news stays true.
LEMMA NewsStep == ASSUME Inv, [Next]_vars PROVE LastNews'
  <1>1. CASE ScreenHandles
    <2>1. UNCHANGED taskvars
      BY <1>1 DEF ScreenHandles, Ready, ConnectedEvent, ConnectFailed, Disconnected, StateEvent,
         MasterEvent, DownloadFinished
    <2>2. master' <=> master
      BY <2>1, Zenon DEF taskvars
    <2>3. CASE MasterEvent
      <3>1. Take("Master") /\ running' = arg
        BY <2>3 DEF MasterEvent
      <3>2. running' <=> arg
        BY <3>1, Zenon
      <3> QED
        BY <2>2, <3>1, <3>2, NewsPop
    <2>4. CASE Disconnected
      <3>1. Take("Disconnected") /\ ~running'
        BY <2>4 DEF Disconnected
      <3> QED
        BY <2>2, <3>1, NewsPop
    <2>5. CASE ~MasterEvent /\ ~Disconnected
      <3>1. PICK k \in {"Ready", "Connected", "ConnectFailed", "State", "DownloadFinished"} : Take(k)
        BY <1>1, <2>5 DEF ScreenHandles, Ready, ConnectedEvent, ConnectFailed, StateEvent,
           DownloadFinished
      <3> QED
        BY <2>2, <2>5, <3>1, NewsPop, MasterMoves
    <2> QED
      BY <2>3, <2>4, <2>5
  <1>2. ASSUME ~ScreenHandles PROVE LastNews'
    <2>0. running' <=> running
      BY <1>2, MasterMoves DEF ScreenHandles
    <2>1. CASE MasterStarted \/ StreamEnds
      <3>1. \/ master' /\ Emit("Master", TRUE)
            \/ ~master' /\ Emit("Master", FALSE)
        BY <2>1 DEF MasterStarted, StreamEnds
      <3> QED
        BY <2>0, <3>1, NewsPush, EventFacts
    <2>2. CASE Closed
      <3>1. ~master' /\ Emit("Disconnected", None)
        BY <2>2 DEF Closed
      <3> QED
        BY <2>0, <3>1, NewsPush, EventFacts
    <2>3. CASE HandleCommand
      <3>1. \/ (master' <=> master) /\ UNCHANGED events
            \/ ~master' /\ Emit("Master", FALSE)
        BY <2>3, MasterMoves
      <3>2. CASE (master' <=> master) /\ UNCHANGED events
        BY <2>0, <3>2, NewsSame
      <3>3. CASE ~master' /\ Emit("Master", FALSE)
        BY <2>0, <3>3, NewsPush, EventFacts
      <3> QED
        BY <3>1, <3>2, <3>3
    <2>4. ASSUME ~MasterStarted, ~StreamEnds, ~Closed, ~HandleCommand PROVE LastNews'
      <3>1. master' <=> master
        BY <2>4, MasterMoves
      <3>2. CASE UNCHANGED events
        BY <2>0, <3>1, <3>2, NewsSame
      <3>3. ASSUME NEW k, NEW v, EventFrom(k, v), Event(k, v) \in Events, Emit(k, v)
            PROVE  LastNews'
        <4>1. k \notin {"Master", "Disconnected"}
          BY <2>4, <3>3 DEF EventFrom
        <4> QED
          BY <2>0, <3>1, <3>3, <4>1, NewsPush
      <3>4. ASSUME NEW k, EventTo(k), k \in {"Ready", "Connected", "ConnectFailed", "Disconnected",
                                           "Master", "DownloadFinished", "State"}
            PROVE  FALSE
        BY <1>2, <3>4 DEF EventTo, ScreenHandles
      <3> QED
        BY <3>2, <3>3, <3>4, EventsMove
    <2> QED
      BY <2>1, <2>2, <2>3, <2>4
  <1> QED
    BY <1>1, <1>2

\* A master ends before its connection is reported closed.
LEMMA MasterEndsStep ==
  ASSUME Inv, [Next]_vars
  PROVE  /\ ~Connected' => ~running' /\ ~master' /\ ~Has(events, "Master")'
         /\ \A m \in InQueue(events', "Master"), d \in InQueue(events', "Disconnected") : m < d
  <1>0. /\ TypeOK /\ Ends /\ DOMAIN events = 1..Len(events) /\ Len(events) \in Nat
        /\ ~Connected => ~running /\ ~master /\ ~Has(events, "Master")
        /\ \A m \in InQueue(events, "Master"), d \in InQueue(events, "Disconnected") : m < d
    BY LinkedEnds DEF Inv, MasterTold, TypeOK
  <1>1. ASSUME NEW m \in InQueue(events', "Master"), NEW d \in InQueue(events', "Disconnected")
        PROVE  m < d
    <2>1. CASE UNCHANGED events
      BY <1>0, <1>1, <2>1
    <2>2. ASSUME NEW k, Take(k) PROVE m < d
      <3>1. m + 1 \in InQueue(events, "Master") /\ d + 1 \in InQueue(events, "Disconnected")
            /\ m \in Nat /\ d \in Nat
        BY <1>0, <1>1, <2>2, Taken DEF InQueue
      <3> QED
        BY <1>0, <3>1
    <2>3. ASSUME NEW k, NEW v, EventFrom(k, v), Event(k, v) \in Events, Emit(k, v) PROVE m < d
      <3>0. /\ DOMAIN events' = 1..(Len(events) + 1)
            /\ \A i \in DOMAIN events : events'[i] = events[i]
            /\ events'[Len(events) + 1].kind = k
        BY <1>0, <2>3, Emitted
      <3>1. CASE d = Len(events) + 1
        BY <1>0, <1>1, <3>0, <3>1 DEF InQueue
      <3>2. CASE d # Len(events) + 1
        <4>1. d \in InQueue(events, "Disconnected")
          BY <1>0, <1>1, <3>0, <3>2 DEF InQueue
        <4>2. session = "none" /\ task = "waiting"
          BY <1>0, <4>1 DEF Ends, Has, TypeOK
        <4>3. k # "Master"
          BY <2>3, <4>2 DEF EventFrom, MasterStarted, StreamEnds, HandleCommand
        <4>4. m \in InQueue(events, "Master")
          BY <1>0, <1>1, <3>0, <4>3 DEF InQueue
        <4> QED
          BY <1>0, <4>1, <4>4
      <3> QED
        BY <3>1, <3>2
    <2> QED
      BY <2>1, <2>2, <2>3, EventsMove
  <1>2. ASSUME ~Connected' PROVE ~running' /\ ~master' /\ ~Has(events, "Master")'
    <2>1. CASE Disconnected
      <3>1. Take("Disconnected") /\ ~running' /\ UNCHANGED taskvars
        BY <2>1 DEF Disconnected
      <3>2. session = "none"
        BY <1>0, <3>1, Taken DEF Ends, TypeOK
      <3>3. ~master'
        BY <1>0, <3>1, <3>2 DEF TypeOK, taskvars
      <3>4. ~Has(events', "Master")
        <4>1. /\ DOMAIN events' = 1..(Len(events) - 1) /\ events[1].kind = "Disconnected"
              /\ \A i \in DOMAIN events' : events'[i] = events[i + 1]
              /\ 1 \in InQueue(events, "Disconnected")
          BY <1>0, <3>1, Taken DEF InQueue
        <4>2. \A m \in InQueue(events', "Master") : m + 1 \in InQueue(events, "Master") /\ m \in 1..(Len(events) - 1)
          BY <1>0, <4>1 DEF InQueue
        <4> QED
          BY <1>0, <4>1, <4>2 DEF Has
      <3> QED
        BY <3>1, <3>3, <3>4, Primed
    <2>2. ASSUME ~Disconnected PROVE ~running' /\ ~master' /\ ~Has(events, "Master")'
      <3>1. ~Connected
        <4>1. CASE ConnectFailed
          <5>1. Has(events, "ConnectFailed")
            BY <1>0, <4>1, Taken DEF ConnectFailed
          <5> QED
            BY <1>0, <5>1 DEF Ends, Connected, Interfaces
        <4>2. CASE ConnectPressed
          BY <4>2 DEF ConnectPressed, Connected
        <4>3. CASE ConnectedEvent
          <5>1. Take("Connected") /\ connection' = arg
            BY <4>3 DEF ConnectedEvent
          <5>2. arg \in Interfaces
            BY <1>0, <5>1, Taken, EventFacts
          <5> QED
            BY <1>2, <5>1, <5>2 DEF Connected, Interfaces
        <4>4. ASSUME ~ConnectFailed, ~ConnectPressed, ~ConnectedEvent PROVE UNCHANGED connection
          BY <2>2, <4>4 DEF Next, User, ScreenHandles, TaskStep, Resume, DisconnectPressed,
             RefreshPressed, PollingToggled, InputChanged, BuildPlanPressed, Run, Opened, Closed,
             ConfirmDownloadToggled, SendDownloadPressed, StartMasterPressed, StopMasterPressed,
             Ready, StateEvent, MasterEvent, DownloadFinished,
             HandleCommand, Tick, ReadState, MasterStarted, StreamEnds, WriteFinished,
             DownloadReported, Rewire, vars, screen, taskvars
        <4> QED
          BY <1>2, <4>1, <4>2, <4>3, <4>4 DEF Connected
      <3>2. ~running /\ ~master /\ ~Has(events, "Master") /\ connection \notin Interfaces
        BY <1>0, <3>1 DEF Connected, Interfaces
      <3>3. ~MasterEvent
        BY <1>0, <3>2, Taken DEF MasterEvent
      <3>4. ~MasterStarted
        BY <1>0, <3>2 DEF MasterStarted, Ends, TypeOK
      <3>5. ~StreamEnds
        BY <3>2 DEF StreamEnds
      <3>6. ~running'
        BY <2>2, <3>2, <3>3, MasterMoves
      <3>7. CASE HandleCommand
        <4>1. ~master' /\ UNCHANGED events
          BY <3>2, <3>7, MasterMoves
        <4> QED
          BY <3>2, <3>6, <4>1, SameQueues
      <3>8. CASE ~HandleCommand
        <4>1. ~master'
          <5>1. CASE Closed
            BY <5>1 DEF Closed
          <5>2. CASE ~Closed
            BY <3>2, <3>4, <3>5, <3>8, <5>2, MasterMoves
          <5> QED
            BY <5>1, <5>2
        <4>2. ~Has(events, "Master")'
          BY <3>2, <3>4, <3>5, <3>8, EventsFewer DEF EventFrom
        <4> QED
          BY <3>6, <4>1, <4>2
      <3> QED
        BY <3>7, <3>8
    <2> QED
      BY <2>1, <2>2
  <1> QED
    BY <1>1, <1>2

\* Every step keeps MasterTold.
LEMMA MasterToldStep == ASSUME Inv, [Next]_vars PROVE MasterTold'
  BY NewsStep, MasterEndsStep DEF MasterTold, LastNews, Says, Has

-----------------------------------------------------------------------------
(***************************************************************************)
(* PollingTold.                                                            *)
(***************************************************************************)

\* The last order is true.
LastOrder ==
  /\ Orders = {} => (refreshing => polling)
  /\ \A i \in Orders : (\A j \in Orders : j <= i) => (commands[i].arg <=> polling)
LEMMA LastOrderIs == Inv => LastOrder
  BY DEF Inv, PollingTold, LastOrder

\* Without a session, or a Connect on its way, there are no orders.
LEMMA NoOrders ==
  /\ session = "none" /\ ~Has(commands, "Connect") => Orders = {}
  /\ session' = "none" /\ ~Has(commands', "Connect") => Orders' = {}
  BY DEF Orders, Has

\* Nothing new.
LEMMA OrderSame ==
  ASSUME Inv, UNCHANGED <<commands, session>>, refreshing' <=> refreshing, polling' <=> polling
  PROVE  LastOrder'
  <1>1. Orders' = Orders
    BY DEF Orders, InQueue
  <1>2. \A i : commands'[i] = commands[i]
    OBVIOUS
  <1> QED
    BY <1>1, <1>2, LastOrderIs DEF LastOrder

\* No orders, nothing to refresh.
LEMMA OrderNone ==
  ASSUME session' = "none", ~Has(commands', "Connect"), ~refreshing'
  PROVE  LastOrder'
  BY NoOrders DEF LastOrder

\* What is received was the first order, or none.
LEMMA OrderPop ==
  ASSUME Inv, commands # <<>>, commands' = Tail(commands), polling' <=> polling,
         \/ UNCHANGED session /\ (session = "none" => NextCommand.kind # "Connect")
         \/ session = "none" /\ session' # "none" /\ NextCommand.kind = "Connect",
         session # "none" /\ NextCommand.kind = "SetPolling" => (refreshing' <=> NextCommand.arg),
         session = "none" \/ NextCommand.kind # "SetPolling" => (refreshing' <=> refreshing)
  PROVE  LastOrder'
  <1>0. /\ LastOrder /\ Len(commands) \in Nat \ {0} /\ DOMAIN commands = 1..Len(commands)
        /\ DOMAIN commands' = 1..(Len(commands) - 1)
        /\ \A i \in DOMAIN commands' : commands'[i] = commands[i + 1]
        /\ NextCommand = commands[1]
    BY LastOrderIs, PopFacts DEF Inv, TypeOK, NextCommand
  <1>1. \A k, i : i \in InQueue(commands', k) <=> i \in 1..(Len(commands) - 1) /\ i + 1 \in InQueue(commands, k)
    BY <1>0 DEF InQueue
  <1>2. \A k : /\ InQueue(commands, k) \subseteq 1..Len(commands)
               /\ 1 \in InQueue(commands, k) <=> NextCommand.kind = k
    BY <1>0 DEF InQueue
  <1>3. 1 \in Orders <=> session # "none" /\ NextCommand.kind = "SetPolling"
    BY <1>0, <1>2 DEF Orders
  <1>4. ASSUME NEW i
        PROVE  i \in Orders' <=> i \in 1..(Len(commands) - 1) /\ i + 1 \in Orders
    <2>0. CASE i \notin 1..(Len(commands) - 1)
      BY <1>1, <2>0 DEF Orders
    <2>1. CASE i \in 1..(Len(commands) - 1) /\ session # "none"
      BY <1>1, <2>1 DEF Orders
    <2>2. CASE /\ i \in 1..(Len(commands) - 1) /\ session = "none" /\ session' # "none"
               /\ NextCommand.kind = "Connect"
      <3>1. 1 \in InQueue(commands, "Connect") /\ 1 < i + 1
        BY <1>2, <2>2
      <3> QED
        BY <1>1, <2>2, <3>1 DEF Orders
    <2>3. CASE i \in 1..(Len(commands) - 1) /\ session = "none" /\ session' = "none"
      <3>1. NextCommand.kind # "Connect"
        BY <2>3
      <3>2. (\E c \in InQueue(commands', "Connect") : c < i)
              <=> (\E c \in InQueue(commands, "Connect") : c < i + 1)
        <4>1. ASSUME NEW c \in InQueue(commands', "Connect"), c < i
              PROVE  \E d \in InQueue(commands, "Connect") : d < i + 1
          <5>1. c + 1 \in InQueue(commands, "Connect") /\ c \in Int
            BY <1>1, <4>1
          <5> QED
            BY <2>3, <4>1, <5>1
        <4>2. ASSUME NEW d \in InQueue(commands, "Connect"), d < i + 1
              PROVE  \E c \in InQueue(commands', "Connect") : c < i
          <5>1. d \in 2..Len(commands)
            BY <1>0, <1>2, <3>1, <4>2
          <5>2. d - 1 \in 1..(Len(commands) - 1) /\ (d - 1) + 1 = d
            BY <1>0, <5>1
          <5>3. d - 1 \in InQueue(commands', "Connect")
            BY <1>1, <4>2, <5>2
          <5>4. d - 1 < i
            BY <2>3, <4>2, <5>1
          <5> QED
            BY <5>3, <5>4
        <4> QED
          BY <4>1, <4>2
      <3> QED
        BY <1>1, <2>3, <3>2 DEF Orders
    <2> QED
      BY <2>0, <2>1, <2>2, <2>3
  <1>5. \A i \in Orders : i \in 1..Len(commands) /\ (i # 1 => i - 1 \in Orders')
    <2> SUFFICES ASSUME NEW i \in Orders PROVE i \in 1..Len(commands) /\ (i # 1 => i - 1 \in Orders')
      OBVIOUS
    <2>1. i \in 1..Len(commands)
      BY <1>2 DEF Orders
    <2>2. i # 1 => i - 1 \in 1..(Len(commands) - 1) /\ (i - 1) + 1 = i
      BY <1>0, <2>1
    <2> QED
      BY <1>4, <2>1, <2>2
  <1>6. ASSUME Orders' = {} PROVE refreshing' => polling'
    <2>1. CASE Orders = {}
      BY <1>0, <1>3, <2>1 DEF LastOrder
    <2>2. CASE Orders # {}
      <3>1. Orders = {1}
        BY <1>5, <1>6, <2>2
      <3>2. NextCommand.arg <=> polling
        BY <1>0, <3>1 DEF LastOrder
      <3> QED
        BY <1>3, <3>1, <3>2
    <2> QED
      BY <2>1, <2>2
  <1>7. ASSUME NEW i \in Orders', \A j \in Orders' : j <= i
        PROVE  commands'[i].arg <=> polling'
    <2>1. i + 1 \in Orders /\ i \in 1..(Len(commands) - 1) /\ commands'[i] = commands[i + 1]
      BY <1>0, <1>4, <1>7
    <2>2. \A j \in Orders : j <= i + 1
      <3> SUFFICES ASSUME NEW j \in Orders PROVE j <= i + 1
        OBVIOUS
      <3>1. j \in 1..Len(commands) /\ (j # 1 => j - 1 <= i)
        BY <1>5, <1>7
      <3> QED
        BY <1>0, <2>1, <3>1
    <2>3. commands[i + 1].arg <=> polling
      BY <1>0, <2>1, <2>2 DEF LastOrder
    <2> QED
      BY <2>1, <2>3
  <1> QED
    BY <1>6, <1>7 DEF LastOrder

\* What is sent is the last order, or none.
LEMMA OrderPush ==
  ASSUME Inv, NEW k, NEW v, Command(k, v) \in Commands,
         commands' = Append(commands, Command(k, v)), UNCHANGED session,
         refreshing' <=> refreshing,
         k = "SetPolling" => (polling' <=> v),
         k # "SetPolling" => (polling' <=> polling)
  PROVE  LastOrder'
  <1>0. /\ TypeOK /\ LastOrder /\ Len(commands) \in Nat /\ DOMAIN commands = 1..Len(commands)
        /\ DOMAIN commands' = 1..(Len(commands) + 1)
        /\ \A i \in DOMAIN commands : commands'[i] = commands[i]
        /\ commands'[Len(commands) + 1].kind = k /\ commands'[Len(commands) + 1].arg = v
    BY LastOrderIs, Queued DEF Inv
  <1>1. \A l : InQueue(commands', l) = InQueue(commands, l) \cup (IF k = l THEN {Len(commands) + 1} ELSE {})
    BY <1>0 DEF InQueue
  <1>2. \A l : InQueue(commands, l) \subseteq 1..Len(commands)
    BY <1>0 DEF InQueue
  <1>3. \A i \in 1..Len(commands) : i \in Orders' <=> i \in Orders
    BY <1>0, <1>1, <1>2 DEF Orders
  <1>4. Orders \subseteq 1..Len(commands) /\ Orders' \subseteq 1..(Len(commands) + 1)
    BY <1>0, <1>1, <1>2 DEF Orders
  <1>5. Len(commands) + 1 \in Orders' <=>
          k = "SetPolling" /\ (session # "none" \/ Has(commands, "Connect"))
    BY <1>0, <1>1, <1>2 DEF Orders, Has
  <1>6. CASE Len(commands) + 1 \in Orders'
    <2>1. \A i \in Orders' : (\A j \in Orders' : j <= i) => i = Len(commands) + 1
      BY <1>0, <1>4, <1>6
    <2>2. commands'[Len(commands) + 1].arg <=> polling'
      BY <1>0, <1>5, <1>6
    <2> QED
      BY <1>6, <2>1, <2>2 DEF LastOrder
  <1>7. CASE Len(commands) + 1 \notin Orders'
    <2>1. Orders' = Orders
      <3>1. ASSUME NEW i \in Orders' PROVE i \in Orders
        <4>1. i \in 1..(Len(commands) + 1) /\ i # Len(commands) + 1
          BY <1>4, <1>7, <3>1
        <4>2. i \in 1..Len(commands)
          BY <1>0, <4>1
        <4> QED
          BY <1>3, <3>1, <4>2
      <3>2. ASSUME NEW i \in Orders PROVE i \in Orders'
        BY <1>3, <1>4, <3>2
      <3> QED
        BY <3>1, <3>2
    <2>2. CASE k = "SetPolling"
      <3>1. session = "none" /\ ~Has(commands, "Connect")
        BY <1>5, <1>7, <2>2
      <3>2. ~refreshing /\ Orders = {}
        BY <1>0, <3>1, NoOrders DEF TypeOK
      <3> QED
        BY <2>1, <3>2 DEF LastOrder
    <2>3. CASE k # "SetPolling"
      <3>1. polling' <=> polling
        BY <2>3
      <3>2. \A i \in Orders : commands'[i] = commands[i]
        BY <1>0, <1>4
      <3> QED
        BY <1>0, <2>1, <3>1, <3>2 DEF LastOrder
    <2> QED
      BY <2>2, <2>3
  <1> QED
    BY <1>6, <1>7

\* Every step keeps PollingTold.
LEMMA PollingToldStep == ASSUME Inv, [Next]_vars PROVE PollingTold'
  <1>0. TypeOK /\ Linked
    BY DEF Inv
  <1> SUFFICES LastOrder'
    BY DEF LastOrder, PollingTold
  <1>1. CASE PollingToggled
    <2>1. /\ Send("SetPolling", polling') /\ UNCHANGED <<session, refreshing>>
      BY <1>1 DEF PollingToggled, taskvars
    <2>2. refreshing' <=> refreshing
      BY <2>1
    <2>3. CASE commands_ready
      <3>1. commands' = Append(commands, Command("SetPolling", polling'))
        BY <2>1, <2>3, SentMove
      <3>2. Command("SetPolling", polling') \in Commands
        BY <1>0, <1>1, UserFlags, CommandFacts DEF User
      <3> QED
        BY <2>1, <2>2, <3>1, <3>2, OrderPush
    <2>4. CASE ~commands_ready
      <3>1. commands' = <<>> /\ session' = "none" /\ ~refreshing
        BY <1>0, <2>1, <2>4, SentMove DEF TypeOK
      <3>2. ~Has(commands', "Connect") /\ ~refreshing'
        BY <2>2, <3>1 DEF Has, InQueue
      <3> QED
        BY <3>1, <3>2, OrderNone
    <2> QED
      BY <2>3, <2>4
  <1>2. CASE Disconnected
    <2>1. Take("Disconnected") /\ UNCHANGED <<commands, session, refreshing>>
      BY <1>2 DEF Disconnected, taskvars
    <2>2. session = "none" /\ ~Has(commands, "Connect")
      BY <1>0, <2>1, Taken, LinkedEnds DEF Inv, Ends, TypeOK
    <2>3. ~refreshing' /\ ~Has(commands', "Connect") /\ session' = "none"
      BY <1>0, <2>1, <2>2 DEF TypeOK
    <2> QED
      BY <2>3, OrderNone
  <1>3. CASE Run
    <2>1. /\ commands # <<>> /\ commands' = Tail(commands) /\ task = "waiting"
          /\ UNCHANGED <<polling, refreshing>>
          /\ \/ UNCHANGED session /\ NextCommand.kind # "Connect"
             \/ NextCommand.kind = "Connect" /\ session' = NextCommand.arg
      BY <1>3 DEF Run, screen
    <2>2. session = "none" /\ (NextCommand.kind = "Connect" => NextCommand.arg \in Interfaces)
      BY <1>0, <2>1, PopFacts, CommandFacts DEF TypeOK, NextCommand
    <2>3. \/ UNCHANGED session /\ NextCommand.kind # "Connect"
          \/ NextCommand.kind = "Connect" /\ session' # "none"
      BY <2>1, <2>2 DEF Interfaces
    <2>4. (refreshing' <=> refreshing) /\ (polling' <=> polling)
      BY <2>1
    <2> QED
      BY <2>1, <2>2, <2>3, <2>4, OrderPop
  <1>4. CASE HandleCommand
    <2>1. /\ commands # <<>> /\ commands' = Tail(commands) /\ task = "connected"
          /\ UNCHANGED <<polling, session>>
          /\ NextCommand.kind = "SetPolling" => refreshing' = NextCommand.arg
          /\ NextCommand.kind # "SetPolling" => UNCHANGED refreshing
      BY <1>4 DEF HandleCommand, Receive, NextCommand, screen
    <2>2. session # "none"
      BY <1>0, <2>1 DEF TypeOK
    <2>3. polling' <=> polling
      BY <2>1
    <2>4. CASE NextCommand.kind = "SetPolling"
      <3>1. refreshing' = NextCommand.arg
        BY <2>1, <2>4
      <3>2. refreshing' <=> NextCommand.arg
        BY <3>1, Zenon
      <3> QED
        BY <2>1, <2>2, <2>3, <2>4, <3>2, OrderPop
    <2>5. CASE NextCommand.kind # "SetPolling"
      <3>1. refreshing' = refreshing
        BY <2>1, <2>5
      <3>2. refreshing' <=> refreshing
        BY <3>1, Zenon
      <3> QED
        BY <2>1, <2>2, <2>3, <2>5, <3>2, OrderPop
    <2> QED
      BY <2>4, <2>5
  <1>5. CASE Closed \/ (Opened /\ session' = "none")
    <2>1. ~Has(commands', "Connect") /\ session' = "none"
      <3>1. ~Has(commands, "Connect") /\ UNCHANGED commands
        BY <1>5, LinkFacts DEF Closed, Opened
      <3> QED
        BY <1>5, <3>1 DEF Closed
    <2>2. ~refreshing'
      BY <1>0, <1>5 DEF Closed, Opened, TypeOK
    <2> QED
      BY <2>1, <2>2, OrderNone
  <1>6. ASSUME ~PollingToggled, ~Disconnected, ~Run, ~HandleCommand, ~Closed,
               ~(Opened /\ session' = "none")
        PROVE  LastOrder'
    <2>1. UNCHANGED <<session, refreshing, polling>>
      BY <1>6 DEF Next, User, ScreenHandles, TaskStep, Resume, ConnectPressed, DisconnectPressed,
         RefreshPressed, InputChanged, BuildPlanPressed, Opened,
         ConfirmDownloadToggled, SendDownloadPressed, StartMasterPressed, StopMasterPressed,
         Ready, ConnectedEvent, ConnectFailed, StateEvent, MasterEvent, DownloadFinished,
         Tick, ReadState, MasterStarted, StreamEnds, WriteFinished,
         DownloadReported, Rewire, vars, screen, taskvars
    <2>2. (refreshing' <=> refreshing) /\ (polling' <=> polling)
      BY <2>1
    <2>3. ASSUME NEW k, NEW v, CommandFrom(k), Command(k, v) \in Commands,
                 commands' = Append(commands, Command(k, v))
          PROVE  LastOrder'
      <3>1. k # "SetPolling"
        BY <1>6, <2>3 DEF CommandFrom
      <3> QED
        BY <2>1, <2>2, <2>3, <3>1, OrderPush
    <2> QED
      BY <1>6, <2>1, <2>2, <2>3, OrderSame, CommandsMove
  <1> QED
    BY <1>1, <1>2, <1>3, <1>4, <1>5, <1>6

-----------------------------------------------------------------------------
(***************************************************************************)
(* The invariant, and what follows from it.                                *)
(***************************************************************************)

\* In the beginning the queues are empty but for the task's greeting.
LEMMA InitInv == Init => Inv
  <1> SUFFICES ASSUME Init PROVE Inv
    OBVIOUS
  <1>1. Event("Ready", None) \in Events
    BY EventFacts
  <1>2. /\ commands = <<>> /\ events = <<Event("Ready", None)>> /\ events \in Seq(Events)
        /\ Len(events) = 1 /\ Len(commands) = 0 /\ commands \in Seq(Commands)
        /\ DOMAIN events = {1} /\ DOMAIN commands = {} /\ events[1].kind = "Ready"
    BY <1>1 DEF Init, Event
  <1>3. /\ \A k : InQueue(commands, k) = {}
        /\ \A k : k # "Ready" => InQueue(events, k) = {}
    BY <1>2 DEF InQueue
  <1>4. TypeOK
    <2>1. commands \in Seq(Commands) /\ Len(commands) <= MaxCommands + 2
      BY <1>2, BoundFacts
    <2>2. events \in Seq(Events) /\ Len(events) <= Capacity
      BY <1>2, BoundFacts
    <2>3. /\ commands_ready \in BOOLEAN /\ polling \in BOOLEAN /\ running \in BOOLEAN
          /\ confirm_download \in BOOLEAN /\ sending \in BOOLEAN
          /\ refreshing \in BOOLEAN /\ master \in BOOLEAN
      BY Zenon DEF Init
    <2>4. /\ session = "none" /\ task = "waiting" /\ download = None /\ ~master /\ ~refreshing
          /\ live = None /\ plan = None /\ preflight = "none" /\ connection = "Disconnected"
          /\ key \in Keys
      BY DEF Init
    <2> QED
      BY <2>1, <2>2, <2>3, <2>4 DEF TypeOK, Tasks, Checks, Plan
  <1>5. QueueDiscipline
    BY <1>3 DEF Init, QueueDiscipline, CommandsStayInSession, OneDownload, Has, AtMostOne
  <1>6. Linked
    BY <1>2, <1>3 DEF Init, Linked, Has, AtMostOne
  <1>7. Bounded
    BY <1>2, <1>3, BoundFacts DEF Init, Bounded, Has
  <1>8. MasterTold
    BY <1>3 DEF Init, MasterTold, News, Has
  <1>9. PollingTold
    BY <1>3 DEF Init, PollingTold, Orders
  <1> QED
    BY <1>4, <1>5, <1>6, <1>7, <1>8, <1>9 DEF Inv

\* Every step keeps the invariant.
LEMMA InvStep == Inv /\ [Next]_vars => Inv'
  BY TypeStep, DownloadStep, StayStep, LinkedStep, BoundedStep, MasterToldStep, PollingToldStep
  DEF Inv, QueueDiscipline

\* The invariant says that the two ends agree when nothing is on its way.
LEMMA InvAgrees == Inv => ScreenAgrees
  <1> SUFFICES ASSUME Inv, commands = <<>>, events = <<>>, task \in {"waiting", "connected"}
               PROVE  /\ IF session = "none" THEN ~Connected ELSE connection = session
                      /\ running <=> master
                      /\ refreshing => polling
    BY DEF ScreenAgrees
  <1>1. /\ \A k : InQueue(commands, k) = {} /\ ~Has(commands, k)
        /\ \A k : InQueue(events, k) = {} /\ ~Has(events, k)
    BY DEF InQueue, Has
  <1>2. IF session = "none" THEN ~Connected ELSE connection = session
    BY <1>1, LinkedEnds DEF Inv, TypeOK, Ends, Connected, Interfaces
  <1>3. running <=> master
    BY <1>1, LastNewsIs DEF LastNews, News
  <1>4. refreshing => polling
    BY <1>1, LastOrderIs DEF LastOrder, Orders
  <1> QED
    BY <1>2, <1>3, <1>4

\* Whatever the user does and however far the task lags behind, the types hold,
\* the two queues carry what they should, and of each thing the two ends must
\* agree on the last message on its way is true (state.rs, connection.rs).
THEOREM Invariance == Spec => []Inv
  BY InitInv, InvStep, PTL DEF Spec

\* Each command has its effect once, in the session it was given in (run,
\* handle_command): queues of any length, any number of reconnections.
THEOREM CommandsOnce == Spec => []QueueDiscipline
  <1>1. Inv => QueueDiscipline
    BY DEF Inv
  <1> QED
    BY <1>1, Invariance, PTL

\* With nothing on its way the screen shows the connection, the master and the
\* refreshing that there are (handle_connection_event).
THEOREM EndsAgree == Spec => []ScreenAgrees
  BY InvAgrees, Invariance, PTL

\* The plan and its checks do not change under the tick that was given for them
\* (invalidate_plan).
THEOREM AgreementHolds == Spec => AgreedIsShown
  <1>1. [Next]_vars => [confirm_download /\ confirm_download' => UNCHANGED <<plan, preflight>>]_vars
    BY DEF Next, User, ScreenHandles, TaskStep, Resume, ConnectPressed, DisconnectPressed,
       RefreshPressed, PollingToggled, InputChanged, BuildPlanPressed, Run, Opened, Closed,
       ConfirmDownloadToggled, SendDownloadPressed, StartMasterPressed, StopMasterPressed,
       Ready, ConnectedEvent, ConnectFailed, Disconnected, StateEvent, MasterEvent,
       DownloadFinished, HandleCommand, Tick, ReadState, MasterStarted, StreamEnds,
       WriteFinished, DownloadReported, Rewire, screen, taskvars, invalidate_plan
  <1> QED
    BY <1>1, PTL DEF Spec, AgreedIsShown

=============================================================================

--------------------------- MODULE CommandDelivery ---------------------------
(***************************************************************************)
(* How a command reaches a device: CommandsController stores it, a worker  *)
(* thread of the server (CommandsService::SetCommands for a client,        *)
(* EventsProcessor::SendCommand for an event that fired) pushes it on the  *)
(* web-socket connection that WebsocketsCache knows for the device, and    *)
(* the firmware asks for the stored command whenever it connects.          *)
(*                                                                         *)
(* Storing, looking the connection up and sending are three separate       *)
(* critical sections, and every connection has a handler of its own that   *)
(* runs beside the workers, so all of them interleave.  A connection is a  *)
(* pair of ordered channels that can break at any time; the two ends learn *)
(* of it independently.  SettingsService and SettingsController repeat the *)
(* same code for the settings of a device.                                 *)
(*                                                                         *)
(* Every stored command carries the number of its store: the code has no   *)
(* such number, the properties need it to tell a stale command from a new  *)
(* one with the same content.                                              *)
(*                                                                         *)
(* The Commands table lies on the connection every controller shares       *)
(* (Storage): a scenario's transaction may take a store in, and lose it.   *)
(***************************************************************************)
EXTENDS Naturals, Sequences, Storage

CONSTANTS
  Devices,     \* the devices, all with a valid authorization string
  Commands,    \* the contents of a command
  Conns,       \* the connections that will ever be made, each of them once
  Workers,     \* threads of the server that serve requests or fire events
  NoConn,      \* no connection, the null pointer of GetWebSocketConnection
  NoContent,   \* the content of the command of a device that has none
  MaxStores,   \* bound: commands stored in a behaviour
  MaxUnread,   \* bound: texts a device may have unread when it sends a report
  MaxBreaks    \* bound: restarts and lost links in a behaviour; a device connects
               \* once and again after each, so liveness needs more Conns

ASSUME DeliveryAssumption ==
  /\ NoConn \notin Conns
  /\ NoContent \notin Commands
  /\ MaxStores \in Nat
  /\ MaxUnread \in Nat
  /\ MaxBreaks \in Nat
  /\ Devices # {}

VARIABLES
  stored,    \* CommandsController::_cache, NoCommand where it has no entry
  stores,    \* how many commands have been stored
  cached,    \* WebsocketsCache::_webSocketConnections
  conn,      \* the server's end of a connection: "new", "open" or "closed"
  owner,     \* the device that opened the connection, if it is opened
  toServer,  \* what the device has sent on a connection and is not handled
  toDevice,  \* what the server has sent on it and the device has not read
  handler,   \* the handler of a connection that is answering get_commands
  worker,    \* what a worker thread is doing
  link,      \* the connection the device uses (websocketConnected)
  applied,   \* the command the device obeys (relayStateFromCommand)
  sent,      \* history: the newest command put on a connection, by its number
  rivals,    \* history: what else the device may obey since the last store
  breaks     \* how many restarts and lost links there were

storeVars == <<stored, stores, rivals, storageVars>>
serverVars == <<storeVars, cached, handler, worker>>
wireVars == <<conn, owner, toServer, toDevice, sent>>
deviceVars == <<link, applied, breaks>>
deliveryVars == <<serverVars, wireVars, deviceVars>>

(* A command and the number of the store that made it the current one. *)
Command == [content : Commands, number : 1 .. MaxStores]
NoCommand == [content |-> NoContent, number |-> 0]

Push(c) == [kind |-> "command", command |-> c]
Reauthorize == [kind |-> "reauthorize"]
Restart == [kind |-> "restart"]
Pushes == [kind : {"command"}, command : Command]
Messages == Pushes \cup {Reauthorize, Restart}

(* Mutant: the commands are asked for before the authorization. *)
GreetingSwapped == <<"get_commands", "authorize">>

(* What authorizeAndGetSettings sends.  The get_settings in between is left *)
(* out: for the commands it is one more report.                            *)
Greeting == <<"authorize", "get_commands">>

Idle == [step |-> "idle"]
Busy ==
  [step : {"store"}, device : Devices, content : Commands]
    \cup [step : {"lookup"}, device : Devices, message : Pushes \cup {Restart}]
    \cup [step : {"send"}, conn : Conns, message : Pushes \cup {Restart}]

Listening == [step |-> "idle"]
Answering ==
  [step : {"read"}] \cup [step : {"reply"}, command : Command \cup {NoCommand}]

Used(c) == conn[c] # "new"

-----------------------------------------------------------------------------
(* connection::send_text.  The text is lost if either end has gone. *)
Alive(c) == conn[c] = "open" /\ link[owner[c]] = c

SendText(c, m) ==
  IF Alive(c)
  THEN /\ toDevice' = [toDevice EXCEPT ![c] = Append(@, m)]
       /\ sent' = IF m.kind = "command" /\ m.command.number > sent[c]
                  THEN [sent EXCEPT ![c] = m.command.number]
                  ELSE sent
  ELSE UNCHANGED <<toDevice, sent>>

(* Commands of d that a thread has stored or read and has yet to send. *)
Carries(w, d) ==
  \/ worker[w].step = "lookup" /\ worker[w].device = d
  \/ worker[w].step = "send" /\ owner[worker[w].conn] = d

InHand(d) ==
  {x \in Command :
     \/ \E w \in Workers : Carries(w, d) /\ worker[w].message = Push(x)
     \/ \E c \in Conns : owner[c] = d /\ handler[c] = [step |-> "reply", command |-> x]}

(* CommandsController::AddOrUpdate: the row and the cached command change  *)
(* together under its mutex, or the INSERT fails and neither does.  The    *)
(* row is in the file at once only outside a scenario's transaction.       *)
AddOrUpdate(d, content, ok) ==
  \/ LET new == [content |-> content, number |-> stores + 1]
     IN  /\ ok
         /\ stores < MaxStores
         /\ stores' = stores + 1
         /\ \E c \in Connections : Leaves(c, [c.rows EXCEPT ![d] = new])
         /\ stored' = [stored EXCEPT ![d] = new]
         /\ rivals' = [rivals EXCEPT ![d] = InHand(d)]
  \/ ~ok /\ Fails("write") /\ UNCHANGED <<stored, stores, rivals>>

(* ScenariosService runs the statements of its transactions on the same     *)
(* connection, and a COMMIT that is never reached leaves one open.         *)
OtherTransaction ==
  /\ \E ok \in BOOLEAN : Begin(ok) \/ Commit(ok)
  /\ UNCHANGED <<stored, stores, rivals, cached, handler, worker, wireVars, deviceVars>>

(* Mutant: the result of the INSERT is not looked at. *)
StoreUnchecked(w, d, content) ==
  \E ok \in BOOLEAN :
    /\ AddOrUpdate(d, content, ok)
    /\ worker' = [worker EXCEPT ![w] =
         [step |-> "lookup", device |-> d,
          message |-> Push([content |-> content, number |-> stores'])]]

(* The end of SetCommands and SendCommand: push what was stored, if it was. *)
StoreAndContinue(w, d, content) ==
  \E ok \in BOOLEAN :
    /\ AddOrUpdate(d, content, ok)
    /\ worker' = [worker EXCEPT ![w] =
         IF ok THEN [step |-> "lookup", device |-> d, message |-> Push(stored'[d])]
               ELSE Idle]

(* CommandsService::SetCommands up to AddOrUpdate. *)
SetCommands(w, d, content) ==
  /\ worker[w] = Idle
  /\ StoreAndContinue(w, d, content)
  /\ UNCHANGED <<cached, handler, wireVars, deviceVars>>

(* EventsProcessor::SendCommand leaves if the stored command is the same.  *)
CheckCommand(w, d, content) ==
  /\ worker[w] = Idle
  /\ stored[d].content # content
  /\ worker' = [worker EXCEPT ![w] = [step |-> "store", device |-> d, content |-> content]]
  /\ UNCHANGED <<storeVars, cached, handler, wireVars, deviceVars>>

(* ... and stores it later, in another critical section. *)
StoreCommand(w) ==
  /\ worker[w].step = "store"
  /\ StoreAndContinue(w, worker[w].device, worker[w].content)
  /\ UNCHANGED <<cached, handler, wireVars, deviceVars>>

(* DevicesService::RestartDevice. *)
RestartDevice(w, d) ==
  /\ worker[w] = Idle
  /\ breaks < MaxBreaks
  /\ breaks' = breaks + 1
  /\ worker' = [worker EXCEPT ![w] = [step |-> "lookup", device |-> d, message |-> Restart]]
  /\ UNCHANGED <<storeVars, cached, handler, wireVars, link, applied>>

(* Mutant: the pointer is not compared with null. *)
GetConnectionUnchecked(w) ==
  /\ worker[w].step = "lookup"
  /\ worker' = [worker EXCEPT ![w] =
       [step |-> "send", conn |-> cached[worker[w].device], message |-> worker[w].message]]
  /\ UNCHANGED <<storeVars, cached, handler, wireVars, deviceVars>>

(* WebsocketsCache::GetWebSocketConnection: the pointer outlives the lock. *)
GetWebSocketConnection(w) ==
  /\ worker[w].step = "lookup"
  /\ worker' = [worker EXCEPT ![w] =
       LET c == cached[worker[w].device]
       IN  IF c = NoConn THEN Idle
           ELSE [step |-> "send", conn |-> c, message |-> worker[w].message]]
  /\ UNCHANGED <<storeVars, cached, handler, wireVars, deviceVars>>

(* connection->send_text, and the answer to the client. *)
SendToDevice(w) ==
  /\ worker[w].step = "send"
  /\ SendText(worker[w].conn, worker[w].message)
  /\ worker' = [worker EXCEPT ![w] = Idle]
  /\ UNCHANGED <<storeVars, cached, handler, conn, owner, toServer, deviceVars>>

-----------------------------------------------------------------------------
(* DeviceWebsocketsService::OnWebSocketMessage takes the next message.     *)
Receives(c, kinds) ==
  /\ conn[c] = "open"
  /\ handler[c] = Listening
  /\ toServer[c] # <<>>
  /\ Head(toServer[c]) \in kinds
  /\ toServer' = [toServer EXCEPT ![c] = Tail(@)]

(* websocket_authorization: AddWebSocketConnection replaces whatever       *)
(* connection the cache had for the device.                                *)
AddWebSocketConnection(c) ==
  /\ Receives(c, {"authorize"})
  /\ cached' = [cached EXCEPT ![owner[c]] = c]
  /\ UNCHANGED <<storeVars, handler, worker, conn, owner, toDevice, sent, deviceVars>>

(* Mutant: a message of an unknown device is dropped without a word. *)
DropUnauthorized(c) ==
  /\ Receives(c, {"get_commands", "data"})
  /\ cached[owner[c]] = NoConn
  /\ UNCHANGED <<serverVars, conn, owner, toDevice, sent, deviceVars>>

(* Any other message of a device that no connection is known for. *)
AskToReauthorize(c) ==
  /\ Receives(c, {"get_commands", "data"})
  /\ cached[owner[c]] = NoConn
  /\ SendText(c, Reauthorize)
  /\ UNCHANGED <<serverVars, conn, owner, deviceVars>>

(* A report leaves no trace here: the answer is an acknowledgement. *)
HandleReport(c) ==
  /\ Receives(c, {"data"})
  /\ cached[owner[c]] # NoConn
  /\ UNCHANGED <<serverVars, conn, owner, toDevice, sent, deviceVars>>

(* websocket_get_commands: the handler goes on to WebSocketProcessor. *)
HandleGetCommands(c) ==
  /\ Receives(c, {"get_commands"})
  /\ cached[owner[c]] # NoConn
  /\ handler' = [handler EXCEPT ![c] = [step |-> "read"]]
  /\ UNCHANGED <<storeVars, cached, worker, conn, owner, toDevice, sent, deviceVars>>

(* CommandsController::Get, under the controller's mutex. *)
ReadCommand(c) ==
  /\ handler[c].step = "read"
  /\ handler' = [handler EXCEPT ![c] = [step |-> "reply", command |-> stored[owner[c]]]]
  /\ UNCHANGED <<storeVars, cached, worker, wireVars, deviceVars>>

(* The answer goes out on this connection; there is none without a command. *)
Reply(c) ==
  /\ handler[c].step = "reply"
  /\ IF handler[c].command = NoCommand
     THEN UNCHANGED <<toDevice, sent>>
     ELSE SendText(c, Push(handler[c].command))
  /\ handler' = [handler EXCEPT ![c] = Listening]
  /\ UNCHANGED <<storeVars, cached, worker, conn, owner, toServer, deviceVars>>

(* Mutant: the closed connection stays in the cache. *)
CloseWithoutDelete(c) ==
  /\ conn[c] = "open"
  /\ link[owner[c]] # c
  /\ handler[c] = Listening
  /\ conn' = [conn EXCEPT ![c] = "closed"]
  /\ toServer' = [toServer EXCEPT ![c] = <<>>]
  /\ UNCHANGED <<serverVars, owner, toDevice, sent, deviceVars>>

(* OnWebSocketClose, on the connection's own thread, once the server has    *)
(* noticed that the device has left: DeleteWebSocketConnection forgets      *)
(* this connection and no other.                                           *)
OnWebSocketClose(c) ==
  /\ conn[c] = "open"
  /\ link[owner[c]] # c
  /\ handler[c] = Listening
  /\ cached' = [d \in Devices |-> IF cached[d] = c THEN NoConn ELSE cached[d]]
  /\ conn' = [conn EXCEPT ![c] = "closed"]
  /\ toServer' = [toServer EXCEPT ![c] = <<>>]
  /\ UNCHANGED <<storeVars, handler, worker, owner, toDevice, sent, deviceVars>>

(* Commands on the link of d that the device may still read. *)
Unread(d) ==
  {x \in Command : link[d] # NoConn /\ \E i \in DOMAIN toDevice[link[d]] :
                     toDevice[link[d]][i] = Push(x)}

(* The server ends and starts again: connections, threads and the cache of  *)
(* connections are gone, and CommandsController::FillCache reads what the  *)
(* file holds, or nothing if the SELECT fails.  A device that the server   *)
(* has no command for goes on obeying what it has.                         *)
RestartServer ==
  /\ "crash" \in Faults
  /\ breaks < MaxBreaks
  /\ breaks' = breaks + 1
  /\ Reconnects
  /\ stored' \in {durable} \cup {[d \in Devices |-> NoCommand] : f \in Faults \cap {"select"}}
  /\ rivals' = [d \in Devices |->
       IF stored'[d] = NoCommand THEN {applied[d]} \cup Unread(d) ELSE {}]
  /\ cached' = [d \in Devices |-> NoConn]
  /\ conn' = [c \in Conns |-> IF Used(c) THEN "closed" ELSE "new"]
  /\ toServer' = [c \in Conns |-> <<>>]
  /\ handler' = [c \in Conns |-> Listening]
  /\ worker' = [w \in Workers |-> Idle]
  /\ UNCHANGED <<stores, owner, toDevice, sent, link, applied>>

-----------------------------------------------------------------------------
(* WStype_CONNECTED: the firmware greets on a connection it has just made. *)
Connect(d, c) ==
  /\ link[d] = NoConn
  /\ ~Used(c)
  /\ conn' = [conn EXCEPT ![c] = "open"]
  /\ owner' = [owner EXCEPT ![c] = d]
  /\ toServer' = [toServer EXCEPT ![c] = Greeting]
  /\ link' = [link EXCEPT ![d] = c]
  /\ UNCHANGED <<serverVars, toDevice, sent, applied, breaks>>

(* WStype_DISCONNECTED.  The link breaks, and what the device has sent may  *)
(* still be on its way to the server ...                                   *)
LoseLink(d) ==
  /\ link[d] # NoConn
  /\ breaks < MaxBreaks
  /\ breaks' = breaks + 1
  /\ link' = [link EXCEPT ![d] = NoConn]
  /\ toDevice' = [toDevice EXCEPT ![link[d]] = <<>>]
  /\ UNCHANGED <<serverVars, conn, owner, toServer, sent, applied>>

(* ... or no pong came because the server had ended. *)
NoticeClosed(d) ==
  /\ link[d] # NoConn
  /\ conn[link[d]] = "closed"
  /\ link' = [link EXCEPT ![d] = NoConn]
  /\ toDevice' = [toDevice EXCEPT ![link[d]] = <<>>]
  /\ UNCHANGED <<serverVars, conn, owner, toServer, sent, applied, breaks>>

(* loop(): the periodic report of a state or a measurement.  The bound: the *)
(* reports come seconds apart, so neither channel is crowded when one does. *)
SendData(d) ==
  /\ link[d] # NoConn
  /\ toServer[link[d]] = <<>>
  /\ Len(toDevice[link[d]]) <= MaxUnread
  /\ conn[link[d]] = "open"
  /\ toServer' = [toServer EXCEPT ![link[d]] = <<"data">>]
  /\ UNCHANGED <<serverVars, conn, owner, toDevice, sent, deviceVars>>

(* WebSocketEvent reads the next text of the connection in use. *)
ReadsText(d, kind) ==
  /\ link[d] # NoConn
  /\ toDevice[link[d]] # <<>>
  /\ Head(toDevice[link[d]]).kind = kind
  /\ toDevice' = [toDevice EXCEPT ![link[d]] = Tail(@)]

(* What the device sends is lost when the server's end is gone. *)
DeviceSends(d, texts) ==
  toServer' = IF conn[link[d]] = "open"
              THEN [toServer EXCEPT ![link[d]] = @ \o texts] ELSE toServer

(* The "state" key: the relay switches and reports its new state. *)
ApplyCommand(d) ==
  /\ ReadsText(d, "command")
  /\ applied' = [applied EXCEPT ![d] = Head(toDevice[link[d]]).command]
  /\ DeviceSends(d, <<"data">>)
  /\ UNCHANGED <<serverVars, conn, owner, sent, link, breaks>>

(* The "reauthorize" key. *)
Reauthorizes(d) ==
  /\ ReadsText(d, "reauthorize")
  /\ DeviceSends(d, Greeting)
  /\ UNCHANGED <<serverVars, conn, owner, sent, deviceVars>>

(* The "restart" key: the firmware forgets the command and its connection. *)
Reboot(d) ==
  /\ link[d] # NoConn
  /\ toDevice[link[d]] # <<>>
  /\ Head(toDevice[link[d]]) = Restart
  /\ applied' = [applied EXCEPT ![d] = NoCommand]
  /\ link' = [link EXCEPT ![d] = NoConn]
  /\ toDevice' = [toDevice EXCEPT ![link[d]] = <<>>]
  /\ UNCHANGED <<serverVars, conn, owner, toServer, sent, breaks>>

-----------------------------------------------------------------------------
DeliveryInit ==
  /\ db = [d \in Devices |-> NoCommand]
  /\ durable = db
  /\ txOpen = FALSE
  /\ stored = db
  /\ stores = 0
  /\ cached = [d \in Devices |-> NoConn]
  /\ conn = [c \in Conns |-> "new"]
  /\ owner = [c \in Conns |-> CHOOSE d \in Devices : TRUE]
  /\ toServer = [c \in Conns |-> <<>>]
  /\ toDevice = [c \in Conns |-> <<>>]
  /\ handler = [c \in Conns |-> Listening]
  /\ worker = [w \in Workers |-> Idle]
  /\ link = [d \in Devices |-> NoConn]
  /\ applied = [d \in Devices |-> NoCommand]
  /\ sent = [c \in Conns |-> 0]
  /\ rivals = [d \in Devices |-> {}]
  /\ breaks = 0

(* A worker that has begun goes on by itself. *)
WorkerStep(w) == StoreCommand(w) \/ GetWebSocketConnection(w) \/ SendToDevice(w)

HandlerStep(c) ==
  \/ AddWebSocketConnection(c) \/ AskToReauthorize(c) \/ HandleReport(c)
  \/ HandleGetCommands(c) \/ ReadCommand(c) \/ Reply(c)

DeviceReads(d) == ApplyCommand(d) \/ Reauthorizes(d) \/ Reboot(d)

Connects(d) == \E c \in Conns : Connect(d, c)

DeliveryNext ==
  \/ \E w \in Workers :
       \/ WorkerStep(w)
       \/ \E d \in Devices :
            \/ RestartDevice(w, d)
            \/ \E content \in Commands : SetCommands(w, d, content) \/ CheckCommand(w, d, content)
  \/ \E c \in Conns : HandlerStep(c) \/ OnWebSocketClose(c)
  \/ \E d \in Devices : DeviceReads(d) \/ SendData(d) \/ LoseLink(d) \/ NoticeClosed(d) \/ Connects(d)
  \/ OtherTransaction
  \/ RestartServer

DeliverySpec == DeliveryInit /\ [][DeliveryNext]_deliveryVars

(***************************************************************************)
(* Fairness.  Threads run, a TCP channel delivers while it lives, the      *)
(* firmware's loop runs for ever, reconnects and reports, and each end     *)
(* notices in the end that the other one has gone (the firmware by its     *)
(* heartbeat).  Nothing forces a client, an event or a break to come.      *)
(***************************************************************************)
DeliveryFairness ==
  /\ \A w \in Workers : WF_deliveryVars(WorkerStep(w))
  /\ \A c \in Conns : WF_deliveryVars(HandlerStep(c)) /\ WF_deliveryVars(OnWebSocketClose(c))
  /\ \A d \in Devices :
       /\ WF_deliveryVars(DeviceReads(d)) /\ WF_deliveryVars(SendData(d))
       /\ WF_deliveryVars(NoticeClosed(d)) /\ WF_deliveryVars(Connects(d))

FairDeliverySpec == DeliverySpec /\ DeliveryFairness

-----------------------------------------------------------------------------
(* Every variable keeps the type its declaration in the code gives it. *)
DeliveryTypeOK ==
  /\ {db, durable, stored} \subseteq [Devices -> Command \cup {NoCommand}]
  /\ txOpen \in BOOLEAN
  /\ stores \in 0 .. MaxStores
  /\ cached \in [Devices -> Conns \cup {NoConn}]
  /\ conn \in [Conns -> {"new", "open", "closed"}]
  /\ owner \in [Conns -> Devices]
  /\ toServer \in [Conns -> Seq({"authorize", "get_commands", "data"})]
  /\ toDevice \in [Conns -> Seq(Messages)]
  /\ handler \in [Conns -> Answering \cup {Listening}]
  /\ worker \in [Workers -> Busy \cup {Idle}]
  /\ link \in [Devices -> Conns \cup {NoConn}]
  /\ applied \in [Devices -> Command \cup {NoCommand}]
  /\ sent \in [Conns -> 0 .. MaxStores]
  /\ rivals \in [Devices -> SUBSET (Command \cup {NoCommand})]
  /\ breaks \in 0 .. MaxBreaks

(***************************************************************************)
(* The connection the cache has for a device is one the device opened and  *)
(* whose close handler has not run: a lookup never returns a connection    *)
(* that was already gone.  It takes the order of a late authorization, the *)
(* reconnection of the device and the close of the old connection to break *)
(* this (WebsocketCache.cpp:14-16 and 37-45).                              *)
(***************************************************************************)
CachedIsOpen ==
  \A d \in Devices : cached[d] # NoConn =>
    conn[cached[d]] = "open" /\ owner[cached[d]] = d

(* Nothing is under way between the server and a device that is connected. *)
Settled(d) ==
  LET c == link[d]
  IN  /\ c # NoConn
      /\ cached[d] = c
      /\ toServer[c] = <<>> /\ toDevice[c] = <<>>
      /\ handler[c] = Listening
      /\ \A w \in Workers : worker[w].step \in {"idle", "store"}

(***************************************************************************)
(* A store is never forgotten by the delivery: when all is quiet, the      *)
(* command the controller holds was put on the connection the device uses, *)
(* whatever reconnections, late authorizations and lost pushes there were  *)
(* (CommandsService.cpp:48-51, EventsProcessor.cpp:143-146 and the get of  *)
(* the commands after every authorization, UniversalDevice.ino:233).       *)
(***************************************************************************)
NewestCommandSent ==
  \A d \in Devices : Settled(d) => sent[link[d]] = stored[d].number

(***************************************************************************)
(* A device that is settled obeys the command the controller holds, or a   *)
(* rival of it: one that a worker or the handler of a connection had in    *)
(* hand at the very moment that command was stored, for two threads may    *)
(* store in one order and send in the other, and an answer to get_commands *)
(* may be overtaken by a push (the device then keeps the older command     *)
(* until it connects again, for SendCommand does not send what is already  *)
(* stored, EventsProcessor.cpp:138-141).  Nothing older ever comes back,   *)
(* and without a rival the last store wins.  After a restart there is no   *)
(* rival, whichever row survived, unless no command was read for the       *)
(* device (CommandsController.cpp:73-89): it is then sent none, and keeps  *)
(* what it obeyed or had still to read.                                    *)
(***************************************************************************)
OnlyRivalsWin ==
  \A d \in Devices : Settled(d) => applied[d] \in {stored[d]} \cup rivals[d]

(***************************************************************************)
(* Once the links stop breaking and nobody stores any more, the newest     *)
(* command of every device gets on a connection the device uses and stays  *)
(* on it: a lost push is made good by the greeting of the next connection, *)
(* a lost authorization by the reauthorization the next report brings.     *)
(***************************************************************************)
EveryCommandIsSent ==
  \A d \in Devices :
    <>[](stored[d] # NoCommand =>
           link[d] # NoConn /\ sent[link[d]] = stored[d].number)
==============================================================================

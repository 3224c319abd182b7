------------------------ MODULE CommandDeliveryProofs ------------------------
(***************************************************************************)
(* Proofs about the delivery of commands, for any number of devices,       *)
(* connections, threads and commands.                                      *)
(***************************************************************************)
EXTENDS CommandDelivery, StorageProofs, SequenceTheorems, TLAPS

(* The part of the state that WebsocketsCache and the close handler touch.  *)
ConnectionsTypeOK ==
  /\ cached \in [Devices -> Conns \cup {NoConn}]
  /\ conn \in [Conns -> {"new", "open", "closed"}]
  /\ owner \in [Conns -> Devices]

ConnectionVars == <<cached, conn, owner>>

ConnectionsInv == ConnectionsTypeOK /\ CachedIsOpen

(* A step that leaves the connections and their cache alone.                *)
LEMMA Untouched ==
  ASSUME ConnectionsInv, UNCHANGED ConnectionVars
  PROVE  ConnectionsInv'
BY DEF ConnectionsInv, ConnectionsTypeOK, CachedIsOpen, ConnectionVars

(* Only an authorization changes the cache in OnWebSocketMessage.           *)
LEMMA HandlersLeaveConnections ==
  ASSUME NEW c \in Conns,
         \/ AskToReauthorize(c) \/ HandleReport(c) \/ HandleGetCommands(c)
         \/ ReadCommand(c) \/ Reply(c)
  PROVE  UNCHANGED ConnectionVars
BY DEF AskToReauthorize, HandleReport, HandleGetCommands, ReadCommand, Reply,
       ConnectionVars, serverVars, wireVars

(* A device that reads, reports or loses its link leaves the server's end.  *)
LEMMA DevicesLeaveConnections ==
  ASSUME NEW d \in Devices,
         DeviceReads(d) \/ SendData(d) \/ LoseLink(d) \/ NoticeClosed(d)
  PROVE  UNCHANGED ConnectionVars
BY DEF DeviceReads, ApplyCommand, Reauthorizes, Reboot, SendData, LoseLink, NoticeClosed,
       ConnectionVars, serverVars

(***************************************************************************)
(* GetWebSocketConnection never returns a connection whose close handler   *)
(* has run, and never one of another device: an authorization is handled   *)
(* by the connection's own thread, so before its close, and the close      *)
(* removes the connection wherever it is cached (WebsocketCache.cpp:37-45).*)
(* A new connection takes a place that no device has in the cache.         *)
(***************************************************************************)
THEOREM CachedConnectionsOpen == DeliverySpec => []CachedIsOpen
<1>1. DeliveryInit => ConnectionsInv
  BY DeliveryAssumption DEF DeliveryInit, ConnectionsInv, ConnectionsTypeOK, CachedIsOpen
<1>2. ConnectionsInv /\ [DeliveryNext]_deliveryVars => ConnectionsInv'
  <2> SUFFICES ASSUME ConnectionsInv, [DeliveryNext]_deliveryVars
               PROVE  ConnectionsInv'
    OBVIOUS
  <2>1. ASSUME NEW w \in Workers, WorkerStep(w) PROVE ConnectionsInv'
    BY <2>1, Untouched DEF WorkerStep, StoreCommand, GetWebSocketConnection, SendToDevice,
       ConnectionVars, wireVars
  <2>2. ASSUME NEW w \in Workers, NEW d \in Devices, RestartDevice(w, d)
        PROVE  ConnectionsInv'
    BY <2>2, Untouched DEF RestartDevice, ConnectionVars, wireVars
  <2>3. ASSUME NEW w \in Workers, NEW d \in Devices, NEW content \in Commands,
               SetCommands(w, d, content) \/ CheckCommand(w, d, content)
        PROVE  ConnectionsInv'
    BY <2>3, Untouched DEF SetCommands, CheckCommand, ConnectionVars, wireVars
  <2>4. ASSUME NEW c \in Conns, HandlerStep(c) PROVE ConnectionsInv'
    <3>1. CASE AddWebSocketConnection(c)
      BY <3>1 DEF AddWebSocketConnection, Receives, ConnectionsInv, ConnectionsTypeOK,
         CachedIsOpen
    <3> QED
      BY <2>4, <3>1, Untouched, HandlersLeaveConnections DEF HandlerStep
  <2>5. ASSUME NEW c \in Conns, OnWebSocketClose(c) PROVE ConnectionsInv'
    BY <2>5 DEF OnWebSocketClose, ConnectionsInv, ConnectionsTypeOK, CachedIsOpen
  <2>6. ASSUME NEW d \in Devices, Connects(d) PROVE ConnectionsInv'
    BY <2>6 DEF Connects, Connect, Used, serverVars, ConnectionsInv, ConnectionsTypeOK,
       CachedIsOpen
  <2>7. ASSUME NEW d \in Devices,
               DeviceReads(d) \/ SendData(d) \/ LoseLink(d) \/ NoticeClosed(d)
        PROVE  ConnectionsInv'
    BY <2>7, Untouched, DevicesLeaveConnections
  <2>8. CASE RestartServer
    BY <2>8, DeliveryAssumption DEF RestartServer, Used, ConnectionsInv, ConnectionsTypeOK,
       CachedIsOpen
  <2>9. CASE OtherTransaction
    BY <2>9, Untouched DEF OtherTransaction, wireVars, ConnectionVars
  <2>10. CASE UNCHANGED deliveryVars
    BY <2>10, Untouched DEF deliveryVars, serverVars, wireVars, ConnectionVars
  <2> QED
    BY <2>1, <2>2, <2>3, <2>4, <2>5, <2>6, <2>7, <2>8, <2>9, <2>10 DEF DeliveryNext
<1>3. ConnectionsInv => CachedIsOpen
  BY DEF ConnectionsInv
<1> QED
  BY <1>1, <1>2, <1>3, PTL DEF DeliverySpec
------------------------------------------------------------------------------
(* The types, in the parts that steps change together.                      *)
Texts == {"authorize", "get_commands", "data"}

StoreTypeOK ==
  /\ db \in [Devices -> Command \cup {NoCommand}]
  /\ durable \in [Devices -> Command \cup {NoCommand}]
  /\ txOpen \in BOOLEAN
  /\ stored \in [Devices -> Command \cup {NoCommand}]
  /\ stores \in 0 .. MaxStores
  /\ rivals \in [Devices -> SUBSET (Command \cup {NoCommand})]

ThreadsTypeOK ==
  /\ handler \in [Conns -> Answering \cup {Listening}]
  /\ worker \in [Workers -> Busy \cup {Idle}]

ToServerTypeOK == toServer \in [Conns -> Seq(Texts)]

ToDeviceTypeOK ==
  /\ toDevice \in [Conns -> Seq(Messages)]
  /\ sent \in [Conns -> 0 .. MaxStores]

DevicesTypeOK ==
  /\ link \in [Devices -> Conns \cup {NoConn}]
  /\ applied \in [Devices -> Command \cup {NoCommand}]
  /\ breaks \in 0 .. MaxBreaks

TypesOK ==
  /\ StoreTypeOK /\ ThreadsTypeOK /\ ConnectionsTypeOK
  /\ ToServerTypeOK /\ ToDeviceTypeOK /\ DevicesTypeOK

LEMMA DeliveryTypeOKSplit == DeliveryTypeOK <=> TypesOK
BY DEF DeliveryTypeOK, TypesOK, StoreTypeOK, ThreadsTypeOK, ConnectionsTypeOK, ToServerTypeOK,
       ToDeviceTypeOK, DevicesTypeOK, Texts

(* What a worker and a handler are doing, by the step.                      *)
LEMMA WorkerFields ==
  ASSUME ThreadsTypeOK, NEW w \in Workers
  PROVE  /\ worker[w].step \in {"idle", "store", "lookup", "send"}
         /\ worker[w].step = "idle" => worker[w] = Idle
         /\ worker[w].step = "store" => worker[w].device \in Devices /\ worker[w].content \in Commands
         /\ worker[w].step = "lookup" =>
              /\ worker[w].device \in Devices
              /\ worker[w].message \in Pushes \cup {Restart}
              /\ worker[w] = [step |-> "lookup", device |-> worker[w].device, message |-> worker[w].message]
         /\ worker[w].step = "send" =>
              /\ worker[w].conn \in Conns
              /\ worker[w].message \in Pushes \cup {Restart}
              /\ worker[w] = [step |-> "send", conn |-> worker[w].conn, message |-> worker[w].message]
<1>1. worker[w] \in Busy \cup {Idle}
  BY DEF ThreadsTypeOK
<1> QED
  BY <1>1 DEF Busy, Idle

LEMMA HandlerFields ==
  ASSUME ThreadsTypeOK, NEW c \in Conns
  PROVE  /\ handler[c].step \in {"idle", "read", "reply"}
         /\ handler[c].step = "idle" <=> handler[c] = Listening
         /\ handler[c].step = "reply" =>
              /\ handler[c].command \in Command \cup {NoCommand}
              /\ handler[c] = [step |-> "reply", command |-> handler[c].command]
<1>1. handler[c] \in Answering \cup {Listening}
  BY DEF ThreadsTypeOK
<1> QED
  BY <1>1 DEF Answering, Listening

(* The numbers of commands, and what tells the kinds of messages apart.     *)
LEMMA CommandFields ==
  /\ \A x \in Command \cup {NoCommand} : x.number \in 0 .. MaxStores
  /\ \A x \in Command : x.number > 0
  /\ NoCommand.number = 0
BY DeliveryAssumption DEF Command, NoCommand

LEMMA MessageKinds ==
  /\ \A m \in Messages : m.kind = "command" => m.command \in Command /\ m = Push(m.command)
  /\ \A x \in Command : Push(x) \in Pushes /\ Push(x).kind = "command" /\ Push(x).command = x
  /\ Pushes \subseteq Messages
  /\ Restart \in Messages /\ Restart.kind = "restart"
  /\ Reauthorize \in Messages /\ Reauthorize.kind = "reauthorize"
BY DEF Messages, Pushes, Push, Restart, Reauthorize

LEMMA GreetingTexts ==
  Greeting \in Seq(Texts) /\ Len(Greeting) = 2
    /\ Greeting[1] = "authorize" /\ Greeting[2] = "get_commands"
BY DEF Greeting, Texts

LEMMA DataTexts == <<"data">> \in Seq(Texts) /\ Len(<<"data">>) = 1 /\ <<"data">>[1] = "data"
BY DEF Texts

LEMMA SendTextType ==
  ASSUME ToDeviceTypeOK, NEW c \in Conns, NEW m \in Messages, SendText(c, m)
  PROVE  ToDeviceTypeOK'
<1>1. CASE ~Alive(c)
  BY <1>1 DEF SendText, ToDeviceTypeOK
<1>2. CASE Alive(c)
  <2>1. Append(toDevice[c], m) \in Seq(Messages)
    BY AppendProperties DEF ToDeviceTypeOK
  <2>2. toDevice' \in [Conns -> Seq(Messages)]
    BY <1>2, <2>1 DEF SendText, ToDeviceTypeOK
  <2>3. m.kind = "command" => m.command.number \in 0 .. MaxStores
    BY CommandFields, MessageKinds
  <2>4. sent' \in [Conns -> 0 .. MaxStores]
    BY <1>2, <2>3 DEF SendText, ToDeviceTypeOK
  <2> QED
    BY <2>2, <2>4 DEF ToDeviceTypeOK
<1> QED
  BY <1>1, <1>2

LEMMA ReceivesType ==
  ASSUME ToServerTypeOK, NEW c \in Conns, NEW kinds, Receives(c, kinds)
  PROVE  ToServerTypeOK'
<1>1. Tail(toServer[c]) \in Seq(Texts)
  BY HeadTailProperties DEF Receives, ToServerTypeOK
<1> QED
  BY <1>1 DEF Receives, ToServerTypeOK

LEMMA ReadsTextType ==
  ASSUME ToDeviceTypeOK, DevicesTypeOK, NEW d \in Devices, NEW kind, ReadsText(d, kind)
  PROVE  toDevice' \in [Conns -> Seq(Messages)] /\ Head(toDevice[link[d]]) \in Messages
<1>1. link[d] \in Conns
  BY DEF ReadsText, DevicesTypeOK
<1>2. Head(toDevice[link[d]]) \in Messages /\ Tail(toDevice[link[d]]) \in Seq(Messages)
  BY <1>1, HeadTailProperties DEF ReadsText, ToDeviceTypeOK
<1> QED
  BY <1>1, <1>2 DEF ReadsText, ToDeviceTypeOK

LEMMA DeviceSendsType ==
  ASSUME ToServerTypeOK, DevicesTypeOK, NEW d \in Devices, link[d] # NoConn,
         NEW texts \in Seq(Texts), DeviceSends(d, texts)
  PROVE  ToServerTypeOK'
<1>1. link[d] \in Conns
  BY DEF DevicesTypeOK
<1>2. toServer[link[d]] \o texts \in Seq(Texts)
  BY <1>1, ConcatProperties DEF ToServerTypeOK
<1> QED
  BY <1>1, <1>2 DEF DeviceSends, ToServerTypeOK

LEMMA StoreType ==
  ASSUME StoreTypeOK, ThreadsTypeOK, NEW w \in Workers, NEW d \in Devices,
         NEW content \in Commands, StoreAndContinue(w, d, content), UNCHANGED handler
  PROVE  StoreTypeOK' /\ ThreadsTypeOK'
<1> DEFINE T == [Devices -> Command \cup {NoCommand}]
<1>0. StorageTypeOK(T)
  BY DEF StoreTypeOK, StorageTypeOK
<1>1. PICK ok \in BOOLEAN :
        /\ AddOrUpdate(d, content, ok)
        /\ worker' = [worker EXCEPT ![w] =
             IF ok THEN [step |-> "lookup", device |-> d, message |-> Push(stored'[d])] ELSE Idle]
  BY DEF StoreAndContinue
<1>2. CASE ok
  <2> DEFINE new == [content |-> content, number |-> stores + 1]
  <2>1. new \in Command /\ stores' \in 0 .. MaxStores
    BY <1>1, <1>2, DeliveryAssumption DEF AddOrUpdate, Command, StoreTypeOK
  <2>2. stored' = [stored EXCEPT ![d] = new] /\ rivals' = [rivals EXCEPT ![d] = InHand(d)]
    BY <1>1, <1>2 DEF AddOrUpdate
  <2>3. InHand(d) \subseteq Command
    BY DEF InHand
  <2>4. PICK c \in Connections : Leaves(c, [c.rows EXCEPT ![d] = new])
    BY <1>1, <1>2 DEF AddOrUpdate
  <2>5. c.rows \in T
    BY <1>0, ConnectionType
  <2>6. [c.rows EXCEPT ![d] = new] \in T
    BY <2>1, <2>5
  <2> HIDE DEF T
  <2>7. StorageTypeOK(T)'
    BY <1>0, <2>4, <2>6, LeavesType
  <2> USE DEF T
  <2>8. StoreTypeOK'
    BY <2>1, <2>2, <2>3, <2>7 DEF StorageTypeOK, StoreTypeOK
  <2>9. [step |-> "lookup", device |-> d, message |-> Push(stored'[d])] \in Busy
    BY <2>1, <2>2, MessageKinds DEF StoreTypeOK, Busy
  <2>10. ThreadsTypeOK'
    BY <1>1, <1>2, <2>9 DEF ThreadsTypeOK
  <2> QED
    BY <2>8, <2>10
<1>3. CASE ~ok
  <2>1. Fails("write") /\ UNCHANGED <<stored, stores, rivals>>
    BY <1>1, <1>3 DEF AddOrUpdate
  <2> HIDE DEF T
  <2>2. StorageTypeOK(T)'
    BY <1>0, <2>1, FailsType
  <2> USE DEF T
  <2> QED
    BY <1>1, <1>3, <2>1, <2>2 DEF StorageTypeOK, StoreTypeOK, ThreadsTypeOK
<1> QED
  BY <1>2, <1>3

(* The transactions of scenarios keep the types of the tables.              *)
LEMMA OtherTransactionType ==
  ASSUME StoreTypeOK, OtherTransaction
  PROVE  StoreTypeOK'
<1> DEFINE T == [Devices -> Command \cup {NoCommand}]
<1>1. StorageTypeOK(T)
  BY DEF StoreTypeOK, StorageTypeOK
<1>2. PICK ok \in BOOLEAN : Begin(ok) \/ Commit(ok)
  BY DEF OtherTransaction
<1> HIDE DEF T
<1>3. StorageTypeOK(T)'
  BY <1>1, <1>2, TransactionType
<1> USE DEF T
<1> QED
  BY <1>3 DEF StorageTypeOK, StoreTypeOK, OtherTransaction

(* A restart reads the rows of the file, or none.                           *)
LEMMA RestartType ==
  ASSUME StoreTypeOK, DevicesTypeOK, RestartServer
  PROVE  StoreTypeOK'
<1>1. stored' = durable \/ stored' = [d \in Devices |-> NoCommand]
  BY DEF RestartServer
<1>2. db' = durable /\ durable' = durable /\ txOpen' = FALSE /\ stores' = stores
  BY DEF RestartServer, Reconnects
<1>3. \A d \in Devices : Unread(d) \subseteq Command /\ applied[d] \in Command \cup {NoCommand}
  BY DEF Unread, DevicesTypeOK
<1>4. rivals' = [d \in Devices |->
        IF stored'[d] = NoCommand THEN {applied[d]} \cup Unread(d) ELSE {}]
  BY DEF RestartServer
<1>5. rivals' \in [Devices -> SUBSET (Command \cup {NoCommand})]
  BY <1>3, <1>4
<1> QED
  BY <1>1, <1>2, <1>5 DEF StoreTypeOK

(***************************************************************************)
(* Every variable of the server, the wires and the devices keeps its type  *)
(* through lost links, restarts and failing INSERTs.                       *)
(***************************************************************************)
THEOREM DeliveryTypeCorrect == DeliverySpec => []DeliveryTypeOK
<1> USE DEF TypesOK
<1>1. DeliveryInit => TypesOK
  <2>1. <<>> \in Seq(Texts) /\ <<>> \in Seq(Messages)
    BY EmptySeq
  <2>2. Listening \in Answering \cup {Listening} /\ Idle \in Busy \cup {Idle}
    OBVIOUS
  <2>3. 0 \in 0 .. MaxStores /\ 0 \in 0 .. MaxBreaks
    BY DeliveryAssumption
  <2> SUFFICES ASSUME DeliveryInit PROVE TypesOK
    OBVIOUS
  <2>4. [d \in Devices |-> NoCommand] \in [Devices -> Command \cup {NoCommand}]
    OBVIOUS
  <2>5. db = [d \in Devices |-> NoCommand] /\ durable = db /\ stored = db /\ txOpen = FALSE
        /\ stores = 0
    BY DEF DeliveryInit
  <2>6. rivals \in [Devices -> SUBSET (Command \cup {NoCommand})]
    BY DEF DeliveryInit
  <2>7. StoreTypeOK
    BY <2>3, <2>4, <2>5, <2>6 DEF StoreTypeOK
  <2> QED
    BY <2>1, <2>2, <2>3, <2>7, DeliveryAssumption DEF DeliveryInit, ThreadsTypeOK,
       ConnectionsTypeOK, ToServerTypeOK, ToDeviceTypeOK, DevicesTypeOK
<1>2. TypesOK /\ [DeliveryNext]_deliveryVars => TypesOK'
  <2> SUFFICES ASSUME TypesOK, [DeliveryNext]_deliveryVars PROVE TypesOK'
    OBVIOUS
  <2> USE DEF serverVars, storeVars, storageVars, wireVars, deviceVars
  <2>0. Idle \in Busy \cup {Idle}
    OBVIOUS
  <2>1. ASSUME NEW w \in Workers, StoreCommand(w) PROVE TypesOK'
    BY <2>1, StoreType, WorkerFields DEF StoreCommand, ConnectionsTypeOK, ToServerTypeOK,
       ToDeviceTypeOK, DevicesTypeOK
  <2>2. ASSUME NEW w \in Workers, GetWebSocketConnection(w) PROVE TypesOK'
    <3>1. cached[worker[w].device] \in Conns \cup {NoConn}
      BY <2>2, WorkerFields DEF GetWebSocketConnection, ConnectionsTypeOK
    <3>2. \A c \in Conns : [step |-> "send", conn |-> c, message |-> worker[w].message] \in Busy
      BY <2>2, WorkerFields DEF GetWebSocketConnection, Busy
    <3>3. ThreadsTypeOK'
      BY <2>2, <3>1, <3>2 DEF GetWebSocketConnection, ThreadsTypeOK
    <3> QED
      BY <2>2, <3>3 DEF GetWebSocketConnection, StoreTypeOK, ConnectionsTypeOK, ToServerTypeOK,
         ToDeviceTypeOK, DevicesTypeOK
  <2>3. ASSUME NEW w \in Workers, SendToDevice(w) PROVE TypesOK'
    <3>1. ToDeviceTypeOK'
      BY <2>3, WorkerFields, MessageKinds, SendTextType DEF SendToDevice
    <3> QED
      BY <2>3, <3>1 DEF SendToDevice, StoreTypeOK, ThreadsTypeOK, ConnectionsTypeOK,
         ToServerTypeOK, DevicesTypeOK
  <2>4. ASSUME NEW w \in Workers, NEW d \in Devices, RestartDevice(w, d) PROVE TypesOK'
    <3>1. [step |-> "lookup", device |-> d, message |-> Restart] \in Busy
      BY DEF Busy
    <3>2. ThreadsTypeOK' /\ DevicesTypeOK'
      BY <2>4, <3>1, DeliveryAssumption DEF RestartDevice, ThreadsTypeOK, DevicesTypeOK
    <3> QED
      BY <2>4, <3>2 DEF RestartDevice, StoreTypeOK, ConnectionsTypeOK, ToServerTypeOK, ToDeviceTypeOK
  <2>5. ASSUME NEW w \in Workers, NEW d \in Devices, NEW content \in Commands,
               SetCommands(w, d, content)
        PROVE  TypesOK'
    BY <2>5, StoreType DEF SetCommands, ConnectionsTypeOK, ToServerTypeOK, ToDeviceTypeOK,
       DevicesTypeOK
  <2>6. ASSUME NEW w \in Workers, NEW d \in Devices, NEW content \in Commands,
               CheckCommand(w, d, content)
        PROVE  TypesOK'
    <3>1. [step |-> "store", device |-> d, content |-> content] \in Busy
      BY DEF Busy
    <3> QED
      BY <2>6, <3>1 DEF CheckCommand, StoreTypeOK, ThreadsTypeOK, ConnectionsTypeOK,
         ToServerTypeOK, ToDeviceTypeOK, DevicesTypeOK
  <2>7. ASSUME NEW c \in Conns, AddWebSocketConnection(c) PROVE TypesOK'
    <3>1. ToServerTypeOK'
      BY <2>7, ReceivesType DEF AddWebSocketConnection
    <3> QED
      BY <2>7, <3>1 DEF AddWebSocketConnection, StoreTypeOK, ThreadsTypeOK, ConnectionsTypeOK,
         ToDeviceTypeOK, DevicesTypeOK
  <2>8. ASSUME NEW c \in Conns, AskToReauthorize(c) PROVE TypesOK'
    <3>1. ToServerTypeOK' /\ ToDeviceTypeOK'
      BY <2>8, ReceivesType, SendTextType, MessageKinds DEF AskToReauthorize
    <3> QED
      BY <2>8, <3>1 DEF AskToReauthorize, StoreTypeOK, ThreadsTypeOK, ConnectionsTypeOK,
         DevicesTypeOK
  <2>9. ASSUME NEW c \in Conns, HandleReport(c) PROVE TypesOK'
    <3>1. ToServerTypeOK'
      BY <2>9, ReceivesType DEF HandleReport
    <3> QED
      BY <2>9, <3>1 DEF HandleReport, StoreTypeOK, ThreadsTypeOK, ConnectionsTypeOK,
         ToDeviceTypeOK, DevicesTypeOK
  <2>10. ASSUME NEW c \in Conns, HandleGetCommands(c) PROVE TypesOK'
    <3>1. ToServerTypeOK'
      BY <2>10, ReceivesType DEF HandleGetCommands
    <3>2. [step |-> "read"] \in Answering
      BY DEF Answering
    <3> QED
      BY <2>10, <3>1, <3>2 DEF HandleGetCommands, StoreTypeOK, ThreadsTypeOK, ConnectionsTypeOK,
         ToDeviceTypeOK, DevicesTypeOK
  <2>11. ASSUME NEW c \in Conns, ReadCommand(c) PROVE TypesOK'
    <3>1. stored[owner[c]] \in Command \cup {NoCommand}
      BY DEF StoreTypeOK, ConnectionsTypeOK
    <3>2. [step |-> "reply", command |-> stored[owner[c]]] \in Answering
      BY <3>1 DEF Answering
    <3> QED
      BY <2>11, <3>2 DEF ReadCommand, StoreTypeOK, ThreadsTypeOK, ConnectionsTypeOK,
         ToServerTypeOK, ToDeviceTypeOK, DevicesTypeOK
  <2>12. ASSUME NEW c \in Conns, Reply(c) PROVE TypesOK'
    <3>1. ToDeviceTypeOK'
      <4>1. CASE handler[c].command = NoCommand
        BY <2>12, <4>1 DEF Reply, ToDeviceTypeOK
      <4>2. CASE handler[c].command # NoCommand
        <5>1. Push(handler[c].command) \in Messages
          BY <2>12, <4>2, HandlerFields, MessageKinds DEF Reply
        <5> QED
          BY <2>12, <4>2, <5>1, SendTextType DEF Reply
      <4> QED
        BY <4>1, <4>2
    <3> QED
      BY <2>12, <3>1 DEF Reply, StoreTypeOK, ThreadsTypeOK, ConnectionsTypeOK, ToServerTypeOK,
         DevicesTypeOK
  <2>13. <<>> \in Seq(Texts) /\ <<>> \in Seq(Messages)
    BY EmptySeq
  <2>14. ASSUME NEW c \in Conns, OnWebSocketClose(c) PROVE TypesOK'
    BY <2>13, <2>14 DEF OnWebSocketClose, StoreTypeOK, ThreadsTypeOK, ConnectionsTypeOK,
       ToServerTypeOK, ToDeviceTypeOK, DevicesTypeOK
  <2>15. CASE RestartServer
    BY <2>0, <2>13, <2>15, RestartType, DeliveryAssumption DEF RestartServer, ThreadsTypeOK,
       ConnectionsTypeOK, ToServerTypeOK, ToDeviceTypeOK, DevicesTypeOK
  <2>16. ASSUME NEW d \in Devices, NEW c \in Conns, Connect(d, c) PROVE TypesOK'
    BY <2>16, GreetingTexts DEF Connect, StoreTypeOK, ThreadsTypeOK, ConnectionsTypeOK,
       ToServerTypeOK, ToDeviceTypeOK, DevicesTypeOK
  <2>17. ASSUME NEW d \in Devices, LoseLink(d) \/ NoticeClosed(d) PROVE TypesOK'
    <3>1. toDevice' = [toDevice EXCEPT ![link[d]] = <<>>] /\ link' = [link EXCEPT ![d] = NoConn]
      BY <2>17 DEF LoseLink, NoticeClosed
    <3>2. breaks' \in 0 .. MaxBreaks
      BY <2>17, DeliveryAssumption DEF LoseLink, NoticeClosed, DevicesTypeOK
    <3>3. ToDeviceTypeOK' /\ DevicesTypeOK'
      BY <2>13, <2>17, <3>1, <3>2 DEF LoseLink, NoticeClosed, ToDeviceTypeOK, DevicesTypeOK
    <3> QED
      BY <2>17, <3>3 DEF LoseLink, NoticeClosed, StoreTypeOK, ThreadsTypeOK, ConnectionsTypeOK,
         ToServerTypeOK
  <2>18. ASSUME NEW d \in Devices, SendData(d) PROVE TypesOK'
    BY <2>18, DataTexts DEF SendData, StoreTypeOK, ThreadsTypeOK, ConnectionsTypeOK,
       ToServerTypeOK, ToDeviceTypeOK, DevicesTypeOK
  <2>19. ASSUME NEW d \in Devices, ApplyCommand(d) PROVE TypesOK'
    <3>1. ToServerTypeOK'
      BY <2>19, DeviceSendsType, DataTexts DEF ApplyCommand, ReadsText
    <3>2. toDevice' \in [Conns -> Seq(Messages)] /\ Head(toDevice[link[d]]).command \in Command
      BY <2>19, ReadsTextType, MessageKinds DEF ApplyCommand, ReadsText
    <3> QED
      BY <2>19, <3>1, <3>2 DEF ApplyCommand, StoreTypeOK, ThreadsTypeOK, ConnectionsTypeOK,
         ToDeviceTypeOK, DevicesTypeOK
  <2>20. ASSUME NEW d \in Devices, Reauthorizes(d) PROVE TypesOK'
    <3>1. ToServerTypeOK'
      BY <2>20, DeviceSendsType, GreetingTexts DEF Reauthorizes, ReadsText
    <3>2. toDevice' \in [Conns -> Seq(Messages)]
      BY <2>20, ReadsTextType DEF Reauthorizes
    <3> QED
      BY <2>20, <3>1, <3>2 DEF Reauthorizes, StoreTypeOK, ThreadsTypeOK, ConnectionsTypeOK,
         ToDeviceTypeOK, DevicesTypeOK
  <2>21. ASSUME NEW d \in Devices, Reboot(d) PROVE TypesOK'
    BY <2>13, <2>21 DEF Reboot, StoreTypeOK, ThreadsTypeOK, ConnectionsTypeOK, ToServerTypeOK,
       ToDeviceTypeOK, DevicesTypeOK
  <2>23. CASE OtherTransaction
    BY <2>23, OtherTransactionType DEF OtherTransaction, ThreadsTypeOK, ConnectionsTypeOK,
       ToServerTypeOK, ToDeviceTypeOK, DevicesTypeOK
  <2>22. CASE UNCHANGED deliveryVars
    BY <2>22 DEF deliveryVars, StoreTypeOK, ThreadsTypeOK, ConnectionsTypeOK, ToServerTypeOK,
       ToDeviceTypeOK, DevicesTypeOK
  <2> QED
    BY <2>1, <2>2, <2>3, <2>4, <2>5, <2>6, <2>7, <2>8, <2>9, <2>10, <2>11, <2>12, <2>14, <2>15,
       <2>16, <2>17, <2>18, <2>19, <2>20, <2>21, <2>22, <2>23
       DEF DeliveryNext, WorkerStep, HandlerStep, DeviceReads, Connects
<1> QED
  BY <1>1, <1>2, DeliveryTypeOKSplit, PTL DEF DeliverySpec
------------------------------------------------------------------------------
(* Every "authorize" is followed by a "get_commands": a greeting is sent    *)
(* and handled in its order.                                               *)
GreetsWhole(texts) ==
  \A i \in DOMAIN texts :
    texts[i] = "authorize" => i + 1 \in DOMAIN texts /\ texts[i + 1] = "get_commands"

(* A message to d has no command that is newer than the one stored for d.   *)
NotNewer(m, d) == m.kind = "command" => m.command.number <= stored[d].number

(* Who uses which connection, ...                                           *)
ConnectionsUsed ==
  /\ \A c \in Conns : conn[c] = "new" => sent[c] = 0 /\ toDevice[c] = <<>>
  /\ \A c \in Conns : handler[c] # Listening => conn[c] = "open"
  /\ \A d \in Devices : link[d] # NoConn => owner[link[d]] = d /\ conn[link[d]] # "new"
  /\ \A w \in Workers : worker[w].step = "send" => conn[worker[w].conn] # "new"
  /\ \A c \in Conns : GreetsWhole(toServer[c])

(* The rows, in the file, in an open transaction and in the cache, are of   *)
(* stores that were made.                                                  *)
RowsNumbered ==
  \A d \in Devices :
    db[d].number <= stores /\ durable[d].number <= stores /\ stored[d].number <= stores

(* The numbers of what is on its way or was sent since the server started.  *)
NumbersBounded ==
  /\ \A c \in Conns : conn[c] = "open" => sent[c] <= stored[owner[c]].number
  /\ \A c \in Conns : conn[c] = "open" =>
       \A i \in DOMAIN toDevice[c] : NotNewer(toDevice[c][i], owner[c])
  /\ \A c \in Conns :
       handler[c].step = "reply" => handler[c].command.number <= stored[owner[c]].number
  /\ \A w \in Workers : worker[w].step = "lookup" => NotNewer(worker[w].message, worker[w].device)
  /\ \A w \in Workers :
       worker[w].step = "send" => NotNewer(worker[w].message, owner[worker[w].conn])

(* What d may obey once it is settled.                                      *)
Welcome(d) == {stored[d]} \cup rivals[d]

(* A device that the server has no command for obeys, and will still read,  *)
(* only what the last restart found there.                                 *)
KeptWithoutCommand ==
  \A d \in Devices : stored[d] = NoCommand =>
    /\ applied[d] \in Welcome(d)
    /\ link[d] # NoConn => \A i \in DOMAIN toDevice[link[d]] :
         toDevice[link[d]][i].kind = "command" => toDevice[link[d]][i].command \in rivals[d]

(* Somebody will put the newest command of d on connection c.               *)
WillSend(d, c) ==
  \/ \E w \in Workers : worker[w] = [step |-> "lookup", device |-> d, message |-> Push(stored[d])]
  \/ \E w \in Workers : worker[w] = [step |-> "send", conn |-> c, message |-> Push(stored[d])]
  \/ handler[c].step = "read"
  \/ handler[c] = [step |-> "reply", command |-> stored[d]]
  \/ \E i \in DOMAIN toServer[c] : toServer[c][i] = "get_commands"

(* A device that the server knows by its connection has got the newest      *)
(* command there or will get it.                                           *)
GetsNewest(d, c) == sent[c] = stored[d].number \/ WillSend(d, c)

NewestUnderWay ==
  \A d \in Devices : link[d] # NoConn /\ cached[d] = link[d] => GetsNewest(d, link[d])

(* What a thread has in hand for d is the newest command or a rival of it.  *)
OnlyWelcome == \A d \in Devices : InHand(d) \subseteq Welcome(d)

NoCommandIn(texts) == \A i \in DOMAIN texts : texts[i].kind # "command"

(* The last command that a device reads from texts, or else the one it      *)
(* obeys, is in S.                                                         *)
EndsIn(S, obeyed, texts) ==
  \/ NoCommandIn(texts) /\ obeyed \in S
  \/ \E i \in DOMAIN texts :
       /\ \E x \in S : texts[i] = Push(x)
       /\ \A j \in DOMAIN texts : j > i => texts[j].kind # "command"

(* Once the newest command is on the connection that a device and the       *)
(* server use, what the device reads last is that command or a rival.      *)
WelcomeReadLast ==
  \A d \in Devices :
    link[d] # NoConn /\ conn[link[d]] = "open" /\ sent[link[d]] = stored[d].number
      => EndsIn(Welcome(d), applied[d], toDevice[link[d]])

------------------------------------------------------------------------------
(* Texts that are handled and sent in their order.                          *)
LEMMA GreetsTail ==
  ASSUME NEW s \in Seq(Texts), s # <<>>, GreetsWhole(s)
  PROVE  /\ GreetsWhole(Tail(s))
         /\ (\E i \in DOMAIN s : s[i] = "get_commands") /\ Head(s) # "get_commands"
              => \E i \in DOMAIN Tail(s) : Tail(s)[i] = "get_commands"
         /\ Head(s) = "authorize" => \E i \in DOMAIN Tail(s) : Tail(s)[i] = "get_commands"
<1>1. /\ Len(s) \in Nat /\ DOMAIN s = 1 .. Len(s) /\ s[1] = Head(s)
      /\ Tail(s) \in Seq(Texts) /\ Len(Tail(s)) = Len(s) - 1
      /\ \A i \in 1 .. Len(Tail(s)) : Tail(s)[i] = s[i + 1]
  BY HeadTailProperties, LenProperties
<1>2. Len(s) > 0 /\ DOMAIN Tail(s) = 1 .. Len(s) - 1
  BY <1>1, EmptySeq, LenProperties
<1>3. \A i \in DOMAIN s : i # 1 => i - 1 \in DOMAIN Tail(s) /\ Tail(s)[i - 1] = s[i]
  BY <1>1, <1>2
<1>4. GreetsWhole(Tail(s))
  <2> SUFFICES ASSUME NEW i \in DOMAIN Tail(s), Tail(s)[i] = "authorize"
               PROVE  i + 1 \in DOMAIN Tail(s) /\ Tail(s)[i + 1] = "get_commands"
    BY DEF GreetsWhole
  <2>1. i + 1 \in DOMAIN s /\ s[i + 1] = "authorize"
    BY <1>1, <1>2
  <2>2. (i + 1) + 1 \in DOMAIN s /\ s[(i + 1) + 1] = "get_commands"
    BY <2>1 DEF GreetsWhole
  <2> QED
    BY <1>1, <1>2, <2>2
<1>5. Head(s) = "authorize" => 2 \in DOMAIN s /\ s[2] = "get_commands"
  BY <1>1, <1>2 DEF GreetsWhole
<1> QED
  BY <1>1, <1>3, <1>4, <1>5

LEMMA GreetsConcat ==
  ASSUME NEW s \in Seq(Texts), NEW t \in Seq(Texts), GreetsWhole(s), GreetsWhole(t)
  PROVE  /\ GreetsWhole(s \o t)
         /\ \A i \in DOMAIN s : i \in DOMAIN (s \o t) /\ (s \o t)[i] = s[i]
<1>1. /\ Len(s) \in Nat /\ Len(t) \in Nat
      /\ DOMAIN s = 1 .. Len(s) /\ DOMAIN t = 1 .. Len(t)
      /\ DOMAIN (s \o t) = 1 .. Len(s) + Len(t)
      /\ \A i \in 1 .. Len(s) + Len(t) : (s \o t)[i] = IF i <= Len(s) THEN s[i] ELSE t[i - Len(s)]
  BY ConcatProperties, LenProperties
<1>2. ASSUME NEW i \in DOMAIN (s \o t), (s \o t)[i] = "authorize"
      PROVE  i + 1 \in DOMAIN (s \o t) /\ (s \o t)[i + 1] = "get_commands"
  <2>1. CASE i <= Len(s)
    <3>1. i + 1 \in DOMAIN s /\ s[i + 1] = "get_commands"
      BY <1>1, <1>2, <2>1 DEF GreetsWhole
    <3> QED
      BY <1>1, <3>1
  <2>2. CASE i > Len(s)
    <3>1. i - Len(s) \in DOMAIN t /\ t[i - Len(s)] = "authorize"
      BY <1>1, <1>2, <2>2
    <3>2. (i - Len(s)) + 1 \in DOMAIN t /\ t[(i - Len(s)) + 1] = "get_commands"
      BY <3>1 DEF GreetsWhole
    <3> QED
      BY <1>1, <2>2, <3>2
  <2> QED
    BY <1>1, <2>1, <2>2
<1> QED
  BY <1>1, <1>2 DEF GreetsWhole

LEMMA GreetsAlone ==
  GreetsWhole(<<>>) /\ GreetsWhole(Greeting) /\ GreetsWhole(<<"data">>)
<1>1. DOMAIN Greeting = 1 .. 2 /\ DOMAIN <<"data">> = 1 .. 1 /\ DOMAIN <<>> = {}
  BY GreetingTexts, DataTexts, LenProperties
<1> QED
  BY <1>1, GreetingTexts, DataTexts DEF GreetsWhole

(* The effect of the steps on the texts to the server, ...                  *)
LEMMA ReceivesEffect ==
  ASSUME TypesOK, ConnectionsUsed, NEW c \in Conns, NEW kinds, Receives(c, kinds)
  PROVE  /\ conn[c] = "open" /\ handler[c] = Listening /\ toServer[c] # <<>>
         /\ toServer[c] \in Seq(Texts)
         /\ toServer'[c] = Tail(toServer[c]) /\ Head(toServer[c]) \in kinds
         /\ \A e \in Conns : e # c => toServer'[e] = toServer[e]
         /\ \A e \in Conns : GreetsWhole(toServer'[e])
<1>1. toServer[c] \in Seq(Texts) /\ toServer' = [toServer EXCEPT ![c] = Tail(toServer[c])]
  BY DEF TypesOK, ToServerTypeOK, Receives
<1>2. GreetsWhole(Tail(toServer[c]))
  BY <1>1, GreetsTail DEF Receives, ConnectionsUsed
<1> QED
  BY <1>1, <1>2 DEF TypesOK, ToServerTypeOK, Receives, ConnectionsUsed

LEMMA DeviceSendsEffect ==
  ASSUME TypesOK, ConnectionsUsed, NEW d \in Devices, link[d] # NoConn,
         NEW texts \in Seq(Texts), GreetsWhole(texts), DeviceSends(d, texts)
  PROVE  /\ \A c \in Conns : \A i \in DOMAIN toServer[c] :
              i \in DOMAIN toServer'[c] /\ toServer'[c][i] = toServer[c][i]
         /\ \A c \in Conns : GreetsWhole(toServer'[c])
<1>0. toServer \in [Conns -> Seq(Texts)] /\ link[d] \in Conns
  BY DEF TypesOK, ToServerTypeOK, DevicesTypeOK
<1>1. CASE toServer' = toServer
  BY <1>1 DEF ConnectionsUsed
<1>2. CASE toServer' = [toServer EXCEPT ![link[d]] = toServer[link[d]] \o texts]
  <2>1. /\ GreetsWhole(toServer[link[d]] \o texts)
        /\ \A i \in DOMAIN toServer[link[d]] :
             /\ i \in DOMAIN (toServer[link[d]] \o texts)
             /\ (toServer[link[d]] \o texts)[i] = toServer[link[d]][i]
    BY <1>0, GreetsConcat DEF ConnectionsUsed
  <2>2. /\ toServer'[link[d]] = toServer[link[d]] \o texts
        /\ \A c \in Conns : c # link[d] => toServer'[c] = toServer[c]
    BY <1>0, <1>2
  <2>3. \A c \in Conns : GreetsWhole(toServer[c])
    BY DEF ConnectionsUsed
  <2>4. \A c \in Conns : GreetsWhole(toServer'[c])
    BY <2>1, <2>2, <2>3
  <2>5. ASSUME NEW c \in Conns, NEW i \in DOMAIN toServer[c]
        PROVE  i \in DOMAIN toServer'[c] /\ toServer'[c][i] = toServer[c][i]
    BY <2>1, <2>2
  <2> QED
    BY <2>4, <2>5
<1> QED
  BY <1>1, <1>2 DEF DeviceSends

(* ... on those to a device, ...                                            *)
LEMMA SendTextEffect ==
  ASSUME TypesOK, NEW c \in Conns, NEW m \in Messages, SendText(c, m)
  PROVE  /\ \A e \in Conns : e # c => toDevice'[e] = toDevice[e] /\ sent'[e] = sent[e]
         /\ ~Alive(c) => toDevice'[c] = toDevice[c] /\ sent'[c] = sent[c]
         /\ Alive(c) =>
              /\ conn[c] = "open" /\ link[owner[c]] = c
              /\ toDevice'[c] = Append(toDevice[c], m)
              /\ sent'[c] = IF m.kind = "command" /\ m.command.number > sent[c]
                            THEN m.command.number ELSE sent[c]
BY DEF SendText, Alive, TypesOK, ToDeviceTypeOK

LEMMA ReadsTextEffect ==
  ASSUME TypesOK, NEW d \in Devices, NEW kind, ReadsText(d, kind)
  PROVE  /\ link[d] \in Conns /\ toDevice[link[d]] # <<>> /\ toDevice[link[d]] \in Seq(Messages)
         /\ Head(toDevice[link[d]]).kind = kind
         /\ toDevice'[link[d]] = Tail(toDevice[link[d]])
         /\ \A c \in Conns : c # link[d] => toDevice'[c] = toDevice[c]
<1>1. link[d] \in Conns
  BY DEF ReadsText, TypesOK, DevicesTypeOK
<1> QED
  BY <1>1 DEF ReadsText, TypesOK, ToDeviceTypeOK

LEMMA LinkLost ==
  ASSUME TypesOK, NEW d \in Devices, LoseLink(d) \/ NoticeClosed(d) \/ Reboot(d)
  PROVE  /\ link[d] \in Conns /\ link' = [link EXCEPT ![d] = NoConn]
         /\ toDevice' = [toDevice EXCEPT ![link[d]] = <<>>]
         /\ UNCHANGED <<serverVars, conn, owner, toServer, sent>>
BY DEF LoseLink, NoticeClosed, Reboot, TypesOK, DevicesTypeOK
------------------------------------------------------------------------------
(* Connections are used once, and in the order of their texts.              *)
LEMMA NextConnectionsUsed ==
  ASSUME TypesOK, CachedIsOpen, ConnectionsUsed, [DeliveryNext]_deliveryVars
  PROVE  ConnectionsUsed'
<1> USE DEF serverVars, storeVars, storageVars, wireVars, deviceVars
<1>0. /\ handler \in [Conns -> Answering \cup {Listening}]
      /\ worker \in [Workers -> Busy \cup {Idle}]
      /\ conn \in [Conns -> {"new", "open", "closed"}]
      /\ link \in [Devices -> Conns \cup {NoConn}]
      /\ owner \in [Conns -> Devices]
      /\ toServer \in [Conns -> Seq(Texts)]
      /\ toDevice \in [Conns -> Seq(Messages)]
  BY DEF TypesOK, ThreadsTypeOK, ConnectionsTypeOK, DevicesTypeOK, ToServerTypeOK, ToDeviceTypeOK
<1>1. ASSUME \A v \in Workers : worker'[v].step = "send" => worker'[v] = worker[v],
             UNCHANGED <<handler, conn, owner, link, toServer, toDevice, sent>>
      PROVE  ConnectionsUsed'
  BY <1>0, <1>1 DEF ConnectionsUsed
<1>2. ASSUME NEW w \in Workers, NEW d \in Devices, NEW content,
             StoreAndContinue(w, d, content),
             UNCHANGED <<cached, handler, wireVars, deviceVars>>
      PROVE  ConnectionsUsed'
  <2>1. \A v \in Workers : worker'[v].step = "send" => worker'[v] = worker[v]
    BY <1>0, <1>2 DEF StoreAndContinue, Idle
  <2> QED
    BY <1>1, <1>2, <2>1
<1>3. ASSUME NEW w \in Workers, StoreCommand(w) PROVE ConnectionsUsed'
  BY <1>2, <1>3, WorkerFields DEF StoreCommand, TypesOK
<1>4. ASSUME NEW w \in Workers, GetWebSocketConnection(w) PROVE ConnectionsUsed'
  <2>1. cached[worker[w].device] # NoConn => conn[cached[worker[w].device]] = "open"
    BY <1>4, WorkerFields DEF GetWebSocketConnection, CachedIsOpen, TypesOK
  <2> QED
    BY <1>0, <1>4, <2>1 DEF GetWebSocketConnection, ConnectionsUsed, Idle
<1>5. ASSUME NEW w \in Workers, SendToDevice(w) PROVE ConnectionsUsed'
  <2>1. worker[w].conn \in Conns /\ worker[w].message \in Messages
    BY <1>5, WorkerFields, MessageKinds DEF SendToDevice, TypesOK
  <2>2. \A e \in Conns : conn[e] = "new" => toDevice'[e] = toDevice[e] /\ sent'[e] = sent[e]
    BY <1>5, <2>1, SendTextEffect DEF SendToDevice
  <2> QED
    BY <1>0, <1>5, <2>2 DEF SendToDevice, ConnectionsUsed, Idle
<1>6. ASSUME NEW w \in Workers, NEW d \in Devices, RestartDevice(w, d) PROVE ConnectionsUsed'
  <2>1. \A v \in Workers : worker'[v].step = "send" => worker'[v] = worker[v]
    BY <1>0, <1>6 DEF RestartDevice
  <2> QED
    BY <1>1, <1>6, <2>1 DEF RestartDevice
<1>7. ASSUME NEW w \in Workers, NEW d \in Devices, NEW content \in Commands,
             SetCommands(w, d, content) \/ CheckCommand(w, d, content)
      PROVE  ConnectionsUsed'
  <2>1. CASE SetCommands(w, d, content)
    BY <1>2, <2>1 DEF SetCommands
  <2>2. CASE CheckCommand(w, d, content)
    <3>1. \A v \in Workers : worker'[v].step = "send" => worker'[v] = worker[v]
      BY <1>0, <2>2 DEF CheckCommand
    <3> QED
      BY <1>1, <2>2, <3>1 DEF CheckCommand
  <2> QED
    BY <1>7, <2>1, <2>2
<1>8. ASSUME NEW c \in Conns, AddWebSocketConnection(c) \/ HandleReport(c) PROVE ConnectionsUsed'
  BY <1>8, ReceivesEffect DEF AddWebSocketConnection, HandleReport, ConnectionsUsed
<1>9. ASSUME NEW c \in Conns, AskToReauthorize(c) PROVE ConnectionsUsed'
  <2>1. \A e \in Conns : conn[e] = "new" => toDevice'[e] = toDevice[e] /\ sent'[e] = sent[e]
    BY <1>9, SendTextEffect, MessageKinds DEF AskToReauthorize
  <2> QED
    BY <1>9, <2>1, ReceivesEffect DEF AskToReauthorize, ConnectionsUsed
<1>10. ASSUME NEW c \in Conns, HandleGetCommands(c) PROVE ConnectionsUsed'
  BY <1>0, <1>10, ReceivesEffect DEF HandleGetCommands, ConnectionsUsed
<1>11. ASSUME NEW c \in Conns, ReadCommand(c) PROVE ConnectionsUsed'
  <2>1. handler[c] # Listening
    BY <1>11 DEF ReadCommand, Listening
  <2> QED
    BY <1>0, <1>11, <2>1 DEF ReadCommand, ConnectionsUsed
<1>12. ASSUME NEW c \in Conns, Reply(c) PROVE ConnectionsUsed'
  <2>1. \A e \in Conns : conn[e] = "new" => toDevice'[e] = toDevice[e] /\ sent'[e] = sent[e]
    <3>1. CASE handler[c].command = NoCommand
      BY <1>12, <3>1 DEF Reply
    <3>2. CASE handler[c].command # NoCommand
      <4>1. Push(handler[c].command) \in Messages
        BY <1>12, <3>2, HandlerFields, MessageKinds DEF Reply, TypesOK
      <4> QED
        BY <1>12, <3>2, <4>1, SendTextEffect DEF Reply
    <3> QED
      BY <3>1, <3>2
  <2> QED
    BY <1>0, <1>12, <2>1 DEF Reply, ConnectionsUsed
<1>13. ASSUME NEW c \in Conns, OnWebSocketClose(c) PROVE ConnectionsUsed'
  <2>1. \A e \in Conns : GreetsWhole(toServer'[e])
    BY <1>0, <1>13, GreetsAlone DEF OnWebSocketClose, ConnectionsUsed
  <2> QED
    BY <1>0, <1>13, <2>1 DEF OnWebSocketClose, ConnectionsUsed
<1>14. CASE RestartServer
  BY <1>0, <1>14, GreetsAlone DEF RestartServer, Used, ConnectionsUsed, Idle
<1>15. ASSUME NEW d \in Devices, NEW c \in Conns, Connect(d, c) PROVE ConnectionsUsed'
  <2>1. \A e \in Conns : GreetsWhole(toServer'[e])
    BY <1>0, <1>15, GreetsAlone DEF Connect, ConnectionsUsed
  <2>2. \A e \in Devices : link'[e] # NoConn => owner'[link'[e]] = e /\ conn'[link'[e]] # "new"
    BY <1>0, <1>15 DEF Connect, Used, ConnectionsUsed
  <2> QED
    BY <1>0, <1>15, <2>1, <2>2, WorkerFields DEF Connect, Used, ConnectionsUsed, TypesOK
<1>16. ASSUME NEW d \in Devices, LoseLink(d) \/ NoticeClosed(d) \/ Reboot(d) PROVE ConnectionsUsed'
  <2>1. /\ link[d] \in Conns /\ link' = [link EXCEPT ![d] = NoConn]
        /\ toDevice' = [toDevice EXCEPT ![link[d]] = <<>>]
        /\ UNCHANGED <<handler, worker, conn, owner, toServer, sent>>
    BY <1>16, LinkLost
  <2>2. \A c \in Conns : toDevice'[c] = toDevice[c] \/ toDevice'[c] = <<>>
    BY <1>0, <2>1
  <2>3. \A e \in Devices : link'[e] # NoConn => link'[e] = link[e]
    BY <1>0, <2>1
  <2> QED
    BY <2>1, <2>2, <2>3 DEF ConnectionsUsed
<1>17. ASSUME NEW d \in Devices, SendData(d) PROVE ConnectionsUsed'
  <2>1. \A e \in Conns : GreetsWhole(toServer'[e])
    BY <1>0, <1>17, GreetsAlone DEF SendData, ConnectionsUsed
  <2> QED
    BY <1>17, <2>1 DEF SendData, ConnectionsUsed
<1>18. ASSUME NEW d \in Devices, ApplyCommand(d) \/ Reauthorizes(d) PROVE ConnectionsUsed'
  <2>1. \A e \in Conns : GreetsWhole(toServer'[e])
    BY <1>18, DeviceSendsEffect, GreetsAlone, GreetingTexts, DataTexts
    DEF ApplyCommand, Reauthorizes, ReadsText
  <2>2. \A e \in Conns : conn[e] = "new" => toDevice'[e] = toDevice[e]
    BY <1>18, ReadsTextEffect DEF ApplyCommand, Reauthorizes, ConnectionsUsed
  <2> QED
    BY <1>18, <2>1, <2>2 DEF ApplyCommand, Reauthorizes, ConnectionsUsed
<1>19. CASE OtherTransaction \/ UNCHANGED deliveryVars
  BY <1>1, <1>19 DEF OtherTransaction, deliveryVars
<1> QED
  BY <1>3, <1>4, <1>5, <1>6, <1>7, <1>8, <1>9, <1>10, <1>11, <1>12, <1>13, <1>14, <1>15, <1>16,
     <1>17, <1>18, <1>19
     DEF DeliveryNext, WorkerStep, HandlerStep, DeviceReads, Connects
------------------------------------------------------------------------------
(* What a store leaves: nothing, or a command newer than all that were.     *)
LEMMA StoreCases ==
  ASSUME TypesOK, RowsNumbered, NEW w \in Workers, NEW d \in Devices, NEW content \in Commands,
         StoreAndContinue(w, d, content)
  PROVE  /\ \A v \in Workers : v # w => worker'[v] = worker[v]
         /\ \/ UNCHANGED <<stored, stores, rivals>> /\ worker'[w] = Idle
            \/ /\ \A e \in Devices : e # d => stored'[e] = stored[e] /\ rivals'[e] = rivals[e]
               /\ stored'[d] \in Command /\ stored'[d].number = stores + 1 /\ stores' = stores + 1
               /\ \A e \in Devices : stored[e].number < stored'[d].number
               /\ rivals'[d] = InHand(d)
               /\ worker'[w] = [step |-> "lookup", device |-> d, message |-> Push(stored'[d])]
<1>0. worker \in [Workers -> Busy \cup {Idle}] /\ stores \in Nat
      /\ stored \in [Devices -> Command \cup {NoCommand}]
      /\ rivals \in [Devices -> SUBSET (Command \cup {NoCommand})]
  BY DeliveryAssumption DEF TypesOK, ThreadsTypeOK, StoreTypeOK
<1>1. PICK ok \in BOOLEAN :
        /\ AddOrUpdate(d, content, ok)
        /\ worker' = [worker EXCEPT ![w] =
             IF ok THEN [step |-> "lookup", device |-> d, message |-> Push(stored'[d])] ELSE Idle]
  BY DEF StoreAndContinue
<1>2. CASE ok
  <2>1. stored' = [stored EXCEPT ![d] = [content |-> content, number |-> stores + 1]]
        /\ stores' = stores + 1 /\ stores < MaxStores
        /\ rivals' = [rivals EXCEPT ![d] = InHand(d)]
    BY <1>1, <1>2 DEF AddOrUpdate
  <2>2. stored'[d] \in Command /\ stored'[d].number = stores + 1
    BY <1>0, <2>1, DeliveryAssumption DEF Command
  <2>3. \A e \in Devices : stored[e].number \in Nat /\ stored[e].number <= stores
    BY <1>0, CommandFields DEF RowsNumbered
  <2>4. \A e \in Devices : stored[e].number < stored'[d].number
    BY <1>0, <2>2, <2>3
  <2> QED
    BY <1>0, <1>1, <1>2, <2>1, <2>2, <2>4
<1>3. CASE ~ok
  BY <1>0, <1>1, <1>3 DEF AddOrUpdate
<1> QED
  BY <1>2, <1>3

(* Without a new row every number was seen before, ...                      *)
LEMMA RowsKept ==
  ASSUME StoreTypeOK, RowsNumbered, db' \in {db, durable}, durable' \in {db, durable},
         stores' = stores, stored' \in {stored, durable, [e \in Devices |-> NoCommand]}
  PROVE  RowsNumbered'
<1>1. \A e \in Devices : NoCommand.number <= stores
  BY CommandFields, DeliveryAssumption DEF StoreTypeOK
<1> QED
  BY <1>1 DEF RowsNumbered

(* ... whatever connection a statement ran on, ...                          *)
LEMMA StatementRows ==
  /\ \A c \in Connections : c.rows \in {db, durable}
  /\ \A k : Fails(k) => db' \in {db, durable} /\ durable' = durable
BY DEF Connections, Fails, storageVars

(* ... and a new row has the number of its store.                           *)
LEMMA StoreNumbered ==
  ASSUME StoreTypeOK, RowsNumbered, NEW ok \in BOOLEAN, NEW d \in Devices, NEW content \in Commands,
         AddOrUpdate(d, content, ok)
  PROVE  RowsNumbered'
<1>0. /\ db \in [Devices -> Command \cup {NoCommand}]
      /\ durable \in [Devices -> Command \cup {NoCommand}]
      /\ stored \in [Devices -> Command \cup {NoCommand}]
      /\ stores \in Nat
      /\ \A x \in Command \cup {NoCommand} : x.number \in Nat
  BY CommandFields, DeliveryAssumption DEF StoreTypeOK
<1>1. CASE ~ok
  BY <1>1, StatementRows, RowsKept DEF AddOrUpdate
<1>2. CASE ok
  <2> DEFINE new == [content |-> content, number |-> stores + 1]
  <2>1. PICK c \in Connections : Leaves(c, [c.rows EXCEPT ![d] = new])
    BY <1>2 DEF AddOrUpdate
  <2>2. stores' = stores + 1 /\ stored' = [stored EXCEPT ![d] = new] /\ new.number = stores + 1
    BY <1>2 DEF AddOrUpdate
  <2>3. db' = [c.rows EXCEPT ![d] = new] /\ durable' \in {durable, db'}
    BY <2>1 DEF Leaves
  <2> HIDE DEF new
  <2>4. \A e \in Devices : db'[e] \in {db[e], durable[e], new}
    BY <1>0, <2>3, StatementRows
  <2>5. \A e \in Devices : stored'[e] \in {stored[e], new}
    BY <1>0, <2>2
  <2>6. \A e \in Devices : durable'[e] \in {db[e], durable[e], new}
    BY <2>3, <2>4
  <2>7. \A e \in Devices : db[e].number <= stores + 1 /\ durable[e].number <= stores + 1
                             /\ stored[e].number <= stores + 1
    BY <1>0 DEF RowsNumbered
  <2>8. new.number <= stores + 1
    BY <1>0, <2>2
  <2> QED
    BY <2>2, <2>4, <2>5, <2>6, <2>7, <2>8 DEF RowsNumbered
<1> QED
  BY <1>1, <1>2

LEMMA NextRowsNumbered ==
  ASSUME TypesOK, RowsNumbered, [DeliveryNext]_deliveryVars
  PROVE  RowsNumbered'
<1> USE DEF serverVars, storeVars, storageVars, wireVars, deviceVars, TypesOK
<1>1. ASSUME NEW w \in Workers, NEW d \in Devices, NEW content \in Commands,
             StoreAndContinue(w, d, content)
      PROVE  RowsNumbered'
  BY <1>1, StoreNumbered DEF StoreAndContinue
<1>2. CASE UNCHANGED storeVars
  BY <1>2 DEF RowsNumbered
<1>3. ASSUME NEW w \in Workers, WorkerStep(w) PROVE RowsNumbered'
  BY <1>1, <1>2, <1>3, WorkerFields DEF WorkerStep, StoreCommand, GetWebSocketConnection, SendToDevice
<1>4. ASSUME NEW w \in Workers, NEW d \in Devices,
             \/ RestartDevice(w, d)
             \/ \E content \in Commands : SetCommands(w, d, content) \/ CheckCommand(w, d, content)
      PROVE  RowsNumbered'
  BY <1>1, <1>2, <1>4 DEF RestartDevice, SetCommands, CheckCommand
<1>5. ASSUME NEW c \in Conns, HandlerStep(c) \/ OnWebSocketClose(c) PROVE RowsNumbered'
  BY <1>2, <1>5 DEF HandlerStep, AddWebSocketConnection, AskToReauthorize, HandleReport,
     HandleGetCommands, ReadCommand, Reply, OnWebSocketClose
<1>6. ASSUME NEW d \in Devices,
             DeviceReads(d) \/ SendData(d) \/ LoseLink(d) \/ NoticeClosed(d) \/ Connects(d)
      PROVE  RowsNumbered'
  BY <1>2, <1>6 DEF DeviceReads, ApplyCommand, Reauthorizes, Reboot, SendData, LoseLink,
     NoticeClosed, Connects, Connect
<1>7. CASE OtherTransaction
  <2>1. db' \in {db, durable} /\ durable' \in {db, durable}
    BY <1>7, StatementRows DEF OtherTransaction, Begin, Commit
  <2> QED
    BY <1>7, <2>1, RowsKept DEF OtherTransaction
<1>9. CASE RestartServer
  <2>1. stored' \in {durable, [e \in Devices |-> NoCommand]}
    BY <1>9 DEF RestartServer
  <2> QED
    BY <1>9, <2>1, RowsKept DEF RestartServer, Reconnects
<1>8. CASE UNCHANGED deliveryVars
  BY <1>2, <1>8 DEF deliveryVars
<1> QED
  BY <1>3, <1>4, <1>5, <1>6, <1>7, <1>8, <1>9 DEF DeliveryNext

(* The parts of a sequence that grew or lost its head.                      *)
LEMMA ElementsAppended ==
  ASSUME NEW s \in Seq(Messages), NEW m \in Messages
  PROVE  /\ DOMAIN Append(s, m) = DOMAIN s \cup {Len(s) + 1}
         /\ \A i \in DOMAIN s : Append(s, m)[i] = s[i] /\ i < Len(s) + 1
         /\ Append(s, m)[Len(s) + 1] = m
         /\ DOMAIN s \subseteq Nat /\ Len(s) + 1 \in Nat
<1>1. /\ Len(s) \in Nat /\ DOMAIN s = 1 .. Len(s)
      /\ DOMAIN Append(s, m) = 1 .. Len(s) + 1
      /\ \A i \in 1 .. Len(s) : Append(s, m)[i] = s[i]
      /\ Append(s, m)[Len(s) + 1] = m
  BY AppendProperties, LenProperties
<1> QED
  BY <1>1

LEMMA ElementsOfTail ==
  ASSUME NEW s \in Seq(Messages), s # <<>>
  PROVE  /\ DOMAIN s \subseteq Nat \ {0} /\ 1 \in DOMAIN s /\ s[1] = Head(s) /\ Head(s) \in Messages
         /\ \A i \in DOMAIN Tail(s) : i \in Nat \ {0} /\ i + 1 \in DOMAIN s /\ Tail(s)[i] = s[i + 1]
         /\ \A i \in DOMAIN s : i # 1 => i - 1 \in DOMAIN Tail(s) /\ Tail(s)[i - 1] = s[i]
<1>1. /\ Len(s) \in Nat /\ Len(s) > 0 /\ DOMAIN s = 1 .. Len(s) /\ s[1] = Head(s)
      /\ Tail(s) \in Seq(Messages) /\ Len(Tail(s)) = Len(s) - 1 /\ Head(s) \in Messages
      /\ \A i \in 1 .. Len(Tail(s)) : Tail(s)[i] = s[i + 1]
  BY HeadTailProperties, LenProperties, EmptySeq
<1>2. DOMAIN Tail(s) = 1 .. Len(s) - 1
  BY <1>1, LenProperties
<1> QED
  BY <1>1, <1>2

(* Nothing on its way to a device, sent or obeyed is newer than the store.  *)
LEMMA SendTextBounded ==
  ASSUME TypesOK, NumbersBounded, NEW c \in Conns, NEW m \in Messages, SendText(c, m),
         NotNewer(m, owner[c]), UNCHANGED <<stored, owner, conn>>
  PROVE  /\ \A e \in Conns : conn'[e] = "open" => sent'[e] <= stored'[owner'[e]].number
         /\ \A e \in Conns : conn'[e] = "open" => \A i \in DOMAIN toDevice'[e] :
              toDevice'[e][i].kind = "command"
                => toDevice'[e][i].command.number <= stored'[owner'[e]].number
<1>0. sent[c] \in Nat /\ toDevice[c] \in Seq(Messages)
  BY DEF TypesOK, ToDeviceTypeOK
<1>1. \A e \in Conns : conn'[e] = "open" => sent'[e] <= stored'[owner'[e]].number
  BY SendTextEffect DEF NumbersBounded, NotNewer
<1>2. \A e \in Conns : toDevice'[e] = toDevice[e] \/ (e = c /\ toDevice'[e] = Append(toDevice[e], m))
  BY SendTextEffect
<1>3. ASSUME NEW e \in Conns, conn[e] = "open", NEW i \in DOMAIN toDevice'[e]
      PROVE  NotNewer(toDevice'[e][i], owner[e])
  <2>1. CASE toDevice'[e] = toDevice[e]
    BY <1>3, <2>1 DEF NumbersBounded
  <2>2. CASE e = c /\ toDevice'[e] = Append(toDevice[e], m)
    <3>1. i = Len(toDevice[c]) + 1 \/ i \in DOMAIN toDevice[c]
      BY <1>0, <1>3, <2>2, ElementsAppended
    <3>2. CASE i \in DOMAIN toDevice[c]
      BY <1>0, <1>3, <2>2, <3>2, ElementsAppended DEF NumbersBounded
    <3>3. CASE i = Len(toDevice[c]) + 1
      BY <1>0, <1>3, <2>2, <3>3, ElementsAppended
    <3> QED
      BY <3>1, <3>2, <3>3
  <2> QED
    BY <1>2, <2>1, <2>2
<1> QED
  BY <1>1, <1>3 DEF NotNewer

LEMMA ReadsTextBounded ==
  ASSUME TypesOK, NumbersBounded, NEW d \in Devices, NEW kind, ReadsText(d, kind),
         UNCHANGED <<stored, owner, conn>>
  PROVE  /\ \A e \in Conns : conn'[e] = "open" => \A i \in DOMAIN toDevice'[e] :
              toDevice'[e][i].kind = "command"
                => toDevice'[e][i].command.number <= stored'[owner'[e]].number
         /\ Head(toDevice[link[d]]) \in Messages
         /\ conn[link[d]] = "open" => NotNewer(Head(toDevice[link[d]]), owner[link[d]])
<1> DEFINE s == toDevice[link[d]]
<1>0. link[d] \in Conns /\ s # <<>> /\ s \in Seq(Messages) /\ toDevice'[link[d]] = Tail(s)
      /\ \A c \in Conns : c # link[d] => toDevice'[c] = toDevice[c]
  BY ReadsTextEffect
<1>1. /\ 1 \in DOMAIN s /\ s[1] = Head(s) /\ Head(s) \in Messages
      /\ \A i \in DOMAIN Tail(s) : i + 1 \in DOMAIN s /\ Tail(s)[i] = s[i + 1]
  BY <1>0, ElementsOfTail
<1>2. conn[link[d]] = "open" => \A i \in DOMAIN s : NotNewer(s[i], owner[link[d]])
  BY <1>0 DEF NumbersBounded
<1>3. ASSUME NEW e \in Conns, conn[e] = "open", NEW i \in DOMAIN toDevice'[e]
      PROVE  NotNewer(toDevice'[e][i], owner[e])
  <2>1. CASE e = link[d]
    BY <1>0, <1>1, <1>2, <1>3, <2>1
  <2>2. CASE e # link[d]
    BY <1>0, <1>3, <2>2 DEF NumbersBounded
  <2> QED
    BY <2>1, <2>2
<1> QED
  BY <1>1, <1>2, <1>3 DEF NotNewer

LEMMA NextNumbersBounded ==
  ASSUME TypesOK, CachedIsOpen, ConnectionsUsed, RowsNumbered, NumbersBounded, [DeliveryNext]_deliveryVars
  PROVE  NumbersBounded'
<1> USE DEF serverVars, storeVars, storageVars, wireVars, deviceVars
<1>0. /\ handler \in [Conns -> Answering \cup {Listening}]
      /\ worker \in [Workers -> Busy \cup {Idle}]
      /\ conn \in [Conns -> {"new", "open", "closed"}]
      /\ link \in [Devices -> Conns \cup {NoConn}]
      /\ owner \in [Conns -> Devices]
      /\ toDevice \in [Conns -> Seq(Messages)]
      /\ sent \in [Conns -> 0 .. MaxStores]
      /\ applied \in [Devices -> Command \cup {NoCommand}]
      /\ stored \in [Devices -> Command \cup {NoCommand}]
  BY DEF TypesOK, ThreadsTypeOK, ConnectionsTypeOK, DevicesTypeOK, ToDeviceTypeOK, StoreTypeOK
<1>1. ASSUME NEW w \in Workers, NEW d \in Devices, NEW content \in Commands,
             StoreAndContinue(w, d, content),
             UNCHANGED <<cached, handler, wireVars, deviceVars>>
      PROVE  NumbersBounded'
  <2>0. \A v \in Workers : v # w => worker'[v] = worker[v]
    BY <1>1, StoreCases
  <2>1. CASE UNCHANGED <<stored, stores, rivals>> /\ worker'[w] = Idle
    <3>1. \A v \in Workers : worker'[v].step # "idle" => worker'[v] = worker[v]
      BY <2>0, <2>1 DEF Idle
    <3> QED
      BY <1>1, <2>1, <3>1 DEF NumbersBounded, NotNewer
  <2>2. CASE /\ \A e \in Devices : e # d => stored'[e] = stored[e]
             /\ stored'[d] \in Command /\ stored'[d].number = stores + 1 /\ stores' = stores + 1
             /\ \A e \in Devices : stored[e].number < stored'[d].number
             /\ worker'[w] = [step |-> "lookup", device |-> d, message |-> Push(stored'[d])]
    <3>0. stores \in Nat /\ \A e \in Devices : stored[e].number \in Nat /\ stored'[e].number \in Nat
      BY <1>0, <2>2, CommandFields, DeliveryAssumption DEF TypesOK, StoreTypeOK
    <3>1. \A e \in Devices : stored[e].number <= stored'[e].number
      BY <2>2, <3>0
    <3>4. \A n \in Nat, e \in Devices : n <= stored[e].number => n <= stored'[e].number
      BY <3>0, <3>1
    <3>3. \A e \in Conns : conn'[e] = "open" => sent'[e] <= stored'[owner'[e]].number
      <4>1. \A e \in Conns : sent[e] \in Nat /\ owner[e] \in Devices
        BY <1>0, DeliveryAssumption
      <4> QED
        BY <1>1, <3>4, <4>1 DEF NumbersBounded
    <3>5. \A m \in Messages, e \in Devices :
            NotNewer(m, e) => (m.kind = "command" => m.command.number <= stored'[e].number)
      BY <3>4, MessageKinds, CommandFields DEF NotNewer
    <3>6. \A e \in Conns : conn'[e] = "open" => \A i \in DOMAIN toDevice'[e] :
            toDevice'[e][i].kind = "command"
              => toDevice'[e][i].command.number <= stored'[owner'[e]].number
      <4>1. \A e \in Conns : \A i \in DOMAIN toDevice[e] : toDevice[e][i] \in Messages
        BY <1>0, ElementOfSeq, LenProperties
      <4> QED
        BY <1>0, <1>1, <3>5, <4>1 DEF NumbersBounded
    <3>7. \A c \in Conns :
            handler'[c].step = "reply" => handler'[c].command.number <= stored'[owner'[c]].number
      <4>1. \A c \in Conns : handler[c].step = "reply" => handler[c].command.number \in Nat
        <5>1. \A c \in Conns :
                handler[c].step = "reply" => handler[c].command \in Command \cup {NoCommand}
          BY HandlerFields DEF TypesOK
        <5> QED
          BY <5>1, CommandFields, DeliveryAssumption
      <4> QED
        BY <1>0, <1>1, <3>4, <4>1 DEF NumbersBounded
    <3>9. ASSUME NEW v \in Workers, worker'[v].step = "lookup", worker'[v].message.kind = "command"
          PROVE  worker'[v].message.command.number <= stored'[worker'[v].device].number
      <4>1. CASE v = w
        BY <2>2, <3>0, <4>1, MessageKinds
      <4>2. CASE v # w
        <5>1. worker'[v] = worker[v] /\ worker[v].message \in Messages /\ worker[v].device \in Devices
          BY <2>0, <3>9, <4>2, WorkerFields, MessageKinds DEF TypesOK
        <5> QED
          BY <3>5, <3>9, <5>1 DEF NumbersBounded
      <4> QED
        BY <4>1, <4>2
    <3>10. ASSUME NEW v \in Workers, worker'[v].step = "send", worker'[v].message.kind = "command"
           PROVE  worker'[v].message.command.number <= stored'[owner'[worker'[v].conn]].number
      <4>1. v # w
        BY <2>2, <3>10
      <4>2. worker'[v] = worker[v] /\ worker[v].message \in Messages /\ worker[v].conn \in Conns
        BY <2>0, <3>10, <4>1, WorkerFields, MessageKinds DEF TypesOK
      <4> QED
        BY <1>0, <1>1, <3>5, <3>10, <4>2 DEF NumbersBounded
    <3> QED
      BY <3>3, <3>6, <3>7, <3>9, <3>10 DEF NumbersBounded, NotNewer
  <2> QED
    BY <1>1, <2>1, <2>2, StoreCases
<1>2. ASSUME NEW w \in Workers, StoreCommand(w) PROVE NumbersBounded'
  BY <1>1, <1>2, WorkerFields DEF StoreCommand, TypesOK
<1>3. ASSUME NEW w \in Workers, GetWebSocketConnection(w) PROVE NumbersBounded'
  <2>1. worker[w].device \in Devices
    BY <1>3, WorkerFields DEF GetWebSocketConnection, TypesOK
  <2>2. cached[worker[w].device] # NoConn => owner[cached[worker[w].device]] = worker[w].device
    BY <2>1 DEF CachedIsOpen
  <2> QED
    BY <1>0, <1>3, <2>1, <2>2 DEF GetWebSocketConnection, NumbersBounded, NotNewer, Idle
<1>4. ASSUME NEW w \in Workers, SendToDevice(w) PROVE NumbersBounded'
  <2>1. worker[w].conn \in Conns /\ worker[w].message \in Messages
    BY <1>4, WorkerFields, MessageKinds DEF SendToDevice, TypesOK
  <2>2. NotNewer(worker[w].message, owner[worker[w].conn])
    BY <1>4 DEF SendToDevice, NumbersBounded
  <2>3. UNCHANGED <<stored, owner, conn>>
    BY <1>4 DEF SendToDevice
  <2>4. /\ \A e \in Conns : conn'[e] = "open" => sent'[e] <= stored'[owner'[e]].number
        /\ \A e \in Conns : conn'[e] = "open" => \A i \in DOMAIN toDevice'[e] :
              toDevice'[e][i].kind = "command"
                => toDevice'[e][i].command.number <= stored'[owner'[e]].number
    BY <1>4, <2>1, <2>2, <2>3, SendTextBounded DEF SendToDevice
  <2> QED
    BY <1>0, <1>4, <2>4 DEF SendToDevice, NumbersBounded, NotNewer, Idle
<1>5. ASSUME NEW w \in Workers, NEW d \in Devices, RestartDevice(w, d) PROVE NumbersBounded'
  BY <1>0, <1>5, MessageKinds DEF RestartDevice, NumbersBounded, NotNewer
<1>6. ASSUME NEW w \in Workers, NEW d \in Devices, NEW content \in Commands,
             SetCommands(w, d, content) \/ CheckCommand(w, d, content)
      PROVE  NumbersBounded'
  <2>1. CASE SetCommands(w, d, content)
    BY <1>1, <2>1 DEF SetCommands
  <2>2. CASE CheckCommand(w, d, content)
    BY <1>0, <2>2 DEF CheckCommand, NumbersBounded, NotNewer
  <2> QED
    BY <1>6, <2>1, <2>2
<1>7. ASSUME NEW c \in Conns, AddWebSocketConnection(c) \/ HandleReport(c) PROVE NumbersBounded'
  BY <1>7 DEF AddWebSocketConnection, HandleReport, NumbersBounded, NotNewer
<1>8. ASSUME NEW c \in Conns, AskToReauthorize(c) PROVE NumbersBounded'
  <2>1. NotNewer(Reauthorize, owner[c]) /\ Reauthorize \in Messages /\ UNCHANGED <<stored, owner, conn>>
    BY <1>8, MessageKinds DEF NotNewer, AskToReauthorize
  <2>2. /\ \A e \in Conns : conn'[e] = "open" => sent'[e] <= stored'[owner'[e]].number
        /\ \A e \in Conns : conn'[e] = "open" => \A i \in DOMAIN toDevice'[e] :
              toDevice'[e][i].kind = "command"
                => toDevice'[e][i].command.number <= stored'[owner'[e]].number
    BY <1>8, <2>1, SendTextBounded DEF AskToReauthorize
  <2> QED
    BY <1>8, <2>2 DEF AskToReauthorize, NumbersBounded, NotNewer
<1>9. ASSUME NEW c \in Conns, HandleGetCommands(c) PROVE NumbersBounded'
  BY <1>0, <1>9 DEF HandleGetCommands, NumbersBounded, NotNewer
<1>10. ASSUME NEW c \in Conns, ReadCommand(c) PROVE NumbersBounded'
  <2>1. stored[owner[c]].number \in Nat
    BY <1>0, CommandFields, DeliveryAssumption
  <2> QED
    BY <1>0, <1>10, <2>1 DEF ReadCommand, NumbersBounded, NotNewer
<1>11. ASSUME NEW c \in Conns, Reply(c) PROVE NumbersBounded'
  <2>1. /\ \A e \in Conns : conn'[e] = "open" => sent'[e] <= stored'[owner'[e]].number
        /\ \A e \in Conns : conn'[e] = "open" => \A i \in DOMAIN toDevice'[e] :
              toDevice'[e][i].kind = "command"
                => toDevice'[e][i].command.number <= stored'[owner'[e]].number
    <3>1. CASE handler[c].command = NoCommand
      BY <1>11, <3>1 DEF Reply, NumbersBounded, NotNewer
    <3>2. CASE handler[c].command # NoCommand
      <4> DEFINE m == Push(handler[c].command)
      <4>1. handler[c].command \in Command
        BY <1>11, <3>2, HandlerFields DEF Reply, TypesOK
      <4>2. m \in Messages /\ NotNewer(m, owner[c]) /\ UNCHANGED <<stored, owner, conn>>
        BY <1>11, <4>1, MessageKinds DEF Reply, NotNewer, NumbersBounded
      <4> QED
        BY <1>11, <3>2, <4>2, SendTextBounded DEF Reply
    <3> QED
      BY <3>1, <3>2
  <2> QED
    BY <1>0, <1>11, <2>1 DEF Reply, NumbersBounded, NotNewer, Listening
<1>12. ASSUME NEW c \in Conns, OnWebSocketClose(c) PROVE NumbersBounded'
  BY <1>12 DEF OnWebSocketClose, NumbersBounded, NotNewer
<1>13. CASE RestartServer
  <2>1. /\ \A c \in Conns : conn'[c] # "open" /\ handler'[c].step = "idle"
        /\ \A w \in Workers : worker'[w].step = "idle"
    BY <1>13 DEF RestartServer, Idle, Listening
  <2> QED
    BY <2>1 DEF NumbersBounded
<1>14. ASSUME NEW d \in Devices, NEW c \in Conns, Connect(d, c) PROVE NumbersBounded'
  <2>1. conn[c] = "new" /\ toDevice[c] = <<>> /\ sent[c] = 0 /\ handler[c] = Listening
    BY <1>14 DEF Connect, Used, ConnectionsUsed
  <2>2. owner'[c] = d /\ (\A e \in Conns : e # c => owner'[e] = owner[e])
        /\ (\A e \in Conns : e # c => conn'[e] = conn[e])
        /\ UNCHANGED <<stored, stores, handler, worker, toDevice, sent, applied>>
    BY <1>0, <1>14 DEF Connect
  <2>3. stored[d].number \in Nat
    BY <1>0, CommandFields, DeliveryAssumption
  <2>4. ASSUME NEW w \in Workers, worker[w].step = "send"
        PROVE  worker[w].conn # c /\ worker[w].conn \in Conns
    <3>1. worker[w].conn \in Conns
      BY <2>4, WorkerFields DEF TypesOK
    <3>2. conn[worker[w].conn] # "new"
      BY <2>4 DEF ConnectionsUsed
    <3> QED
      BY <2>1, <3>1, <3>2
  <2>5. \A e \in Conns : conn'[e] = "open" => sent'[e] <= stored'[owner'[e]].number
    BY <2>1, <2>2, <2>3 DEF NumbersBounded
  <2>6. \A e \in Conns : conn'[e] = "open" => \A i \in DOMAIN toDevice'[e] :
          toDevice'[e][i].kind = "command"
            => toDevice'[e][i].command.number <= stored'[owner'[e]].number
    BY <2>1, <2>2 DEF NumbersBounded, NotNewer
  <2>7. \A e \in Conns :
          handler'[e].step = "reply" => handler'[e].command.number <= stored'[owner'[e]].number
    BY <2>1, <2>2 DEF NumbersBounded, Listening
  <2> QED
    BY <2>2, <2>4, <2>5, <2>6, <2>7 DEF NumbersBounded, NotNewer
<1>15. ASSUME NEW d \in Devices, LoseLink(d) \/ NoticeClosed(d) \/ Reboot(d) PROVE NumbersBounded'
  <2>2. \A e \in Conns : toDevice'[e] = toDevice[e] \/ toDevice'[e] = <<>>
    BY <1>0, <1>15, LinkLost
  <2> QED
    BY <1>15, <2>2, LinkLost DEF NumbersBounded, NotNewer
<1>16. ASSUME NEW d \in Devices, SendData(d) PROVE NumbersBounded'
  BY <1>16 DEF SendData, NumbersBounded, NotNewer
<1>17. ASSUME NEW d \in Devices, ApplyCommand(d) \/ Reauthorizes(d) PROVE NumbersBounded'
  <2>0. UNCHANGED <<stored, owner, conn, sent, handler, worker>>
    BY <1>17 DEF ApplyCommand, Reauthorizes
  <2>1. \A e \in Conns : conn'[e] = "open" => \A i \in DOMAIN toDevice'[e] :
          toDevice'[e][i].kind = "command"
            => toDevice'[e][i].command.number <= stored'[owner'[e]].number
    BY <1>17, <2>0, ReadsTextBounded DEF ApplyCommand, Reauthorizes
  <2> QED
    BY <2>0, <2>1 DEF NumbersBounded, NotNewer
<1>18. CASE OtherTransaction
  BY <1>18 DEF OtherTransaction, NumbersBounded, NotNewer
<1>19. CASE UNCHANGED deliveryVars
  BY <1>19 DEF deliveryVars, NumbersBounded, NotNewer
<1> QED
  BY <1>2, <1>3, <1>4, <1>5, <1>6, <1>7, <1>8, <1>9, <1>10, <1>11, <1>12, <1>13, <1>14, <1>15,
     <1>16, <1>17, <1>18, <1>19
     DEF DeliveryNext, WorkerStep, HandlerStep, DeviceReads, Connects
------------------------------------------------------------------------------
(* What a step has to leave of a delivery to connection c for the newest    *)
(* command to get there all the same.                                      *)
LEMMA GetsNewestKept ==
  ASSUME NEW d \in Devices, NEW c \in Conns, GetsNewest(d, c), stored'[d] = stored[d],
         sent[c] = stored[d].number => sent'[c] = stored[d].number,
         \A w \in Workers :
           worker[w].step \in {"lookup", "send"} => worker'[w] = worker[w] \/ GetsNewest(d, c)',
         handler[c] # Listening => handler'[c] = handler[c] \/ GetsNewest(d, c)',
         (\E i \in DOMAIN toServer[c] : toServer[c][i] = "get_commands")
           => (\E i \in DOMAIN toServer'[c] : toServer'[c][i] = "get_commands") \/ GetsNewest(d, c)'
  PROVE  GetsNewest(d, c)'
<1> SUFFICES ASSUME ~GetsNewest(d, c)' PROVE FALSE
  OBVIOUS
<1>1. sent[c] # stored[d].number
  BY DEF GetsNewest
<1>2. WillSend(d, c)
  BY <1>1 DEF GetsNewest
<1>3. ASSUME NEW w \in Workers,
             worker[w] = [step |-> "lookup", device |-> d, message |-> Push(stored[d])]
      PROVE  FALSE
  BY <1>3 DEF GetsNewest, WillSend
<1>4. ASSUME NEW w \in Workers,
             worker[w] = [step |-> "send", conn |-> c, message |-> Push(stored[d])]
      PROVE  FALSE
  BY <1>4 DEF GetsNewest, WillSend
<1>5. CASE handler[c].step = "read" \/ handler[c] = [step |-> "reply", command |-> stored[d]]
  <2>1. handler[c] # Listening
    BY <1>5 DEF Listening
  <2> QED
    BY <1>5, <2>1 DEF GetsNewest, WillSend
<1>6. CASE \E i \in DOMAIN toServer[c] : toServer[c][i] = "get_commands"
  BY <1>6 DEF GetsNewest, WillSend
<1> QED
  BY <1>2, <1>3, <1>4, <1>5, <1>6 DEF WillSend

(* What a send does to the newest number that is on a connection.           *)
LEMMA NewestStaysSent ==
  ASSUME TypesOK, NumbersBounded, NEW c \in Conns, NEW m \in Messages, SendText(c, m),
         NotNewer(m, owner[c])
  PROVE  /\ \A e \in Conns : conn[e] = "open" /\ sent[e] = stored[owner[e]].number
                                => sent'[e] = sent[e]
         /\ Alive(c) /\ m = Push(stored[owner[c]]) => sent'[c] = stored[owner[c]].number
<1>1. sent[c] \in Nat /\ owner[c] \in Devices /\ stored[owner[c]] \in Command \cup {NoCommand}
  BY DEF TypesOK, ToDeviceTypeOK, ConnectionsTypeOK, StoreTypeOK
<1>2. stored[owner[c]].number \in Nat /\ (conn[c] = "open" => sent[c] <= stored[owner[c]].number)
  BY <1>1, CommandFields, DeliveryAssumption DEF NumbersBounded
<1>3. m.kind = "command" => m.command.number \in Nat /\ m.command.number <= stored[owner[c]].number
  BY MessageKinds, CommandFields, DeliveryAssumption DEF NotNewer
<1>4. ~Alive(c) => sent'[c] = sent[c]
  BY SendTextEffect
<1>5. Alive(c) => sent'[c] = IF m.kind = "command" /\ m.command.number > sent[c]
                             THEN m.command.number ELSE sent[c]
  BY SendTextEffect
<1>6. \A e \in Conns : e # c => sent'[e] = sent[e]
  BY SendTextEffect
<1>7. ASSUME Alive(c), m = Push(stored[owner[c]]) PROVE sent'[c] = stored[owner[c]].number
  <2>1. m.kind = "command" /\ m.command = stored[owner[c]]
    BY <1>7 DEF Push
  <2> QED
    BY <1>1, <1>2, <1>5, <1>7, <2>1 DEF Alive
<1>8. conn[c] = "open" /\ sent[c] = stored[owner[c]].number => sent'[c] = sent[c]
  BY <1>1, <1>2, <1>3, <1>4, <1>5
<1> QED
  BY <1>6, <1>7, <1>8

(* A connection that the cache and the device both use carries texts.       *)
LEMMA UsedAlive ==
  ASSUME TypesOK, CachedIsOpen, NEW d \in Devices, link[d] # NoConn, cached[d] = link[d]
  PROVE  link[d] \in Conns /\ owner[link[d]] = d /\ conn[link[d]] = "open" /\ Alive(link[d])
BY DEF TypesOK, DevicesTypeOK, CachedIsOpen, Alive

(* Whatever a step does, the newest command still gets to the connections   *)
(* the cache and their devices use: a store leaves a worker that pushes it, *)
(* an authorization is followed by a request for the commands.             *)
LEMMA NextNewestUnderWay ==
  ASSUME TypesOK, CachedIsOpen, ConnectionsUsed, RowsNumbered, NumbersBounded, NewestUnderWay,
         [DeliveryNext]_deliveryVars
  PROVE  NewestUnderWay'
<1> USE DEF serverVars, storeVars, storageVars, wireVars, deviceVars
<1>0. /\ handler \in [Conns -> Answering \cup {Listening}]
      /\ worker \in [Workers -> Busy \cup {Idle}]
      /\ conn \in [Conns -> {"new", "open", "closed"}]
      /\ link \in [Devices -> Conns \cup {NoConn}]
      /\ cached \in [Devices -> Conns \cup {NoConn}]
      /\ owner \in [Conns -> Devices]
      /\ toServer \in [Conns -> Seq(Texts)]
      /\ NoConn \notin Conns
  BY DeliveryAssumption
     DEF TypesOK, ThreadsTypeOK, ConnectionsTypeOK, DevicesTypeOK, ToServerTypeOK
<1>1. ASSUME NEW d \in Devices, NEW c \in Conns, link[d] = c, cached[d] = c
      PROVE  GetsNewest(d, c) /\ Alive(c) /\ owner[c] = d /\ conn[c] = "open"
  BY <1>0, <1>1, UsedAlive DEF NewestUnderWay
<1>2. ASSUME \A d \in Devices, c \in Conns :
               link'[d] = c /\ cached'[d] = c => GetsNewest(d, c)',
             link' \in [Devices -> Conns \cup {NoConn}]
      PROVE  NewestUnderWay'
  BY <1>2 DEF NewestUnderWay
<1>3. ASSUME \A w \in Workers : worker[w].step \in {"lookup", "send"} => worker'[w] = worker[w],
             UNCHANGED <<stored, cached, handler, wireVars, link>>
      PROVE  NewestUnderWay'
  <2>1. ASSUME NEW d \in Devices, NEW c \in Conns, link[d] = c, cached[d] = c
        PROVE  GetsNewest(d, c)'
    BY <1>1, <1>3, <2>1, GetsNewestKept
  <2> QED
    BY <1>0, <1>2, <1>3, <2>1
<1>4. ASSUME NEW w \in Workers, NEW d \in Devices, NEW content \in Commands,
             worker[w].step \in {"idle", "store"}, StoreAndContinue(w, d, content),
             UNCHANGED <<cached, handler, wireVars, deviceVars>>
      PROVE  NewestUnderWay'
  <2>1. ASSUME NEW e \in Devices, NEW c \in Conns, link[e] = c, cached[e] = c
        PROVE  GetsNewest(e, c)'
    <3>1. \A v \in Workers : worker[v].step \in {"lookup", "send"} => worker'[v] = worker[v]
      BY <1>4, StoreCases
    <3>2. CASE stored'[e] = stored[e]
      BY <1>1, <1>4, <2>1, <3>1, <3>2, GetsNewestKept
    <3>3. CASE stored'[e] # stored[e]
      <4>1. worker'[w] = [step |-> "lookup", device |-> e, message |-> Push(stored'[e])]
        BY <1>4, <3>3, StoreCases
      <4> QED
        BY <4>1 DEF GetsNewest, WillSend
    <3> QED
      BY <3>2, <3>3
  <2> QED
    BY <1>0, <1>2, <1>4, <2>1
<1>5. ASSUME NEW w \in Workers, StoreCommand(w) PROVE NewestUnderWay'
  BY <1>4, <1>5, WorkerFields DEF StoreCommand, TypesOK
<1>6. ASSUME NEW w \in Workers, GetWebSocketConnection(w) PROVE NewestUnderWay'
  <2>1. ASSUME NEW d \in Devices, NEW c \in Conns, link[d] = c, cached[d] = c
        PROVE  GetsNewest(d, c)'
    <3>1. CASE worker[w] = [step |-> "lookup", device |-> d, message |-> Push(stored[d])]
      <4>1. worker'[w] = [step |-> "send", conn |-> c, message |-> Push(stored[d])]
        BY <1>0, <1>6, <2>1, <3>1 DEF GetWebSocketConnection
      <4>2. stored' = stored
        BY <1>6 DEF GetWebSocketConnection
      <4> QED
        BY <4>1, <4>2 DEF GetsNewest, WillSend
    <3>2. CASE worker[w] # [step |-> "lookup", device |-> d, message |-> Push(stored[d])]
      <4>1. \A v \in Workers : v # w => worker'[v] = worker[v]
        BY <1>0, <1>6 DEF GetWebSocketConnection
      <4>2. /\ UNCHANGED <<stored, sent, handler, toServer>>
            /\ worker[w].step = "lookup"
        BY <1>6 DEF GetWebSocketConnection
      <4>3. GetsNewest(d, c)
        BY <1>1, <2>1
      <4>4. worker[w] # [step |-> "send", conn |-> c, message |-> Push(stored[d])]
        BY <4>2
      <4> QED
        BY <3>2, <4>1, <4>2, <4>3, <4>4 DEF GetsNewest, WillSend
    <3> QED
      BY <3>1, <3>2
  <2> QED
    BY <1>0, <1>2, <1>6, <2>1 DEF GetWebSocketConnection
<1>7. ASSUME NEW w \in Workers, SendToDevice(w) PROVE NewestUnderWay'
  <2>0. /\ worker[w].conn \in Conns /\ worker[w].message \in Messages
        /\ NotNewer(worker[w].message, owner[worker[w].conn])
        /\ \A v \in Workers : v # w => worker'[v] = worker[v]
        /\ worker[w].step = "send" /\ SendText(worker[w].conn, worker[w].message)
        /\ UNCHANGED <<stored, handler, toServer, cached, link>>
    BY <1>0, <1>7, WorkerFields, MessageKinds DEF SendToDevice, TypesOK, NumbersBounded
  <2>1. ASSUME NEW d \in Devices, NEW c \in Conns, link[d] = c, cached[d] = c
        PROVE  GetsNewest(d, c)'
    <3>1. GetsNewest(d, c) /\ Alive(c) /\ owner[c] = d
      BY <1>1, <2>1
    <3>2. sent[c] = stored[d].number => sent'[c] = stored[d].number
      BY <2>0, <3>1, NewestStaysSent DEF Alive
    <3>3. CASE worker[w] = [step |-> "send", conn |-> c, message |-> Push(stored[d])]
      <4>1. worker[w].conn = c /\ worker[w].message = Push(stored[d])
        BY <3>3
      <4>2. sent'[c] = stored[d].number
        BY <2>0, <3>1, <4>1, NewestStaysSent
      <4> QED
        BY <2>0, <4>2 DEF GetsNewest
    <3>4. CASE worker[w] # [step |-> "send", conn |-> c, message |-> Push(stored[d])]
      <4>1. worker[w] # [step |-> "lookup", device |-> d, message |-> Push(stored[d])]
        BY <2>0
      <4> QED
        BY <2>0, <3>1, <3>2, <3>4, <4>1 DEF GetsNewest, WillSend
    <3> QED
      BY <3>3, <3>4
  <2> QED
    BY <1>0, <1>2, <2>0, <2>1
<1>8. ASSUME NEW w \in Workers, NEW d \in Devices, RestartDevice(w, d) PROVE NewestUnderWay'
  BY <1>0, <1>3, <1>8 DEF RestartDevice, Idle
<1>9. ASSUME NEW w \in Workers, NEW d \in Devices, NEW content \in Commands,
             SetCommands(w, d, content) \/ CheckCommand(w, d, content)
      PROVE  NewestUnderWay'
  <2>1. CASE SetCommands(w, d, content)
    BY <1>4, <2>1 DEF SetCommands, Idle
  <2>2. CASE CheckCommand(w, d, content)
    BY <1>0, <1>3, <2>2 DEF CheckCommand, Idle
  <2> QED
    BY <1>9, <2>1, <2>2
<1>10. ASSUME NEW c \in Conns, AddWebSocketConnection(c) PROVE NewestUnderWay'
  <2>0. /\ toServer[c] # <<>> /\ toServer[c] \in Seq(Texts) /\ Head(toServer[c]) = "authorize"
        /\ toServer'[c] = Tail(toServer[c]) /\ GreetsWhole(toServer[c])
        /\ \A e \in Conns : e # c => toServer'[e] = toServer[e]
        /\ cached' = [cached EXCEPT ![owner[c]] = c]
        /\ UNCHANGED <<stored, handler, worker, owner, sent, link>>
    BY <1>10, ReceivesEffect DEF AddWebSocketConnection, ConnectionsUsed
  <2>1. \E i \in DOMAIN toServer'[c] : toServer'[c][i] = "get_commands"
    BY <2>0, GreetsTail
  <2>2. ASSUME NEW d \in Devices, NEW e \in Conns, link[d] = e, cached'[d] = e
        PROVE  GetsNewest(d, e)'
    <3>1. CASE e = c
      BY <2>1, <3>1 DEF GetsNewest, WillSend
    <3>2. CASE e # c
      <4>1. cached[d] = e
        BY <1>0, <2>0, <2>2, <3>2
      <4> QED
        BY <1>1, <2>0, <2>2, <3>2, <4>1, GetsNewestKept
    <3> QED
      BY <3>1, <3>2
  <2> QED
    BY <1>0, <1>2, <2>0, <2>2
<1>11. ASSUME NEW c \in Conns, AskToReauthorize(c) PROVE NewestUnderWay'
  <2>0. /\ cached[owner[c]] = NoConn
        /\ \A e \in Conns : e # c => toServer'[e] = toServer[e] /\ sent'[e] = sent[e]
        /\ UNCHANGED <<stored, cached, handler, worker, link>>
    BY <1>11, ReceivesEffect, SendTextEffect, MessageKinds DEF AskToReauthorize
  <2>1. ASSUME NEW d \in Devices, NEW e \in Conns, link[d] = e, cached[d] = e
        PROVE  GetsNewest(d, e)'
    <3>1. e # c
      BY <1>0, <1>1, <2>0, <2>1
    <3> QED
      BY <1>1, <2>0, <2>1, <3>1, GetsNewestKept
  <2> QED
    BY <1>0, <1>2, <2>0, <2>1
<1>12. ASSUME NEW c \in Conns, HandleReport(c) PROVE NewestUnderWay'
  <2>0. /\ toServer[c] # <<>> /\ toServer[c] \in Seq(Texts) /\ Head(toServer[c]) = "data"
        /\ toServer'[c] = Tail(toServer[c]) /\ GreetsWhole(toServer[c])
        /\ \A e \in Conns : e # c => toServer'[e] = toServer[e]
        /\ UNCHANGED <<stored, cached, handler, worker, sent, link>>
    BY <1>12, ReceivesEffect DEF HandleReport, ConnectionsUsed
  <2>1. \A e \in Conns :
          (\E i \in DOMAIN toServer[e] : toServer[e][i] = "get_commands")
            => \E i \in DOMAIN toServer'[e] : toServer'[e][i] = "get_commands"
    BY <2>0, GreetsTail
  <2>2. ASSUME NEW d \in Devices, NEW e \in Conns, link[d] = e, cached[d] = e
        PROVE  GetsNewest(d, e)'
    BY <1>1, <2>0, <2>1, <2>2, GetsNewestKept
  <2> QED
    BY <1>0, <1>2, <2>0, <2>2
<1>13. ASSUME NEW c \in Conns, HandleGetCommands(c) PROVE NewestUnderWay'
  <2>0. /\ handler[c] = Listening /\ handler'[c].step = "read"
        /\ \A e \in Conns : e # c => toServer'[e] = toServer[e] /\ handler'[e] = handler[e]
        /\ UNCHANGED <<stored, cached, worker, sent, link>>
    BY <1>0, <1>13, ReceivesEffect DEF HandleGetCommands
  <2>1. ASSUME NEW d \in Devices, NEW e \in Conns, link[d] = e, cached[d] = e
        PROVE  GetsNewest(d, e)'
    <3>1. CASE e = c
      BY <2>0, <3>1 DEF GetsNewest, WillSend
    <3>2. CASE e # c
      BY <1>1, <2>0, <2>1, <3>2, GetsNewestKept
    <3> QED
      BY <3>1, <3>2
  <2> QED
    BY <1>0, <1>2, <2>0, <2>1
<1>14. ASSUME NEW c \in Conns, ReadCommand(c) PROVE NewestUnderWay'
  <2>0. /\ handler'[c] = [step |-> "reply", command |-> stored[owner[c]]]
        /\ \A e \in Conns : e # c => handler'[e] = handler[e]
        /\ UNCHANGED <<stored, cached, worker, toServer, sent, link>>
    BY <1>0, <1>14 DEF ReadCommand
  <2>1. ASSUME NEW d \in Devices, NEW e \in Conns, link[d] = e, cached[d] = e
        PROVE  GetsNewest(d, e)'
    <3>1. CASE e = c
      <4>1. owner[c] = d
        BY <1>1, <2>1, <3>1
      <4> QED
        BY <2>0, <3>1, <4>1 DEF GetsNewest, WillSend
    <3>2. CASE e # c
      BY <1>1, <2>0, <2>1, <3>2, GetsNewestKept
    <3> QED
      BY <3>1, <3>2
  <2> QED
    BY <1>0, <1>2, <2>0, <2>1
<1>15. ASSUME NEW c \in Conns, Reply(c) PROVE NewestUnderWay'
  <2>0. /\ handler[c].step = "reply" /\ handler[c].command \in Command \cup {NoCommand}
        /\ handler[c].command.number <= stored[owner[c]].number
        /\ \A e \in Conns : e # c => handler'[e] = handler[e] /\ sent'[e] = sent[e]
        /\ UNCHANGED <<stored, cached, worker, toServer, link>>
    <3>1. handler[c].command \in Command => Push(handler[c].command) \in Messages
      BY MessageKinds
    <3>2. handler[c].command \in Command \cup {NoCommand}
      BY <1>15, HandlerFields DEF Reply, TypesOK
    <3>3. \A e \in Conns : e # c => sent'[e] = sent[e]
      BY <1>15, <3>1, <3>2, SendTextEffect DEF Reply
    <3> QED
      BY <1>0, <1>15, <3>2, <3>3 DEF Reply, NumbersBounded
  <2>1. ASSUME NEW d \in Devices, NEW e \in Conns, link[d] = e, cached[d] = e
        PROVE  GetsNewest(d, e)'
    <3>1. GetsNewest(d, e) /\ Alive(e) /\ owner[e] = d
      BY <1>1, <2>1
    <3>2. CASE e = c
      <4>1. sent[c] = stored[d].number => sent'[c] = stored[d].number
        <5>1. CASE handler[c].command = NoCommand
          BY <1>15, <5>1 DEF Reply
        <5>2. CASE handler[c].command # NoCommand
          <6> DEFINE m == Push(handler[c].command)
          <6>1. m \in Messages /\ NotNewer(m, owner[c])
            BY <2>0, <5>2, MessageKinds DEF NotNewer
          <6>2. SendText(c, m)
            BY <1>15, <5>2 DEF Reply
          <6> QED
            BY <3>1, <3>2, <6>1, <6>2, NewestStaysSent DEF Alive
        <5> QED
          BY <5>1, <5>2
      <4>2. ASSUME handler[c] = [step |-> "reply", command |-> stored[d]]
            PROVE  sent'[c] = stored[d].number
        <5>1. handler[c].command = stored[d]
          BY <4>2
        <5>2. CASE stored[d] = NoCommand
          <6>1. sent[c] \in Nat /\ sent[c] <= stored[owner[c]].number
            BY <3>1, <3>2 DEF Alive, TypesOK, ToDeviceTypeOK, NumbersBounded
          <6>2. sent' = sent
            BY <1>15, <5>1, <5>2 DEF Reply
          <6>3. NoCommand.number = 0
            BY CommandFields
          <6> QED
            BY <3>1, <3>2, <5>2, <6>1, <6>2, <6>3
        <5>3. CASE stored[d] # NoCommand
          <6> DEFINE m == Push(handler[c].command)
          <6>1. m \in Messages /\ NotNewer(m, owner[c])
            BY <2>0, <5>1, <5>3, MessageKinds DEF NotNewer
          <6>2. SendText(c, m) /\ m = Push(stored[owner[c]])
            BY <1>15, <3>1, <3>2, <5>1, <5>3 DEF Reply
          <6> QED
            BY <3>1, <3>2, <6>1, <6>2, NewestStaysSent
        <5> QED
          BY <5>2, <5>3
      <4>3. handler[c].step # "read"
        BY <2>0
      <4> QED
        BY <2>0, <3>1, <3>2, <4>1, <4>2, <4>3 DEF GetsNewest, WillSend
    <3>3. CASE e # c
      BY <2>0, <3>1, <3>3, GetsNewestKept
    <3> QED
      BY <3>2, <3>3
  <2> QED
    BY <1>0, <1>2, <2>0, <2>1
<1>16. ASSUME NEW c \in Conns, OnWebSocketClose(c) PROVE NewestUnderWay'
  <2>0. /\ \A e \in Conns : e # c => toServer'[e] = toServer[e]
        /\ \A d \in Devices : cached'[d] = IF cached[d] = c THEN NoConn ELSE cached[d]
        /\ UNCHANGED <<stored, worker, handler, sent, link>>
    BY <1>0, <1>16 DEF OnWebSocketClose
  <2>1. ASSUME NEW d \in Devices, NEW e \in Conns, link[d] = e, cached'[d] = e
        PROVE  GetsNewest(d, e)'
    <3>1. e # c /\ cached[d] = e
      BY <1>0, <2>0, <2>1
    <3> QED
      BY <1>1, <2>0, <2>1, <3>1, GetsNewestKept
  <2> QED
    BY <1>0, <1>2, <2>0, <2>1
<1>17. CASE RestartServer
  BY <1>0, <1>17 DEF RestartServer, NewestUnderWay
<1>18. ASSUME NEW d \in Devices, NEW c \in Conns, Connect(d, c) PROVE NewestUnderWay'
  <2>0. /\ conn[c] = "new" /\ link' = [link EXCEPT ![d] = c]
        /\ \A e \in Conns : e # c => toServer'[e] = toServer[e]
        /\ UNCHANGED <<stored, cached, handler, worker, sent>>
    BY <1>0, <1>18 DEF Connect, Used
  <2>1. ASSUME NEW e \in Devices, NEW f \in Conns, link'[e] = f, cached[e] = f
        PROVE  GetsNewest(e, f)'
    <3>1. f # c
      BY <1>0, <2>0, <2>1 DEF CachedIsOpen
    <3>2. link[e] = f
      BY <1>0, <2>0, <2>1, <3>1
    <3> QED
      BY <1>1, <2>0, <2>1, <3>1, <3>2, GetsNewestKept
  <2>2. link' \in [Devices -> Conns \cup {NoConn}]
    BY <1>0, <2>0
  <2> QED
    BY <1>0, <1>2, <2>0, <2>1, <2>2
<1>19. ASSUME NEW d \in Devices, LoseLink(d) \/ NoticeClosed(d) \/ Reboot(d) PROVE NewestUnderWay'
  <2>0. /\ link' = [link EXCEPT ![d] = NoConn]
        /\ UNCHANGED <<stored, cached, handler, worker, toServer, sent>>
    BY <1>19, LinkLost
  <2>1. ASSUME NEW e \in Devices, NEW c \in Conns, link'[e] = c, cached[e] = c
        PROVE  GetsNewest(e, c)'
    BY <1>0, <1>1, <2>0, <2>1, GetsNewestKept
  <2>2. link' \in [Devices -> Conns \cup {NoConn}]
    BY <1>0, <2>0
  <2> QED
    BY <1>0, <1>2, <2>0, <2>1, <2>2
<1>20. ASSUME NEW d \in Devices, SendData(d) PROVE NewestUnderWay'
  <2>0. /\ \A e \in Conns : toServer'[e] = toServer[e] \/ toServer[e] = <<>>
        /\ UNCHANGED <<stored, cached, handler, worker, sent, link>>
    BY <1>0, <1>20 DEF SendData
  <2>1. ASSUME NEW e \in Devices, NEW c \in Conns, link[e] = c, cached[e] = c
        PROVE  GetsNewest(e, c)'
    BY <1>1, <2>0, <2>1, GetsNewestKept
  <2> QED
    BY <1>0, <1>2, <2>0, <2>1
<1>21. ASSUME NEW d \in Devices, ApplyCommand(d) \/ Reauthorizes(d) PROVE NewestUnderWay'
  <2>0. /\ \A c \in Conns : \A i \in DOMAIN toServer[c] :
             i \in DOMAIN toServer'[c] /\ toServer'[c][i] = toServer[c][i]
        /\ UNCHANGED <<stored, cached, handler, worker, sent, link>>
    BY <1>21, DeviceSendsEffect, GreetsAlone, GreetingTexts, DataTexts
       DEF ApplyCommand, Reauthorizes, ReadsText
  <2>1. ASSUME NEW e \in Devices, NEW c \in Conns, link[e] = c, cached[e] = c
        PROVE  GetsNewest(e, c)'
    BY <1>1, <2>0, <2>1, GetsNewestKept
  <2> QED
    BY <1>0, <1>2, <2>0, <2>1
<1>22. CASE OtherTransaction \/ UNCHANGED deliveryVars
  BY <1>3, <1>22 DEF OtherTransaction, deliveryVars
<1> QED
  BY <1>5, <1>6, <1>7, <1>8, <1>9, <1>10, <1>11, <1>12, <1>13, <1>14, <1>15, <1>16, <1>17,
     <1>18, <1>19, <1>20, <1>21, <1>22
     DEF DeliveryNext, WorkerStep, HandlerStep, DeviceReads, Connects

DeliveryInv ==
  /\ TypesOK /\ CachedIsOpen /\ ConnectionsUsed
  /\ RowsNumbered /\ NumbersBounded /\ NewestUnderWay

LEMMA DeliveryInvInit ==
  ASSUME DeliveryInit
  PROVE  ConnectionsUsed /\ RowsNumbered /\ NumbersBounded /\ NewestUnderWay
<1>1. ConnectionsUsed
  BY GreetsAlone DEF DeliveryInit, ConnectionsUsed, Idle
<1>2. NumbersBounded
  <2>3. \A c \in Conns : toDevice[c] = <<>> /\ sent[c] = 0 /\ handler[c].step = "idle"
    BY DEF DeliveryInit, Listening
  <2>4. \A w \in Workers : worker[w].step = "idle"
    BY DEF DeliveryInit, Idle
  <2>5. \A c \in Conns : conn[c] # "open"
    BY DEF DeliveryInit
  <2> QED
    BY <2>3, <2>4, <2>5 DEF NumbersBounded
<1>4. RowsNumbered
  BY CommandFields DEF DeliveryInit, RowsNumbered
<1>3. NewestUnderWay
  BY DEF DeliveryInit, NewestUnderWay
<1> QED
  BY <1>1, <1>2, <1>3, <1>4

LEMMA DeliveryInvAlways == DeliverySpec => []DeliveryInv
<1> DEFINE Next1 == ConnectionsUsed /\ RowsNumbered /\ NumbersBounded /\ NewestUnderWay
<1>1. DeliveryInit => Next1
  BY DeliveryInvInit
<1>2. TypesOK /\ CachedIsOpen /\ Next1 /\ [DeliveryNext]_deliveryVars => Next1'
  BY NextConnectionsUsed, NextRowsNumbered, NextNumbersBounded, NextNewestUnderWay
<1>3. DeliverySpec => []TypesOK
  BY DeliveryTypeCorrect, DeliveryTypeOKSplit, PTL
<1>4. TypesOK /\ CachedIsOpen /\ Next1 => DeliveryInv
  BY DEF DeliveryInv
<1> HIDE DEF Next1
<1> QED
  BY <1>1, <1>2, <1>3, <1>4, CachedConnectionsOpen, PTL DEF DeliverySpec

(* The newest command has been sent when the device is settled.             *)
LEMMA SettledSent ==
  ASSUME TypesOK, NewestUnderWay, NEW d \in Devices, Settled(d)
  PROVE  sent[link[d]] = stored[d].number
<1>1. GetsNewest(d, link[d])
  BY DEF Settled, NewestUnderWay
<1>2. /\ toServer[link[d]] = <<>> /\ handler[link[d]] = Listening
      /\ \A w \in Workers : worker[w].step \in {"idle", "store"}
  BY DEF Settled
<1>3. DOMAIN <<>> = {}
  OBVIOUS
<1>4. ~WillSend(d, link[d])
  BY <1>2, <1>3 DEF WillSend, Listening
<1> QED
  BY <1>1, <1>4 DEF GetsNewest

(***************************************************************************)
(* When all is quiet the newest stored command has been put on the         *)
(* connection the device uses, whatever reconnections, restarts, late      *)
(* authorizations and lost pushes there were: until it is sent, a worker   *)
(* or the handler of the connection has it, or a request for the commands  *)
(* is still to be handled there (UniversalDevice.ino:233).                 *)
(***************************************************************************)
THEOREM NewestSent == DeliverySpec => []NewestCommandSent
<1>1. DeliveryInv => NewestCommandSent
  BY SettledSent DEF DeliveryInv, NewestCommandSent
<1> QED
  BY <1>1, DeliveryInvAlways, PTL
------------------------------------------------------------------------------
(* A device without a stored command is sent none.                          *)
LEMMA NextKept ==
  ASSUME TypesOK, ConnectionsUsed, RowsNumbered, NumbersBounded, KeptWithoutCommand,
         [DeliveryNext]_deliveryVars
  PROVE  KeptWithoutCommand'
<1> USE DEF serverVars, storeVars, storageVars, wireVars, deviceVars
<1>0. /\ link \in [Devices -> Conns \cup {NoConn}]
      /\ owner \in [Conns -> Devices]
      /\ toDevice \in [Conns -> Seq(Messages)]
      /\ applied \in [Devices -> Command \cup {NoCommand}]
      /\ stored \in [Devices -> Command \cup {NoCommand}]
      /\ NoConn \notin Conns
      /\ NoCommand.number = 0 /\ \A x \in Command : x.number \in Nat /\ x.number > 0
      /\ DOMAIN <<>> = {}
  BY CommandFields, DeliveryAssumption
     DEF TypesOK, ConnectionsTypeOK, DevicesTypeOK, ToDeviceTypeOK, StoreTypeOK
<1>1. ASSUME UNCHANGED <<stored, rivals, link, applied, toDevice>> PROVE KeptWithoutCommand'
  BY <1>1 DEF KeptWithoutCommand, Welcome
<1>2. ASSUME NEW w \in Workers, NEW d \in Devices, NEW content \in Commands,
             StoreAndContinue(w, d, content),
             UNCHANGED <<cached, handler, wireVars, deviceVars>>
      PROVE  KeptWithoutCommand'
  <2>1. CASE UNCHANGED <<stored, stores, rivals>>
    BY <1>1, <1>2, <2>1
  <2>2. CASE /\ \A e \in Devices : e # d => stored'[e] = stored[e] /\ rivals'[e] = rivals[e]
             /\ stored'[d] \in Command
    <3>1. stored'[d] # NoCommand
      BY <1>0, <2>2
    <3> QED
      BY <1>2, <2>2, <3>1 DEF KeptWithoutCommand, Welcome
  <2> QED
    BY <1>2, <2>1, <2>2, StoreCases
<1>3. ASSUME NEW c \in Conns, NEW m \in Messages, SendText(c, m), NotNewer(m, owner[c]),
             UNCHANGED <<stored, rivals, link, applied>>
      PROVE  KeptWithoutCommand'
  <2> SUFFICES ASSUME NEW d \in Devices, stored[d] = NoCommand, link[d] # NoConn,
                      NEW i \in DOMAIN toDevice'[link[d]], toDevice'[link[d]][i].kind = "command"
               PROVE  toDevice'[link[d]][i].command \in rivals[d]
    BY <1>3 DEF KeptWithoutCommand, Welcome
  <2>1. link[d] \in Conns /\ owner[link[d]] = d
    BY <1>0 DEF ConnectionsUsed
  <2>2. CASE toDevice'[link[d]] = toDevice[link[d]]
    BY <2>2 DEF KeptWithoutCommand
  <2>3. CASE link[d] = c /\ toDevice'[c] = Append(toDevice[c], m)
    <3>1. m.kind # "command"
      BY <1>0, <1>3, <2>1, <2>3, MessageKinds DEF NotNewer
    <3>2. /\ i \in DOMAIN toDevice[c] \cup {Len(toDevice[c]) + 1}
          /\ \A j \in DOMAIN toDevice[c] : toDevice'[c][j] = toDevice[c][j]
          /\ toDevice'[c][Len(toDevice[c]) + 1] = m
      BY <1>0, <2>3, ElementsAppended
    <3> QED
      BY <2>3, <3>1, <3>2 DEF KeptWithoutCommand
  <2> QED
    BY <1>3, <2>1, <2>2, <2>3, SendTextEffect
<1>4. ASSUME NEW w \in Workers, WorkerStep(w) PROVE KeptWithoutCommand'
  <2>1. CASE StoreCommand(w)
    BY <1>2, <2>1, WorkerFields DEF StoreCommand, TypesOK
  <2>2. CASE GetWebSocketConnection(w)
    BY <1>1, <2>2 DEF GetWebSocketConnection
  <2>3. CASE SendToDevice(w)
    <3>1. /\ worker[w].conn \in Conns /\ worker[w].message \in Messages
          /\ NotNewer(worker[w].message, owner[worker[w].conn])
      BY <2>3, WorkerFields, MessageKinds DEF SendToDevice, TypesOK, NumbersBounded
    <3> QED
      BY <1>3, <2>3, <3>1 DEF SendToDevice
  <2> QED
    BY <1>4, <2>1, <2>2, <2>3 DEF WorkerStep
<1>5. ASSUME NEW w \in Workers, NEW d \in Devices,
             \/ RestartDevice(w, d)
             \/ \E content \in Commands : SetCommands(w, d, content) \/ CheckCommand(w, d, content)
      PROVE  KeptWithoutCommand'
  BY <1>1, <1>2, <1>5 DEF RestartDevice, SetCommands, CheckCommand
<1>6. ASSUME NEW c \in Conns,
             \/ AddWebSocketConnection(c) \/ HandleReport(c) \/ HandleGetCommands(c)
             \/ ReadCommand(c) \/ OnWebSocketClose(c)
      PROVE  KeptWithoutCommand'
  BY <1>1, <1>6 DEF AddWebSocketConnection, HandleReport, HandleGetCommands, ReadCommand,
     OnWebSocketClose
<1>7. ASSUME NEW c \in Conns, AskToReauthorize(c) PROVE KeptWithoutCommand'
  BY <1>3, <1>7, MessageKinds DEF AskToReauthorize, NotNewer
<1>8. ASSUME NEW c \in Conns, Reply(c) PROVE KeptWithoutCommand'
  <2>1. CASE handler[c].command = NoCommand
    BY <1>1, <1>8, <2>1 DEF Reply
  <2>2. CASE handler[c].command # NoCommand
    <3> DEFINE m == Push(handler[c].command)
    <3>1. handler[c].command \in Command
      BY <1>8, <2>2, HandlerFields DEF Reply, TypesOK
    <3>2. m \in Messages /\ NotNewer(m, owner[c])
      BY <1>8, <3>1, MessageKinds DEF Reply, NotNewer, NumbersBounded
    <3> HIDE DEF m
    <3>3. SendText(c, m) /\ UNCHANGED <<stored, rivals, link, applied>>
      BY <1>8, <2>2 DEF Reply, m
    <3> QED
      BY <1>3, <3>2, <3>3
  <2> QED
    BY <2>1, <2>2
<1>9. CASE RestartServer
  <2> SUFFICES ASSUME NEW d \in Devices, stored'[d] = NoCommand
               PROVE  /\ applied[d] \in rivals'[d]
                      /\ link[d] # NoConn => \A i \in DOMAIN toDevice[link[d]] :
                           toDevice[link[d]][i].kind = "command"
                             => toDevice[link[d]][i].command \in rivals'[d]
    BY <1>9 DEF RestartServer, KeptWithoutCommand, Welcome
  <2>1. rivals'[d] = {applied[d]} \cup Unread(d)
    BY <1>9 DEF RestartServer
  <2>2. ASSUME link[d] # NoConn, NEW i \in DOMAIN toDevice[link[d]],
               toDevice[link[d]][i].kind = "command"
        PROVE  toDevice[link[d]][i].command \in Unread(d)
    <3>1. toDevice[link[d]][i] \in Messages
      <4>1. toDevice[link[d]] \in Seq(Messages)
        BY <1>0, <2>2
      <4> QED
        BY <2>2, <4>1, ElementOfSeq, LenProperties
    <3> QED
      BY <2>2, <3>1, MessageKinds DEF Unread
  <2> QED
    BY <2>1, <2>2
<1>10. ASSUME NEW d \in Devices, NEW c \in Conns, Connect(d, c) PROVE KeptWithoutCommand'
  <2>1. toDevice[c] = <<>> /\ link' = [link EXCEPT ![d] = c]
        /\ UNCHANGED <<stored, rivals, applied, toDevice>>
    BY <1>10 DEF Connect, Used, ConnectionsUsed
  <2> QED
    BY <1>0, <2>1 DEF KeptWithoutCommand, Welcome
<1>11. ASSUME NEW d \in Devices, LoseLink(d) \/ NoticeClosed(d) \/ Reboot(d)
       PROVE  KeptWithoutCommand'
  <2>1. /\ link[d] \in Conns /\ link' = [link EXCEPT ![d] = NoConn]
        /\ toDevice' = [toDevice EXCEPT ![link[d]] = <<>>]
        /\ UNCHANGED <<stored, rivals>>
    BY <1>11, LinkLost
  <2>2. \A e \in Devices : applied'[e] \in {applied[e], NoCommand}
    BY <1>0, <1>11 DEF LoseLink, NoticeClosed, Reboot
  <2>3. \A e \in Devices : link'[e] # NoConn => link'[e] = link[e] /\ link[e] \in Conns
    BY <1>0, <2>1
  <2>4. \A c \in Conns : toDevice'[c] = toDevice[c] \/ toDevice'[c] = <<>>
    BY <1>0, <2>1
  <2> QED
    BY <1>0, <2>1, <2>2, <2>3, <2>4 DEF KeptWithoutCommand, Welcome
<1>12. ASSUME NEW d \in Devices, SendData(d) PROVE KeptWithoutCommand'
  BY <1>1, <1>12 DEF SendData
<1>13. ASSUME NEW d \in Devices, ApplyCommand(d) \/ Reauthorizes(d) PROVE KeptWithoutCommand'
  <2> DEFINE s == toDevice[link[d]]
  <2>1. /\ link[d] \in Conns /\ s # <<>> /\ s \in Seq(Messages)
        /\ toDevice'[link[d]] = Tail(s)
        /\ \A c \in Conns : c # link[d] => toDevice'[c] = toDevice[c]
    BY <1>13, ReadsTextEffect DEF ApplyCommand, Reauthorizes
  <2>2. /\ 1 \in DOMAIN s /\ s[1] = Head(s)
        /\ \A i \in DOMAIN Tail(s) : i + 1 \in DOMAIN s /\ Tail(s)[i] = s[i + 1]
    BY <2>1, ElementsOfTail
  <2>3. UNCHANGED <<stored, rivals, link>>
    BY <1>13 DEF ApplyCommand, Reauthorizes
  <2>4. \/ applied' = applied
        \/ Head(s).kind = "command" /\ applied' = [applied EXCEPT ![d] = Head(s).command]
    BY <1>13 DEF ApplyCommand, Reauthorizes, ReadsText
  <2> HIDE DEF s
  <2>5. ASSUME NEW e \in Devices, stored[e] = NoCommand
        PROVE  /\ applied'[e] \in Welcome(e)
               /\ link[e] # NoConn => \A i \in DOMAIN toDevice'[link[e]] :
                    toDevice'[link[e]][i].kind = "command"
                      => toDevice'[link[e]][i].command \in rivals[e]
    <3>1. CASE e = d
      <4>1. \A i \in DOMAIN s : s[i].kind = "command" => s[i].command \in rivals[d]
        BY <1>0, <2>1, <2>5, <3>1 DEF KeptWithoutCommand, s
      <4>2. applied'[d] \in Welcome(d)
        BY <1>0, <2>2, <2>4, <2>5, <3>1, <4>1 DEF KeptWithoutCommand, Welcome
      <4> QED
        BY <2>1, <2>2, <3>1, <4>1, <4>2
    <3>2. CASE e # d
      <4>1. link[e] # NoConn => link[e] # link[d] /\ link[e] \in Conns
        BY <1>0, <2>1, <3>2 DEF ConnectionsUsed
      <4>2. applied'[e] = applied[e]
        BY <1>0, <2>4, <3>2
      <4> QED
        BY <2>1, <2>5, <4>1, <4>2 DEF KeptWithoutCommand
    <3> QED
      BY <3>1, <3>2
  <2> QED
    BY <2>3, <2>5 DEF KeptWithoutCommand, Welcome
<1>14. CASE OtherTransaction \/ UNCHANGED deliveryVars
  BY <1>1, <1>14 DEF OtherTransaction, deliveryVars
<1> QED
  BY <1>4, <1>5, <1>6, <1>7, <1>8, <1>9, <1>10, <1>11, <1>12, <1>13, <1>14
     DEF DeliveryNext, HandlerStep, DeviceReads, Connects
------------------------------------------------------------------------------
(* What sending and reading does to the end of a channel.                   *)
LEMMA EndsAppended ==
  ASSUME NEW s \in Seq(Messages), NEW m \in Messages, NEW S, NEW obeyed
  PROVE  /\ (\E x \in S : m = Push(x)) => EndsIn(S, obeyed, Append(s, m))
         /\ m.kind # "command" /\ EndsIn(S, obeyed, s) => EndsIn(S, obeyed, Append(s, m))
<1> DEFINE t == Append(s, m)
           n == Len(s) + 1
<1>1. /\ DOMAIN t = DOMAIN s \cup {n} /\ t[n] = m /\ n \in Nat /\ DOMAIN s \subseteq Nat
      /\ \A i \in DOMAIN s : t[i] = s[i] /\ i < n
  BY ElementsAppended
<1> HIDE DEF t, n
<1>2. ASSUME \E x \in S : m = Push(x) PROVE EndsIn(S, obeyed, t)
  <2>1. n \in DOMAIN t /\ \E x \in S : t[n] = Push(x)
    BY <1>1, <1>2
  <2>2. \A j \in DOMAIN t : ~(j > n)
    BY <1>1
  <2> QED
    BY <2>1, <2>2 DEF EndsIn
<1>3. ASSUME m.kind # "command", EndsIn(S, obeyed, s) PROVE EndsIn(S, obeyed, t)
  <2>1. CASE NoCommandIn(s) /\ obeyed \in S
    <3>1. NoCommandIn(t)
      BY <1>1, <1>3, <2>1 DEF NoCommandIn
    <3> QED
      BY <2>1, <3>1 DEF EndsIn
  <2>2. CASE \E i \in DOMAIN s : /\ \E x \in S : s[i] = Push(x)
                                 /\ \A j \in DOMAIN s : j > i => s[j].kind # "command"
    <3>1. PICK i \in DOMAIN s : /\ \E x \in S : s[i] = Push(x)
                                /\ \A j \in DOMAIN s : j > i => s[j].kind # "command"
      BY <2>2
    <3>2. i \in DOMAIN t /\ \E x \in S : t[i] = Push(x)
      BY <1>1, <3>1
    <3>3. \A j \in DOMAIN t : j > i => t[j].kind # "command"
      BY <1>1, <1>3, <3>1
    <3> QED
      BY <3>2, <3>3 DEF EndsIn
  <2> QED
    BY <1>3, <2>1, <2>2 DEF EndsIn
<1> QED
  BY <1>2, <1>3 DEF t

LEMMA EndsRead ==
  ASSUME NEW s \in Seq(Messages), s # <<>>, NEW S, NEW obeyed, EndsIn(S, obeyed, s)
  PROVE  /\ Head(s).kind # "command" => EndsIn(S, obeyed, Tail(s))
         /\ Head(s).kind = "command" => EndsIn(S, Head(s).command, Tail(s))
<1> DEFINE t == Tail(s)
           m == Head(s)
<1>1. /\ DOMAIN s \subseteq Nat \ {0} /\ 1 \in DOMAIN s /\ s[1] = m
      /\ \A i \in DOMAIN t : i \in Nat \ {0} /\ i + 1 \in DOMAIN s /\ t[i] = s[i + 1]
      /\ \A i \in DOMAIN s : i # 1 => i - 1 \in DOMAIN t /\ t[i - 1] = s[i]
  BY ElementsOfTail
<1> HIDE DEF t, m
<1>2. CASE NoCommandIn(s) /\ obeyed \in S
  <2>1. m.kind # "command" /\ NoCommandIn(t)
    BY <1>1, <1>2 DEF NoCommandIn
  <2> QED
    BY <1>2, <2>1 DEF EndsIn, t, m
<1>3. CASE \E i \in DOMAIN s : /\ \E x \in S : s[i] = Push(x)
                               /\ \A j \in DOMAIN s : j > i => s[j].kind # "command"
  <2>1. PICK i \in DOMAIN s : /\ \E x \in S : s[i] = Push(x)
                              /\ \A j \in DOMAIN s : j > i => s[j].kind # "command"
    BY <1>3
  <2>2. CASE i = 1
    <3>1. m.kind = "command" /\ m.command \in S
      BY <1>1, <2>1, <2>2 DEF Push
    <3>2. NoCommandIn(t)
      BY <1>1, <2>1, <2>2 DEF NoCommandIn
    <3> QED
      BY <3>1, <3>2 DEF EndsIn, t, m
  <2>3. CASE i # 1
    <3>1. i - 1 \in DOMAIN t /\ \E x \in S : t[i - 1] = Push(x)
      BY <1>1, <2>1, <2>3
    <3>2. \A j \in DOMAIN t : j > i - 1 => t[j].kind # "command"
      BY <1>1, <2>1
    <3> QED
      BY <3>1, <3>2 DEF EndsIn, t, m
  <2> QED
    BY <2>2, <2>3
<1> QED
  BY <1>2, <1>3 DEF EndsIn
------------------------------------------------------------------------------
(* What a thread has in hand is the newest command or a rival: a store      *)
(* makes rivals of what is in hand, a restart takes everything away.       *)
LEMMA NextOnlyWelcome ==
  ASSUME TypesOK, CachedIsOpen, ConnectionsUsed, RowsNumbered, OnlyWelcome,
         [DeliveryNext]_deliveryVars
  PROVE  OnlyWelcome'
<1> USE DEF serverVars, storeVars, storageVars, wireVars, deviceVars
<1>0. /\ handler \in [Conns -> Answering \cup {Listening}]
      /\ worker \in [Workers -> Busy \cup {Idle}]
      /\ conn \in [Conns -> {"new", "open", "closed"}]
      /\ cached \in [Devices -> Conns \cup {NoConn}]
      /\ owner \in [Conns -> Devices]
      /\ stored \in [Devices -> Command \cup {NoCommand}]
      /\ \A x \in Command : Push(x) # Restart /\ Push(x).command = x
  BY MessageKinds DEF TypesOK, ThreadsTypeOK, ConnectionsTypeOK, StoreTypeOK
<1>1. ASSUME \A d \in Devices : InHand(d)' \subseteq InHand(d), UNCHANGED <<stored, rivals>>
      PROVE  OnlyWelcome'
  BY <1>1 DEF OnlyWelcome, Welcome
<1>2. ASSUME \A w \in Workers :
               worker'[w].step \in {"lookup", "send"} => worker'[w] = worker[w],
             \A c \in Conns : handler'[c].step = "reply" => handler'[c] = handler[c],
             UNCHANGED <<stored, rivals, owner>>
      PROVE  OnlyWelcome'
  <2>1. \A d \in Devices : InHand(d)' \subseteq InHand(d)
    BY <1>2 DEF InHand, Carries
  <2> QED
    BY <1>1, <1>2, <2>1
<1>3. ASSUME NEW w \in Workers, NEW d \in Devices, NEW content \in Commands,
             StoreAndContinue(w, d, content),
             UNCHANGED <<cached, handler, wireVars, deviceVars>>
      PROVE  OnlyWelcome'
  <2>0. \A v \in Workers : v # w => worker'[v] = worker[v]
    BY <1>3, StoreCases
  <2>1. CASE UNCHANGED <<stored, stores, rivals>> /\ worker'[w] = Idle
    <3>1. \A v \in Workers : worker'[v].step \in {"lookup", "send"} => worker'[v] = worker[v]
      BY <2>0, <2>1 DEF Idle
    <3> QED
      BY <1>2, <1>3, <2>1, <3>1
  <2>2. CASE /\ \A e \in Devices : e # d => stored'[e] = stored[e] /\ rivals'[e] = rivals[e]
             /\ rivals'[d] = InHand(d)
             /\ worker'[w] = [step |-> "lookup", device |-> d, message |-> Push(stored'[d])]
             /\ stored'[d] \in Command
    <3>1. ASSUME NEW e \in Devices, NEW x \in Command, x \in InHand(e)'
          PROVE  x \in InHand(e) \/ (e = d /\ x = stored'[d])
      <4>1. CASE \E c \in Conns : owner'[c] = e /\ handler'[c] = [step |-> "reply", command |-> x]
        BY <1>3, <3>1, <4>1 DEF InHand
      <4>2. ASSUME NEW v \in Workers, Carries(v, e)', worker'[v].message = Push(x)
            PROVE  x \in InHand(e) \/ (e = d /\ x = stored'[d])
        <5>1. CASE v = w
          BY <1>0, <2>2, <4>2, <5>1 DEF Carries
        <5>2. CASE v # w
          BY <1>3, <2>0, <4>2, <5>2 DEF Carries, InHand
        <5> QED
          BY <5>1, <5>2
      <4> QED
        BY <3>1, <4>1, <4>2 DEF InHand
    <3>2. \A e \in Devices : InHand(e)' \subseteq Command
      BY DEF InHand
    <3> QED
      BY <2>2, <3>1, <3>2 DEF OnlyWelcome, Welcome
  <2> QED
    BY <1>3, <2>1, <2>2, StoreCases
<1>4. ASSUME NEW w \in Workers, StoreCommand(w) PROVE OnlyWelcome'
  BY <1>3, <1>4, WorkerFields DEF StoreCommand, TypesOK
<1>5. ASSUME NEW w \in Workers, GetWebSocketConnection(w) PROVE OnlyWelcome'
  <2>1. /\ worker[w].device \in Devices /\ worker[w].step = "lookup"
        /\ \A v \in Workers : v # w => worker'[v] = worker[v]
    BY <1>0, <1>5, WorkerFields DEF GetWebSocketConnection, TypesOK
  <2>2. cached[worker[w].device] # NoConn => owner[cached[worker[w].device]] = worker[w].device
    BY <2>1 DEF CachedIsOpen
  <2>3. \/ worker'[w].step = "idle"
        \/ /\ worker'[w].step = "send" /\ owner[worker'[w].conn] = worker[w].device
           /\ worker'[w].message = worker[w].message
    BY <1>0, <1>5, <2>2 DEF GetWebSocketConnection, Idle
  <2>4. \A d \in Devices, v \in Workers :
          Carries(v, d)' => Carries(v, d) /\ worker'[v].message = worker[v].message
    BY <1>5, <2>1, <2>3 DEF Carries, GetWebSocketConnection
  <2>5. \A d \in Devices : InHand(d)' \subseteq InHand(d)
    BY <1>5, <2>4 DEF InHand, GetWebSocketConnection
  <2> QED
    BY <1>1, <1>5, <2>5 DEF GetWebSocketConnection
<1>6. ASSUME NEW w \in Workers, SendToDevice(w) PROVE OnlyWelcome'
  BY <1>0, <1>2, <1>6 DEF SendToDevice, Idle
<1>7. ASSUME NEW w \in Workers, NEW d \in Devices, RestartDevice(w, d) PROVE OnlyWelcome'
  <2>1. /\ worker'[w].message = Restart
        /\ \A v \in Workers : v # w => worker'[v] = worker[v]
        /\ UNCHANGED <<handler, owner, stored, rivals>>
    BY <1>0, <1>7 DEF RestartDevice
  <2>2. \A e \in Devices : InHand(e)' \subseteq InHand(e)
    BY <1>0, <2>1 DEF InHand, Carries
  <2> QED
    BY <1>1, <2>1, <2>2
<1>8. ASSUME NEW w \in Workers, NEW d \in Devices, NEW content \in Commands,
             SetCommands(w, d, content) \/ CheckCommand(w, d, content)
      PROVE  OnlyWelcome'
  <2>1. CASE SetCommands(w, d, content)
    BY <1>3, <2>1 DEF SetCommands
  <2>2. CASE CheckCommand(w, d, content)
    BY <1>0, <1>2, <2>2 DEF CheckCommand
  <2> QED
    BY <1>8, <2>1, <2>2
<1>9. ASSUME NEW c \in Conns,
             \/ AddWebSocketConnection(c) \/ AskToReauthorize(c) \/ HandleReport(c)
             \/ OnWebSocketClose(c)
      PROVE  OnlyWelcome'
  BY <1>2, <1>9 DEF AddWebSocketConnection, AskToReauthorize, HandleReport, OnWebSocketClose
<1>10. ASSUME NEW c \in Conns, HandleGetCommands(c) \/ Reply(c) PROVE OnlyWelcome'
  BY <1>0, <1>2, <1>10 DEF HandleGetCommands, Reply, Listening
<1>11. ASSUME NEW c \in Conns, ReadCommand(c) PROVE OnlyWelcome'
  <2>1. /\ handler'[c] = [step |-> "reply", command |-> stored[owner[c]]]
        /\ \A e \in Conns : e # c => handler'[e] = handler[e]
        /\ UNCHANGED <<worker, owner, stored, rivals>>
    BY <1>0, <1>11 DEF ReadCommand
  <2>2. \A d \in Devices : InHand(d)' \subseteq InHand(d) \cup {stored[d]}
    BY <2>1 DEF InHand, Carries
  <2> QED
    BY <2>1, <2>2 DEF OnlyWelcome, Welcome
<1>12. CASE RestartServer
  <2>1. /\ \A w \in Workers : worker'[w].step = "idle"
        /\ \A c \in Conns : handler'[c].step = "idle"
    BY <1>12 DEF RestartServer, Idle, Listening
  <2>2. \A d \in Devices : InHand(d)' = {}
    BY <2>1 DEF InHand, Carries
  <2> QED
    BY <2>2 DEF OnlyWelcome
<1>13. ASSUME NEW d \in Devices, NEW c \in Conns, Connect(d, c) PROVE OnlyWelcome'
  <2>1. conn[c] = "new" /\ handler[c] = Listening
    BY <1>13 DEF Connect, Used, ConnectionsUsed
  <2>2. ASSUME NEW w \in Workers, worker[w].step = "send"
        PROVE  worker[w].conn # c /\ worker[w].conn \in Conns
    <3>1. worker[w].conn \in Conns
      BY <2>2, WorkerFields DEF TypesOK
    <3>2. conn[worker[w].conn] # "new"
      BY <2>2 DEF ConnectionsUsed
    <3> QED
      BY <2>1, <3>1, <3>2
  <2>3. (\A e \in Conns : e # c => owner'[e] = owner[e])
        /\ UNCHANGED <<stored, rivals, handler, worker>>
    BY <1>0, <1>13 DEF Connect
  <2>4. \A e \in Devices : InHand(e)' \subseteq InHand(e)
    BY <2>1, <2>2, <2>3 DEF InHand, Carries, Listening
  <2> QED
    BY <1>1, <2>3, <2>4
<1>14. ASSUME NEW d \in Devices,
              DeviceReads(d) \/ SendData(d) \/ LoseLink(d) \/ NoticeClosed(d)
       PROVE  OnlyWelcome'
  BY <1>2, <1>14 DEF DeviceReads, ApplyCommand, Reauthorizes, Reboot, SendData, LoseLink,
     NoticeClosed
<1>15. CASE OtherTransaction \/ UNCHANGED deliveryVars
  BY <1>2, <1>15 DEF OtherTransaction, deliveryVars
<1> QED
  BY <1>4, <1>5, <1>6, <1>7, <1>8, <1>9, <1>10, <1>11, <1>12, <1>13, <1>14, <1>15
     DEF DeliveryNext, WorkerStep, HandlerStep, Connects

(* What a text put on a connection does to the device that reads there.     *)
LEMMA SendKeepsWelcomeLast ==
  ASSUME TypesOK, ConnectionsUsed, WelcomeReadLast, NEW c \in Conns, NEW m \in Messages,
         SendText(c, m),
         m.kind = "command" => m.command \in Welcome(owner[c]),
         UNCHANGED <<stored, rivals, link, conn, applied>>
  PROVE  WelcomeReadLast'
<1> SUFFICES ASSUME NEW d \in Devices, link[d] # NoConn, conn[link[d]] = "open",
                    sent'[link[d]] = stored[d].number
             PROVE  EndsIn(Welcome(d), applied[d], toDevice'[link[d]])
  BY DEF WelcomeReadLast, Welcome
<1>0. link[d] \in Conns /\ toDevice[c] \in Seq(Messages)
  BY DEF TypesOK, DevicesTypeOK, ToDeviceTypeOK
<1>1. CASE link[d] = c /\ Alive(c)
  <2>1. owner[c] = d
    BY <1>1 DEF ConnectionsUsed
  <2>2. link[owner[c]] = c /\ toDevice'[c] = Append(toDevice[c], m)
        /\ (m.kind # "command" => sent'[c] = sent[c])
    BY <1>1, SendTextEffect
  <2>3. CASE m.kind = "command"
    <3>1. m = Push(m.command) /\ m.command \in Welcome(d)
      BY <2>1, <2>3, MessageKinds
    <3> QED
      BY <1>0, <1>1, <2>2, <3>1, EndsAppended
  <2>4. CASE m.kind # "command"
    <3>1. EndsIn(Welcome(d), applied[d], toDevice[c])
      BY <1>0, <1>1, <2>2, <2>4 DEF WelcomeReadLast
    <3> QED
      BY <1>0, <1>1, <2>2, <2>4, <3>1, EndsAppended
  <2> QED
    BY <2>3, <2>4
<1>2. CASE ~(link[d] = c /\ Alive(c))
  <2>1. toDevice'[link[d]] = toDevice[link[d]] /\ sent'[link[d]] = sent[link[d]]
    BY <1>0, <1>2, SendTextEffect
  <2> QED
    BY <2>1 DEF WelcomeReadLast
<1> QED
  BY <1>1, <1>2

(* Once the newest command is on its connection, a device reads it or a     *)
(* rival of it last.                                                       *)
LEMMA NextWelcomeReadLast ==
  ASSUME TypesOK, CachedIsOpen, ConnectionsUsed, RowsNumbered, NumbersBounded,
         KeptWithoutCommand, OnlyWelcome, WelcomeReadLast, [DeliveryNext]_deliveryVars
  PROVE  WelcomeReadLast'
<1> USE DEF serverVars, storeVars, storageVars, wireVars, deviceVars
<1>0. /\ link \in [Devices -> Conns \cup {NoConn}]
      /\ owner \in [Conns -> Devices]
      /\ conn \in [Conns -> {"new", "open", "closed"}]
      /\ toDevice \in [Conns -> Seq(Messages)]
      /\ applied \in [Devices -> Command \cup {NoCommand}]
      /\ stored \in [Devices -> Command \cup {NoCommand}]
      /\ sent \in [Conns -> 0 .. MaxStores]
      /\ NoConn \notin Conns
  BY DeliveryAssumption
     DEF TypesOK, ConnectionsTypeOK, DevicesTypeOK, ToDeviceTypeOK, StoreTypeOK
<1>1. ASSUME UNCHANGED <<stored, rivals, link, conn, applied, toDevice, sent>>
      PROVE  WelcomeReadLast'
  BY <1>1 DEF WelcomeReadLast, Welcome
<1>2. ASSUME NEW w \in Workers, NEW d \in Devices, NEW content \in Commands,
             StoreAndContinue(w, d, content),
             UNCHANGED <<cached, handler, wireVars, deviceVars>>
      PROVE  WelcomeReadLast'
  <2>1. CASE UNCHANGED <<stored, stores, rivals>>
    BY <1>1, <1>2, <2>1
  <2>2. CASE /\ \A e \in Devices : e # d => stored'[e] = stored[e] /\ rivals'[e] = rivals[e]
             /\ \A e \in Devices : stored[e].number < stored'[d].number
             /\ stored'[d] \in Command
    <3>1. link[d] # NoConn /\ conn[link[d]] = "open" => sent[link[d]] # stored'[d].number
      <4>1. link[d] # NoConn /\ conn[link[d]] = "open" =>
              link[d] \in Conns /\ sent[link[d]] <= stored[d].number
        BY <1>0 DEF NumbersBounded, ConnectionsUsed
      <4>2. stored[d].number \in Nat /\ stored'[d].number \in Nat
        BY <1>0, <2>2, CommandFields, DeliveryAssumption
      <4>3. link[d] # NoConn => sent[link[d]] \in Nat
        BY <1>0
      <4> QED
        BY <2>2, <4>1, <4>2, <4>3
    <3> QED
      BY <1>2, <2>2, <3>1 DEF WelcomeReadLast, Welcome
  <2> QED
    BY <1>2, <2>1, <2>2, StoreCases
<1>3. ASSUME NEW w \in Workers, StoreCommand(w) PROVE WelcomeReadLast'
  BY <1>2, <1>3, WorkerFields DEF StoreCommand, TypesOK
<1>4. ASSUME NEW w \in Workers, GetWebSocketConnection(w) PROVE WelcomeReadLast'
  BY <1>1, <1>4 DEF GetWebSocketConnection
<1>5. ASSUME NEW w \in Workers, SendToDevice(w) PROVE WelcomeReadLast'
  <2> DEFINE c == worker[w].conn
             m == worker[w].message
  <2>1. c \in Conns /\ m \in Messages /\ owner[c] \in Devices
    BY <1>0, <1>5, WorkerFields, MessageKinds DEF SendToDevice, TypesOK
  <2>2. ASSUME m.kind = "command" PROVE m.command \in Welcome(owner[c])
    <3>1. m = Push(m.command) /\ m.command \in Command
      BY <2>1, <2>2, MessageKinds
    <3>2. m.command \in InHand(owner[c])
      BY <1>5, <3>1 DEF SendToDevice, InHand, Carries
    <3> QED
      BY <2>1, <3>2 DEF OnlyWelcome
  <2>3. SendText(c, m) /\ UNCHANGED <<stored, rivals, link, conn, applied>>
    BY <1>5 DEF SendToDevice
  <2> HIDE DEF c, m
  <2> QED
    BY <2>1, <2>2, <2>3, SendKeepsWelcomeLast
<1>6. ASSUME NEW w \in Workers, NEW d \in Devices, RestartDevice(w, d) PROVE WelcomeReadLast'
  BY <1>1, <1>6 DEF RestartDevice
<1>7. ASSUME NEW w \in Workers, NEW d \in Devices, NEW content \in Commands,
             SetCommands(w, d, content) \/ CheckCommand(w, d, content)
      PROVE  WelcomeReadLast'
  BY <1>1, <1>2, <1>7 DEF SetCommands, CheckCommand
<1>8. ASSUME NEW c \in Conns,
             \/ AddWebSocketConnection(c) \/ HandleReport(c) \/ HandleGetCommands(c)
             \/ ReadCommand(c)
      PROVE  WelcomeReadLast'
  BY <1>1, <1>8 DEF AddWebSocketConnection, HandleReport, HandleGetCommands, ReadCommand
<1>9. ASSUME NEW c \in Conns, AskToReauthorize(c) PROVE WelcomeReadLast'
  BY <1>9, MessageKinds, SendKeepsWelcomeLast DEF AskToReauthorize
<1>10. ASSUME NEW c \in Conns, Reply(c) PROVE WelcomeReadLast'
  <2>1. CASE handler[c].command = NoCommand
    BY <1>1, <1>10, <2>1 DEF Reply
  <2>2. CASE handler[c].command # NoCommand
    <3> DEFINE m == Push(handler[c].command)
    <3>1. /\ handler[c].command \in Command /\ owner[c] \in Devices
          /\ handler[c] = [step |-> "reply", command |-> handler[c].command]
      BY <1>0, <1>10, <2>2, HandlerFields DEF Reply, TypesOK
    <3>2. handler[c].command \in InHand(owner[c])
      BY <3>1 DEF InHand
    <3>3. m \in Messages /\ m.command \in Welcome(owner[c])
      BY <3>1, <3>2, MessageKinds DEF OnlyWelcome
    <3>4. SendText(c, m) /\ UNCHANGED <<stored, rivals, link, conn, applied>>
      BY <1>10, <2>2 DEF Reply
    <3> HIDE DEF m
    <3> QED
      BY <3>3, <3>4, SendKeepsWelcomeLast
  <2> QED
    BY <2>1, <2>2
<1>11. CASE RestartServer
  <2>1. \A c \in Conns : conn'[c] # "open"
    BY <1>11 DEF RestartServer
  <2>2. link' = link
    BY <1>11 DEF RestartServer
  <2> QED
    BY <1>0, <2>1, <2>2 DEF WelcomeReadLast
<1>12. ASSUME NEW d \in Devices, NEW c \in Conns, Connect(d, c) PROVE WelcomeReadLast'
  <2>0. /\ conn[c] = "new" /\ link' = [link EXCEPT ![d] = c] /\ conn' = [conn EXCEPT ![c] = "open"]
        /\ UNCHANGED <<stored, rivals, applied, toDevice, sent>>
    BY <1>12 DEF Connect, Used
  <2>1. sent[c] = 0 /\ toDevice[c] = <<>>
    BY <2>0 DEF ConnectionsUsed
  <2>2. stored[d].number = 0 => EndsIn(Welcome(d), applied[d], toDevice[c])
    <3>1. stored[d].number = 0 => stored[d] = NoCommand
      BY <1>0, CommandFields
    <3>2. stored[d].number = 0 => applied[d] \in Welcome(d)
      BY <3>1 DEF KeptWithoutCommand
    <3>3. NoCommandIn(toDevice[c])
      BY <2>1 DEF NoCommandIn
    <3> QED
      BY <3>2, <3>3 DEF EndsIn
  <2>3. \A e \in Devices : link'[e] = IF e = d THEN c ELSE link[e]
    BY <1>0, <2>0
  <2>4. \A e \in Devices : e # d /\ link[e] # NoConn => link[e] # c /\ conn'[link[e]] = conn[link[e]]
    BY <1>0, <2>0 DEF ConnectionsUsed
  <2>5. \A e \in Devices : Welcome(e)' = Welcome(e)
    BY <2>0 DEF Welcome
  <2> SUFFICES ASSUME NEW e \in Devices, link'[e] # NoConn, conn'[link'[e]] = "open",
                      sent'[link'[e]] = stored'[e].number
               PROVE  EndsIn(Welcome(e), applied[e], toDevice[link'[e]])
    BY <2>0, <2>5 DEF WelcomeReadLast
  <2>6. CASE e = d
    BY <2>0, <2>1, <2>2, <2>3, <2>6
  <2>7. CASE e # d
    BY <2>0, <2>3, <2>4, <2>7 DEF WelcomeReadLast
  <2> QED
    BY <2>6, <2>7
<1>13. ASSUME NEW d \in Devices, LoseLink(d) \/ NoticeClosed(d) \/ Reboot(d)
       PROVE  WelcomeReadLast'
  <2>1. /\ link[d] \in Conns /\ link' = [link EXCEPT ![d] = NoConn]
        /\ toDevice' = [toDevice EXCEPT ![link[d]] = <<>>]
        /\ UNCHANGED <<stored, rivals, conn, sent>>
    BY <1>13, LinkLost
  <2>2. \A e \in Devices : e # d => applied'[e] = applied[e]
    BY <1>0, <1>13 DEF LoseLink, NoticeClosed, Reboot
  <2>3. ASSUME NEW e \in Devices, link'[e] # NoConn, conn[link'[e]] = "open",
               sent[link'[e]] = stored[e].number
        PROVE  EndsIn(Welcome(e), applied'[e], toDevice'[link'[e]])
    <3>1. e # d /\ link'[e] = link[e] /\ link[e] \in Conns
      BY <1>0, <2>1, <2>3
    <3>2. link[e] # link[d]
      BY <2>1, <2>3, <3>1 DEF ConnectionsUsed
    <3>3. toDevice'[link[e]] = toDevice[link[e]]
      BY <1>0, <2>1, <3>1, <3>2
    <3> QED
      BY <2>2, <2>3, <3>1, <3>3 DEF WelcomeReadLast
  <2> QED
    BY <2>1, <2>3 DEF WelcomeReadLast, Welcome
<1>14. ASSUME NEW d \in Devices, SendData(d) PROVE WelcomeReadLast'
  BY <1>1, <1>14 DEF SendData
<1>15. ASSUME NEW d \in Devices, NEW kind, ReadsText(d, kind),
              UNCHANGED <<stored, rivals, link, conn, sent>>,
              kind = "command" => applied'[d] = Head(toDevice[link[d]]).command,
              kind # "command" => applied'[d] = applied[d],
              \A e \in Devices : e # d => applied'[e] = applied[e]
       PROVE  WelcomeReadLast'
  <2>1. /\ link[d] \in Conns /\ toDevice[link[d]] # <<>> /\ toDevice[link[d]] \in Seq(Messages)
        /\ Head(toDevice[link[d]]).kind = kind
        /\ toDevice'[link[d]] = Tail(toDevice[link[d]])
        /\ \A c \in Conns : c # link[d] => toDevice'[c] = toDevice[c]
    BY <1>15, ReadsTextEffect
  <2>2. ASSUME NEW e \in Devices, link[e] # NoConn, conn[link[e]] = "open",
               sent[link[e]] = stored[e].number
        PROVE  EndsIn(Welcome(e), applied'[e], toDevice'[link[e]])
    <3>1. EndsIn(Welcome(e), applied[e], toDevice[link[e]]) /\ link[e] \in Conns
      BY <1>0, <2>2 DEF WelcomeReadLast
    <3>2. CASE e = d
      BY <1>15, <2>1, <3>1, <3>2, EndsRead
    <3>3. CASE e # d
      <4>1. link[e] # link[d]
        BY <2>1, <2>2, <3>3 DEF ConnectionsUsed
      <4> QED
        BY <1>15, <2>1, <3>1, <3>3, <4>1
    <3> QED
      BY <3>2, <3>3
  <2> QED
    BY <1>15, <2>2 DEF WelcomeReadLast, Welcome
<1>16. ASSUME NEW d \in Devices, ApplyCommand(d) PROVE WelcomeReadLast'
  BY <1>0, <1>15, <1>16 DEF ApplyCommand
<1>17. ASSUME NEW d \in Devices, Reauthorizes(d) PROVE WelcomeReadLast'
  BY <1>15, <1>17 DEF Reauthorizes
<1>18. CASE OtherTransaction \/ UNCHANGED deliveryVars
  BY <1>1, <1>18 DEF OtherTransaction, deliveryVars
<1>19. ASSUME NEW c \in Conns, OnWebSocketClose(c) PROVE WelcomeReadLast'
  <2>1. /\ conn' = [conn EXCEPT ![c] = "closed"]
        /\ UNCHANGED <<stored, rivals, link, applied, toDevice, sent>>
    BY <1>19 DEF OnWebSocketClose
  <2> QED
    BY <1>0, <2>1 DEF WelcomeReadLast, Welcome
<1> QED
  BY <1>3, <1>4, <1>5, <1>6, <1>7, <1>8, <1>9, <1>10, <1>11, <1>12, <1>13, <1>14, <1>16, <1>17,
     <1>18, <1>19
     DEF DeliveryNext, WorkerStep, HandlerStep, DeviceReads, Connects

(***************************************************************************)
(* A device that is settled obeys the command the controller holds, or a   *)
(* command that a worker or a handler had in hand when that one was        *)
(* stored: nothing else is ever put on its connection after the newest,    *)
(* and what was sent is read (CommandsService.cpp:48-51,                   *)
(* EventsProcessor.cpp:138-146).  A restart may bring back an older row or *)
(* none (CommandsController.cpp:73-89): the device then gets that row, or  *)
(* keeps what it had.                                                      *)
(***************************************************************************)
THEOREM OnlyRivals == DeliverySpec => []OnlyRivalsWin
<1> DEFINE Latest == KeptWithoutCommand /\ OnlyWelcome /\ WelcomeReadLast
<1>1. DeliveryInit => Latest
  <2> SUFFICES ASSUME DeliveryInit PROVE Latest
    OBVIOUS
  <2>1. /\ \A c \in Conns : handler[c].step = "idle"
        /\ \A w \in Workers : worker[w].step = "idle"
    BY DEF DeliveryInit, Idle, Listening
  <2>2. \A d \in Devices : link[d] = NoConn /\ stored[d] = NoCommand /\ applied[d] = NoCommand
    BY DEF DeliveryInit
  <2>3. OnlyWelcome
    BY <2>1 DEF OnlyWelcome, InHand, Carries
  <2>4. WelcomeReadLast /\ KeptWithoutCommand
    BY <2>2 DEF WelcomeReadLast, KeptWithoutCommand, Welcome
  <2> QED
    BY <2>3, <2>4
<1>2. DeliveryInv /\ Latest /\ [DeliveryNext]_deliveryVars => Latest'
  BY NextKept, NextOnlyWelcome, NextWelcomeReadLast DEF DeliveryInv
<1>3. DeliveryInv /\ Latest => OnlyRivalsWin
  <2> SUFFICES ASSUME DeliveryInv, Latest, NEW d \in Devices, Settled(d)
               PROVE  applied[d] \in Welcome(d)
    BY DEF OnlyRivalsWin, Welcome
  <2>1. /\ link[d] # NoConn /\ toDevice[link[d]] = <<>> /\ conn[link[d]] = "open"
        /\ sent[link[d]] = stored[d].number
    BY SettledSent DEF DeliveryInv, Settled, CachedIsOpen
  <2>2. EndsIn(Welcome(d), applied[d], <<>>)
    BY <2>1 DEF WelcomeReadLast
  <2> QED
    BY <2>2 DEF EndsIn
<1> HIDE DEF Latest
<1> QED
  BY <1>1, <1>2, <1>3, DeliveryInvAlways, PTL DEF DeliverySpec
==============================================================================

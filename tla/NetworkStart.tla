---------------------------- MODULE NetworkStart ----------------------------
(***************************************************************************)
(* How a board gets from power-on to a network on the ports other than     *)
(* Mbed OS: the platform's start-up code, the storage of the EK-RA6M3, the *)
(* connect loop of main_application with what each port's                  *)
(* mcc_platform_interface_connect does in it, the closing and connecting   *)
(* again of a client that sleeps, and the receive path of the EK-RA6M3's   *)
(* Ethernet driver, which the wait for an address depends on.              *)
(*                                                                         *)
(* The main task has the lowest priority but idle and the receive task the *)
(* highest, on one core: the main task runs when neither the interrupt nor *)
(* the receive task has anything to do.                                    *)
(***************************************************************************)
EXTENDS Naturals, Sequences

CONSTANTS
  Ports,         \* the ports to start
  MaxErrors,     \* MAX_PDMC_CLIENT_CONNECTION_ERROR_COUNT, 9 in main.cpp
  MaxCardReads,  \* MAX_SD_READ_RETRIES, 5 in init.c
  MaxAttempts,   \* attempts of Wi-Fi calls (3) and seconds of DHCP (40)
  RingSize,      \* receive descriptors of the Ethernet controller
  MaxNotified    \* bound on notifications waiting for the receive task

AllPorts == {"ra6m3", "rx65n", "keil_wifi", "keil_bsd", "nxp", "linux",
             "zephyr"}

ASSUME PortsAssumption == Ports \subseteq AllPorts
ASSUME LimitsAssumption ==
  /\ MaxErrors \in Nat \ {0} /\ MaxCardReads \in Nat
  /\ MaxAttempts \in Nat \ {0}
  /\ RingSize \in Nat \ {0} /\ MaxNotified \in Nat \ {0}

VARIABLES
  port,       \* the port in use, fixed
  main,       \* what the thread of main_application does
  preparing,  \* interface_init is under way, the connect loop not yet
  errors,     \* failed connects of the loop
  attempts,   \* attempts, or seconds, of the present call
  reachable,  \* an access point or a DHCP server answers
  linked,     \* the stack has an address, or Wi-Fi is associated
  disk,       \* SD card of the EK-RA6M3
  rx          \* its receive path

startVars == <<port, main, preparing, errors, attempts, reachable, linked,
               disk, rx>>

Places == {"off", "hook", "card", "mount", "prepare", "dongle", "associate",
           "address", "connect", "dhcp", "failed", "online", "closed",
           "ended"}

NoDisk == [card |-> FALSE, count |-> 0, mounted |-> {}]

(* No driver, no task, no frame; dhcp is the state of lwIP's client,       *)
(* buffer what the last frame has left in the memory of the next one, and  *)
(* failed tells that the last read has failed.                             *)
NoDriver == [open |-> FALSE, task |-> FALSE, pending |-> {}, notified |-> 0,
             reading |-> FALSE, ring |-> <<>>, dhcp |-> "off",
             buffer |-> "other", failed |-> FALSE]

DiskStates == [card : BOOLEAN, count : 0 .. MaxCardReads + 2,
               mounted : SUBSET {1, 2}]
RxStates == [open : BOOLEAN, task : BOOLEAN, pending : SUBSET {"FR", "FDE"},
             notified : 0 .. MaxNotified, reading : BOOLEAN,
             ring : Seq({"reply", "other"}),
             dhcp : {"off", "discover", "bound"},
             buffer : {"reply", "other"}, failed : BOOLEAN]

StartTypeOK ==
  /\ port \in Ports
  /\ main \in Places
  /\ preparing \in BOOLEAN
  /\ errors \in 0 .. MaxErrors
  /\ attempts \in 0 .. MaxAttempts
  /\ reachable \in BOOLEAN
  /\ linked \in BOOLEAN
  /\ disk \in DiskStates
  /\ rx \in RxStates

(* Everything in RAM is as after power-on.                                 *)
Restarted ==
  /\ main' = "off" /\ preparing' = FALSE
  /\ errors' = 0 /\ attempts' = 0
  /\ linked' = FALSE
  /\ disk' = [NoDisk EXCEPT !.card = disk.card]
  /\ rx' = NoDriver
  /\ UNCHANGED <<port, reachable>>

StartInit ==
  /\ port \in Ports
  /\ main = "off" /\ preparing = FALSE
  /\ errors = 0 /\ attempts = 0
  /\ reachable = FALSE /\ linked = FALSE
  /\ \E card \in BOOLEAN : disk = [NoDisk EXCEPT !.card = card]
  /\ rx = NoDriver

-----------------------------------------------------------------------------
(* The receive path of the EK-RA6M3.                                       *)

(* A frame arrives.  A full ring drops it and raises the "descriptor       *)
(* empty" event instead of "frame received".                               *)
Arrive(kind) ==
  /\ reachable /\ rx.open
  /\ kind = "reply" => rx.dhcp = "discover"
  /\ rx' = IF Len(rx.ring) < RingSize
             THEN [rx EXCEPT !.ring = Append(@, kind),
                             !.pending = @ \cup {"FR"}]
             ELSE [rx EXCEPT !.pending = @ \cup {"FDE"}]
  /\ UNCHANGED <<port, main, preparing, errors, attempts, reachable, linked,
                 disk>>

(* Mutant: only the descriptor event wakes the receive task.               *)
EtherISRDescriptorOnly ==
  /\ rx.pending # {}
  /\ rx.notified < MaxNotified
  /\ rx' = [rx EXCEPT !.pending = {},
                      !.notified = IF rx.task /\ "FDE" \in rx.pending
                                     THEN @ + 1 ELSE @]
  /\ UNCHANGED <<port, main, preparing, errors, attempts, reachable, linked,
                 disk>>

(* vEtherISRCallback: one notification for all that has happened since.    *)
EtherISRCallback ==
  /\ rx.pending # {}
  /\ rx.notified < MaxNotified
  /\ rx' = [rx EXCEPT !.pending = {},
                      !.notified = IF rx.task THEN @ + 1 ELSE @]
  /\ UNCHANGED <<port, main, preparing, errors, attempts, reachable, linked,
                 disk>>

(* prvRXHandlerTask takes one notification.                                *)
RXHandlerTask ==
  /\ rx.notified > 0 /\ ~rx.reading
  /\ rx' = [rx EXCEPT !.notified = @ - 1, !.reading = TRUE]
  /\ UNCHANGED <<port, main, preparing, errors, attempts, reachable, linked,
                 disk>>

(* The stack gets what is in the buffer, if a pbuf is free and it takes it.*)
PassOn(buffer, ring, failed) ==
  \E taken \in BOOLEAN :
    LET bound == taken /\ buffer = "reply" /\ rx.dhcp = "discover" IN
    /\ rx' = [rx EXCEPT !.reading = FALSE, !.ring = ring, !.buffer = buffer,
                        !.failed = failed,
                        !.dhcp = IF bound THEN "bound" ELSE @]
    /\ linked' = (linked \/ bound)

NoData ==
  /\ rx.ring = <<>>
  /\ rx' = [rx EXCEPT !.reading = FALSE, !.failed = FALSE]
  /\ UNCHANGED linked

ReadFrame ==
  /\ rx.ring # <<>>
  /\ PassOn(Head(rx.ring), Tail(rx.ring), FALSE)

(* Any other error of R_ETHER_Read is not looked at, the assertion is not  *)
(* compiled in: the frame stays in the ring, and the buffer is passed on   *)
(* with whatever is in it.                                                 *)
ReadFails == PassOn(rx.buffer, rx.ring, TRUE)

(* ethernetif_input reads one frame, if there is one.                      *)
EthernetifInput ==
  /\ rx.reading
  /\ NoData \/ ReadFrame \/ ReadFails
  /\ UNCHANGED <<port, main, preparing, errors, attempts, reachable, disk>>

(* The main task runs.                                                     *)
Quiet == rx.pending = {} /\ rx.notified = 0 /\ ~rx.reading

Go(from, to) == main = from /\ Quiet /\ main' = to

-----------------------------------------------------------------------------
(* Start-up.                                                               *)

StayOnDisk == UNCHANGED <<disk, rx>>

(* run_program: the FreeRTOS ports make a task, which may fail.            *)
RunProgram ==
  /\ port # "nxp"
  /\ \/ Go("off", IF port = "ra6m3" THEN "card" ELSE "prepare")
     \/ port \in {"ra6m3", "rx65n"} /\ Go("off", "ended")
  /\ StayOnDisk
  /\ UNCHANGED <<port, preparing, errors, attempts, reachable, linked>>

(* initNetwork of the NXP boards: in the start-up hook of the timer task,  *)
(* before there is an application, for as long as it takes.                *)
InitNetwork ==
  /\ port = "nxp"
  /\ Go("off", "hook")
  /\ StayOnDisk
  /\ UNCHANGED <<port, preparing, errors, attempts, reachable, linked>>

InitNetworkBound ==
  /\ main = "hook" /\ ~linked
  /\ reachable
  /\ linked' = TRUE
  /\ StayOnDisk
  /\ UNCHANGED <<port, main, preparing, errors, attempts, reachable>>

(* xTaskCreate's result is not looked at.                                  *)
DaemonTaskStartupHook ==
  /\ linked
  /\ Go("hook", "prepare") \/ Go("hook", "ended")
  /\ StayOnDisk
  /\ UNCHANGED <<port, preparing, errors, attempts, reachable, linked>>

(* fileSystemMountDrive waits for a card...                                *)
CardAbsent ==
  /\ ~disk.card
  /\ Go("card", IF disk.count > MaxCardReads THEN "mount" ELSE "card")
  /\ disk' = [disk EXCEPT !.count = @ + 1]
  /\ UNCHANGED <<port, preparing, errors, attempts, reachable, linked, rx>>

CardPresent ==
  /\ disk.card
  /\ Go("card", "mount")
  /\ StayOnDisk
  /\ UNCHANGED <<port, preparing, errors, attempts, reachable, linked>>

(* ...and mounts one partition, or two of which the second one's result is *)
(* the one that counts.                                                    *)
FileSystemMountDrive ==
  /\ \E partitions \in 1 .. 2 : \E good \in SUBSET (1 .. partitions) :
         LET mounted == IF disk.count < MaxCardReads /\ disk.card
                          THEN good ELSE {} IN
         /\ disk' = [disk EXCEPT !.mounted = mounted]
         /\ Go("mount", IF partitions \in mounted THEN "prepare" ELSE "ended")
  /\ UNCHANGED <<port, preparing, errors, attempts, reachable, linked, rx>>

(* storage_init of Linux may fail; those of the others return 0, and       *)
(* application_init, which follows interface_init, may fail as well.       *)
InitialisationFails ==
  /\ \/ port = "linux" /\ Go("prepare", "ended")
     \/ preparing /\ Go("connect", "ended")
  /\ StayOnDisk
  /\ UNCHANGED <<port, preparing, errors, attempts, reachable, linked>>

(* interface_init: nothing, or the whole of init_connection.               *)
InterfaceInit ==
  /\ Go("prepare", CASE port = "rx65n" -> "dongle"
                     [] port = "keil_bsd" -> "address"
                     [] OTHER -> "connect")
  /\ preparing' = TRUE
  /\ linked' \in IF port = "keil_wifi" THEN {FALSE, reachable} ELSE {linked}
  /\ StayOnDisk
  /\ UNCHANGED <<port, errors, attempts, reachable>>

(* The result of init_connection is dropped by interface_init.             *)
NetInitializeFails ==
  /\ Go("address", "connect")
  /\ StayOnDisk
  /\ UNCHANGED <<port, preparing, errors, attempts, reachable, linked>>

NetAddress ==
  /\ reachable
  /\ Go("address", "connect")
  /\ linked' = TRUE
  /\ StayOnDisk
  /\ UNCHANGED <<port, preparing, errors, attempts, reachable>>

-----------------------------------------------------------------------------
(* Connecting.                                                             *)

(* mcc_platform_interface_connect returns 0 at once: to see an address is  *)
(* not its business on these ports.                                        *)
ConnectAtOnce ==
  /\ port \notin {"ra6m3", "rx65n"}
  /\ Go("connect", "online")
  /\ preparing' = FALSE
  /\ StayOnDisk
  /\ UNCHANGED <<port, errors, attempts, reachable, linked>>

(* networkInit of the EK-RA6M3: another interface structure, another       *)
(* receive task, another DHCP client, at every call.  R_ETHER_Open of an    *)
(* open driver may or may not keep what has been received.  Memory for the *)
(* interface and the DHCP client is there.                                 *)
NetworkInit ==
  /\ port = "ra6m3"
  /\ Go("connect", "dhcp")
  /\ preparing' = FALSE
  /\ attempts' = 0
  /\ linked' = FALSE
  /\ \E kept \in {<<>>, [i \in DOMAIN rx.ring |-> "other"]} :
       rx' = [rx EXCEPT !.open = TRUE, !.task = TRUE, !.dhcp = "discover",
                        !.ring = kept, !.buffer = "other"]
  /\ UNCHANGED <<port, errors, reachable, disk>>

NetworkInitWaits ==
  /\ rx.dhcp # "bound" /\ attempts < MaxAttempts
  /\ Go("dhcp", "dhcp")
  /\ attempts' = attempts + 1
  /\ StayOnDisk
  /\ UNCHANGED <<port, preparing, errors, reachable, linked>>

(* Mutant: the state of the client is not looked at after the wait.        *)
NetworkInitUnchecked ==
  /\ rx.dhcp = "bound" \/ attempts = MaxAttempts
  /\ Go("dhcp", "online")
  /\ StayOnDisk
  /\ UNCHANGED <<port, preparing, errors, attempts, reachable, linked>>

NetworkInitEnds ==
  /\ rx.dhcp = "bound" \/ attempts = MaxAttempts
  /\ Go("dhcp", IF rx.dhcp = "bound" THEN "online" ELSE "failed")
  /\ StayOnDisk
  /\ UNCHANGED <<port, preparing, errors, attempts, reachable, linked>>

(* The loop of main_application or pdmc_resume counts and waits.           *)
ConnectFailed ==
  /\ main = "failed" /\ Quiet
  /\ IF errors + 1 = MaxErrors
       THEN Restarted
       ELSE /\ main' = "connect"
            /\ errors' = errors + 1
            /\ UNCHANGED <<port, preparing, attempts, reachable, linked, disk,
                           rx>>

(* init_connection of the RX65N starts the Wi-Fi dongle.                   *)
WifiInit ==
  /\ Go("dongle", "associate")
  /\ attempts' = 0
  /\ StayOnDisk
  /\ UNCHANGED <<port, preparing, errors, reachable, linked>>

WifiInitFails ==
  /\ main = "dongle"
  /\ IF attempts + 1 = MaxAttempts
       THEN Restarted
       ELSE /\ attempts' = attempts + 1
            /\ UNCHANGED <<port, main, preparing, errors, reachable, linked,
                           disk, rx>>

InterfaceConnectWifi ==
  /\ port = "rx65n"
  /\ Go("connect", "associate")
  /\ preparing' = FALSE
  /\ attempts' = 0
  /\ StayOnDisk
  /\ UNCHANGED <<port, errors, reachable, linked>>

WifiConnect ==
  /\ reachable
  /\ Go("associate", IF preparing THEN "connect" ELSE "online")
  /\ linked' = TRUE
  /\ StayOnDisk
  /\ UNCHANGED <<port, preparing, errors, attempts, reachable>>

(* Mutant: attempts are not counted.                                       *)
WifiConnectFailsForEver ==
  /\ main = "associate"
  /\ linked' = FALSE
  /\ UNCHANGED <<port, main, preparing, errors, attempts, reachable, disk, rx>>

WifiConnectFails ==
  /\ main = "associate"
  /\ IF attempts + 1 = MaxAttempts
       THEN Restarted
       ELSE /\ attempts' = attempts + 1
            /\ linked' = FALSE
            /\ UNCHANGED <<port, main, preparing, errors, reachable, disk, rx>>

-----------------------------------------------------------------------------
(* A client that sleeps closes the interface, and connects when it wakes.  *)

InterfaceClose ==
  /\ Go("online", "closed")
  /\ linked' \in IF port = "rx65n" THEN {FALSE, linked} ELSE {linked}
  /\ errors' = 0
  /\ StayOnDisk
  /\ UNCHANGED <<port, preparing, attempts, reachable>>

Resume ==
  /\ Go("closed", "connect")
  /\ StayOnDisk
  /\ UNCHANGED <<port, preparing, errors, attempts, reachable, linked>>

(* The environment.                                                        *)
NetworkChange ==
  /\ reachable' = ~reachable
  /\ UNCHANGED <<port, main, preparing, errors, attempts, linked, disk, rx>>

InsertCard ==
  /\ port = "ra6m3" /\ ~disk.card
  /\ disk' = [disk EXCEPT !.card = TRUE]
  /\ UNCHANGED <<port, main, preparing, errors, attempts, reachable, linked,
                 rx>>

PowerCycle ==
  /\ main = "ended"
  /\ Restarted

Receive == EtherISRCallback \/ RXHandlerTask \/ EthernetifInput

StartUp ==
  \/ RunProgram \/ InitNetwork \/ DaemonTaskStartupHook
  \/ CardAbsent \/ CardPresent \/ FileSystemMountDrive
  \/ InitialisationFails \/ InterfaceInit \/ NetInitializeFails

Connect ==
  \/ ConnectAtOnce
  \/ NetworkInit \/ NetworkInitWaits \/ NetworkInitEnds \/ ConnectFailed
  \/ WifiInit \/ WifiInitFails
  \/ InterfaceConnectWifi \/ WifiConnect \/ WifiConnectFails

StartNext ==
  \/ Receive \/ StartUp \/ Connect
  \/ InitNetworkBound \/ NetAddress
  \/ InterfaceClose \/ Resume
  \/ \E kind \in {"reply", "other"} : Arrive(kind)
  \/ NetworkChange \/ InsertCard \/ PowerCycle

(***************************************************************************)
(* The receive path and the main task are scheduled; a network that stays  *)
(* reachable answers in the end.  The main task gives way to every frame:  *)
(* its fairness is strong.                                                 *)
(***************************************************************************)
Fairness ==
  /\ WF_startVars(Receive)
  /\ SF_startVars(StartUp \/ Connect)
  /\ WF_startVars(InitNetworkBound \/ NetAddress)

StartSpec == StartInit /\ [][StartNext]_startVars /\ Fairness

-----------------------------------------------------------------------------
(* Properties.                                                             *)

(* Ports whose connect promises a network, and ports that wait for one     *)
(* without a limit.                                                        *)
CheckingPorts == {"ra6m3", "rx65n", "nxp"}
WaitingPorts == {"nxp", "keil_bsd"}

(* "mcc_platform_interface_connect ... On success: 0": the application     *)
(* goes on to register only with an address, or an association, made since *)
(* the interface was last set up; also after failed attempts and in the    *)
(* loop that wakes a sleeping client.                                      *)
ConnectMeansNetwork == main = "online" /\ port \in CheckingPorts => linked

(* Interrupts that come together leave one notification, and one           *)
(* notification one frame read; still a full ring always has a reader on   *)
(* its way, unless the last read has failed and left its frame there: no   *)
(* new frame is needed to get the reception going again.                   *)
RxNeverStalls ==
  Len(rx.ring) = RingSize /\ ~rx.failed =>
    rx.pending # {} \/ rx.notified > 0 \/ rx.reading

(* Starting comes to an end, with a network, a restart or a return from    *)
(* main_application, whatever the network does; where the code waits       *)
(* without a limit, when the network stays.  Frames must leave the main    *)
(* task some time to run.                                                  *)
StartEnds ==
  []<>Quiet /\ (port \in WaitingPorts => <>[]reachable) =>
    []<>(main \in {"off", "online", "closed", "ended"})
=============================================================================

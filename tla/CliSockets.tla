------------------------------ MODULE CliSockets ------------------------------
(***************************************************************************)
(* The sockets of the client library (sys_cli_io.cpp): each thread of a    *)
(* client has at most one connection to a server, which SYS_connect makes  *)
(* and keeps in a table for the thread's next call.  The table is changed  *)
(* under sock_mutex and read without it.                                   *)
(*                                                                         *)
(* A client asks SYS_is_sock_valid, connects with a sock_fd that is -1,    *)
(* sends, receives, and closes its connection when one of these failed.    *)
(***************************************************************************)
EXTENDS Integers, FiniteSets

CONSTANTS
    CliThreads,
    CliNobody,      \* the index of a slot nobody has, -1 in the code
    CliFds,         \* descriptors
    CliSlotCount,   \* MAX_SOCKET_NUM
    CliServers,     \* servers of the configuration
    CliBad          \* those of them without an address or a port

ASSUME CliAssumption ==
    /\ CliNobody \notin CliThreads
    /\ {CliSlotCount, CliServers} \subseteq Nat \ {0}
    /\ CliFds \subseteq Nat
    /\ CliBad \subseteq 0 .. CliServers - 1

VARIABLES
    cliSlots,   \* g_socket_list: index (the thread), socket_fd, and whether
                \* SOCK_TIME_INTERVAL has passed since sock_time_begin
    cliAt,      \* where each thread is
    cliFd,      \* its sock_fd
    cliServer,  \* its server_index
    cliOpen,    \* open descriptors, and the thread whose socket each is
    cliUnsaved  \* history: descriptors SYS_save_sock found no slot for

cliVars == <<cliSlots, cliAt, cliFd, cliServer, cliOpen, cliUnsaved>>

CliSlot == 1 .. CliSlotCount
CliFree == [index |-> CliNobody, fd |-> -1, old |-> FALSE]
CliHolding == {"connect", "save", "send", "recv"}
CliPlaces == CliHolding \cup {"idle", "valid", "get", "again", "try", "close"}

(* SYS_socket_list_init                                                    *)
CliInit ==
    /\ cliSlots = [i \in CliSlot |-> CliFree]
    /\ cliAt = [t \in CliThreads |-> "idle"]
    /\ cliFd = [t \in CliThreads |-> -1]
    /\ cliServer = [t \in CliThreads |-> 0]
    /\ cliOpen = [f \in CliFds |-> CliNobody]
    /\ cliUnsaved = {}

CliGoto(t, place) == cliAt' = [cliAt EXCEPT ![t] = place]
CliFirst(slots) == CHOOSE i \in slots : \A j \in slots : i <= j

CliHas(t) == \E i \in CliSlot : cliSlots[i].index = t
CliOwn(t) == CliFirst({i \in CliSlot : cliSlots[i].index = t})
CliShut(fd) == [f \in CliFds |-> IF f = fd THEN CliNobody ELSE cliOpen[f]]

-----------------------------------------------------------------------------
(* SYS_close: the slot of the calling thread, and whatever descriptor it   *)
(* is called with; nothing when the thread has no slot.                    *)
CliShutAnyway(t, fd) ==    \* mutant: the descriptor is closed in any case
    /\ cliOpen' = CliShut(fd)
    /\ cliSlots' = IF CliHas(t) THEN [cliSlots EXCEPT ![CliOwn(t)] = CliFree]
                   ELSE cliSlots

CliSysClose(t, fd) ==
    IF CliHas(t)
    THEN /\ cliSlots' = [cliSlots EXCEPT ![CliOwn(t)] = CliFree]
         /\ cliOpen' = CliShut(fd)
    ELSE UNCHANGED <<cliSlots, cliOpen>>

CliBegin(t) ==
    /\ cliAt[t] = "idle"
    /\ CliGoto(t, "valid")
    /\ cliFd' = [cliFd EXCEPT ![t] = -1]
    /\ UNCHANGED <<cliSlots, cliServer, cliOpen, cliUnsaved>>

(* SYS_is_sock_valid closes a connection that is too old.                  *)
CliIsSockValid(t) ==
    /\ cliAt[t] = "valid"
    /\ IF CliHas(t) /\ cliSlots[CliOwn(t)].old
       THEN CliSysClose(t, cliSlots[CliOwn(t)].fd)
       ELSE UNCHANGED <<cliSlots, cliOpen>>
    /\ CliGoto(t, "get")
    /\ UNCHANGED <<cliFd, cliServer, cliUnsaved>>

(* SYS_get_sock: the connection of the thread is used again.               *)
CliGetSock(t) ==
    /\ cliAt[t] = "get"
    /\ IF CliHas(t)
       THEN /\ cliFd' = [cliFd EXCEPT ![t] = cliSlots[CliOwn(t)].fd]
            /\ CliGoto(t, "send")
       ELSE UNCHANGED cliFd /\ CliGoto(t, "try")
    /\ cliServer' = [cliServer EXCEPT ![t] = 0]
    /\ UNCHANGED <<cliSlots, cliOpen, cliUnsaved>>

-----------------------------------------------------------------------------
(* SYS_connect, server by server.  A server without an address is passed  *)
(* over.                                                                   *)

CliMoreThanAll(t) == cliServer[t] <= CliServers    \* mutant: one too many
CliMore(t) == cliServer[t] < CliServers

(* The socket of the server before is closed once more.                    *)
CliAgain(t) ==
    /\ cliAt[t] = "again"
    /\ CliMore(t)
    /\ CliSysClose(t, cliFd[t])
    /\ CliGoto(t, "try")
    /\ UNCHANGED <<cliFd, cliServer, cliUnsaved>>

CliNextServer(t) ==
    /\ cliServer' = [cliServer EXCEPT ![t] = @ + 1]
    /\ CliGoto(t, "again")
    /\ UNCHANGED <<cliSlots, cliFd, cliUnsaved>>

CliSkip(t) ==
    /\ cliAt[t] = "try"
    /\ cliServer[t] \in CliBad
    /\ CliNextServer(t)
    /\ UNCHANGED cliOpen

(* socket() returns a descriptor that is not open, which may be the one    *)
(* that was just closed.                                                   *)
CliSocket(t) ==
    \E f \in CliFds :
       /\ cliAt[t] = "try"
       /\ cliServer[t] \notin CliBad
       /\ cliOpen[f] = CliNobody
       /\ cliOpen' = [cliOpen EXCEPT ![f] = t]
       /\ cliFd' = [cliFd EXCEPT ![t] = f]
       /\ CliGoto(t, "connect")
       /\ UNCHANGED <<cliSlots, cliServer, cliUnsaved>>

(* No socket, or it cannot be made nonblocking and is closed: SYS_connect  *)
(* fails.                                                                  *)
CliSocketFails(t) ==
    /\ cliAt[t] = "try"
    /\ cliServer[t] \notin CliBad
    /\ CliGoto(t, "idle")
    /\ UNCHANGED <<cliSlots, cliFd, cliServer, cliOpen, cliUnsaved>>

CliConnect(t) ==
    /\ cliAt[t] = "connect"
    /\ CliGoto(t, "save")
    /\ UNCHANGED <<cliSlots, cliFd, cliServer, cliOpen, cliUnsaved>>

(* connect, select or SO_ERROR says no: SYS_socket_close, and sock_fd keeps *)
(* its number.                                                             *)
CliConnectFails(t) ==
    /\ cliAt[t] = "connect"
    /\ CliNextServer(t)
    /\ cliOpen' = CliShut(cliFd[t])

CliNoServer(t) ==
    /\ cliAt[t] = "again"
    /\ ~CliMore(t)
    /\ CliGoto(t, "idle")
    /\ UNCHANGED <<cliSlots, cliFd, cliServer, cliOpen, cliUnsaved>>

(* SYS_save_sock: the first slot that is free or the thread's own.  That   *)
(* there is none is not told to the caller.                                *)
CliSave(t) ==
    LET fits == {i \in CliSlot : cliSlots[i].index \in {CliNobody, t}}
    IN  /\ cliAt[t] = "save"
        /\ IF fits # {}
           THEN /\ cliSlots' = [cliSlots EXCEPT ![CliFirst(fits)] =
                                  [index |-> t, fd |-> cliFd[t], old |-> FALSE]]
                /\ UNCHANGED cliUnsaved
           ELSE /\ cliUnsaved' = cliUnsaved \cup {cliFd[t]}
                /\ UNCHANGED cliSlots
        /\ CliGoto(t, "send")
        /\ UNCHANGED <<cliFd, cliServer, cliOpen>>

-----------------------------------------------------------------------------
(* SYS_send_n and SYS_recv_n move all the bytes or fail; the caller then   *)
(* closes the connection.                                                  *)
CliSend(t) ==
    /\ cliAt[t] = "send"
    /\ CliGoto(t, "recv") \/ CliGoto(t, "close")
    /\ UNCHANGED <<cliSlots, cliFd, cliServer, cliOpen, cliUnsaved>>

CliRecv(t) ==
    /\ cliAt[t] = "recv"
    /\ CliGoto(t, "idle") \/ CliGoto(t, "close")
    /\ UNCHANGED <<cliSlots, cliFd, cliServer, cliOpen, cliUnsaved>>

CliClose(t) ==
    /\ cliAt[t] = "close"
    /\ CliSysClose(t, cliFd[t])
    /\ CliGoto(t, "idle")
    /\ UNCHANGED <<cliFd, cliServer, cliUnsaved>>

CliElapse ==
    \E i \in CliSlot :
       /\ cliSlots[i].index # CliNobody
       /\ ~cliSlots[i].old
       /\ cliSlots' = [cliSlots EXCEPT ![i].old = TRUE]
       /\ UNCHANGED <<cliAt, cliFd, cliServer, cliOpen, cliUnsaved>>

CliNext ==
    \/ \E t \in CliThreads :
          \/ CliBegin(t) \/ CliIsSockValid(t) \/ CliGetSock(t) \/ CliAgain(t)
          \/ CliSkip(t) \/ CliSocket(t) \/ CliSocketFails(t) \/ CliConnect(t)
          \/ CliConnectFails(t) \/ CliNoServer(t) \/ CliSave(t) \/ CliSend(t)
          \/ CliRecv(t) \/ CliClose(t)
    \/ CliElapse

CliSpec == CliInit /\ [][CliNext]_cliVars

-----------------------------------------------------------------------------
CliTypeOK ==
    /\ cliSlots \in [CliSlot -> [index : CliThreads \cup {CliNobody},
                                 fd : CliFds \cup {-1}, old : BOOLEAN]]
    /\ cliAt \in [CliThreads -> CliPlaces]
    /\ cliFd \in [CliThreads -> CliFds \cup {-1}]
    /\ cliServer \in [CliThreads -> 0 .. CliServers]
    /\ cliOpen \in [CliFds -> CliThreads \cup {CliNobody}]
    /\ cliUnsaved \subseteq CliFds

CliHeld == \A t \in CliThreads :
               cliAt[t] \in CliHolding => cliOpen[cliFd[t]] = t
CliTable ==
    \A i \in CliSlot : cliSlots[i].index # CliNobody =>
        /\ cliOpen[cliSlots[i].fd] = cliSlots[i].index
        /\ \A j \in CliSlot : cliSlots[j].index = cliSlots[i].index => i = j
CliKnown ==
    \A f \in CliFds : cliOpen[f] # CliNobody =>
        \/ \E i \in CliSlot : cliSlots[i].fd = f
        \/ \E t \in CliThreads : cliAt[t] \in CliHolding /\ cliFd[t] = f
        \/ f \in cliUnsaved

(* A thread never connects, sends or receives on a descriptor that was     *)
(* closed or is another thread's; the table holds one open connection per  *)
(* thread, its own; and no connection is forgotten while it is open, but   *)
(* those SYS_save_sock had no room for (sys_cli_io.cpp:267, where a socket *)
(* that is closed already is closed again).                                *)
CliSound == CliHeld /\ CliTable /\ CliKnown
===============================================================================

----------------------------- MODULE IPAManager -----------------------------
(***************************************************************************)
(* IPAManager and IPAModule (ipa_manager.cpp, ipa_module.cpp) and what     *)
(* createIPA() makes for a pipeline handler: the wrapper of an IPA in this *)
(* process (IPAContext), or for a module that is not open source an        *)
(* IPAProxyLinux (ipa_proxy_linux.cpp), which starts a worker process      *)
(* (Process) that it is connected to by a socket (IPCUnixSocket).          *)
(*                                                                         *)
(* A module is a record: what its file holds, the pipeline handler and the *)
(* version it is for, whether its license is an open source one, whether   *)
(* it can be loaded and whether it then creates a context.  A module       *)
(* without ipaModuleInfo is accepted with an info_ that was never written: *)
(* what it matches is left open.                                           *)
(***************************************************************************)
EXTENDS Process, IPCUnixSocket, IPAContext

CONSTANTS
    Handlers,       \* pipeline handlers, of which each asks for one IPA
    Directories,    \* what the module directories may hold, in their order
    Name,           \* the name of each pipeline handler
    MinVersion, MaxVersion,
    Others          \* processes that belong to nobody of these

ASSUME IPAAssumption ==
    /\ Procs = Handlers \cup Others /\ Socks = Handlers
    /\ Handlers \cap Others = {}
    /\ PipeSize \in Nat \ {0} /\ QueueLimit \in Nat \ {0}
    /\ MaxForks \in Nat /\ MaxMessages \in Nat
    /\ NoProc \notin Procs
    /\ IsFiniteSet(Maps) /\ Global \notin Maps
    /\ NoMessage \notin Messages \cup Datagrams

VARIABLES
    files,      \* the files of the module directories
    modules,    \* modules_: the positions in files
    ipa         \* what createIPA() returned to each handler

ipaVars == <<files, modules, ipa, procVars, socketVars, contextVars>>

NoModules == <<0>>

IPAInit ==
    /\ files \in Directories
    /\ modules = NoModules
    /\ ipa = [h \in Handlers |-> "absent"]
    /\ ProcInit /\ SocketInit /\ ContextInit

-----------------------------------------------------------------------------
(***************************************************************************)
(* Modules.                                                                *)
(***************************************************************************)

(* elfVerifyIdent(), elfLoadSymbol() and the check of the version of the   *)
(* interface: a file that is no ELF file and an old module are refused, a  *)
(* missing symbol is not an error.                                         *)
LoadIPAModuleInfo(m) == m.file \in {"info", "no info"}

(* IPAManager() and addDir()                                               *)
LoadModules ==
    /\ modules = NoModules
    /\ modules' = SelectSeq([i \in DOMAIN files |-> i],
                            LAMBDA i : LoadIPAModuleInfo(files[i]))
    /\ UNCHANGED <<files, ipa, procVars, socketVars, contextVars>>

MayMatch(m, h) ==
    \/ m.file = "no info"
    \/ m.version \in MinVersion .. MaxVersion /\ m.pipeline = Name[h]

MustMatch(m, h) == m.file = "info" /\ MayMatch(m, h)

(* The module createIPA() takes: the first that matches.                   *)
Taken(h, i) ==
    /\ MayMatch(files[modules[i]], h)
    /\ \A j \in 1 .. i - 1 : ~MustMatch(files[modules[j]], h)

Asks(h) ==
    /\ modules # NoModules
    /\ ipa[h] = "absent"
    /\ CanCall

Returns(h, result) == ipa' = [ipa EXCEPT ![h] = result]

CreateIPANoModule(h) ==
    /\ Asks(h)
    /\ \A i \in DOMAIN modules : ~MustMatch(files[modules[i]], h)
    /\ Returns(h, "null")
    /\ UNCHANGED <<files, modules, procVars, socketVars, contextVars>>

-----------------------------------------------------------------------------
(***************************************************************************)
(* A module that is open source: load(), createContext().                  *)
(***************************************************************************)

(* A C++ interface is called directly, unless LIBCAMERA_IPA_FORCE_C_API is *)
(* set or the context has none.                                            *)
CreateIPAWrapped(h) ==
    /\ Asks(h)
    /\ \E i \in DOMAIN modules :
        LET m == files[modules[i]] IN
        /\ Taken(h, i) /\ m.open
        /\ \/ ~(m.loads /\ m.creates) /\ Returns(h, "null") /\ UNCHANGED contextVars
           \/ m.loads /\ m.creates /\ Returns(h, "direct") /\ UNCHANGED contextVars
           \/ /\ m.loads /\ m.creates /\ cStage = "absent"
              /\ Returns(h, "wrapper") /\ CreateContext
    /\ UNCHANGED <<files, modules, procVars, socketVars>>

-----------------------------------------------------------------------------
(***************************************************************************)
(* IPAProxyLinux and its worker.                                           *)
(***************************************************************************)

Isolated(h, i) == Taken(h, i) /\ ~files[modules[i]].open

(* IPAProxyLinux(): the socket is created and the worker is started.       *)
CreateProxy(h) ==
    /\ Asks(h)
    /\ \E i \in DOMAIN modules : Isolated(h, i)
    /\ Create(h)
    /\ Fork(h)
    /\ Returns(h, "proxy")
    /\ UNCHANGED <<files, modules, contextVars>>

(* There is no worker, or no socket: the proxy is invalid and deleted.     *)
CreateProxyFails(h) ==
    /\ Asks(h)
    /\ \E i \in DOMAIN modules : Isolated(h, i)
    /\ Returns(h, "null")
    /\ UNCHANGED <<files, modules, procVars, socketVars, contextVars>>

(* fork() fails: the proxy is deleted, and a Process that never ran with   *)
(* it.                                                                     *)
CreateProxyForkFails(h) ==
    /\ Asks(h)
    /\ \E i \in DOMAIN modules : Isolated(h, i)
    /\ Delete(h)
    /\ Returns(h, "null")
    /\ UNCHANGED <<files, modules, socketVars, contextVars>>

(* main() of the worker: it loads the module again and binds its end.      *)
WorkerBinds(h) ==
    /\ pid[h] # NoPid
    /\ child[pid[h]] = "alive"
    /\ \E i \in DOMAIN modules :
        /\ Isolated(h, i) /\ files[modules[i]].loads
        /\ files[modules[i]].creates
    /\ Bind(h)
    /\ UNCHANGED <<files, modules, ipa, procVars, contextVars>>

(* A worker that fails to start, or any child that exits.                  *)
WorkerExits(k) ==
    /\ ChildExits(k)
    /\ \/ \E h \in Handlers : pid[h] = k /\ peerBound[h] /\ ClosePeer(h)
       \/ /\ \A h \in Handlers : ~(pid[h] = k /\ peerBound[h])
          /\ UNCHANGED socketVars
    /\ UNCHANGED <<files, modules, ipa, contextVars>>

(* ~IPAProxyLinux(): the worker is killed, the socket closed.              *)
DestroyProxy(h) ==
    /\ ipa[h] = "proxy" /\ sending[h] = NoMessage
    /\ Delete(h)
    /\ bound' = [bound EXCEPT ![h] = FALSE]
    /\ peerBound' = [peerBound EXCEPT ![h] = FALSE]
    /\ header' = [header EXCEPT ![h] = NoMessage]
    /\ Returns(h, "null")
    /\ UNCHANGED <<files, modules, contextVars, queue, last, sending, sent, received, torn>>

(* ~IPAContextWrapper(), or the interface goes.                            *)
DestroyWrapper(h) ==
    /\ ipa[h] \in {"wrapper", "direct"}
    /\ IF ipa[h] = "wrapper"
       THEN /\ cStage' = "absent"
            /\ handles' = [m \in Maps |-> 0] /\ infoMaps' = <<>>
            /\ lists' = <<>> /\ arrived' = <<>> /\ mapped' = {}
       ELSE UNCHANGED contextVars
    /\ Returns(h, "null")
    /\ UNCHANGED <<files, modules, procVars, socketVars>>

-----------------------------------------------------------------------------

ProcessCall(o) ==
    /\ Fork(o) \/ (pid[o] # NoPid /\ Delete(o))
    /\ UNCHANGED <<files, modules, ipa, socketVars, contextVars>>

ManagerThread ==
    /\ \E p \in Procs : InstallHandler(p) \/ Register(p)
    /\ UNCHANGED <<files, modules, ipa, socketVars, contextVars>>

Reaper ==
    /\ Sigact \/ ReadPipe \/ Walk \/ WalkEnds \/ SlotReturns
    /\ UNCHANGED <<files, modules, ipa, socketVars, contextVars>>

Sender(h) ==
    /\ SendHeader(h) \/ SendData(h)
    /\ UNCHANGED <<files, modules, ipa, procVars, contextVars>>

Receiver(h) ==
    /\ DataNotifier(h)
    /\ UNCHANGED <<files, modules, ipa, procVars, contextVars>>

WrapperCall ==
    /\ ContextStep
    /\ UNCHANGED <<files, modules, ipa, procVars, socketVars>>

IPANext ==
    \/ LoadModules
    \/ \E h \in Handlers :
        \/ CreateIPANoModule(h) \/ CreateIPAWrapped(h)
        \/ CreateProxy(h) \/ CreateProxyFails(h) \/ CreateProxyForkFails(h)
        \/ WorkerBinds(h) \/ DestroyProxy(h) \/ DestroyWrapper(h)
        \/ Sender(h) \/ Receiver(h)
    \/ \E k \in Pids : WorkerExits(k)
    \/ \E o \in Others : ProcessCall(o)
    \/ ManagerThread \/ Reaper \/ WrapperCall

IPASpec == IPAInit /\ [][IPANext]_ipaVars

(* start() and send() return, signals are delivered, and the event loops   *)
(* of this process and of the workers turn.                                *)
IPAFairness ==
    /\ WF_ipaVars(ManagerThread) /\ WF_ipaVars(Reaper)
    /\ \A h \in Handlers :
        /\ WF_ipaVars(SendData(h) /\ Sender(h))
        /\ WF_ipaVars(Receiver(h))

IPAFairSpec == IPASpec /\ IPAFairness

(* What crosses to an IPA means the same on the other side.  Messages to a *)
(* worker arrive whole and in order, until one of them is torn: its header *)
(* is sent and its payload is not.  A control list that crosses the C      *)
(* interface alone is read with its own info map or with none; of an event *)
(* with several lists nothing is claimed.                                  *)
InterfaceSound == MessagesWhole /\ ListsKeepTheirMap

(* The death of a child is reported, and the messages that were sent       *)
(* arrive, but for the cases that DeathReported and MessagesReceived name. *)
IPAProgress == DeathReported /\ MessagesReceived
=============================================================================

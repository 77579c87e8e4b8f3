------------------------------ MODULE Process -------------------------------
(***************************************************************************)
(* Process and ProcessManager (process.cpp).  A process is started with    *)
(* fork(); the manager keeps the list of running processes.  The handler   *)
(* of SIGCHLD writes a byte to a pipe, and the event loop that reads it    *)
(* walks the list with waitpid(WNOHANG) and tells each process that died.  *)
(*                                                                         *)
(* Children die at any moment, signals coalesce and the pipe may be full.  *)
(* The calls of Process are made by the thread of the event loop: between  *)
(* two walks, or by a slot of finished in the middle of one.  The manager  *)
(* is created, and the handler installed, for the first registerProcess(), *)
(* which comes after the fork(): a child may be dead by then.              *)
(***************************************************************************)
EXTENDS Naturals, Sequences, SequencesExt

CONSTANTS
    Procs,      \* the Process objects
    MaxForks,   \* bound: how many children there are
    PipeSize,   \* bound: the bytes that fit in the pipe
    NoProc

Pids == 1 .. MaxForks

NoPid == 0      \* pid_ = -1

VARIABLES
    proc,       \* "idle", "forked", "running" (running_) or "deleted"
    pid,        \* pid_
    child,      \* "none", "alive", "zombie" or "reaped"
    processes,  \* processes_
    walk,       \* the iterator of sighandler(), 0 outside it
    slot,       \* the process whose finished signal is being emitted
    handler,    \* SIGCHLD: "none", "installed" and, with the pipe, "ready"
    sigchld,    \* SIGCHLD is pending
    pipe,       \* the bytes in the pipe
    early,      \* the children that died before there was handler and pipe
    dangling,   \* a deleted Process was used
    killedAll   \* kill(-1, SIGKILL) was called

procVars == <<proc, pid, child, processes, walk, slot, handler, sigchld, pipe,
              early, dangling, killedAll>>

ProcInit ==
    /\ proc = [p \in Procs |-> "idle"]
    /\ pid = [p \in Procs |-> NoPid]
    /\ child = [k \in Pids |-> "none"]
    /\ processes = <<>>
    /\ walk = 0
    /\ slot = NoProc
    /\ handler = "none" /\ sigchld = FALSE
    /\ pipe = 0
    /\ early = {}
    /\ dangling = FALSE /\ killedAll = FALSE

(* The thread of the event loop is free to make a call.                    *)
CanCall ==
    /\ walk = 0 \/ slot # NoProc
    /\ \A p \in Procs : proc[p] # "forked"
    /\ ~dangling /\ ~killedAll

-----------------------------------------------------------------------------

(* Process::start() of a process that does not run, up to the fork().      *)
Fork(p) ==
    /\ CanCall
    /\ proc[p] = "idle"
    /\ \E k \in Pids :
        /\ child[k] = "none" /\ \A j \in 1 .. k - 1 : child[j] # "none"
        /\ child' = [child EXCEPT ![k] = "alive"]
        /\ pid' = [pid EXCEPT ![p] = k]
    /\ proc' = [proc EXCEPT ![p] = "forked"]
    /\ UNCHANGED <<processes, walk, slot, handler, sigchld, pipe, early,
                   dangling, killedAll>>

(* The first registerProcess() creates the manager.  ProcessManager() has  *)
(* the signal handled before there is a pipe to write to.                  *)
InstallHandler(p) ==
    /\ proc[p] = "forked"
    /\ handler = "none"
    /\ handler' = "installed"
    /\ UNCHANGED <<proc, pid, child, processes, walk, slot, sigchld, pipe, early,
                   dangling, killedAll>>

(* The rest of ProcessManager(), registerProcess() and running_.           *)
Register(p) ==
    /\ proc[p] = "forked"
    /\ handler # "none"
    /\ proc' = [proc EXCEPT ![p] = "running"]
    /\ processes' = Append(processes, p)
    /\ handler' = "ready"
    /\ UNCHANGED <<pid, child, walk, slot, sigchld, pipe, early, dangling,
                   killedAll>>

(* The end of a child, which raises the signal.                            *)
Dies(k) ==
    /\ child' = [child EXCEPT ![k] = "zombie"]
    /\ sigchld' = (handler # "none" \/ sigchld)
    /\ early' = IF handler = "ready" THEN early ELSE early \cup {k}

(* The child exits, or isolate() or execv() fails in it.                   *)
ChildExits(k) ==
    /\ child[k] = "alive"
    /\ Dies(k)
    /\ UNCHANGED <<proc, pid, processes, walk, slot, handler, pipe, dangling,
                   killedAll>>

(* ~Process(), which kills the child and leaves the list as it is.  A slot *)
(* does not delete the process it was called for.                          *)
Delete(p) ==
    /\ CanCall
    /\ p # slot
    /\ proc[p] # "deleted"
    /\ proc' = [proc EXCEPT ![p] = "deleted"]
    /\ killedAll' = (pid[p] = NoPid)
    /\ IF pid[p] # NoPid /\ child[pid[p]] = "alive"
       THEN Dies(pid[p])
       ELSE UNCHANGED <<child, sigchld, early>>
    /\ UNCHANGED <<pid, processes, walk, slot, handler, pipe, dangling>>

(* sigact(): the byte is lost when the pipe is full, or not there yet.     *)
Sigact ==
    /\ sigchld
    /\ sigchld' = FALSE
    /\ pipe' = IF handler = "ready" /\ pipe < PipeSize THEN pipe + 1 ELSE pipe
    /\ UNCHANGED <<proc, pid, child, processes, walk, slot, handler, early,
                   dangling, killedAll>>

-----------------------------------------------------------------------------
(***************************************************************************)
(* ProcessManager::sighandler().                                           *)
(***************************************************************************)

ReadPipe ==
    /\ pipe > 0
    /\ walk = 0
    /\ CanCall
    /\ pipe' = pipe - 1
    /\ walk' = 1
    /\ UNCHANGED <<proc, pid, child, processes, slot, handler, sigchld, early,
                   dangling, killedAll>>

(* Mistake: the iterator moves on past the entry after the erased one.     *)
SkipErased(i) == i + 1

AfterErase(i) == i

(* Mistake: the process stays in the list.                                 *)
KeepDead(s, i) == s

EraseDead(s, i) == RemoveAt(s, i)

(* waitpid() returned the child: died() and the finished signal.           *)
WalkReaps ==
    LET p == processes[walk] IN
    /\ child[pid[p]] = "zombie"
    /\ child' = [child EXCEPT ![pid[p]] = "reaped"]
    /\ processes' = EraseDead(processes, walk)
    /\ walk' = AfterErase(walk)
    /\ proc' = [proc EXCEPT ![p] = "idle"]
    /\ slot' = p
    /\ UNCHANGED dangling

WalkPasses ==
    /\ child[pid[processes[walk]]] # "zombie"
    /\ walk' = walk + 1
    /\ UNCHANGED <<proc, child, processes, slot, dangling>>

(* waitpid() gets the pid_ of an object that was deleted.                  *)
WalkDangles ==
    /\ dangling' = TRUE
    /\ UNCHANGED <<proc, child, processes, walk, slot>>

Walk ==
    /\ walk \in 1 .. Len(processes)
    /\ slot = NoProc /\ ~dangling /\ ~killedAll
    /\ IF proc[processes[walk]] = "deleted" THEN WalkDangles
                                            ELSE WalkReaps \/ WalkPasses
    /\ UNCHANGED <<pid, handler, sigchld, pipe, early, killedAll>>

WalkEnds ==
    /\ walk > Len(processes)
    /\ slot = NoProc
    /\ walk' = 0
    /\ UNCHANGED <<proc, pid, child, processes, slot, handler, sigchld, pipe,
                   early, dangling, killedAll>>

SlotReturns ==
    /\ slot # NoProc
    /\ \A p \in Procs : proc[p] # "forked"
    /\ slot' = NoProc
    /\ UNCHANGED <<proc, pid, child, processes, walk, handler, sigchld, pipe,
                   early, dangling, killedAll>>

-----------------------------------------------------------------------------
(***************************************************************************)
(* Properties.                                                             *)
(***************************************************************************)

(* The list holds the processes that run, each of them once, and none of   *)
(* their children was waited for before: waitpid() never takes the status  *)
(* of a child that the list does not know, and running_ is never true for  *)
(* good.  A deleted process may remain in it.                              *)
RunningListed ==
    /\ IsInjective(processes)
    /\ \A p \in Procs : proc[p] = "running" <=> p \in ToSet(processes)
                                                /\ proc[p] # "deleted"
    /\ \A p \in Procs : proc[p] = "running" =>
                            child[pid[p]] \in {"alive", "zombie"}

(* The signal of a child that dies is never lost once the handler is       *)
(* there, although signals coalesce and the pipe may be full: finished is  *)
(* emitted for it unless its Process is deleted, or another is that the    *)
(* list still names.                                                       *)
DeathReported ==
    \A k \in Pids :
        (/\ child[k] = "zombie" /\ k \notin early
         /\ \E p \in Procs : proc[p] = "running" /\ pid[p] = k)
            ~> (\/ child[k] = "reaped" \/ dangling \/ killedAll
                \/ \E p \in Procs : proc[p] = "deleted" /\ pid[p] = k)
=============================================================================

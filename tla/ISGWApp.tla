------------------------------- MODULE ISGWApp -------------------------------
(***************************************************************************)
(* The processes of the application and their configuration: ACEApp runs   *)
(* the reactor in one process, or forks children that do and waits for     *)
(* them when it quits (ace_app.cpp); ACEConf loads <program>.ini and, in   *)
(* addition, svrlist.ini (isgw_app.cpp, ace_conf.cpp); SIGINT quits and    *)
(* SIGUSR1 loads the configuration again (isgw_sighdl.cpp), between any    *)
(* two steps of a process.                                                 *)
(***************************************************************************)
EXTENDS Integers

CONSTANTS
    AppMaxChildren,     \* bound of child_proc_num
    AppNums             \* the child_proc_num considered; 0: no children

ASSUME AppAssumption ==
    /\ AppMaxChildren \in Nat
    /\ AppNums \subseteq 0 .. AppMaxChildren

VARIABLES
    appNum,         \* child_proc_num
    appAt,          \* where each process is; 0 is the first one
    appPids,        \* child_pids: those that are not 0
    appIdx,         \* i of parent_hatch and parent_quit
    appQuit,        \* is_quit_ of process 0
    appDone,        \* reactor_event_loop_done of each process
    appReap,        \* process 0 no longer ignores SIGCHLD
    appQueued,      \* message_count of ISGWMgrSvc is not 0 (process 0)
    appConf,        \* conf_items_ of each process: the files they come from
    appFile,        \* conf_file_ of each process
    appReloaded     \* history: a reload of this configuration succeeded

appVars == <<appNum, appAt, appPids, appIdx, appQuit, appDone, appReap, appQueued,
             appConf, appFile, appReloaded>>

AppProc == 0 .. AppMaxChildren
AppChild == 1 .. AppMaxChildren
AppFiles == {"main", "svr"}
AppAlive == {"born", "ready", "run", "quit"}
AppPlaces == AppAlive \cup
             {"none", "main", "svr", "check", "hatch", "reset", "wait", "zombie", "gone"}

AppInit ==
    /\ appNum \in AppNums
    /\ appAt = [p \in AppProc |-> IF p = 0 THEN "main" ELSE "none"]
    /\ appPids = {}
    /\ appIdx = 1
    /\ appQuit = FALSE
    /\ appDone = [p \in AppProc |-> FALSE]
    /\ appReap = FALSE
    /\ appQueued = FALSE
    /\ appConf = [p \in AppProc |-> {}]
    /\ appFile = [p \in AppProc |-> "main"]
    /\ appReloaded = [p \in AppProc |-> FALSE]

AppGoto(p, place) == appAt' = [appAt EXCEPT ![p] = place]
AppConfVars == <<appConf, appFile, appReloaded>>

-----------------------------------------------------------------------------
(* ACEConf::load_conf.  A file that cannot be read leaves the items of     *)
(* before, though conf_file_ has its name; an incremental load adds its    *)
(* sections, another one replaces all.                                     *)
AppLoadClears(p, file, ok, add) ==    \* mutant: cleared before the import
    appConf' = [appConf EXCEPT ![p] = (IF add THEN @ ELSE {}) \cup
                                      (IF ok THEN {file} ELSE {})]

AppLoad(p, file, ok, add) ==
    appConf' = [appConf EXCEPT ![p] =
                   CASE ~ok -> @ [] ok /\ add -> @ \cup {file} [] ok /\ ~add -> {file}]

(* init_conf of ISGWApp; the program ends when <program>.ini is not read.  *)
AppInitMain ==
    \E ok \in BOOLEAN :
       /\ appAt[0] = "main"
       /\ AppLoad(0, "main", ok, FALSE)
       /\ AppGoto(0, IF ok THEN "svr" ELSE "gone")
       /\ UNCHANGED <<appNum, appPids, appIdx, appQuit, appDone, appReap, appQueued,
                      appFile, appReloaded>>

AppInitSvr ==
    \E ok \in BOOLEAN :
       /\ appAt[0] = "svr"
       /\ AppLoad(0, "svr", ok, TRUE)
       /\ appFile' = [appFile EXCEPT ![0] = "svr"]
       /\ AppGoto(0, IF appNum > 0 THEN "check" ELSE "run")
       /\ UNCHANGED <<appNum, appPids, appIdx, appQuit, appDone, appReap, appQueued,
                      appReloaded>>

(* handle_reload: load_conf with neither a name nor the flag.  waitpid is  *)
(* interrupted and called again for the same child.                        *)
AppNextAnyway == IF appAt[0] = "wait" /\ appIdx <= appNum    \* mutant: for the next
                 THEN appIdx + 1 ELSE appIdx
AppInterrupted == appIdx

AppReload(p) ==
    \E ok \in BOOLEAN :
       /\ appAt[p] \in AppAlive \cup {"check", "hatch", "reset", "wait"}
       /\ AppLoad(p, appFile[p], ok, FALSE)
       /\ appReloaded' = [appReloaded EXCEPT ![p] = @ \/ ok]
       /\ appIdx' = IF p = 0 THEN AppInterrupted ELSE appIdx
       /\ UNCHANGED <<appNum, appAt, appPids, appQuit, appDone, appReap, appQueued,
                      appFile>>

-----------------------------------------------------------------------------
(* SIGINT: quit_main.  It is ignored by the children from "run" on and by  *)
(* parent_quit.                                                            *)
AppInterrupt ==
    /\ appAt[0] \notin {"wait", "gone"}
    /\ appQuit' = TRUE
    /\ appDone' = [appDone EXCEPT ![0] = TRUE]
    /\ UNCHANGED <<appNum, appAt, appPids, appIdx, appReap, appQueued, AppConfVars>>

AppInterruptChild(i) ==
    /\ appAt[i] \in {"born", "ready"}
    /\ appDone' = [appDone EXCEPT ![i] = TRUE]
    /\ UNCHANGED <<appNum, appAt, appPids, appIdx, appQuit, appReap, appQueued,
                   AppConfVars>>

(* The loops of parent_hatch and parent_quit.                              *)
AppOneMore == appIdx <= appNum + 1    \* mutant: one child too many
AppMore == appIdx <= appNum

(* parent_main: leave, or fork the children that are missing, and run the  *)
(* loop, whose end reset_reactor_event_loop forgets.                       *)
AppCheck ==
    /\ appAt[0] = "check"
    /\ appIdx' = 1
    /\ AppGoto(0, IF appQuit THEN "wait" ELSE "hatch")
    /\ appReap' = appQuit
    /\ UNCHANGED <<appNum, appPids, appQuit, appDone, appQueued, AppConfVars>>

AppFork ==
    /\ appAt[0] = "hatch"
    /\ AppMore /\ appIdx \notin appPids
    /\ appAt' = [appAt EXCEPT ![appIdx] = "born"]
    /\ appPids' = appPids \cup {appIdx}
    /\ appIdx' = appIdx + 1
    /\ appDone' = [appDone EXCEPT ![appIdx] = appDone[0]]
    /\ appConf' = [appConf EXCEPT ![appIdx] = appConf[0]]
    /\ appFile' = [appFile EXCEPT ![appIdx] = appFile[0]]
    /\ appReloaded' = [appReloaded EXCEPT ![appIdx] = appReloaded[0]]
    /\ UNCHANGED <<appNum, appQuit, appReap, appQueued>>

(* The child is there already, or fork fails.                              *)
AppNoFork ==
    /\ appAt[0] = "hatch"
    /\ AppMore
    /\ appIdx' = appIdx + 1
    /\ UNCHANGED <<appNum, appAt, appPids, appQuit, appDone, appReap, appQueued,
                   AppConfVars>>

AppHatched ==
    /\ appAt[0] = "hatch"
    /\ ~AppMore
    /\ AppGoto(0, "reset")
    /\ UNCHANGED <<appNum, appPids, appIdx, appQuit, appDone, appReap, appQueued,
                   AppConfVars>>

AppReset ==
    /\ appAt[0] = "reset"
    /\ appDone' = [appDone EXCEPT ![0] = FALSE]
    /\ AppGoto(0, "run")
    /\ UNCHANGED <<appNum, appPids, appIdx, appQuit, appReap, appQueued, AppConfVars>>

(* The reactor passes a request on to the queue, worker threads take it.   *)
AppRequest ==
    /\ appAt[0] = "run" /\ ~appDone[0]
    /\ ~appQueued
    /\ appQueued' = TRUE
    /\ UNCHANGED <<appNum, appAt, appPids, appIdx, appQuit, appDone, appReap,
                   AppConfVars>>

AppServe ==
    /\ appQueued
    /\ appAt[0] # "gone"
    /\ appQueued' = FALSE
    /\ UNCHANGED <<appNum, appAt, appPids, appIdx, appQuit, appDone, appReap,
                   AppConfVars>>

AppLoopEnds ==
    /\ appAt[0] = "run" /\ appDone[0]
    /\ AppGoto(0, IF appNum > 0 THEN "check" ELSE "quit")
    /\ UNCHANGED <<appNum, appPids, appIdx, appQuit, appDone, appReap, appQueued,
                   AppConfVars>>

(* parent_quit.  The children ignore the SIGTERM.  waitpid returns when    *)
(* the child, any child for a pid of 0, has ended, and when there is none. *)
AppWait ==
    LET which == IF appIdx \in appPids THEN {appIdx} ELSE AppChild
        dead == {i \in which : appAt[i] = "zombie"}
    IN  /\ appAt[0] = "wait"
        /\ AppMore
        /\ \/ \E i \in dead : AppGoto(i, "gone")
           \/ /\ \A i \in which : appAt[i] \in {"none", "gone"}
              /\ UNCHANGED appAt
        /\ appIdx' = appIdx + 1
        /\ UNCHANGED <<appNum, appPids, appQuit, appDone, appReap, appQueued,
                       AppConfVars>>

AppWaited ==
    /\ appAt[0] = "wait"
    /\ ~AppMore
    /\ AppGoto(0, "quit")
    /\ UNCHANGED <<appNum, appPids, appIdx, appQuit, appDone, appReap, appQueued,
                   AppConfVars>>

(* quit_app returns when the queue is empty: its times is never counted.   *)
AppQuitApp ==
    /\ appAt[0] = "quit"
    /\ ~appQueued
    /\ AppGoto(0, "gone")
    /\ UNCHANGED <<appNum, appPids, appIdx, appQuit, appDone, appReap, appQueued,
                   AppConfVars>>

-----------------------------------------------------------------------------
(* A child of parent_hatch.                                                *)
AppChildReset(i) ==
    /\ appAt[i] = "born"
    /\ appDone' = [appDone EXCEPT ![i] = FALSE]
    /\ AppGoto(i, "ready")
    /\ UNCHANGED <<appNum, appPids, appIdx, appQuit, appReap, appQueued, AppConfVars>>

(* SIGINT is ignored from here on; without a log the child ends at once.   *)
AppChildMain(i) ==
    /\ appAt[i] = "ready"
    /\ AppGoto(i, "run") \/ AppGoto(i, "quit")
    /\ UNCHANGED <<appNum, appPids, appIdx, appQuit, appDone, appReap, appQueued,
                   AppConfVars>>

AppChildLoopEnds(i) ==
    /\ appAt[i] = "run" /\ appDone[i]
    /\ AppGoto(i, "quit")
    /\ UNCHANGED <<appNum, appPids, appIdx, appQuit, appDone, appReap, appQueued,
                   AppConfVars>>

(* It exits, or it is killed or crashes, and stays to be waited for unless *)
(* process 0 ignores SIGCHLD or has ended.                                 *)
AppChildEnds(i) ==
    /\ appAt[i] \in AppAlive
    /\ AppGoto(i, IF appReap /\ appAt[0] # "gone" THEN "zombie" ELSE "gone")
    /\ UNCHANGED <<appNum, appPids, appIdx, appQuit, appDone, appReap, appQueued,
                   AppConfVars>>

AppNext ==
    \/ AppInitMain \/ AppInitSvr \/ AppInterrupt \/ AppCheck \/ AppFork \/ AppNoFork
    \/ AppHatched \/ AppReset \/ AppRequest \/ AppServe \/ AppLoopEnds \/ AppWait
    \/ AppWaited \/ AppQuitApp
    \/ \E p \in AppProc : AppReload(p)
    \/ \E i \in AppChild :
          \/ AppInterruptChild(i) \/ AppChildReset(i) \/ AppChildMain(i)
          \/ AppChildLoopEnds(i) \/ AppChildEnds(i)

AppSpec == AppInit /\ [][AppNext]_appVars

-----------------------------------------------------------------------------
AppTypeOK ==
    /\ appNum \in AppNums
    /\ appAt \in [AppProc -> AppPlaces]
    /\ appPids \subseteq AppChild
    /\ appIdx \in 1 .. AppMaxChildren + 1
    /\ {appQuit, appReap, appQueued} \subseteq BOOLEAN
    /\ appDone \in [AppProc -> BOOLEAN]
    /\ appConf \in [AppProc -> SUBSET AppFiles]
    /\ appFile \in [AppProc -> AppFiles]
    /\ appReloaded \in [AppProc -> BOOLEAN]

(* Process 0 does not end before its children, whichever could not be      *)
(* forked, ended before or end while it waits, and whatever signals        *)
(* interrupt it (parent_quit, ace_app.cpp:533-552).                        *)
AppNoOrphan ==
    appAt[0] = "gone" => \A i \in AppChild : appAt[i] \in {"none", "gone"}

(* From the start on a process has a configuration, whichever files fail   *)
(* to load later, and it has that of <program>.ini until a reload          *)
(* succeeds: the reload replaces it by svrlist.ini, the last file loaded   *)
(* (ace_conf.cpp:39, :119; isgw_sighdl.cpp:68).                            *)
AppConfigured ==
    \A p \in AppProc :
       appAt[p] \in AppAlive \cup {"check", "hatch", "reset", "wait"} =>
          /\ appConf[p] # {}
          /\ "main" \in appConf[p] \/ appReloaded[p]
===============================================================================

---------------------------- MODULE DaemonSocket ----------------------------
(***************************************************************************)
(* One daemon per database, one socket path (board-daemon lib.rs,           *)
(* singleton.rs, board-cli daemon.rs).                                      *)
(*                                                                          *)
(* A command that finds no daemon starts one.  A daemon takes the lock      *)
(* beside its database, recovers, removes what is left at the socket path,  *)
(* binds, and serves until it is told to stop; it then removes the path and *)
(* its exit frees the lock.  `board daemon stop` asks for the stop, waits   *)
(* for the listener to vanish, and removes a stale path.                    *)
(*                                                                          *)
(* The path holds a file, which is the number of the daemon that bound it;  *)
(* its inode may be one that an unlinked file had.  Back-off delays,        *)
(* logging and the socket's mode are left out.                              *)
(***************************************************************************)
EXTENDS Naturals

CONSTANTS Commands,    \* `board` commands that start a daemon or stop it
          MaxDaemons   \* bound: daemon processes ever started

NoFile == 0
Daemons == 1 .. MaxDaemons

VARIABLES started,     \* daemon processes started so far
          daemon,      \* what each process is doing
          lock,        \* the process holding <db>.lock, 0 when free
          path,        \* the file at the socket path
          inode,       \* the FileIdentity of each daemon's file
          command      \* what each command is doing

socketVars == <<started, daemon, lock, path, inode, command>>

\* History: the files at the path when a connect failed, and when the command
\* looked for the last time.
Rest == [at |-> "idle", asked |-> FALSE, original |-> NoFile, failed |-> NoFile,
         looked |-> NoFile]

SocketInit ==
    /\ started = 0 /\ lock = 0 /\ path = NoFile
    /\ daemon = [d \in Daemons |-> "none"] /\ inode = [d \in Daemons |-> NoFile]
    /\ command = [c \in Commands |-> Rest]

(* A connection is accepted by the live listener bound to the file. *)
Listening(f) == f # NoFile /\ daemon[f] \in {"serving", "stopping"}

Connects == Listening(path)

(* file_identity: None is NoFile. *)
file_identity == IF path = NoFile THEN NoFile ELSE inode[path]

Now(d, step) == daemon' = [daemon EXCEPT ![d] = step]

Does(c, step) == command' = [command EXCEPT ![c].at = step]

Ends(c) == command' = [command EXCEPT ![c] = Rest]

(* A step of a command that changes nothing but the command. *)
OnlyCommand == UNCHANGED <<started, daemon, lock, path, inode>>

----------------------------------------------------------------------------
(* The daemon's process. *)

(* Mistaken: the path is cleared before the lock is taken. *)
AcquireAfterRemoving(d) ==
    /\ daemon[d] = "spawned"
    /\ path' = NoFile
    /\ IF lock = 0 THEN lock' = d /\ Now(d, "recovering")
                   ELSE Now(d, "gone") /\ UNCHANGED lock
    /\ UNCHANGED <<started, inode, command>>

(* run: singleton::acquire, or exit at once. *)
Acquire(d) ==
    /\ daemon[d] = "spawned"
    /\ IF lock = 0 THEN lock' = d /\ Now(d, "recovering")
                   ELSE Now(d, "gone") /\ UNCHANGED lock
    /\ UNCHANGED <<started, path, inode, command>>

(* async_main, after the recovery: whatever is at the path is stale. *)
RemoveStale(d) ==
    /\ daemon[d] = "recovering"
    /\ path' = NoFile /\ Now(d, "binding")
    /\ UNCHANGED <<started, lock, inode, command>>

Bind(d) ==
    /\ daemon[d] = "binding" /\ path = NoFile
    /\ path' = d /\ Now(d, "serving")
    /\ \E i \in 1 .. d : inode' = [inode EXCEPT ![d] = i]
    /\ UNCHANGED <<started, lock, command>>

(* trigger_shutdown, by the stop request or by a signal. *)
Told(d) ==
    /\ daemon[d] = "serving" /\ Now(d, "stopping")
    /\ UNCHANGED <<started, lock, path, inode, command>>

(* serve returns and drops the listener. *)
StopAccepting(d) ==
    /\ daemon[d] = "stopping" /\ Now(d, "closed")
    /\ UNCHANGED <<started, lock, path, inode, command>>

RemoveOwn(d) ==
    /\ daemon[d] = "closed" /\ Now(d, "leaving")
    /\ path' = NoFile
    /\ UNCHANGED <<started, lock, inode, command>>

(* The exit frees the lock; a crash leaves the path behind. *)
Exit(d) ==
    /\ daemon[d] = "leaving" /\ Now(d, "gone")
    /\ lock' = 0
    /\ UNCHANGED <<started, path, inode, command>>

Crash(d) ==
    /\ daemon[d] \in {"recovering", "binding", "serving", "stopping", "closed"}
    /\ Now(d, "gone") /\ lock' = 0
    /\ UNCHANGED <<started, path, inode, command>>

----------------------------------------------------------------------------
(* connect_or_start. *)

ConnectOrStart(c) ==
    /\ command[c].at = "idle"
    /\ IF Connects THEN UNCHANGED <<started, daemon, command>>
       ELSE /\ started < MaxDaemons /\ started' = started + 1
            /\ Now(started + 1, "spawned")
            /\ Does(c, "retrying")
    /\ UNCHANGED <<lock, path, inode>>

(* Connected, or out of time. *)
Retry(c) ==
    /\ command[c].at = "retrying"
    /\ Ends(c)
    /\ OnlyCommand

----------------------------------------------------------------------------
(* stop_daemon. *)

Identify(c) ==
    /\ command[c].at = "idle"
    /\ command' = [command EXCEPT ![c] = [Rest EXCEPT !.at = "ask", !.original = file_identity]]
    /\ OnlyCommand

(* The request is answered before the daemon stops accepting; an error or *)
(* no answer ends the command, wherever the request got to (Told).        *)
Ask(c) ==
    /\ command[c].at = "ask"
    /\ \/ /\ ~Connects
          /\ Does(c, "check") /\ UNCHANGED daemon
       \/ /\ Connects
          /\ Now(path, "stopping")
          /\ command' = [command EXCEPT ![c].at = "wait", ![c].asked = TRUE]
       \/ /\ Connects
          /\ Ends(c) /\ UNCHANGED daemon
    /\ UNCHANGED <<started, lock, path, inode>>

(* The deadline may pass between two connects. *)
Wait(c) ==
    /\ command[c].at = "wait"
    /\ \/ ~Connects /\ Does(c, "check")
       \/ Ends(c)
    /\ OnlyCommand

(* check_listener_after_connect_failure: connect again; a command that has *)
(* asked goes on waiting for a listener that is there,                     *)
Recheck(c) ==
    /\ command[c].at = "check"
    /\ IF ~Connects
       THEN command' = [command EXCEPT ![c].at = "compare", ![c].failed = path]
       ELSE IF command[c].asked THEN Does(c, "wait") ELSE Ends(c)
    /\ OnlyCommand

(* read the identity of the path, that of no file or of another one ends it, *)
Compare(c) ==
    /\ command[c].at = "compare"
    /\ IF path # NoFile /\ file_identity = command[c].original
       THEN Does(c, "again")
       ELSE Ends(c)
    /\ OnlyCommand

(* read it once more, *)
CompareAgain(c) ==
    /\ command[c].at = "again"
    /\ IF file_identity = command[c].original
       THEN command' = [command EXCEPT ![c].at = "unlink", ![c].looked = path]
       ELSE Ends(c)
    /\ OnlyCommand

(* unlink what is there, *)
Unlink(c) ==
    /\ command[c].at = "unlink"
    /\ path' = NoFile
    /\ IF path = NoFile THEN Ends(c) ELSE Does(c, "unlinked")
    /\ UNCHANGED <<started, daemon, lock, inode>>

(* and report whether the path is free now. *)
Confirm(c) ==
    /\ command[c].at = "unlinked"
    /\ Ends(c)
    /\ OnlyCommand

SocketNext ==
    \/ \E d \in Daemons :
          \/ Acquire(d) \/ RemoveStale(d) \/ Bind(d) \/ Told(d) \/ StopAccepting(d)
          \/ RemoveOwn(d) \/ Exit(d) \/ Crash(d)
    \/ \E c \in Commands :
          \/ ConnectOrStart(c) \/ Retry(c) \/ Identify(c) \/ Ask(c) \/ Wait(c)
          \/ Recheck(c) \/ Compare(c) \/ CompareAgain(c) \/ Unlink(c) \/ Confirm(c)

SocketSpec == SocketInit /\ [][SocketNext]_socketVars

----------------------------------------------------------------------------
(* Properties. *)

SocketTypeOK ==
    /\ started \in 0 .. MaxDaemons /\ lock \in 0 .. MaxDaemons
    /\ path \in 0 .. MaxDaemons
    /\ daemon \in [Daemons -> {"none", "spawned", "recovering", "binding", "serving",
                               "stopping", "closed", "leaving", "gone"}]
    /\ inode \in [Daemons -> 0 .. MaxDaemons]
    /\ command \in [Commands -> [original : 0 .. MaxDaemons, failed : 0 .. MaxDaemons,
                                 looked : 0 .. MaxDaemons, asked : BOOLEAN,
                                 at : {"idle", "retrying", "ask", "wait", "check", "compare",
                                       "again", "unlink", "unlinked"}]]

(* A daemon that accepts connections keeps the path, however many daemons   *)
(* start, stop and crash around it.  Only a stop command can take the path  *)
(* away: from a daemon that bound it after the command's connect had        *)
(* failed, and after its last look too unless the new file has the stale    *)
(* one's inode, because the comparison and the unlink are not one step.     *)
ServedPathIsMine ==
    [][\A d \in Daemons :
          Listening(d) /\ path = d /\ path' # d /\ daemon'[d] = daemon[d] =>
             \E c \in Commands :
                /\ command[c].at = "unlink" /\ command'[c].at = "unlinked"
                /\ command[c].failed # d
                /\ command[c].looked = d => inode[d] = command[c].original]_socketVars
=============================================================================

---------------------------- MODULE FileStateMgr ----------------------------
(***************************************************************************)
(* counter::file_state_mgr (raft-rpc/source/file_state_mgr.hxx): the files *)
(* in which one node keeps its term, its vote and the cluster config, and  *)
(* the node that votes, crashes and reboots around them.                   *)
(*                                                                         *)
(* save_state() and save_config() both end in write_file(), whose three    *)
(* system-visible steps are separate actions here: truncate path.tmp,      *)
(* write it, rename it over path.  Here the process can be killed between  *)
(* any two steps; FileStateMgrFaults adds a full disk and a power loss.    *)
(***************************************************************************)
EXTENDS Integers

CONSTANTS Node,     \* candidates a vote can be given to
          Self,     \* the node whose files these are
          Config,   \* cluster configs that can be saved
          Alone,    \* the config of a first boot: only this node
          None,     \* no vote given yet in this term
          Absent,   \* there is no file of that name
          Empty,    \* the file has no bytes
          Torn,     \* the file has only some of its bytes
          MaxTerm   \* bound on terms, for TLC

SrvState == [term : Nat, voted : Node \cup {None}]
NoContent == {Absent, Empty, Torn}

ASSUME NoneIsNoNode == None \notin Node /\ Self \in Node
ASSUME ContentsDiffer == /\ Absent # Empty /\ Empty # Torn /\ Absent # Torn
                         /\ \A c \in NoContent : c \notin SrvState \cup Config
ASSUME MaxTermIsNat == MaxTerm \in Nat

Path == {"state", "config"}

VARIABLES files,    \* path -> what a reader of it finds now
          tmp,      \* path -> what a reader of path.tmp finds now
          pc,       \* "down", "idle", a step of write_file(), or "reply"
          job,      \* the call in progress: [path, content, vote]
          srv,      \* srv_state in memory
          conf,     \* cluster config in memory
          saved,    \* path -> contents of the last write_file() that returned
          cast      \* every vote this node ever sent: <<term, node>>

filesVars == <<files, tmp, pc, job, srv, conf, saved, cast>>

NewState == [term |-> 0, voted |-> None]
NoJob == [path |-> "state", content |-> Empty, vote |-> FALSE]

FilesInit ==
  /\ files = [p \in Path |-> Absent]
  /\ tmp = [p \in Path |-> Absent]
  /\ pc = "down"
  /\ job = NoJob
  /\ srv = NewState
  /\ conf = Alone
  /\ saved = [p \in Path |-> Absent]
  /\ cast = {}

(* read_file() yields nullptr for a missing and for an empty file.         *)
\* Mutant: a booting node does not look for its srv_state.
Readable_ConfigOnly(p) == p = "config" /\ files[p] \notin {Absent, Empty}
\* Mutant: a booting node always starts from the first-boot config.
Readable_StateOnly(p) == p = "state" /\ files[p] \notin {Absent, Empty}
Readable(p) == files[p] \notin {Absent, Empty}

(* read_state() and load_config() of a booting node.  A file with only     *)
(* some of its bytes makes deserialize() throw: the node does not come up. *)
Boot == /\ pc = "down"
        /\ \A p \in Path : files[p] # Torn
        /\ pc' = "idle"
        /\ srv' = IF Readable("state") THEN files["state"] ELSE NewState
        /\ conf' = IF Readable("config") THEN files["config"] ELSE Alone
        /\ UNCHANGED <<files, tmp, job, saved, cast>>

write_file(path, content, vote) ==
  /\ pc = "idle"
  /\ pc' = "open"
  /\ job' = [path |-> path, content |-> content, vote |-> vote]
  /\ UNCHANGED <<files, tmp, saved, cast>>

\* save_state() is called before the vote in it is sent.
save_state(s, vote) ==
  /\ write_file("state", s, vote)
  /\ srv' = s
  /\ UNCHANGED conf

(* The calls of the Raft core: learn a higher term, grant a vote in the    *)
(* current term, stand as a candidate (a vote of the node for itself).     *)
UpdateTerm(t) == /\ t > srv.term
                 /\ save_state([term |-> t, voted |-> None], FALSE)
GrantVote(n) == /\ srv.term > 0
                /\ srv.voted \in {None, n}
                /\ save_state([srv EXCEPT !.voted = n], TRUE)
Stand == /\ srv.term < MaxTerm
         /\ save_state([term |-> srv.term + 1, voted |-> Self], TRUE)

save_config(c) == /\ write_file("config", c, FALSE)
                  /\ conf' = c
                  /\ UNCHANGED srv

\* ofstream(path.tmp, trunc)
OpenTmp == /\ pc = "open"
           /\ pc' = "write"
           /\ tmp' = [tmp EXCEPT ![job.path] = Empty]
           /\ UNCHANGED <<files, job, srv, conf, saved, cast>>

\* write() and flush()
WriteTmp == /\ pc = "write"
            /\ pc' = "rename"
            /\ tmp' = [tmp EXCEPT ![job.path] = job.content]
            /\ UNCHANGED <<files, job, srv, conf, saved, cast>>

\* Mutant: the temporary file is never moved into place.
Rename_Forgotten == /\ pc = "rename"
                    /\ pc' = IF job.vote THEN "reply" ELSE "idle"
                    /\ saved' = [saved EXCEPT ![job.path] = job.content]
                    /\ UNCHANGED <<files, tmp, job, srv, conf, cast>>
\* rename(path.tmp, path); then save_state() or save_config() returns.
Rename == /\ pc = "rename"
          /\ pc' = IF job.vote THEN "reply" ELSE "idle"
          /\ files' = [files EXCEPT ![job.path] = tmp[job.path]]
          /\ tmp' = [tmp EXCEPT ![job.path] = Absent]
          /\ saved' = [saved EXCEPT ![job.path] = job.content]
          /\ UNCHANGED <<job, srv, conf, cast>>

\* The Raft core sends the vote it has just saved.
SendVote == /\ pc = "reply"
            /\ pc' = "idle"
            /\ cast' = cast \cup {<<srv.term, srv.voted>>}
            /\ UNCHANGED <<files, tmp, job, srv, conf, saved>>

(* A killed process leaves the files as they are; its memory is gone.      *)
Crash == /\ pc # "down"
         /\ pc' = "down"
         /\ srv' = NewState
         /\ conf' = Alone
         /\ job' = NoJob
         /\ UNCHANGED <<files, tmp, saved, cast>>

FilesNext ==
  \/ Boot \/ OpenTmp \/ WriteTmp \/ Rename \/ SendVote
  \/ \E t \in 1..MaxTerm : UpdateTerm(t)
  \/ \E n \in Node : GrantVote(n)
  \/ Stand
  \/ \E c \in Config : save_config(c)
  \/ Crash

FilesSpec == FilesInit /\ [][FilesNext]_filesVars

-----------------------------------------------------------------------------
(* Type invariant.                                                         *)
FilesTypeOK ==
  /\ files["state"] \in SrvState \cup {Absent}
  /\ files["config"] \in Config \cup {Absent}
  /\ DOMAIN files = Path /\ files = [p \in Path |-> files[p]]
  /\ tmp \in [Path -> SrvState \cup Config \cup {Absent, Empty}]
  /\ pc \in {"down", "idle", "open", "write", "rename", "reply"}
  /\ job \in [path : Path, content : SrvState \cup Config \cup {Empty},
              vote : BOOLEAN]
  /\ srv \in SrvState
  /\ conf \in Config \cup {Alone}
  /\ saved \in [Path -> SrvState \cup Config \cup {Absent}]
  /\ cast \subseteq Nat \X Node

(* A node never votes for two candidates in one term, however often it is  *)
(* killed and restarted, at whatever step of write_file() that happens     *)
(* (file_state_mgr.hxx:61-62, counter_server.cpp:8-9).                     *)
VoteOnce == \A v, w \in cast : v[1] = w[1] => v[2] = w[2]

(* Killing the process at any step of write_file() leaves exactly what the *)
(* last completed save wrote: never a torn or an empty file, never an      *)
(* older state, and no file at all only before the first save.             *)
CrashAtomic == pc = "down" => files = saved

(* The config a node runs with is the last one it was given: a node that   *)
(* has joined a cluster never reboots as a cluster of its own.             *)
ConfigRemembered ==
  pc = "idle" => conf = IF saved["config"] = Absent THEN Alone ELSE saved["config"]
=============================================================================

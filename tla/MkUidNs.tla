------------------------------ MODULE MkUidNs ------------------------------
(***************************************************************************)
(* mkuidns.c: main clones a child into new user and pid namespaces, writes *)
(* its uid_map, setgroups and gid_map files and then "go" into a socket    *)
(* pair; the child reads that before it mounts, changes its root and       *)
(* executes the command.  The child is the init of its pid namespace: the  *)
(* SIGTERM main sends it when a file cannot be opened is ignored, and as    *)
(* the child holds both ends of the pair its read never sees an end of     *)
(* file.                                                                   *)
(***************************************************************************)
EXTENDS Processes, Sequences

Inner == 2   \* the cloned child

MapFiles == {"uid_map", "setgroups", "gid_map"}
GidMapFirst == <<"uid_map", "gid_map", "setgroups">>
FileOrder == <<"uid_map", "setgroups", "gid_map">>

(* What childfunc does after its read; a failure of the proc mount is only  *)
(* reported, every other one is an exit.                                    *)
ChildSteps == <<"lib64", "qemu", "proc", "chroot", "chdir", "exists", "executable", "execve">>

VARIABLES
  upc, file,   \* main: control point, position in FileOrder
  written,     \* files whose write took effect
  refused,     \* files whose write the kernel turned down
  go,          \* "go" is in the socket pair
  kpc, kstep   \* the child: control point, position in ChildSteps
ns_vars == <<upc, file, written, refused, go, kpc, kstep>>

NsTypeOK ==
  /\ upc \in {"socketpair", "clone", "open", "go", "wait", "done", "failed"}
  /\ file \in 1..4
  /\ written \subseteq MapFiles /\ refused \subseteq MapFiles
  /\ go \in BOOLEAN
  /\ kpc \in {"read", "setup", "command", "ended"}
  /\ kstep \in 1..Len(ChildSteps)

NsInit ==
  /\ upc = "socketpair" /\ file = 1
  /\ written = {} /\ refused = {} /\ go = FALSE
  /\ kpc = "read" /\ kstep = 1

NsAt(from) == Alive(Root) /\ upc = from
NsFails == Die(Root, "exited") /\ upc' = "failed"

Socketpair ==
  /\ NsAt("socketpair")
  /\ \/ upc' = "clone" /\ UNCHANGED proc_vars
     \/ NsFails
  /\ UNCHANGED <<file, written, refused, go, kpc, kstep>>

CloneInner ==
  /\ NsAt("clone")
  /\ \/ ForkAs(Root, Inner) /\ upc' = "open"
     \/ NsFails
  /\ UNCHANGED <<file, written, refused, go, kpc, kstep>>

(* The kernel takes a gid_map from an unprivileged parent only once         *)
(* setgroups is denied.  main ignores what write returns.                   *)
Accepts(f) == f = "gid_map" => "setgroups" \in written

WriteFile ==
  /\ NsAt("open") /\ file <= Len(FileOrder)
  /\ LET f == FileOrder[file] IN
       \/ written' = (IF Accepts(f) THEN written \cup {f} ELSE written) /\ UNCHANGED refused
       \/ refused' = refused \cup {f} /\ UNCHANGED written
  /\ file' = file + 1
  /\ upc' = IF file = Len(FileOrder) THEN "go" ELSE "open"
  /\ UNCHANGED <<proc_vars, go, kpc, kstep>>

(* kill(childpid,SIGTERM); exit(2)                                          *)
OpenFails ==
  /\ NsAt("open")
  /\ NsFails
  /\ UNCHANGED <<file, written, refused, go, kpc, kstep>>

WriteGo ==
  /\ NsAt("go")
  /\ go' = TRUE
  /\ upc' = "wait"
  /\ UNCHANGED <<proc_vars, file, written, refused, kpc, kstep>>

(* waitpid(childpid,&status,0) returns only for the child's end; main then  *)
(* reports it and ends.                                                     *)
WaitInner ==
  /\ NsAt("wait") /\ Zombie(Inner)
  /\ Die(Root, "exited")
  /\ upc' = "done"
  /\ UNCHANGED <<file, written, refused, go, kpc, kstep>>

-----------------------------------------------------------------------------
(* childfunc.                                                               *)

ReadGo ==
  /\ st[Inner] = "run" /\ kpc = "read" /\ go
  /\ kpc' = "setup"
  /\ UNCHANGED <<proc_vars, upc, file, written, refused, go, kstep>>

ChildStep ==
  /\ st[Inner] = "run" /\ kpc = "setup"
  /\ IF kstep = Len(ChildSteps)
     THEN kpc' = "command" /\ UNCHANGED kstep
     ELSE kstep' = kstep + 1 /\ UNCHANGED kpc
  /\ UNCHANGED <<proc_vars, upc, file, written, refused, go>>

(* exit(11), exit(12), exit(22), exit(66) and exit(-2), or the command's end. *)
ChildEnds ==
  /\ st[Inner] = "run"
  /\ kpc = "command" \/ (kpc = "setup" /\ ChildSteps[kstep] # "proc")
  /\ Die(Inner, "exited")
  /\ kpc' = "ended"
  /\ UNCHANGED <<upc, file, written, refused, go, kstep>>

NsMain == Socketpair \/ CloneInner \/ WriteFile \/ WriteGo \/ WaitInner
Childfunc == ReadGo \/ ChildStep \/ ChildEnds

NsNext == \/ NsMain \/ OpenFails \/ Childfunc
          \/ Signals /\ UNCHANGED ns_vars

-----------------------------------------------------------------------------
(* When the child leaves its read, main is done with all three files, and a *)
(* write that had no effect is one the kernel turned down, or that of the   *)
(* gid_map after it turned down the denial of setgroups: it is never the    *)
(* order of main's own writes.                                              *)
SetUpFirst ==
  kpc # "read" =>
    /\ file > Len(FileOrder)
    /\ \A f \in MapFiles \ (written \cup refused) :
         f = "gid_map" /\ "setgroups" \in refused
=============================================================================

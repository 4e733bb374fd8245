-------------------------------- MODULE Shell --------------------------------
(***************************************************************************)
(* The first process (init.c) and the shell (sh.c): how runcmd turns the   *)
(* tree of a command line into processes, pipes and descriptors, when fork *)
(* may fail.                                                               *)
(*                                                                         *)
(* The kernel's fork, exit, wait, pipe, close and dup are those of proc.c  *)
(* and sysfile.c, one step each as far as others can tell.  An object in a *)
(* descriptor is "tty", "file" or the end <<k, "r">>, <<k, "w">> of pipe   *)
(* k.  A program that was exec'd reads its input to the end and exits; it  *)
(* does not close its descriptors before.                                  *)
(***************************************************************************)
EXTENDS Integers, Sequences, FiniteSets, FiniteSetsExt

CONSTANTS
  NPROC,       \* slots of the process table
  NPIPE,       \* bound: pipes at a time
  Cmds,        \* the commands that are typed, as trees
  MaxCmds      \* bound: commands typed

ShellConstants == NPROC \in Nat /\ NPROC > 1 /\ NPIPE \in Nat /\ MaxCmds \in Nat

Pids == 1..NPROC
init == 1
Fds == 0..4
None == <<0, "none">>
Tty == <<0, "tty">>
File == <<0, "file">>
Exit == [type |-> "exit"]
Stdio == [d \in Fds |-> IF d \in 0..2 THEN Tty ELSE None]

VARIABLES
  st,        \* "free", "run" or "zombie"
  parent,
  pc,        \* where a process is
  cmd,       \* what it runs
  ofile,     \* its descriptors
  back,      \* started by a BACK command or below one (history)
  sh,        \* the shell's pid, 0 if there is none
  typed,     \* commands typed
  failed     \* a fork or a pipe has failed (history)

vars == <<st, parent, pc, cmd, ofile, back, sh, typed, failed>>

Init ==
  /\ st = [p \in Pids |-> IF p = init THEN "run" ELSE "free"]
  /\ parent = [p \in Pids |-> 0]
  /\ pc = [p \in Pids |-> IF p = init THEN "init" ELSE "none"]
  /\ cmd = [p \in Pids |-> Exit]
  /\ ofile = [p \in Pids |-> IF p = init THEN Stdio ELSE [d \in Fds |-> None]]
  /\ back = [p \in Pids |-> 0]
  /\ sh = 0 /\ typed = 0 /\ failed = 0

at(p, l) == st[p] = "run" /\ pc[p] = l /\ pc[init] # "panic"

Free == {p \in Pids : st[p] = "free"}
FreeFds(f) == {d \in Fds : f[d] = None}
close(f, d) == [f EXCEPT ![d] = None]
dup(f, o) == [f EXCEPT ![Min(FreeFds(f))] = o]
Writers(k) == {x \in Pids \X Fds : ofile[x[1]][x[2]] = <<k, "w">>}
InUse(k) == \E p \in Pids, d \in Fds : ofile[p][d] \in {<<k, "r">>, <<k, "w">>}

(* For want of memory a call fails at most once (bound). *)
NoMemory == failed = 0
ForkFails == Free = {} \/ NoMemory

(* fork: the child c of p starts at l with command x; p goes on at m. *)
fork(p, c, l, x, m) ==
  /\ st' = [st EXCEPT ![c] = "run"]
  /\ parent' = [parent EXCEPT ![c] = p]
  /\ pc' = [pc EXCEPT ![c] = l, ![p] = m]
  /\ cmd' = [cmd EXCEPT ![c] = x]
  /\ ofile' = [ofile EXCEPT ![c] = ofile[p]]

(* exit, from whatever reason: the children go to init. *)
exits(p) ==
  /\ st' = [st EXCEPT ![p] = "zombie"]
  /\ parent' = [q \in Pids |-> IF parent[q] = p THEN init ELSE parent[q]]
  /\ pc' = [pc EXCEPT ![p] = "none"]
  /\ cmd' = [cmd EXCEPT ![p] = Exit]
  /\ ofile' = [ofile EXCEPT ![p] = [d \in Fds |-> None]]
  /\ UNCHANGED <<back, sh, typed>>

(* fork1's and runcmd's panic *)
panic(p) == exits(p) /\ failed' = 1

(* fork1 and what the child does with it *)
fork1(p, l, x, m, bg) ==
  \/ ForkFails /\ panic(p)
  \/ LET c == Min(Free) IN
     /\ Free # {}
     /\ fork(p, c, l, x, m)
     /\ back' = [back EXCEPT ![c] = IF bg THEN 1 ELSE back[p]]
     /\ UNCHANGED <<sh, typed, failed>>

(* wait reaps one zombie child, or fails if there are no children. *)
reap(p) ==
  \/ \E c \in Pids :
       /\ st[c] = "zombie" /\ parent[c] = p
       /\ st' = [st EXCEPT ![c] = "free"]
       /\ parent' = [parent EXCEPT ![c] = 0]
       /\ back' = [back EXCEPT ![c] = 0]
  \/ p \notin {parent[c] : c \in Pids} /\ UNCHANGED <<st, parent, back>>

(* p goes on at m. *)
wait(p, m) == reap(p) /\ pc' = [pc EXCEPT ![p] = m]

-----------------------------------------------------------------------------
(* init.c *)

init_fork ==
  /\ at(init, "init")
  /\ \/ /\ ForkFails
        /\ pc' = [pc EXCEPT ![init] = "panic"]    \* exit: panic("init exiting")
        /\ failed' = 1
        /\ UNCHANGED <<st, parent, cmd, ofile, back, sh, typed>>
     \/ /\ Free # {}
        /\ fork(init, Min(Free), "prompt", Exit, "init_wait")
        /\ sh' = Min(Free)
        /\ UNCHANGED <<back, typed, failed>>

(* wait returns for orphans too ("zombie!"), until it is the shell's turn  *)
(* or there is nobody left.                                                *)
init_wait ==
  /\ at(init, "init_wait")
  /\ reap(init)
  /\ IF st' = st \/ st'[sh] = "free"
       THEN pc' = [pc EXCEPT ![init] = "init"] /\ sh' = 0
       ELSE UNCHANGED <<pc, sh>>
  /\ UNCHANGED <<cmd, ofile, typed, failed>>

-----------------------------------------------------------------------------
(* main of sh.c *)

(* getcmd reads a line; cd is done by the shell itself and changes nothing *)
(* here; anything else is parsed and run by a child.                       *)
main(x) ==
  /\ at(sh, "prompt") /\ typed < MaxCmds
  /\ \/ ForkFails /\ panic(sh)
     \/ /\ Free # {}
        /\ fork(sh, Min(Free), "runcmd", x, "sh_wait")
        /\ typed' = typed + 1
        /\ UNCHANGED <<back, sh, failed>>

main_wait ==
  /\ at(sh, "sh_wait")
  /\ wait(sh, "prompt")
  /\ UNCHANGED <<cmd, ofile, sh, typed, failed>>

(* End of file on the console. *)
main_eof ==
  /\ at(sh, "prompt")
  /\ exits(sh)
  /\ UNCHANGED failed

-----------------------------------------------------------------------------
(* runcmd *)

runcmd_exec(p) ==
  /\ at(p, "runcmd") /\ cmd[p].type = "EXEC"
  /\ IF cmd[p].runs THEN /\ pc' = [pc EXCEPT ![p] = "program"]
                         /\ UNCHANGED <<st, parent, cmd, ofile, back, sh, typed, failed>>
     ELSE exits(p) /\ UNCHANGED failed

(* open takes the lowest descriptor, the one just closed.  It may fail. *)
runcmd_redir(p) ==
  /\ at(p, "runcmd") /\ cmd[p].type = "REDIR"
  /\ IF cmd[p].opens
       THEN /\ ofile' = [ofile EXCEPT ![p] = dup(close(@, cmd[p].fd), File)]
            /\ cmd' = [cmd EXCEPT ![p] = @.cmd]
            /\ UNCHANGED <<st, parent, pc, back, sh, typed, failed>>
       ELSE exits(p) /\ UNCHANGED failed

runcmd_list(p) ==
  /\ at(p, "runcmd") /\ cmd[p].type = "LIST"
  /\ fork1(p, "runcmd", cmd[p].left, "list_wait", FALSE)

runcmd_list_wait(p) ==
  /\ at(p, "list_wait")
  /\ wait(p, "runcmd")
  /\ cmd' = [cmd EXCEPT ![p] = @.right]
  /\ UNCHANGED <<ofile, sh, typed, failed>>

runcmd_back(p) ==
  /\ at(p, "runcmd") /\ cmd[p].type = "BACK"
  /\ fork1(p, "runcmd", cmd[p].cmd, "exit", TRUE)

(* pipe: the two lowest descriptors *)
runcmd_pipe(p) ==
  LET ks == {k \in 1..NPIPE : ~InUse(k)} IN
  /\ at(p, "runcmd") /\ cmd[p].type = "PIPE"
  /\ \/ (ks = {} \/ NoMemory) /\ panic(p)
     \/ /\ ks # {}
        /\ ofile' = [ofile EXCEPT ![p] = dup(dup(@, <<Min(ks), "r">>), <<Min(ks), "w">>)]
        /\ pc' = [pc EXCEPT ![p] = "pipe_left"]
        /\ UNCHANGED <<st, parent, cmd, back, sh, typed, failed>>

(* p[0] and p[1] are 3 and 4: the shell keeps only 0, 1 and 2 open. *)
runcmd_fork_left(p) ==
  /\ at(p, "pipe_left")
  /\ fork1(p, "left", cmd[p].left, "pipe_right", FALSE)

runcmd_fork_right(p) ==
  /\ at(p, "pipe_right")
  /\ fork1(p, "right", cmd[p].right, "pipe_close", FALSE)

(* close(1); dup(p[1]); close(p[0]); close(p[1]) in the left child *)
runcmd_left(p) ==
  /\ at(p, "left")
  /\ ofile' = [ofile EXCEPT ![p] = close(close(dup(close(@, 1), @[4]), 3), 4)]
  /\ pc' = [pc EXCEPT ![p] = "runcmd"]
  /\ UNCHANGED <<st, parent, cmd, back, sh, typed, failed>>

(* close(0); dup(p[0]); close(p[0]); close(p[1]) in the right child *)
runcmd_right(p) ==
  /\ at(p, "right")
  /\ ofile' = [ofile EXCEPT ![p] = close(close(dup(close(@, 0), @[3]), 3), 4)]
  /\ pc' = [pc EXCEPT ![p] = "runcmd"]
  /\ UNCHANGED <<st, parent, cmd, back, sh, typed, failed>>

mutant_runcmd_close_keeps_write_end(p) ==
  /\ at(p, "pipe_close")
  /\ ofile' = [ofile EXCEPT ![p] = close(@, 3)]
  /\ pc' = [pc EXCEPT ![p] = "pipe_wait"]
  /\ UNCHANGED <<st, parent, cmd, back, sh, typed, failed>>

(* The parent closes both ends and waits twice. *)
runcmd_close(p) ==
  /\ at(p, "pipe_close")
  /\ ofile' = [ofile EXCEPT ![p] = close(close(@, 3), 4)]
  /\ pc' = [pc EXCEPT ![p] = "pipe_wait"]
  /\ UNCHANGED <<st, parent, cmd, back, sh, typed, failed>>

mutant_runcmd_wait_once(p) ==
  /\ at(p, "pipe_wait")
  /\ wait(p, "exit")
  /\ UNCHANGED <<cmd, ofile, sh, typed, failed>>

runcmd_wait(p) ==
  /\ at(p, "pipe_wait")
  /\ wait(p, "pipe_wait2")
  /\ UNCHANGED <<cmd, ofile, sh, typed, failed>>

runcmd_wait2(p) ==
  /\ at(p, "pipe_wait2")
  /\ wait(p, "exit")
  /\ UNCHANGED <<cmd, ofile, sh, typed, failed>>

runcmd_exit(p) ==
  /\ at(p, "exit")
  /\ exits(p) /\ UNCHANGED failed

(* The program has read its input to the end: a pipe that nobody can write *)
(* to any more.                                                            *)
program(p) ==
  /\ at(p, "program")
  /\ ofile[p][0][2] = "r" => Writers(ofile[p][0][1]) = {}
  /\ exits(p) /\ UNCHANGED failed

Runs(p) ==
  \/ runcmd_exec(p) \/ runcmd_redir(p)
  \/ runcmd_list(p) \/ runcmd_list_wait(p)
  \/ runcmd_back(p)
  \/ runcmd_pipe(p) \/ runcmd_fork_left(p) \/ runcmd_fork_right(p)
  \/ runcmd_left(p) \/ runcmd_right(p) \/ runcmd_close(p) \/ runcmd_wait(p) \/ runcmd_wait2(p)
  \/ runcmd_exit(p) \/ program(p)

Inits == init_fork \/ init_wait

Types == sh # 0 /\ (main_eof \/ \E x \in Cmds : main(x))

Going == Inits \/ (sh # 0 /\ main_wait) \/ \E p \in Pids : Runs(p)

Next == Going \/ Types

Spec == Init /\ [][Next]_vars

-----------------------------------------------------------------------------

TypeOK ==
  /\ st \in [Pids -> {"free", "run", "zombie"}]
  /\ parent \in [Pids -> 0..NPROC]
  /\ ofile \in [Pids -> [Fds -> {None, Tty, File} \cup ((1..NPIPE) \X {"r", "w"})]]
  /\ sh \in 0..NPROC /\ typed \in 0..MaxCmds

(* Every program starts and runs with exactly its input, output and error  *)
(* open, through pipes of pipes, lists in pipes and redirections: runcmd   *)
(* closes the right descriptors in each of the processes (sh.c:130-148),   *)
(* and open and dup find the one just closed.                              *)
OnlyStdio ==
  \A p \in Pids : at(p, "program") => /\ \A d \in Fds : ofile[p][d] = None <=> d \notin 0..2
                                      /\ ofile[p][0][2] # "w" /\ ofile[p][1][2] # "r"

(* Through the waits of sh.c:117, 149-150 and 209: no part of a command    *)
(* line that was not put in the background runs on when the shell prompts  *)
(* again, unless a fork or a pipe has failed.                              *)
PromptMeansDone ==
  sh # 0 /\ pc[sh] = "prompt" /\ failed = 0 =>
    \A p \in Pids : st[p] = "run" => p \in {init, sh} \/ back[p] = 1

(* The shell prompts again: every pipeline comes to its end because its    *)
(* readers see the end of their input, when the last write end is closed.  *)
PromptReturns == (sh # 0 /\ pc[sh] = "sh_wait") ~> (sh = 0 \/ pc[sh] = "prompt" \/ pc[init] = "panic")
=============================================================================

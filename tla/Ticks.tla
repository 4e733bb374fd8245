------------------------------- MODULE Ticks -------------------------------
(***************************************************************************)
(* The clock: the timer interrupt counts ticks (trap.c) and sys_sleep      *)
(* (sysproc.c) waits for n of them.  ticks is an unsigned integer of W     *)
(* bits and n a signed one that is compared with it as unsigned.           *)
(***************************************************************************)
EXTENDS Integers

CONSTANTS Procs, W,
          Naps,      \* the arguments of sleep
          Victims    \* the processes that kill is called for

(* Unsigned integers are numbers modulo this. *)
Wrap == 2^W

TicksConstants ==
  /\ 0 \notin Procs
  /\ W \in Nat /\ Wrap \in Nat \ {0}
  /\ Naps \subseteq -(2^(W-1)) .. 2^(W-1)-1

VARIABLES
  ticks,
  lock,      \* holder of tickslock across a step, 0 for none
  state, killed,
  pc,
  n, ticks0,   \* sys_sleep's locals
  ret,         \* what the last sys_sleep returned
  elapsed      \* the ticks since sys_sleep was called, at most 2^W

vars == <<ticks, lock, state, killed, pc, n, ticks0, ret, elapsed>>

uint(x) == x % Wrap

Init ==
  /\ ticks = 0
  /\ lock = 0
  /\ state = [p \in Procs |-> "RUNNABLE"]
  /\ killed = [p \in Procs |-> 0]
  /\ pc = [p \in Procs |-> "idle"]
  /\ n = [p \in Procs |-> 0] /\ ticks0 = [p \in Procs |-> 0]
  /\ ret = [p \in Procs |-> 0]
  /\ elapsed = [p \in Procs |-> 0]

At(p, l) == pc[p] = l /\ state[p] = "RUNNABLE" /\ lock \in {0, p}

(* The timer interrupt on CPU 0. *)
tick ==
  /\ lock = 0
  /\ ticks' = uint(ticks + 1)
  /\ state' = [p \in Procs |-> "RUNNABLE"]       \* wakeup(&ticks)
  /\ elapsed' = [p \in Procs |-> IF pc[p] # "idle" /\ elapsed[p] < Wrap
                                   THEN elapsed[p] + 1 ELSE elapsed[p]]
  /\ UNCHANGED <<lock, killed, pc, n, ticks0, ret>>

sys_sleep(p, k) ==
  /\ At(p, "idle") /\ killed[p] = 0
  /\ lock' = p
  /\ ticks0' = [ticks0 EXCEPT ![p] = ticks]
  /\ n' = [n EXCEPT ![p] = k]
  /\ elapsed' = [elapsed EXCEPT ![p] = 0]
  /\ pc' = [pc EXCEPT ![p] = "loop"]
  /\ UNCHANGED <<ticks, state, killed, ret>>

mutant_Early_compares_deadlines(p) == ticks < uint(ticks0[p] + n[p])

(* ticks - ticks0 < n, both sides unsigned *)
Early(p) == uint(ticks - ticks0[p]) < uint(n[p])

return(p, v) ==
  /\ ret' = [ret EXCEPT ![p] = v]
  /\ pc' = [pc EXCEPT ![p] = "idle"]
  /\ lock' = 0
  /\ n' = [n EXCEPT ![p] = 0]
  /\ ticks0' = [ticks0 EXCEPT ![p] = 0]
  /\ elapsed' = [elapsed EXCEPT ![p] = 0]

(* The loop of sys_sleep from an acquire of tickslock. *)
sys_sleep_loop(p) ==
  /\ At(p, "loop")
  /\ \/ ~Early(p) /\ return(p, 0)
     \/ Early(p) /\ killed[p] = 1 /\ return(p, -1)
     \/ /\ Early(p) /\ killed[p] = 0
        /\ pc' = [pc EXCEPT ![p] = "sleep"]
        /\ lock' = p
        /\ UNCHANGED <<n, ticks0, ret, elapsed>>
  /\ UNCHANGED <<ticks, state, killed>>

(* sleep(&ticks, &tickslock) *)
sys_sleep_sleep(p) ==
  /\ At(p, "sleep")
  /\ state' = [state EXCEPT ![p] = "SLEEPING"]
  /\ pc' = [pc EXCEPT ![p] = "loop"]
  /\ lock' = 0
  /\ UNCHANGED <<ticks, killed, n, ticks0, ret, elapsed>>

(* proc.c: kill *)
kill(p) ==
  /\ p \in Victims /\ killed[p] = 0
  /\ killed' = [killed EXCEPT ![p] = 1]
  /\ state' = [state EXCEPT ![p] = "RUNNABLE"]
  /\ UNCHANGED <<ticks, lock, pc, n, ticks0, ret, elapsed>>

Next ==
  \/ tick
  \/ \E p \in Procs :
       \/ \E k \in Naps : sys_sleep(p, k)
       \/ sys_sleep_loop(p) \/ sys_sleep_sleep(p) \/ kill(p)

Spec == Init /\ [][Next]_vars

-----------------------------------------------------------------------------

TypeOK ==
  /\ ticks \in 0..Wrap-1
  /\ lock \in Procs \cup {0}
  /\ state \in [Procs -> {"RUNNABLE", "SLEEPING"}]
  /\ killed \in [Procs -> {0, 1}]
  /\ pc \in [Procs -> {"idle", "loop", "sleep"}]
  /\ n \in [Procs -> Naps \cup {0}]
  /\ ticks0 \in [Procs -> 0..Wrap-1]
  /\ ret \in [Procs -> {0, -1}]
  /\ elapsed \in [Procs -> 0..Wrap]

(* sys_sleep returns 0 only after n ticks, read as unsigned, also when     *)
(* ticks wraps in between (sysproc.c:77).                                  *)
SleptEnough ==
  [][\A p \in Procs : pc[p] = "loop" /\ pc'[p] = "idle" /\ ret'[p] = 0
                        => elapsed[p] >= uint(n[p])]_vars

(* No process sleeps through its time: tickslock keeps the tick that ends  *)
(* a sleep from coming between the test and the sleep (sysproc.c:77-85).   *)
SleeperIsEarly == \A p \in Procs : state[p] = "SLEEPING" => Early(p)

(* A killed process leaves sys_sleep: a kill that comes between the test   *)
(* of killed and the sleep is noticed at the next tick (sysproc.c:78).     *)
KilledLeaves == \A p \in Procs : killed[p] = 1 ~> pc[p] = "idle"
=============================================================================

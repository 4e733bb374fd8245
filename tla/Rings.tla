------------------------------- MODULE Rings -------------------------------
(***************************************************************************)
(* The two rings between processes that wait for each other: a pipe and    *)
(* the input of the console, side by side.  They share no state, so that a *)
(* behaviour of both is one of each.                                       *)
(***************************************************************************)
EXTENDS Integers

CONSTANTS Pipers, Readers, Writers, PIPESIZE, PipeW, NB, PipeMaxN, PipeVictims,
          Typists, Chars, INPUT_BUF, ConsW, ConsMaxN, ConsVictims

VARIABLES
  data, nread, nwrite, readopen, writeopen, rfd, wfd, plock, pstate, pkilled,
  ppc, pn, next, pgot,
  buf, r, w, e, clock, cstate, ckilled, cpc, cn, target, cgot, owed

pipeVars == <<data, nread, nwrite, readopen, writeopen, rfd, wfd, plock, pstate,
              pkilled, ppc, pn, next, pgot>>
consVars == <<buf, r, w, e, clock, cstate, ckilled, cpc, cn, target, cgot, owed>>

Pipe == INSTANCE Pipe
  WITH Procs <- Pipers, W <- PipeW, MaxN <- PipeMaxN, Victims <- PipeVictims,
       lock <- plock, state <- pstate, killed <- pkilled, pc <- ppc, n <- pn,
       got <- pgot
Cons == INSTANCE Console
  WITH Procs <- Typists, W <- ConsW, MaxN <- ConsMaxN, Victims <- ConsVictims,
       lock <- clock, state <- cstate, killed <- ckilled, pc <- cpc, n <- cn,
       got <- cgot

ASSUME PipeAssumption == Pipe!PipeConstants
ASSUME ConsoleAssumption == Cons!ConsoleConstants

RingsSpec == Pipe!Spec /\ Cons!Spec

(* sleep and wakeup (proc.c:521-598) as pipes and the console use them:    *)
(* nobody is asleep when what they wait for has come.  A console ring that *)
(* is full can be read, and a ^D met after other characters is left to the *)
(* read it is meant for.                                                   *)
RingsSound ==
  /\ Pipe!TypeOK /\ Pipe!SleepsForAReason
  /\ Cons!TypeOK /\ Cons!SleepsForAReason /\ Cons!FullIsReadable /\ Cons!EofForItsReader

(* Pipes (pipe.c): the ring with its wrapping counters is a bounded byte   *)
(* stream.                                                                 *)
ImplementsByteStream == Pipe!ImplementsByteStream

(* The console (console.c): the ring is a line discipline. *)
ImplementsLineInput == Cons!ImplementsLineInput
=============================================================================

------------------------------- MODULE ShParse -------------------------------
(***************************************************************************)
(* The shell's parser (sh.c:307-592): a recursive descent over the         *)
(* characters of the line.  The tree points into the line; when all of it  *)
(* is parsed, nulterminate writes the ends of the words into the line,     *)
(* over operators that stand next to them.                                 *)
(*                                                                         *)
(* A parse is [ps, cmd, ok]: the position reached, the tree, and whether   *)
(* the parser has not called panic.  A word is the pair of its positions.  *)
(***************************************************************************)
EXTENDS Integers, Sequences, SequencesExt, FiniteSets, FiniteSetsExt

CONSTANTS MAXARGS,
          Typed      \* the lines that are typed

VARIABLES buf,       \* the line
          parse,     \* parseline's result
          state      \* "typed", "parsed", "terminated" or "panic"

vars == <<buf, parse, state>>

NUL == "0"
whitespace == " "
symbols == {"<", "|", ">", "&", ";", "(", ")"}

char(i) == IF i <= Len(buf) THEN buf[i] ELSE NUL

(* The first position from i on whose character is not in C; es at last. *)
skip(i, C) == Min({j \in i..Len(buf) : buf[j] \notin C} \cup {Len(buf) + 1})
until(i, C) == Min({j \in i..Len(buf) : buf[j] \in C} \cup {Len(buf) + 1})

(* The kind of the token at q, its bounds and the position after it. *)
token(q) ==
  LET c == char(q)
      append == c = ">" /\ char(q+1) = ">"
      eq == IF append THEN q + 2
            ELSE IF c \in symbols THEN q + 1
            ELSE until(q, symbols \cup {whitespace})
  IN [tok |-> IF append THEN "+" ELSE IF c \in symbols \cup {NUL} THEN c ELSE "a",
      q |-> q, eq |-> eq, ps |-> skip(eq, {whitespace})]

gettoken(ps) == token(skip(ps, {whitespace}))

peek(ps, toks) == char(skip(ps, {whitespace})) \in toks

panic == [ps |-> 1, cmd |-> [type |-> "none"], ok |-> FALSE]
Parse(ps, cmd) == [ps |-> ps, cmd |-> cmd, ok |-> TRUE]
(* pipecmd and listcmd *)
Join(type, l, r) == IF r.ok THEN Parse(r.ps, [type |-> type, left |-> l.cmd, right |-> r.cmd]) ELSE panic

RECURSIVE parseline(_)
RECURSIVE parsepipe(_)
RECURSIVE parseredirs(_, _)
RECURSIVE args(_, _, _)

(* parseredirs: each redirection is wrapped around what there is; only the *)
(* list of them is returned, innermost first.                              *)
redirection(redirs, op, file) ==
  IF file.tok # "a" THEN panic
  ELSE parseredirs(Append(redirs, [file |-> <<file.q, file.eq>>,
                                   fd |-> IF op = "<" THEN 0 ELSE 1]), file.ps)

parseredirs(redirs, ps) ==
  IF peek(ps, {"<", ">"}) THEN redirection(redirs, gettoken(ps).tok, gettoken(gettoken(ps).ps))
  ELSE Parse(ps, redirs)

(* redircmd *)
Wrap(cmd, redirs) ==
  LET f[k \in 0..Len(redirs)] ==
        IF k = 0 THEN cmd
        ELSE [type |-> "REDIR", cmd |-> f[k-1], file |-> redirs[k].file, fd |-> redirs[k].fd]
  IN f[Len(redirs)]

(* The loop of parseexec: argv collects words, also behind redirections;   *)
(* t is the token at ps, r the redirections behind it.                     *)
args_next(argv, r) == IF r.ok THEN args(argv, r.cmd, r.ps) ELSE panic

args_word(argv, redirs, t) ==
  IF t.tok # "a" \/ Len(argv) + 1 >= MAXARGS THEN panic
  ELSE args_next(Append(argv, <<t.q, t.eq>>), parseredirs(redirs, t.ps))

args(argv, redirs, ps) ==
  IF peek(ps, {"|", ")", "&", ";", NUL}) THEN Parse(ps, Wrap([type |-> "EXEC", argv |-> argv], redirs))
  ELSE args_word(argv, redirs, gettoken(ps))

(* parseblock, with what is between the parentheses and with what follows. *)
parseblock_redirs(in, r) == IF r.ok THEN Parse(r.ps, Wrap(in.cmd, r.cmd)) ELSE panic

parseblock_close(in) ==
  IF in.ok /\ peek(in.ps, {")"}) THEN parseblock_redirs(in, parseredirs(<<>>, gettoken(in.ps).ps))
  ELSE panic

parseblock(ps) == parseblock_close(parseline(gettoken(ps).ps))

parseexec(ps) ==
  IF peek(ps, {"("}) THEN parseblock(ps) ELSE args_next(<<>>, parseredirs(<<>>, ps))

parsepipe_more(l) ==
  IF l.ok /\ peek(l.ps, {"|"}) THEN Join("PIPE", l, parsepipe(gettoken(l.ps).ps)) ELSE l

parsepipe(ps) == parsepipe_more(parseexec(ps))

(* The loop of parseline over "&". *)
RECURSIVE backs(_)
backs(r) ==
  IF r.ok /\ peek(r.ps, {"&"}) THEN backs(Parse(gettoken(r.ps).ps, [type |-> "BACK", cmd |-> r.cmd])) ELSE r

parseline_more(l) ==
  IF l.ok /\ peek(l.ps, {";"}) THEN Join("LIST", l, parseline(gettoken(l.ps).ps)) ELSE l

parseline(ps) == parseline_more(backs(parsepipe(ps)))

(* parsecmd: nothing may be left over. *)
parsecmd ==
  LET r == parseline(1) IN
  IF r.ok /\ skip(r.ps, {whitespace}) = Len(buf) + 1 THEN r ELSE panic

RECURSIVE mutant_nulterminate_no_file(_)
mutant_nulterminate_no_file(cmd) ==
  CASE cmd.type = "EXEC" -> {w[2] : w \in Range(cmd.argv)}
    [] cmd.type \in {"REDIR", "BACK"} -> mutant_nulterminate_no_file(cmd.cmd)
    [] OTHER -> mutant_nulterminate_no_file(cmd.left) \cup mutant_nulterminate_no_file(cmd.right)

(* The positions that nulterminate(cmd) sets to NUL. *)
RECURSIVE nulterminate(_)
nulterminate(cmd) ==
  CASE cmd.type = "EXEC" -> {w[2] : w \in Range(cmd.argv)}
    [] cmd.type = "REDIR" -> nulterminate(cmd.cmd) \cup {cmd.file[2]}
    [] cmd.type = "BACK" -> nulterminate(cmd.cmd)
    [] OTHER -> nulterminate(cmd.left) \cup nulterminate(cmd.right)

-----------------------------------------------------------------------------

Init == buf \in Typed /\ parse = panic /\ state = "typed"

ParseLine ==
  /\ state = "typed"
  /\ parse' = parsecmd
  /\ state' = IF parse'.ok THEN "parsed" ELSE "panic"
  /\ UNCHANGED buf

Terminate ==
  /\ state = "parsed"
  /\ buf' = [i \in DOMAIN buf |-> IF i \in nulterminate(parse.cmd) THEN NUL ELSE buf[i]]
  /\ state' = "terminated"
  /\ UNCHANGED parse

Next == ParseLine \/ Terminate

Spec == Init /\ [][Next]_vars

-----------------------------------------------------------------------------

TypeOK == state \in {"typed", "parsed", "terminated", "panic"} /\ parse.ps \in 1..Len(buf) + 1

(* What runcmd gets to see: words that go on until a NUL. *)
Word(w) == SubSeq(buf, w[1], until(w[1], {NUL}) - 1)
RECURSIVE Seen(_)
Seen(cmd) ==
  CASE cmd.type = "EXEC" -> [cmd EXCEPT !.argv = [i \in DOMAIN @ |-> Word(@[i])]]
    [] cmd.type = "REDIR" -> [cmd EXCEPT !.cmd = Seen(@), !.file = Word(@)]
    [] cmd.type = "BACK" -> [cmd EXCEPT !.cmd = Seen(@)]
    [] OTHER -> [cmd EXCEPT !.left = Seen(@), !.right = Seen(@)]

G == INSTANCE ShGrammar

(* The parser refuses the lines that have no meaning, and no others: the   *)
(* panics of parseredirs, parseblock, parseexec and parsecmd.              *)
RefusesNonsense ==
  [][state = "typed" => (state' = "panic" <=> G!Meaning(buf) = G!SyntaxError)]_vars

(* What is run is what was typed: after nulterminate has cut the line at   *)
(* the ends of its words, the tree still has the meaning of the line as it *)
(* was typed, with words next to operators, groups and redirections.       *)
RunsWhatWasTyped ==
  [][state = "parsed" => Seen(parse.cmd)' = G!Meaning(buf)]_vars
=============================================================================

------------------------------ MODULE ShGrammar ------------------------------
(***************************************************************************)
(* What a command line means, by splitting it at its operators: ";" binds  *)
(* least, then "&" after a command, then "|", and ( ) group.  A command is *)
(* words and redirections in any order, or a group followed by             *)
(* redirections; it may be empty.  The first redirection is the innermost. *)
(***************************************************************************)
EXTENDS Integers, Sequences, SequencesExt, FiniteSetsExt

CONSTANT MAXARGS

Space == " "
Symbol == {"|", "&", ";", "(", ")", "<", ">"}
Redirs == {<<"<">>, <<">">>, <<">", ">">>}
Symbols == {<<c>> : c \in Symbol} \cup Redirs
SyntaxError == [type |-> "error"]

(* The tokens of a line, as sequences of characters: symbols, ">>", words. *)
RECURSIVE Tokens(_)
Tokens(s) ==
  LET ends == {k \in 1..Len(s) : s[k] \in Symbol \cup {Space}}
      k == IF ends = {} THEN Len(s) + 1 ELSE Min(ends)
  IN IF s = <<>> THEN <<>>
     ELSE IF k > 1 THEN <<SubSeq(s, 1, k-1)>> \o Tokens(SubSeq(s, k, Len(s)))
     ELSE IF s[1] = Space THEN Tokens(Tail(s))
     ELSE IF Len(s) > 1 /\ s[1] = ">" /\ s[2] = ">" THEN <<<<">", ">">>>> \o Tokens(Tail(Tail(s)))
     ELSE <<<<s[1]>>>> \o Tokens(Tail(s))

Depth(t, i) == Cardinality({j \in 1..i : t[j] = <<"(">>}) - Cardinality({j \in 1..i : t[j] = <<")">>})

(* The places of operator c outside of all groups. *)
Tops(t, c) == {i \in 1..Len(t) : t[i] = <<c>> /\ Depth(t, i) = 0}

Before(t, i) == SubSeq(t, 1, i-1)
After(t, i) == SubSeq(t, i+1, Len(t))

Both(type, l, r) == IF SyntaxError \in {l, r} THEN SyntaxError
                    ELSE [type |-> type, left |-> l, right |-> r]

(* cmd with the redirections of t, which has nothing else *)
RECURSIVE Redirected(_, _)
Redirected(cmd, t) ==
  IF cmd = SyntaxError \/ t = <<>> THEN cmd
  ELSE IF Len(t) = 1 \/ t[1] \notin Redirs \/ t[2] \in Symbols THEN SyntaxError
  ELSE Redirected([type |-> "REDIR", cmd |-> cmd, file |-> t[2],
                   fd |-> IF t[1] = <<"<">> THEN 0 ELSE 1], Tail(Tail(t)))

RECURSIVE Line(_)
RECURSIVE Back(_)
RECURSIVE Pipeline(_)

Simple(t) ==
  LET file == {i \in 2..Len(t) : t[i-1] \in Redirs}
      redir == file \cup {i-1 : i \in file}
      word(i) == i \notin redir
      argv == [j \in 1..Cardinality({i \in 1..Len(t) : word(i)}) |->
                 t[CHOOSE i \in 1..Len(t) : word(i) /\ Cardinality({k \in 1..i : word(k)}) = j]]
      redirs == [j \in 1..Cardinality(redir) |->
                 t[CHOOSE i \in 1..Len(t) : ~word(i) /\ Cardinality({k \in 1..i : ~word(k)}) = j]]
  IN IF (\E j \in DOMAIN argv : argv[j] \in Symbols) \/ Len(argv) >= MAXARGS THEN SyntaxError
     ELSE Redirected([type |-> "EXEC", argv |-> argv], redirs)

Command(t) ==
  LET closed == {i \in 1..Len(t) : Depth(t, i) = 0} IN
  IF t = <<>> \/ t[1] # <<"(">> THEN Simple(t)
  ELSE IF closed = {} THEN SyntaxError
  ELSE Redirected(Line(SubSeq(t, 2, Min(closed) - 1)), After(t, Min(closed)))

Pipeline(t) ==
  LET bars == Tops(t, "|") IN
  IF bars = {} THEN Command(t)
  ELSE Both("PIPE", Command(Before(t, Min(bars))), Pipeline(After(t, Min(bars))))

Back(t) ==
  IF t = <<>> \/ Last(t) # <<"&">> THEN Pipeline(t)
  ELSE LET cmd == Back(Front(t)) IN
       IF cmd = SyntaxError THEN cmd ELSE [type |-> "BACK", cmd |-> cmd]

Line(t) ==
  LET semis == Tops(t, ";") IN
  IF \E i \in 1..Len(t) : Depth(t, i) < 0 THEN SyntaxError
  ELSE IF semis = {} THEN Back(t)
  ELSE Both("LIST", Back(Before(t, Min(semis))), Line(After(t, Min(semis))))

Meaning(s) == Line(Tokens(s))
=============================================================================

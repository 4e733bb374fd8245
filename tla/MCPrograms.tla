----------------------------- MODULE MCPrograms -----------------------------
(***************************************************************************)
(* The user programs: the editor, the shell's parser, the shell's          *)
(* processes with init above them, and the memory allocator.  They share   *)
(* no state: a behaviour runs one of them, chosen in the initial state.    *)
(***************************************************************************)
EXTENDS Integers, Sequences, SequencesExt

CONSTANTS
  Parts,
  MaxLines, Texts, Loaded, Page, Sessions,   \* editor
  MAXARGS, Typed,                            \* parser
  NPROC, NPIPE, Cmds, MaxCmds,               \* shell
  Top, Chunk, Sizes                          \* allocator

\* Editor: an empty and a full file; edits with good and with any numbers,
\* saving, saving elsewhere, saves that fail, and the commands that move lines or the view.
EditedFiles == {<<>>, <<"x", "y", "x">>}
Edits == {"ins", "del", "mod", "list", "next"}
EditSessions == {Edits, Edits \cup {"any"},
                 {"ins", "write", "quit"}, {"del", "cut", "write", "quit"},
                 {"del", "write", "write_path", "quit"},
                 {"list", "next", "prev", "cut", "num", "del"}}

\* Parser: every short line, and longer ones put together from pieces.
ShortLines == UNION {[1..k -> {"a", " ", "|", "&", ";", "(", ")", "<", ">"}] : k \in 0..4}
Pieces == {<<"a">>, <<"a", ">", "a">>, <<"(", "a", "|", "a", ")">>, <<"&">>, <<";">>, <<"|">>,
           <<"(">>, <<")", "<", "a">>}
TypedLines == ShortLines \cup {FlattenSeq(s) : s \in UNION {[1..k -> Pieces] : k \in 1..4}}

\* Shell: a pipe of pipes into a redirection, a list whose first program
\* does not exist into a file that does not, and a list in the background.
Run(r) == [type |-> "EXEC", runs |-> r]
Bar(l, r) == [type |-> "PIPE", left |-> l, right |-> r]
Then(l, r) == [type |-> "LIST", left |-> l, right |-> r]
Amp(c) == [type |-> "BACK", cmd |-> c]
Redir(d, o) == [type |-> "REDIR", cmd |-> Run(TRUE), fd |-> d, opens |-> o]
Commands == {Bar(Run(TRUE), Bar(Run(TRUE), Redir(1, TRUE))),
             Bar(Then(Run(FALSE), Run(TRUE)), Redir(0, FALSE)),
             Amp(Then(Run(TRUE), Run(TRUE)))}

VARIABLES
  part,
  list, curNode, currentLine, headShowLine, showLineIdx, isDirty, oriPath, args,
  disk, mode, answer, copy, session,
  buf, parse, state,
  st, parent, pc, cmd, ofile, back, sh, typed, failed,
  ptr, size, freep, brk, live, alien, asked, call

editorVars == <<list, curNode, currentLine, headShowLine, showLineIdx, isDirty,
                oriPath, args, disk, mode, answer, copy, session>>
parseVars == <<buf, parse, state>>
shellVars == <<st, parent, pc, cmd, ofile, back, sh, typed, failed>>
heapVars == <<ptr, size, freep, brk, live, alien, asked, call>>
vars == <<part, editorVars, parseVars, shellVars, heapVars>>

Ed == INSTANCE Editor
Pa == INSTANCE ShParse
Sh == INSTANCE Shell
He == INSTANCE Heap

ASSUME EditorAssumption == Ed!EditorConstants
ASSUME ShellAssumption == Sh!ShellConstants
ASSUME HeapAssumption == He!HeapConstants

\* A part that does not run starts in one state.
Init ==
  /\ part \in Parts
  /\ Ed!Init /\ Pa!Init /\ Sh!Init /\ He!Init
  /\ part # "editor" => session = Edits /\ list.fileLineNum = 0
  /\ part # "parser" => buf = <<>>

Next ==
  \/ part = "editor" /\ Ed!Next /\ UNCHANGED <<part, parseVars, shellVars, heapVars>>
  \/ part = "parser" /\ Pa!Next /\ UNCHANGED <<part, editorVars, shellVars, heapVars>>
  \/ part = "shell" /\ Sh!Next /\ UNCHANGED <<part, editorVars, parseVars, heapVars>>
  \/ part = "heap" /\ He!Next /\ UNCHANGED <<part, editorVars, parseVars, shellVars>>

Spec == Init /\ [][Next]_vars

(* While some process of the shell, of its command lines or init can go    *)
(* on, one of them does; nobody has to type.                               *)
FairSpec ==
  /\ Spec
  /\ WF_shellVars(part = "shell" /\ Sh!Going /\ UNCHANGED <<part, editorVars, parseVars, heapVars>>)

-----------------------------------------------------------------------------
(* The properties, stated in the modules of the parts. *)

(* Editor (editor.c), in sessions without c, num and p: newNode and        *)
(* deleteNode keep the list a list, findNode finds a line whatever the     *)
(* cached cursor, and line numbers that exist never lead off the list.     *)
ListSound == part = "editor" => Ed!TypeOK /\ Ed!ListOK /\ Ed!FindsLine /\ Ed!NeverUndefined
(* i, m and d change the lines they are told to and no others, and so does *)
(* a c from a cursor that findNode can use.                                *)
EditsAsTold == Ed!EditsAsTold /\ Ed!CutMoves
(* quit loses a text without asking only if lines were cut since the last  *)
(* save, and then only their order, or if the last save has failed.        *)
AskedBeforeLoss == part = "editor" => Ed!AskedBeforeLoss

(* Parser (sh.c:307-592): it refuses exactly the lines without meaning,    *)
(* and what runcmd gets is what was typed.                                 *)
RunsWhatWasTyped == Pa!RefusesNonsense /\ Pa!RunsWhatWasTyped

(* Shell (sh.c:66-234, init.c): programs get exactly three descriptors,    *)
(* and a prompt means that the foreground is done.                         *)
ProcessesSound == part = "shell" => Sh!TypeOK /\ Sh!OnlyStdio /\ Sh!PromptMeansDone
(* The prompt comes back. *)
PromptReturns == Sh!PromptReturns

(* Allocator (umalloc.c): the heap is a partition into blocks, the free    *)
(* ones are in order and joined, and the heap grows only if it has to.     *)
HeapSound == part = "heap" => He!TypeOK /\ He!HeapPartitioned /\ He!FreeListJoined /\ He!GrowsOnlyIfNeeded
=============================================================================

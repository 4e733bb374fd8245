------------------------------- MODULE Editor -------------------------------
(***************************************************************************)
(* The line editor (editor.c): a doubly linked list of lines, a cached     *)
(* cursor (curNode, currentLine) from which findNode starts its walk, the  *)
(* dirty flag and the path the text is saved to.  One action per command.  *)
(* Nodes are numbered; 0 is headNode, MaxLines + 1 is tailNode.  A line's  *)
(* characters are one value.  Where the C program follows a null or an     *)
(* uninitialised pointer, or divides by zero, the model stops with mode    *)
(* "undefined".                                                            *)
(***************************************************************************)
EXTENDS Integers, Sequences, FiniteSets

CONSTANTS MaxLines,    \* bound: the lines of the text
          Texts,
          Loaded,      \* the files that are edited
          Page,        \* 20, the lines a display shows by default
          Sessions     \* sets of commands; with "any", also numbers of no line are typed

EditorConstants == MaxLines \in Nat \ {0} /\ Page \in Nat

headNode == 0
tailNode == MaxLines + 1
NULL == -1
Undefined == -2
Nodes == 1..MaxLines
All == Nodes \cup {headNode, tailNode}

VARIABLES
  list,       \* [next, prev, text, used, fileLineNum]
  curNode, currentLine, headShowLine,
  showLineIdx, isDirty,   \* 0 or 1
  oriPath,    \* "argv", or "args": a pointer to cmdLoop's args
  args,       \* what args holds: "" (nothing), a path, or "other"
  disk,       \* the files, by path
  mode,       \* "run", "ask" (quit's question), "exit" or "undefined"
  answer,     \* to quit's question
  copy,       \* observed: "good", or what became of the file that was last
              \* loaded or saved: "moved" (cut has moved lines since), "noopen"
              \* or "short" (the last save met an error)
  session     \* the commands that are used

cursor == <<curNode, currentLine, headShowLine>>
paths == <<oriPath, disk, copy>>
vars == <<list, cursor, showLineIdx, isDirty, paths, args, mode, answer, session>>

-----------------------------------------------------------------------------
(* The list *)

follow(ptr, n) == IF n \in All THEN ptr[n] ELSE NULL

(* The nodes reached from n along ptr. *)
path(ptr, n) ==
  LET f[k \in 0..MaxLines+2] == IF k = 0 THEN n ELSE follow(ptr, f[k-1]) IN f

(* The lines of the text, in the order of the list. *)
Lines(L) ==
  LET f == path(L.next, headNode)
      k == CHOOSE j \in 1..MaxLines+2 :
             /\ f[j] \in {tailNode, NULL} \/ j = MaxLines + 2
             /\ \A i \in 1..j-1 : f[i] \notin {tailNode, NULL}
  IN [i \in 1..k-1 |-> IF f[i] \in Nodes THEN L.text[f[i]] ELSE "?"]

(* The list that loadFile builds. *)
loadFile(s) ==
  [next |-> [n \in All |-> IF n < Len(s) THEN n + 1
                           ELSE IF n = Len(s) THEN tailNode ELSE NULL],
   prev |-> [n \in All |-> IF n = tailNode THEN Len(s)
                           ELSE IF n <= Len(s) THEN n - 1 ELSE NULL],
   text |-> [n \in Nodes |-> IF n <= Len(s) THEN s[n] ELSE "?"],
   used |-> 1..Len(s),
   fileLineNum |-> Len(s)]

(* newNode(p) with the content its callers give it; malloc takes the first *)
(* free node.                                                              *)
newNode(L, p, t) ==
  LET n == CHOOSE m \in Nodes \ L.used : \A k \in Nodes \ L.used : m <= k IN
  [L EXCEPT !.next = [@ EXCEPT ![p] = n, ![n] = L.next[p]],
            !.prev = [m \in All |-> IF m = n THEN p
                                    ELSE IF m = L.next[p] THEN n ELSE @[m]],
            !.text = [@ EXCEPT ![n] = t],
            !.used = @ \cup {n},
            !.fileLineNum = @ + 1]

(* deleteNode(n) of an ordinary node; what is freed is forgotten. *)
deleteNode(L, n) ==
  LET bypass(ptr, m, to) == [ptr EXCEPT ![m] = to, ![n] = NULL]
  IN [L EXCEPT !.next = bypass(@, L.prev[n], L.next[n]),
               !.prev = bypass(@, L.next[n], L.prev[n]),
               !.text = [@ EXCEPT ![n] = "?"],
               !.used = @ \ {n},
               !.fileLineNum = @ - 1]

mutant_freeList_stops_early(L, start, end) ==
  LET f[k \in 0..MaxLines] ==
        IF k = 0 THEN [L |-> L, now |-> start]
        ELSE LET g == f[k-1] IN
             IF g.now \in {end} \cup {headNode, tailNode, NULL} THEN g
             ELSE [L |-> deleteNode(g.L, g.now), now |-> g.L.next[g.now]]
  IN f[MaxLines].L

(* freeList(start, end): deletes until the node after end, or until        *)
(* deleteNode refuses a root node.                                         *)
freeList(L, start, end) ==
  LET tmp == follow(L.next, end)
      f[k \in 0..MaxLines] ==
        IF k = 0 THEN [L |-> L, now |-> start]
        ELSE LET g == f[k-1] IN
             IF g.now \in {tmp} \cup {headNode, tailNode, NULL} THEN g
             ELSE [L |-> deleteNode(g.L, g.now), now |-> g.L.next[g.now]]
  IN f[MaxLines].L

(* A walk of findNode from n, numbered idx0, that counts by d and stops at *)
(* index or at a node of Stop; it leaves the list if it meets neither.     *)
walk(ptr, n, idx0, d, index, Stop) ==
  LET f == path(ptr, n)
      over(k) == f[k] = NULL \/ f[k] \in Stop \/ idx0 + d * k = index
  IN IF \E k \in DOMAIN f : over(k)
       THEN LET k == CHOOSE j \in DOMAIN f : over(j) /\ \A i \in 0..j-1 : ~over(i)
            IN IF f[k] = NULL THEN Undefined ELSE f[k]
       ELSE Undefined

(* findNode: from the head, from the cursor backwards or forwards, or from *)
(* the tail, whichever is nearest.                                         *)
findNode(index) ==
  IF index > list.fileLineNum \/ index < 0 THEN NULL
  ELSE IF index <= currentLine
  THEN IF index - 1 <= currentLine - index
       THEN walk(list.next, list.next[headNode], 1, 1, index, {curNode})
       ELSE walk(list.prev, curNode, currentLine, -1, index,
                 {n \in All : list.prev[n] = headNode})
  ELSE IF index - currentLine <= list.fileLineNum - index
       THEN walk(list.next, curNode, currentLine, 1, index,
                 {n \in All : list.next[n] = tailNode})
       ELSE walk(list.prev, list.prev[tailNode], list.fileLineNum, -1, index, {curNode})

-----------------------------------------------------------------------------
(* The commands.  can(c) is the part of the guard they share. *)

Absent == <<"absent">>
Damaged == <<"damaged">>

Init ==
  \E s \in Loaded :
    /\ list = loadFile(s)
    /\ curNode = list.next[headNode] /\ currentLine = 1 /\ headShowLine = 0
    /\ showLineIdx = 1 /\ isDirty = 0
    /\ oriPath = "argv" /\ args = ""
    /\ disk = [p \in {"argv", "new"} |-> IF p = "argv" THEN s ELSE Absent]
    /\ mode = "run" /\ answer = "" /\ copy = "good"
    /\ session \in Sessions

(* next and prev link the lines in use from the head to the tail.  The     *)
(* model does not follow a program that has broken its list.               *)
IsList ==
  LET f == path(list.next, headNode)
      k == list.fileLineNum + 1
  IN /\ f[k] = tailNode
     /\ {f[i] : i \in 1..k-1} = list.used
     /\ Cardinality(list.used) = list.fileLineNum
     /\ \A i \in 1..k : list.prev[f[i]] = f[i-1]

can(c) == mode = "run" /\ IsList /\ c \in session

lawful == "any" \notin session

(* The line numbers that are typed; atLeast is the first one that makes    *)
(* sense to the command.                                                   *)
Numbers(atLeast) == IF lawful THEN atLeast..list.fileLineNum ELSE 0..MaxLines+1

(* The model does not follow the program further. *)
undefined(a) ==
  /\ mode' = "undefined" /\ args' = a
  /\ UNCHANGED <<list, cursor, showLineIdx, isDirty, paths, answer>>

refused(a) ==
  /\ args' = a
  /\ UNCHANGED <<list, cursor, showLineIdx, isDirty, paths, mode, answer>>

mutant_edited_keeps_cursor(L) ==
  /\ list' = L
  /\ isDirty' = 1
  /\ args' = "other"
  /\ UNCHANGED <<cursor, showLineIdx, paths, mode, answer>>

mutant_edited_not_dirty(L) ==
  /\ list' = L
  /\ curNode' = headNode /\ currentLine' = 0
  /\ args' = "other"
  /\ UNCHANGED <<headShowLine, showLineIdx, isDirty, paths, mode, answer>>

(* What newNode and deleteNode do besides: the text is dirty, the cursor   *)
(* goes back to the head.                                                  *)
edited(L) ==
  /\ list' = L
  /\ isDirty' = 1
  /\ curNode' = headNode /\ currentLine' = 0
  /\ args' = "other"
  /\ UNCHANGED <<headShowLine, showLineIdx, paths, mode, answer>>

(* i and i-: a line after line idx *)
ins(idx, t) ==
  LET p == IF idx = 0 THEN headNode ELSE findNode(idx) IN
  /\ can("ins") /\ list.used # Nodes
  /\ \/ p = NULL /\ refused("other")
     \/ p = Undefined /\ undefined("other")
     \/ p \in All /\ edited(newNode(list, p, t))

(* m and m-: the line is deleted and a new one put in its place.  With     *)
(* idx = 0 the local prev is not initialised.                              *)
mod(idx, t) ==
  LET n == IF idx = 0 THEN Undefined ELSE findNode(idx)
      p == follow(list.prev, n)
      v == follow(list.next, p)
      L == IF v \in Nodes THEN deleteNode(list, v) ELSE list
  IN
  /\ can("mod")
  /\ \/ n \in {NULL, Undefined} /\ undefined("other")
     \/ p = NULL /\ n # NULL /\ refused("other")
     \/ p \in All /\ L.used # Nodes /\ edited(newNode(L, p, t))

(* d.  If end is null the program takes a word of its own text for the     *)
(* node to stop at, and freeList goes on to the tail.                      *)
del(i, j) ==
  LET start == findNode(i)
      end == findNode(j)
      L == IF i > j \/ start \notin Nodes \/ end = tailNode THEN list
           ELSE freeList(list, start, end)
  IN
  /\ can("del")
  /\ \/ i <= j /\ Undefined \in {start, end} /\ undefined("other")
     \/ (i > j \/ Undefined \notin {start, end}) /\ L = list /\ refused("other")
     \/ Undefined \notin {start, end} /\ L # list /\ edited(L)

(* cut's six assignments *)
linked(L, n1, n2, nt) ==
  LET s1 == [L.next EXCEPT ![L.prev[n1]] = L.next[n2]]
      p1 == [L.prev EXCEPT ![s1[n2]] = L.prev[n1]]
      p2 == [p1 EXCEPT ![s1[nt]] = n2]
      s2 == [s1 EXCEPT ![n2] = s1[nt]]
  IN [L EXCEPT !.next = [s2 EXCEPT ![nt] = n1],
               !.prev = [p2 EXCEPT ![n1] = nt]]

(* c: lines i to j go behind line k *)
cut(i, j, k) ==
  LET n1 == findNode(i)
      n2 == findNode(j)
      nt == findNode(k)
      legal == i <= j /\ (k < i \/ k > j)
      found == /\ {n1, n2, nt} \subseteq All
               /\ {list.prev[n1], list.next[n2], list.next[nt]} \subseteq All
  IN
  /\ can("cut")
  /\ \/ ~legal /\ refused("other")
     \/ legal /\ ~found /\ undefined("other")
     \/ /\ legal /\ found
        /\ list' = linked(list, n1, n2, nt)
        /\ copy' = IF copy = "good" THEN "moved" ELSE copy
        /\ args' = "other"
        /\ UNCHANGED <<cursor, showLineIdx, isDirty, oriPath, disk, mode, answer>>

(* idx2Str divides its modulus by 10 until it no longer divides idx: for 0 *)
(* it goes on to a modulus of 0 and divides by that.                       *)
idx2Str_divides_by_0(idx) == idx = 0

(* The part of showFile from a start on: lines are displayed, and numbered *)
(* if showLineIdx says so, until the tail or endIndex.                     *)
display(node, line, endIndex, head, a) ==
  LET f == path(list.next, node)
      over(k) == f[k] \in {tailNode, NULL} \/ (k > 0 /\ line + k * showLineIdx > endIndex)
      m == CHOOSE k \in DOMAIN f : (over(k) \/ k = MaxLines + 2) /\ \A i \in 0..k-1 : ~over(i)
      bad == f[m] = NULL \/ ~over(m) \/ (showLineIdx = 1 /\ m > 0 /\ idx2Str_divides_by_0(line))
  IN
  \/ bad /\ undefined(a)
  \/ /\ ~bad
     /\ curNode' = f[m]
     /\ currentLine' = line + m * showLineIdx
     /\ headShowLine' = head
     /\ args' = a
     /\ UNCHANGED <<list, showLineIdx, isDirty, paths, mode, answer>>

(* The line a display starts with. *)
showFrom(idx, lines) ==
  LET back == headShowLine + lines - 1 IN
  IF lines < 0 THEN (IF back < 0 THEN 1 ELSE back) ELSE IF idx < 0 THEN 1 ELSE idx

(* showFile(index, lines); a negative lines goes backwards from the first  *)
(* line of the last display.                                               *)
showFile(index, lines, a) ==
  LET fln == list.fileLineNum
      idx == IF index > fln THEN fln ELSE index
      from == showFrom(idx, lines)
      end == from + (IF lines < 0 THEN -lines ELSE lines)
      tmp == findNode(from)
  IN
  \/ fln = 0 /\ refused(a)
  \/ fln # 0 /\ idx = 0 /\ display(list.next[headNode], 1, fln, 1, a)
  \/ /\ fln # 0 /\ idx # 0 /\ tmp = NULL
     /\ headShowLine' = IF lines < 0 THEN from ELSE headShowLine
     /\ args' = a
     /\ UNCHANGED <<list, curNode, currentLine, showLineIdx, isDirty, paths, mode, answer>>
  \/ fln # 0 /\ idx # 0 /\ tmp = Undefined /\ undefined(a)
  \/ /\ fln # 0 /\ idx # 0 /\ tmp \in All
     /\ display(tmp, from, IF end > fln THEN fln ELSE end, from, a)

(* l, n and p, whose argument may be left out (0) *)
list_cmd(i) ==
  /\ can("list")
  /\ IF i # 0 THEN showFile(i - Page \div 2, Page, "other")
     ELSE showFile(1, list.fileLineNum, "")

next_cmd(k) ==
  LET lines == IF k = 0 THEN Page ELSE k IN
  can("next") /\ showFile(currentLine - lines \div 2, lines, IF k = 0 THEN "" ELSE "other")

prev_cmd(k) ==
  LET lines == IF k = 0 THEN Page ELSE k IN
  can("prev") /\ showFile(currentLine + lines \div 2, -lines, IF k = 0 THEN "" ELSE "other")

(* num without an argument; with one it compares characters with 0 and 1   *)
(* and changes nothing.                                                    *)
num ==
  /\ can("num")
  /\ showLineIdx' = 1 - showLineIdx
  /\ args' = ""
  /\ UNCHANGED <<list, cursor, isDirty, paths, mode, answer>>

(* The path that ptr points to, when the command has filled args. *)
string(ptr) == IF ptr = "argv" THEN "argv" ELSE args'

(* What a save can meet: open fails although the directory exists (no free *)
(* struct file), or a write fails, which saveFile does not look at.        *)
Outcomes == {"good", "noopen"} \cup (IF list.fileLineNum > 0 THEN {"short"} ELSE {})

(* saveFile(ptr): unlink, open with O_CREATE, write.  Nothing is left of   *)
(* the old file when the open fails after its create; a path in no         *)
(* directory, and the empty one, are refused before that.                  *)
saveFile(ptr, how) ==
  LET p == IF string(ptr) = "" THEN oriPath ELSE ptr
      file == string(p)
      Left == [good |-> Lines(list), noopen |-> <<>>, short |-> Damaged]
  IN
  /\ oriPath' = p
  /\ disk' = IF file \in DOMAIN disk THEN [disk EXCEPT ![file] = Left[how]] ELSE disk
  /\ copy' = IF file \in DOMAIN disk THEN how ELSE "noopen"
  /\ isDirty' = IF copy' = "noopen" THEN isDirty ELSE 0

(* The paths that w, q and wq are given: one that can be created, and one  *)
(* that cannot.                                                            *)
Paths == IF "write_path" \in session THEN {"", "new", "nowhere"} ELSE {""}

write(a, how) ==
  /\ can("write")
  /\ args' = a
  /\ saveFile("args", how)
  /\ UNCHANGED <<list, cursor, showLineIdx, mode, answer>>

(* quit ends, or asks if the text is dirty. *)
quit(a) ==
  /\ can("quit")
  /\ args' = a
  /\ mode' = IF isDirty = 0 THEN "exit" ELSE "ask"
  /\ UNCHANGED <<list, cursor, showLineIdx, isDirty, paths, answer>>

(* Y saves, to oriPath, and ends whatever saveFile returns ... *)
quit_yes(how) ==
  /\ mode = "ask"
  /\ args' = args
  /\ saveFile(oriPath, how)
  /\ mode' = "exit" /\ answer' = "Y"
  /\ UNCHANGED <<list, cursor, showLineIdx>>

(* ... N ends, anything else goes on. *)
quit_other(y) ==
  /\ mode = "ask"
  /\ mode' = IF y = "N" THEN "exit" ELSE "run"
  /\ answer' = y
  /\ UNCHANGED <<list, cursor, showLineIdx, isDirty, paths, args>>

(* wq saves and then calls quit. *)
wq(a, how) ==
  /\ can("quit")
  /\ args' = a
  /\ saveFile("args", how)
  /\ mode' = IF isDirty' = 0 THEN "exit" ELSE "ask"
  /\ UNCHANGED <<list, cursor, showLineIdx, answer>>

(* The process has ended, or is not followed further. *)
Ended == (mode \in {"exit", "undefined"} \/ ~IsList) /\ UNCHANGED vars

Command ==
  \/ \E i \in Numbers(0) \cup {list.fileLineNum}, t \in Texts : ins(i, t)
  \/ \E i \in Numbers(1) \cup ({list.fileLineNum} \ (IF lawful THEN {0} ELSE {})), t \in Texts : mod(i, t)
  \/ \E i, j \in Numbers(1) : del(i, j)
  \/ \E i, j, k \in Numbers(1) : cut(i, j, k)
  \/ \E i \in Numbers(0) : list_cmd(i)
  \/ \E k \in 0..MaxLines : next_cmd(k) \/ prev_cmd(k)
  \/ num
  \/ \E a \in Paths : quit(a) \/ \E how \in Outcomes : write(a, how) \/ wq(a, how)
  \/ \E how \in Outcomes : quit_yes(how)
  \/ \E y \in {"N", "?"} : quit_other(y)

Next == (Command /\ UNCHANGED session) \/ Ended

Spec == Init /\ [][Next]_vars

-----------------------------------------------------------------------------

TypeOK ==
  /\ list \in [next : [All -> All \cup {NULL}], prev : [All -> All \cup {NULL}],
               text : [Nodes -> Texts \cup {"?"}], used : SUBSET Nodes, fileLineNum : 0..MaxLines]
  /\ curNode \in All /\ currentLine \in 0..MaxLines+1
  /\ headShowLine \in 0..MaxLines
  /\ showLineIdx \in {0, 1} /\ isDirty \in {0, 1}
  /\ oriPath \in {"argv", "args"} /\ args \in {"", "new", "nowhere", "other"}
  /\ mode \in {"run", "ask", "exit", "undefined"} /\ answer \in {"", "Y", "N", "?"}
  /\ copy \in {"good", "moved", "noopen", "short"}

(* The list stays a list with prev the inverse of next and fileLineNum the *)
(* number of its lines, after every sequence of newNode, deleteNode and    *)
(* freeList (editor.c:592-683), whatever numbers are typed, in sessions    *)
(* without c, num and p: these leave a cursor that findNode cannot use.    *)
ListOK == session \cap {"cut", "num", "prev"} = {} => IsList

(* "return node in index" (editor.c:685): from whichever end the cached    *)
(* cursor makes it walk, findNode returns the line with that number, in    *)
(* sessions without c, num and p.                                          *)
Finds == \A i \in 1..list.fileLineNum : findNode(i) = path(list.next, headNode)[i]
FindsLine == mode = "run" /\ session \cap {"cut", "num", "prev"} = {} => Finds

(* With line numbers that exist, i, m, d, l, n, w and q do not make the    *)
(* program follow a null or uninitialised pointer or number a line 0       *)
(* (editor.c:1013); after c, num or p they may.                            *)
NeverUndefined == mode = "undefined" => session \cap {"any", "cut", "num", "prev"} # {}

plain == session \cap {"any", "cut", "num", "prev"} = {}

(* "ask if needs save" (editor.c:963): what the editor does lose.  If it   *)
(* ends without the answer N, whatever was edited, saved under a path and  *)
(* asked before, then                                                      *)
(*   - the text is in a file, or                                           *)
(*   - lines were cut since the last save, which quit does not notice: the *)
(*     lines are in a file, in another order (editor.c:947-952), or        *)
(*   - the last save has failed: saveFile has said so when open refused    *)
(*     the path, and quit ends nevertheless (213-218, 973), or a write     *)
(*     failed, which goes unnoticed (236, 246).                            *)
SameLines(s, t) ==
  /\ Len(s) = Len(t)
  /\ \A x \in Texts : Cardinality({i \in DOMAIN s : s[i] = x}) = Cardinality({i \in DOMAIN t : t[i] = x})
AskedBeforeLoss ==
  mode = "exit" /\ answer # "N" =>
    /\ copy = "good" => \E p \in DOMAIN disk : disk[p] = Lines(list)
    /\ copy = "moved" => \E p \in DOMAIN disk : SameLines(disk[p], Lines(list))

(* i, m and d change the lines they are told to and no others, wherever    *)
(* the display has left the cursor (editor.c:757-890).                     *)
EditsAsTold ==
  [][plain /\ mode = "run" =>
      LET s == Lines(list) IN
      \A i \in 0..list.fileLineNum :
        /\ \A t \in Texts :
             /\ ins(i, t) => Lines(list)' = SubSeq(s, 1, i) \o <<t>> \o SubSeq(s, i + 1, Len(s))
             /\ i > 0 /\ mod(i, t) => Lines(list)' = [s EXCEPT ![i] = t]
        /\ \A j \in i..list.fileLineNum :
             i > 0 /\ del(i, j) => Lines(list)' = SubSeq(s, 1, i - 1) \o SubSeq(s, j + 1, Len(s))]_vars

(* cut, from a state in which findNode is right, moves exactly the lines   *)
(* i to j behind line k and keeps the list a list (editor.c:941-953).      *)
Moved(s, i, j, k) ==
  IF k > j THEN SubSeq(s, 1, i-1) \o SubSeq(s, j+1, k) \o SubSeq(s, i, j) \o SubSeq(s, k+1, Len(s))
  ELSE SubSeq(s, 1, k) \o SubSeq(s, i, j) \o SubSeq(s, k+1, i-1) \o SubSeq(s, j+1, Len(s))
CutMoves ==
  []["cut" \in session /\ Finds /\ IsList =>
      \A i, j, k \in 1..list.fileLineNum :
        i <= j /\ (k < i \/ k > j) /\ cut(i, j, k)
          => IsList' /\ Lines(list)' = Moved(Lines(list), i, j, k)]_vars
=============================================================================

---------------------------- MODULE AtomicWrite ----------------------------
(***************************************************************************)
(* WriteAtomic of one path by any number of processes, call by call of the *)
(* system: all of them go through the one temporary file path.tmp, which a *)
(* call opens, truncates, fills and renames.  Names lead to inodes, and a  *)
(* descriptor keeps its inode when the name goes.                          *)
(*                                                                         *)
(* A text is a number of cells; a write of one cell at the descriptor's    *)
(* offset stands for what a reader, or a process that dies, may see done.  *)
(* Only processes die, not the machine.                                    *)
(***************************************************************************)
EXTENDS Naturals, Sequences

CONSTANTS
  Writers,  \* the calls that may be in progress at a time
  Inodes,
  Texts,    \* what is written
  Length,   \* in cells
  Hole,     \* a cell that was skipped
  None

ASSUME AtomicWriteAssumption ==
  /\ Length \in [Texts -> Nat] /\ Texts # {}
  /\ None \notin Inodes

VARIABLES
  content,            \* of each inode
  path, tmp,          \* where the two names lead
  pc, text, using, off, \* of a call: its place, text, open inode and offset
  alone,              \* whether no other call has been in progress beside it
  latest,             \* the text last renamed to path
  overlap             \* calls have overlapped since a call alone wrote path

vars == <<content, path, tmp, pc, text, using, off, alone, latest, overlap>>

Filled(t, n) == [i \in 1..n |-> t]

Free == {i \in Inodes : i \notin {path, tmp} /\ \A w \in Writers : using[w] # i}

Busy == {w \in Writers : pc[w] # "idle"}

Init ==
  /\ latest \in Texts
  /\ path \in Inodes \cup {None}
  /\ content = [i \in Inodes |-> IF i = path THEN Filled(latest, Length[latest]) ELSE <<>>]
  /\ tmp = None
  /\ pc = [w \in Writers |-> "idle"]
  /\ text = [w \in Writers |-> None]
  /\ using = [w \in Writers |-> None]
  /\ off = [w \in Writers |-> 0]
  /\ alone = [w \in Writers |-> FALSE]
  /\ overlap = FALSE

-----------------------------------------------------------------------------

\* A mutant: without O_TRUNC.
OpenAsIs(w) ==
  /\ pc[w] = "idle"
  /\ \E i \in IF tmp # None THEN {tmp} ELSE Free, t \in Texts :
       /\ tmp' = i
       /\ content' = IF tmp # None THEN content ELSE [content EXCEPT ![i] = <<>>]
       /\ using' = [using EXCEPT ![w] = i]
       /\ text' = [text EXCEPT ![w] = t]
  /\ off' = [off EXCEPT ![w] = 0]
  /\ pc' = [pc EXCEPT ![w] = "write"]
  /\ alone' = [v \in Writers |-> v = w /\ Busy = {}]
  /\ overlap' = (overlap \/ Busy # {})
  /\ UNCHANGED <<path, latest>>

\* os.WriteFile opens with O_CREATE and O_TRUNC: a temporary file that is there
\* is emptied, whoever has it open.
Open(w) ==
  /\ pc[w] = "idle"
  /\ \E i \in IF tmp # None THEN {tmp} ELSE Free, t \in Texts :
       /\ tmp' = i
       /\ content' = [content EXCEPT ![i] = <<>>]
       /\ using' = [using EXCEPT ![w] = i]
       /\ text' = [text EXCEPT ![w] = t]
  /\ off' = [off EXCEPT ![w] = 0]
  /\ pc' = [pc EXCEPT ![w] = "write"]
  /\ alone' = [v \in Writers |-> v = w /\ Busy = {}]
  /\ overlap' = (overlap \/ Busy # {})
  /\ UNCHANGED <<path, latest>>

\* A cell is written at the offset; cells that another call's O_TRUNC has taken
\* away before it read as a hole.
Overlay(old, at, t) ==
  [i \in 1..(IF at > Len(old) THEN at ELSE Len(old)) |->
     IF i = at THEN t ELSE IF i <= Len(old) THEN old[i] ELSE Hole]

\* A mutant: one cell too many.
WriteOneMore(w) ==
  /\ pc[w] = "write" /\ off[w] <= Length[text[w]]
  /\ content' = [content EXCEPT ![using[w]] = Overlay(@, off[w] + 1, text[w])]
  /\ off' = [off EXCEPT ![w] = @ + 1]
  /\ UNCHANGED <<path, tmp, pc, text, using, alone, latest, overlap>>

Write(w) ==
  /\ pc[w] = "write" /\ off[w] < Length[text[w]]
  /\ content' = [content EXCEPT ![using[w]] = Overlay(@, off[w] + 1, text[w])]
  /\ off' = [off EXCEPT ![w] = @ + 1]
  /\ UNCHANGED <<path, tmp, pc, text, using, alone, latest, overlap>>

\* An inode without a name and a descriptor is gone.
Ends(w) ==
  /\ pc' = [pc EXCEPT ![w] = "idle"]
  /\ using' = [using EXCEPT ![w] = None]
  /\ off' = [off EXCEPT ![w] = 0]
  /\ alone' = [alone EXCEPT ![w] = FALSE]
  /\ text' = [text EXCEPT ![w] = None]
  /\ content' = [i \in Inodes |->
       IF i \in {path', tmp'} \/ (\E v \in Writers : using'[v] = i) THEN content[i] ELSE <<>>]

\* A mutant: a write that failed is not noticed.
RenameAnyway(w) ==
  /\ pc[w] = "write"
  /\ tmp # None
  /\ path' = tmp
  /\ tmp' = None
  /\ latest' = text[w]
  /\ overlap' = (overlap /\ ~alone[w])
  /\ Ends(w)

\* The name is what is renamed, whichever inode it leads to by now.
Rename(w) ==
  /\ pc[w] = "write" /\ off[w] = Length[text[w]]
  /\ tmp # None
  /\ path' = tmp
  /\ tmp' = None
  /\ latest' = text[w]
  /\ overlap' = (overlap /\ ~alone[w])
  /\ Ends(w)

\* There is no such file any more, or another error.
RenameFails(w) ==
  /\ pc[w] = "write" /\ off[w] = Length[text[w]]
  /\ pc' = [pc EXCEPT ![w] = "remove"]
  /\ UNCHANGED <<content, path, tmp, text, using, off, alone, latest, overlap>>

\* It may be another call's by now.
Remove(w) ==
  /\ pc[w] = "remove"
  /\ tmp' = None
  /\ UNCHANGED <<path, latest, overlap>>
  /\ Ends(w)

\* A write fails, or the process dies: the temporary file is left behind.
GivesUp(w) ==
  /\ pc[w] # "idle"
  /\ UNCHANGED <<path, tmp, latest, overlap>>
  /\ Ends(w)

Next == \E w \in Writers :
  Open(w) \/ Write(w) \/ Rename(w) \/ RenameFails(w) \/ Remove(w) \/ GivesUp(w)

Spec == Init /\ [][Next]_vars

-----------------------------------------------------------------------------
(* Properties.                                                             *)

\* Types; a call in progress has an inode open and is within its text.
TypeOK ==
  /\ content \in [Inodes -> Seq(Texts \cup {Hole})]
  /\ path \in Inodes \cup {None} /\ tmp \in Inodes \cup {None}
  /\ pc \in [Writers -> {"idle", "write", "remove"}]
  /\ text \in [Writers -> Texts \cup {None}]
  /\ using \in [Writers -> Inodes \cup {None}]
  /\ off \in [Writers -> Nat]
  /\ alone \in [Writers -> BOOLEAN]
  /\ latest \in Texts
  /\ overlap \in BOOLEAN
  /\ \A w \in Busy : using[w] \in Inodes /\ text[w] \in Texts /\ off[w] <= Length[text[w]]

\* "so partial writes don't leave a corrupted file behind": whatever dies or
\* fails, path holds the last text renamed to it, whole, unless calls have
\* overlapped and none has since written it alone.
WholeUnlessOverlapped ==
  ~overlap /\ path # None => content[path] = Filled(latest, Length[latest])

\* What dead or failed calls left behind does not get in the way: a call that
\* was alone finds the temporary file it has written when it renames it.
LoneCallFindsItsFile ==
  \A w \in Writers : alone[w] /\ pc[w] = "write" =>
    tmp = using[w] /\ content[tmp] = Filled(text[w], off[w])
=============================================================================

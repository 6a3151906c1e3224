------------------------------ MODULE OSStore ------------------------------
(***************************************************************************)
(* The file store under the commands that use it: new, update, append, rm  *)
(* and read, each a process of its own that calls Get, Put and Delete,     *)
(* each of which lists directories, reads, renames, writes and removes     *)
(* files one system call after the other.  No lock covers a command or a   *)
(* store call, so with Serial = FALSE the processes interleave freely.     *)
(*                                                                         *)
(* Abstractions: NextID is one step (IdAlloc shows it is atomic); a month  *)
(* directory is read in one step, and so is the list of the month          *)
(* directories; os.WriteFile of the temporary file is one step that        *)
(* succeeds or leaves the file empty or as it was.                         *)
(***************************************************************************)
EXTENDS NoteFiles, FiniteSets

CONSTANTS
  Procs,     \* processes; each runs one command, and writes its own text
  Commands,  \* the commands a process may be started with
  Keep,      \* an update's slug or date that was not given
  Today,     \* the date new notes get
  Archives,  \* the note files there may be at first
  LastIds,   \* the last_id there may be at first
  NoPath,    \* no file was found
  Serial,    \* a command starts only when no other is running
  Faults     \* what may go wrong: "crash", "io", "skip", "idlag"

Command == [cmd : {"new", "update", "append", "rm", "read"},
            id : Ids \cup {0}, slug : Slugs \cup {Keep}, date : Dates \cup {Keep}]

Files == [Path -> Content \cup {Absent}]

ASSUME OSStoreAssumption ==
  /\ Procs \subseteq Texts
  /\ Commands \subseteq Command
  /\ \A op \in Commands : IF op.cmd = "new" THEN op.slug # Keep ELSE op.id # 0
  /\ Keep \notin Slugs \cup Dates
  /\ Today \in Dates
  /\ Archives \subseteq Files
  /\ LastIds \subseteq Nat
  /\ NoPath \notin Path
  /\ Serial \in BOOLEAN
  /\ Faults \subseteq {"crash", "io", "skip", "idlag"}

VARIABLES
  last,     \* last_id of id.json
  dirs,     \* the month directories
  files,    \* the note files
  tmp,      \* the temporary file of each note file
  pc,       \* the next step of each process
  op,       \* its command
  call,     \* the store call it is in: Get, Put or Delete
  months,   \* the month directories its scan has still to read
  found,    \* the files with its ID that the scan has come across
  ref,      \* the file the scan ended with, or NoPath
  entry,    \* the entry it has read or is about to write
  missing   \* history: the note had no file at some moment of the scan

shared == <<last, dirs, files, tmp>>
locals == <<pc, op, call, months, found, ref, entry, missing>>
vars   == <<last, dirs, files, tmp, pc, op, call, months, found, ref, entry, missing>>

Final   == {"done", "notfound", "nofile", "error", "crashed"}
Steps   == {"idle", "nextid", "list", "scan", "read", "mkdir", "move", "write", "commit",
            "remove", "reread"} \cup Final
Running == Steps \ (Final \cup {"idle"})

Present == {p \in Path : files[p] # Absent}

HasFile(id) == \E p \in Present : p.id = id

\* An entry of which only the ID says anything.
Blank(id) == [id |-> id, slug |-> NoSlug, date |-> Today, dateExplicit |-> FALSE, body |-> {}]

Init ==
  /\ files \in Archives
  /\ \A p, q \in Present : p.id = q.id => p = q
  /\ last \in LastIds
  /\ \A p \in Present : p.id <= last /\ files[p].body \cap Procs = {}
  /\ dirs = {DirPath(p.date) : p \in Present}
  /\ tmp = [p \in Path |-> Absent]
  /\ pc = [c \in Procs |-> "idle"]
  /\ op \in [Procs -> Commands]
  /\ call = [c \in Procs |-> "Get"]
  /\ months = [c \in Procs |-> {}]
  /\ found = [c \in Procs |-> {}]
  /\ ref = [c \in Procs |-> NoPath]
  /\ entry = [c \in Procs |-> Blank(0)]
  /\ missing = [c \in Procs |-> FALSE]

Goto(c, from, to) ==
  /\ pc[c] = from
  /\ pc' = [pc EXCEPT ![c] = to]

\* The ID a store call of c looks for: its command's, or the new note's.
Id(c) == IF op[c].cmd = "new" THEN entry[c].id ELSE op[c].id

-----------------------------------------------------------------------------
(* Mutants, used only to show that the properties below can fail.          *)

IdFilesOfAnyId(c, m) == {p \in Present : DirPath(p.date) = m}

IdFilesByName(c, m) == {p \in Present : p.id = Id(c) /\ DirPath(p.date) = m /\ p.slug = entry[c].slug}

AppendTextReplacing(e, t) == [e EXCEPT !.body = {t}]

AllocateIdWithoutDate(c) ==
  /\ last + 1 \in Ids
  /\ Goto(c, "nextid", "list")
  /\ last' = last + 1
  /\ entry' = [entry EXCEPT ![c] = [@ EXCEPT !.id = last + 1, !.date = NoDate]]
  /\ UNCHANGED <<dirs, files, tmp, op, call, months, found, ref, missing>>

AllocateIdNotCounting(c) ==
  /\ last + 1 \in Ids
  /\ Goto(c, "nextid", "list")
  /\ entry' = [entry EXCEPT ![c] = [@ EXCEPT !.id = last + 1, !.date = Today]]
  /\ UNCHANGED <<shared, op, call, months, found, ref, missing>>

MakeDirWithoutRename(c) ==
  /\ Goto(c, "mkdir", "write")
  /\ dirs' = dirs \cup {DirPath(entry[c].date)}
  /\ UNCHANGED <<last, files, tmp, op, call, months, found, ref, entry, missing>>

RenameNoteRemoving(c) ==
  /\ Goto(c, "move", "write")
  /\ ref[c] \in Present
  /\ files' = [files EXCEPT ![ref[c]] = Absent]
  /\ UNCHANGED <<last, dirs, tmp, op, call, months, found, ref, entry, missing>>

RenameNoteTruncating(c) ==
  /\ Goto(c, "move", "write")
  /\ ref[c] \in Present
  /\ files' = [files EXCEPT ![ref[c]] = Absent, ![PathFor(entry[c])] = Empty]
  /\ UNCHANGED <<last, dirs, tmp, op, call, months, found, ref, entry, missing>>

-----------------------------------------------------------------------------
\* The process ends and its local variables with it; the ID is kept as history.
End(c, how) ==
  /\ pc' = [pc EXCEPT ![c] = how]
  /\ call' = [call EXCEPT ![c] = "Get"]
  /\ months' = [months EXCEPT ![c] = {}]
  /\ found' = [found EXCEPT ![c] = {}]
  /\ ref' = [ref EXCEPT ![c] = NoPath]
  /\ entry' = [entry EXCEPT ![c] = Blank(@.id)]

\* The file a Put of c writes.
NewPath(c) == PathFor(entry[c])

\* The files with the ID of c in a month directory.
IdFiles(c, m) == {p \in Present : p.id = Id(c) /\ DirPath(p.date) = m}

\* sortByRecency, then the first with the ID: files of one day may come in any
\* order.
Newest(paths) == {p \in paths : \A q \in paths : q.date <= p.date}

-----------------------------------------------------------------------------
(* A command: its own lines, and which store call it makes next.           *)

\* The arguments were parsed; new goes straight to Put, the others to Get.
Start(c) ==
  /\ Serial => \A d \in Procs : pc[d] \notin Running
  /\ pc[c] = "idle"
  /\ IF op[c].cmd = "new"
       THEN /\ pc' = [pc EXCEPT ![c] = "nextid"]
            /\ call' = [call EXCEPT ![c] = "Put"]
            /\ entry' = [entry EXCEPT ![c] = [@ EXCEPT !.slug = op[c].slug, !.body = {c}]]
       ELSE /\ pc' = [pc EXCEPT ![c] = "list"]
            /\ UNCHANGED <<call, entry>>
  /\ UNCHANGED <<shared, op, months, found, ref, missing>>

\* The update command's changes to the entry it got.
Update(e, o) ==
  [e EXCEPT !.slug = IF o.slug = Keep THEN @ ELSE o.slug,
            !.date = IF o.date = Keep THEN @ ELSE o.date,
            !.dateExplicit = @ \/ o.date # Keep]

AppendText(e, t) == [e EXCEPT !.body = @ \cup {t}]

\* What each command makes of the entry, and where it goes on: rm calls Delete,
\* read reads the file again under the name derived from the entry.
Edited(c, e) ==
  CASE op[c].cmd = "update" -> Update(e, op[c])
    [] op[c].cmd = "append" -> AppendText(e, c)
    [] OTHER                -> e

AfterGet(c) ==
  /\ pc' = [pc EXCEPT ![c] = IF op[c].cmd = "read" THEN "reread" ELSE "list"]
  /\ call' = [call EXCEPT ![c] = IF op[c].cmd = "rm" THEN "Delete"
                                 ELSE IF op[c].cmd = "read" THEN @ ELSE "Put"]

\* notes read: os.ReadFile(store.AbsPath(entry)).
Reread(c) ==
  /\ pc[c] = "reread"
  /\ End(c, IF PathFor(entry[c]) \in Present THEN "done" ELSE "nofile")
  /\ UNCHANGED <<shared, op, missing>>

-----------------------------------------------------------------------------
(* findFileRef, the scan every store call begins with.                     *)

\* The root and the years are listed; months created later are not seen.
ListMonths(c) ==
  /\ Goto(c, "list", "scan")
  /\ months' = [months EXCEPT ![c] = dirs]
  /\ found' = [found EXCEPT ![c] = {}]
  /\ missing' = [missing EXCEPT ![c] = ~HasFile(Id(c))]
  /\ UNCHANGED <<shared, op, call, ref, entry>>

\* The oldest month that is left is read.
ScanMonth(c) ==
  /\ pc[c] = "scan"
  /\ \E m \in months[c] :
       /\ \A n \in months[c] : m <= n
       /\ months' = [months EXCEPT ![c] = @ \ {m}]
       /\ found' = [found EXCEPT ![c] = @ \cup IdFiles(c, m)]
  /\ UNCHANGED <<shared, pc, op, call, ref, entry, missing>>

\* A month that cannot be read is passed over without an error.
SkipMonth(c) ==
  /\ "skip" \in Faults
  /\ pc[c] = "scan"
  /\ \E m \in months[c] :
       /\ \A n \in months[c] : m <= n
       /\ months' = [months EXCEPT ![c] = @ \ {m}]
  /\ UNCHANGED <<shared, pc, op, call, found, ref, entry, missing>>

\* Put renames or creates; Get reads; Delete removes.
AfterScan(c) ==
  CASE call[c] = "Get"    -> "read"
    [] call[c] = "Put"    -> "mkdir"
    [] call[c] = "Delete" -> "remove"

FoundRef(c) ==
  /\ months[c] = {}
  /\ Goto(c, "scan", AfterScan(c))
  /\ \E p \in Newest(found[c]) : ref' = [ref EXCEPT ![c] = p]
  /\ UNCHANGED <<shared, op, call, months, found, entry, missing>>

\* ErrNotFound: Put takes the note for a new one, Get and Delete return it.
NotFound(c) ==
  /\ pc[c] = "scan"
  /\ months[c] = {}
  /\ found[c] = {}
  /\ IF call[c] = "Put"
       THEN /\ pc' = [pc EXCEPT ![c] = "mkdir"]
            /\ ref' = [ref EXCEPT ![c] = NoPath]
            /\ UNCHANGED <<call, months, found, entry>>
       ELSE End(c, "notfound")
  /\ UNCHANGED <<shared, op, missing>>

-----------------------------------------------------------------------------
(* Get, after its scan.                                                    *)

\* readEntry; a file that has gone since the scan is an error.
ReadEntry(c) ==
  /\ pc[c] = "read"
  /\ ref[c] \in Present
  /\ entry' = [entry EXCEPT ![c] = Edited(c, FrontmatterToMeta(ref[c], files[ref[c]]))]
  /\ AfterGet(c)
  /\ UNCHANGED <<shared, op, months, found, ref, missing>>

\* A process that stops with an error leaves everything else as it is.
FileGone(c) ==
  /\ \/ pc[c] \in {"read", "move", "remove"} /\ ref[c] \notin Present
     \/ pc[c] = "commit" /\ tmp[NewPath(c)] = Absent
  /\ End(c, "error")
  /\ UNCHANGED <<shared, op, missing>>

-----------------------------------------------------------------------------
(* Put, before and after its scan.                                         *)

\* A new note gets an ID and today's date.
AllocateId(c) ==
  /\ last + 1 \in Ids
  /\ Goto(c, "nextid", "list")
  /\ last' = last + 1
  /\ entry' = [entry EXCEPT ![c] = [@ EXCEPT !.id = last + 1, !.date = Today]]
  /\ UNCHANGED <<dirs, files, tmp, op, call, months, found, ref, missing>>

\* os.MkdirAll, and the test whether the file has to be renamed.
MakeDir(c) ==
  /\ Goto(c, "mkdir", IF ref[c] \in {NoPath, NewPath(c)} THEN "write" ELSE "move")
  /\ dirs' = dirs \cup {DirPath(entry[c].date)}
  /\ UNCHANGED <<last, files, tmp, op, call, months, found, ref, entry, missing>>

\* os.Rename(oldPath, newAbsPath) replaces a file of the new name.
RenameNote(c) ==
  /\ Goto(c, "move", "write")
  /\ ref[c] \in Present
  /\ files' = [p \in Path |-> IF p = ref[c] THEN Absent
                              ELSE IF p = NewPath(c) THEN files[ref[c]] ELSE files[p]]
  /\ UNCHANGED <<last, dirs, tmp, op, call, months, found, ref, entry, missing>>

\* WriteAtomic: os.WriteFile of the temporary file.
WriteTmp(c) ==
  /\ Goto(c, "write", "commit")
  /\ tmp' = [tmp EXCEPT ![NewPath(c)] = MetaToFrontmatter(entry[c])]
  /\ UNCHANGED <<last, dirs, files, op, call, months, found, ref, entry, missing>>

\* WriteAtomic: os.Rename of the temporary file.
RenameTmp(c) ==
  /\ pc[c] = "commit"
  /\ tmp[NewPath(c)] # Absent
  /\ files' = [files EXCEPT ![NewPath(c)] = tmp[NewPath(c)]]
  /\ tmp' = [tmp EXCEPT ![NewPath(c)] = Absent]
  /\ End(c, "done")
  /\ UNCHANGED <<last, dirs, op, missing>>

-----------------------------------------------------------------------------
(* Delete, after its scan.                                                 *)

\* The processes whose scan is under way then know of a moment without a file.
RemoveNote(c) ==
  /\ pc[c] = "remove"
  /\ ref[c] \in Present
  /\ files' = [files EXCEPT ![ref[c]] = Absent]
  /\ missing' = [d \in Procs |-> missing[d] \/ ~\E p \in Present \ {ref[c]} : p.id = Id(d)]
  /\ End(c, "done")
  /\ UNCHANGED <<last, dirs, tmp, op>>

-----------------------------------------------------------------------------
(* Failures.                                                               *)

\* What may be left of the temporary file: a write that fails or is cut off
\* leaves it empty, a failed rename removes it.
TmpLeft(c, content) == {tmp, [tmp EXCEPT ![NewPath(c)] = content]}

\* A system call fails, or NextID, and the command returns the error.
Fail(c) ==
  /\ "io" \in Faults
  /\ pc[c] \in Running \ {"scan"}
  /\ tmp' \in CASE pc[c] = "write"  -> TmpLeft(c, Empty)
              [] pc[c] = "commit" -> TmpLeft(c, Absent)
              [] OTHER            -> {tmp}
  /\ End(c, "error")
  /\ UNCHANGED <<last, dirs, files, op, missing>>

\* The process dies, inside NextID perhaps with the ID already counted.
Crash(c) ==
  /\ "crash" \in Faults
  /\ pc[c] \in Running
  /\ last' \in IF pc[c] = "nextid" THEN {last, last + 1} ELSE {last}
  /\ tmp' \in IF pc[c] = "write" THEN TmpLeft(c, Empty) ELSE {tmp}
  /\ End(c, "crashed")
  /\ UNCHANGED <<dirs, files, op, missing>>

\* Whatever synchronises the archive puts an older id.json back.
RestoreIdFile ==
  /\ "idlag" \in Faults
  /\ last' \in LastIds
  /\ last' < last
  /\ UNCHANGED <<dirs, files, tmp, locals>>

Run(c) ==
  \/ Start(c)
  \/ ListMonths(c) \/ ScanMonth(c) \/ SkipMonth(c) \/ FoundRef(c) \/ NotFound(c)
  \/ ReadEntry(c) \/ FileGone(c) \/ Reread(c)
  \/ AllocateId(c) \/ MakeDir(c) \/ RenameNote(c) \/ WriteTmp(c) \/ RenameTmp(c)
  \/ RemoveNote(c)
  \/ Fail(c) \/ Crash(c)

Next == RestoreIdFile \/ \E c \in Procs : Run(c)

Spec == Init /\ [][Next]_vars

-----------------------------------------------------------------------------
(* Properties.                                                             *)

TypeOK ==
  /\ last \in Nat
  /\ dirs \subseteq Nat
  /\ files \in Files
  /\ tmp \in Files
  /\ pc \in [Procs -> Steps]
  /\ op \in [Procs -> Commands]
  /\ call \in [Procs -> {"Get", "Put", "Delete"}]
  /\ months \in [Procs -> SUBSET Nat]
  /\ found \in [Procs -> SUBSET Path]
  /\ ref \in [Procs -> Path \cup {NoPath}]
  /\ entry \in [Procs -> Entry]
  /\ missing \in [Procs -> BOOLEAN]

\* An ID names at most one file, whichever command failed or died at whichever
\* step: Put moves the file it found before it writes the new one, never after.
OneFilePerId == \A p, q \in Present : p.id = q.id => p = q

\* The text of a finished new or append is in its note for as long as nobody
\* removes the note: no later command that rewrites the file, and no failure
\* or crash on its way, loses it.
WrittenTextStays ==
  \A c \in Procs :
    pc[c] = "done" /\ op[c].cmd \in {"new", "append"} =>
      \/ \E p \in Present : p.id = Id(c) /\ c \in files[p].body
      \/ \E d \in Procs : pc[d] = "done" /\ op[d].cmd = "rm" /\ Id(d) = Id(c)

\* read finds a file under the name that AbsPath derives from the entry Get
\* has just returned.
ReadFindsFile == \A c \in Procs : pc[c] # "nofile"

\* Get and Delete report ErrNotFound only for an ID that had no file at some
\* moment of their scan.
NotFoundMeansMissing == \A c \in Procs : pc[c] = "notfound" => missing[c]

\* From the moment a new note has its ID until its file is in place, nobody
\* else has a file of that ID: Put never takes over an older note, and no other
\* command gets hold of the half-made one.
FreshId ==
  \A c \in Procs :
    op[c].cmd = "new" /\ pc[c] \in {"list", "scan", "mkdir", "move", "write", "commit"} =>
      ~HasFile(entry[c].id)

\* Whatever the interleaving, a text only ever gets into the note it was meant
\* for, even when names change under the commands' feet.
NoCrossTalk == \A p \in Present : \A c \in files[p].body \cap Procs : Id(c) = p.id

\* However the commands interleave, fail and die, the last file of an ID goes
\* away only in the final step of an rm of that ID: renames and rewrites never
\* leave a moment without the note.
NoteSurvives ==
  [][\A id \in Ids : HasFile(id) /\ ~HasFile(id)' =>
       \E c \in Procs : op[c].cmd = "rm" /\ Id(c) = id /\ pc[c] = "remove" /\ pc'[c] = "done"]_vars

-----------------------------------------------------------------------------
(* The refinement of Store by commands that do not overlap.                *)

NoNote == Absent

NoteOf(p) ==
  LET e == FrontmatterToMeta(p, files[p])
  IN  [slug |-> e.slug, date |-> e.date, body |-> e.body]

Notes == [id \in Ids |->
            IF HasFile(id) THEN NoteOf(CHOOSE p \in Present : p.id = id) ELSE NoNote]

\* The new notes that have an ID and no file.
Reserved ==
  {entry[c].id : c \in {d \in Procs : /\ op[d].cmd = "new"
                                      /\ pc[d] \in Running \ {"nextid"}}}

Abstract == INSTANCE Store WITH reserved <- Reserved, notes <- Notes

\* Commands that do not overlap keep the promises of Store, whatever fails.
ImplementsStore == Abstract!Spec
=============================================================================

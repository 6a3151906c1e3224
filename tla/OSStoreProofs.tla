--------------------------- MODULE OSStoreProofs ---------------------------
(***************************************************************************)
(* The file store.  First any number of overlapping commands, with every   *)
(* failure the model knows: what holds although nothing is locked.  Then   *)
(* commands one after the other, of which any may fail or die: that they   *)
(* implement Store.                                                        *)
(***************************************************************************)
EXTENDS OSStore, TLAPS

USE NoteFilesAssumption, OSStoreAssumption DEF Command

-----------------------------------------------------------------------------
(* The inductive invariants.                                               *)

PutSteps == {"mkdir", "move", "write", "commit"}

\* Which call each step belongs to, and which command makes the call.
Control(c) ==
  /\ pc[c] \in PutSteps \cup {"nextid"} => call[c] = "Put"
  /\ pc[c] = "read" => call[c] = "Get"
  /\ pc[c] = "remove" => call[c] = "Delete"
  /\ pc[c] = "reread" => op[c].cmd = "read"
  /\ call[c] = "Delete" => op[c].cmd = "rm"
  /\ pc[c] = "idle" => call[c] = "Get"
  /\ pc[c] = "nextid" => op[c].cmd = "new"
  /\ op[c].cmd = "new" /\ pc[c] \in Running => call[c] = "Put"
  /\ op[c].cmd = "new" /\ pc[c] \in {"idle", "nextid"} =>
       entry[c].id = 0 /\ found[c] = {} /\ ref[c] = NoPath

\* Everything a process has found, has chosen or is about to write has the ID it
\* works on.
OneId(c) ==
  /\ \A p \in found[c] : p.id = Id(c)
  /\ ref[c] # NoPath => ref[c].id = Id(c)
  /\ pc[c] \in {"read", "move", "remove"} => ref[c] # NoPath
  /\ pc[c] = "move" => ref[c] # NewPath(c)
  /\ call[c] = "Put" /\ pc[c] # "nextid" => entry[c].id \in Ids /\ entry[c].id = Id(c)

Ready == TypeOK /\ \A c \in Procs : Control(c) /\ OneId(c)

-----------------------------------------------------------------------------
(* Types.                                                                  *)

LEMMA DirPathType == \A d \in Dates : DirPath(d) \in Nat
  BY DEF DirPath

LEMMA FrontmatterToMetaType ==
  ASSUME NEW p \in Path, NEW k \in Content
  PROVE  /\ FrontmatterToMeta(p, k) \in Entry
         /\ FrontmatterToMeta(p, k).id = p.id
         /\ FrontmatterToMeta(p, k).body = k.body
  BY DEF FrontmatterToMeta, Path, Content, Entry

LEMMA MetaToFrontmatterType ==
  ASSUME NEW e \in Entry
  PROVE  /\ MetaToFrontmatter(e) \in Content
         /\ MetaToFrontmatter(e).body = e.body
  BY DEF MetaToFrontmatter, Content, Entry

LEMMA PathForType ==
  ASSUME NEW e \in Entry, e.id \in Ids
  PROVE  PathFor(e) \in Path /\ PathFor(e).id = e.id
  BY DEF PathFor, Path, Entry

LEMMA EmptyType == Empty \in Content /\ Empty.body = {}
  BY DEF Empty, Content

LEMMA BlankType ==
  ASSUME NEW i \in Ids \cup {0}
  PROVE  Blank(i) \in Entry /\ Blank(i).id = i /\ Blank(i).body = {}
  BY DEF Blank, Entry

\* What a command makes of an entry keeps the ID, and adds at most its text.
LEMMA EditedType ==
  ASSUME NEW c \in Procs, NEW e \in Entry, op[c] \in Commands
  PROVE  /\ Edited(c, e) \in Entry
         /\ Edited(c, e).id = e.id
         /\ Edited(c, e).body \subseteq e.body \cup {c}
<1>1. CASE op[c].cmd = "update"
  <2>1. Edited(c, e) = Update(e, op[c])
    BY <1>1 DEF Edited
  <2>2. op[c].slug \in Slugs \cup {Keep} /\ op[c].date \in Dates \cup {Keep}
    OBVIOUS
  <2> QED BY <2>1, <2>2 DEF Update, Entry
<1>2. CASE op[c].cmd = "append"
  <2>1. Edited(c, e) = AppendText(e, c)
    BY <1>2 DEF Edited
  <2> QED BY <2>1 DEF AppendText, Entry
<1>3. CASE op[c].cmd \notin {"update", "append"}
  BY <1>3 DEF Edited
<1> QED BY <1>1, <1>2, <1>3

LEMMA InitType == Init => TypeOK
<1> SUFFICES ASSUME Init PROVE TypeOK
  OBVIOUS
<1>1. dirs \subseteq Nat
  <2>1. \A p \in Present : p.date \in Dates
    BY DEF Present, Path
  <2>2. dirs = {DirPath(p.date) : p \in Present}
    BY DEF Init
  <2>3. \A p \in Present : DirPath(p.date) \in Nat
    BY <2>1, DirPathType
  <2> QED BY ONLY <2>2, <2>3
<1>2. entry \in [Procs -> Entry]
  BY BlankType DEF Init
<1> QED BY <1>1, <1>2 DEF Init, TypeOK, Files, Steps, Path

\* The end of a process, whatever ends it.
LEMMA EndType ==
  ASSUME TypeOK, NEW c \in Procs, NEW how \in Final, End(c, how)
  PROVE  /\ pc' \in [Procs -> Steps]
         /\ call' \in [Procs -> {"Get", "Put", "Delete"}]
         /\ months' \in [Procs -> SUBSET Nat]
         /\ found' \in [Procs -> SUBSET Path]
         /\ ref' \in [Procs -> Path \cup {NoPath}]
         /\ entry' \in [Procs -> Entry]
<1>1. entry[c].id \in Ids \cup {0}
  BY DEF TypeOK, Entry
<1>2. Blank(entry[c].id) \in Entry
  BY <1>1, BlankType
<1> QED BY <1>2 DEF TypeOK, End, Steps

\* Every step keeps the types.
LEMMA NextType ==
  ASSUME TypeOK, [Next]_vars
  PROVE  TypeOK'
<1> USE DEF shared, locals
<1>1. CASE UNCHANGED vars
  BY <1>1 DEF vars, TypeOK
<1>2. CASE RestoreIdFile
  BY <1>2 DEF RestoreIdFile, TypeOK
<1>3. ASSUME NEW c \in Procs, Run(c)
      PROVE  TypeOK'
  <2>0. /\ entry[c] \in Entry /\ op[c] \in Commands
        /\ MetaToFrontmatter(entry[c]) \in Content
        /\ Empty \in Content
        /\ DirPath(entry[c].date) \in Nat
    <3>1. entry[c] \in Entry /\ op[c] \in Commands
      BY DEF TypeOK
    <3> QED BY <3>1, MetaToFrontmatterType, EmptyType, DirPathType DEF Entry
  <2>1. CASE Start(c)
    <3>1. op[c].cmd = "new" => op[c].slug \in Slugs
      BY <2>0
    <3>2. op[c].cmd = "new" => [entry[c] EXCEPT !.slug = op[c].slug, !.body = {c}] \in Entry
      BY <2>0, <3>1 DEF Entry
    <3>3. entry' \in [Procs -> Entry]
      <4>1. CASE op[c].cmd = "new"
        <5>1. entry' = [entry EXCEPT ![c] = [entry[c] EXCEPT !.slug = op[c].slug, !.body = {c}]]
          BY <2>1, <4>1 DEF Start, TypeOK
        <5> QED BY <4>1, <5>1, <3>2 DEF TypeOK
      <4>2. CASE op[c].cmd # "new"
        BY <2>1, <4>2 DEF Start, TypeOK
      <4> QED BY <4>1, <4>2
    <3> QED BY <2>1, <3>3 DEF Start, TypeOK, Steps
  <2>2. CASE ListMonths(c) \/ ScanMonth(c) \/ SkipMonth(c)
    <3>1. \A m : IdFiles(c, m) \subseteq Path
      BY DEF IdFiles, Present
    <3>2. months' \in [Procs -> SUBSET Nat] /\ found' \in [Procs -> SUBSET Path]
      <4>1. CASE ListMonths(c)
        BY <4>1 DEF ListMonths, TypeOK
      <4>2. CASE ScanMonth(c)
        BY <4>2, <3>1 DEF ScanMonth, TypeOK
      <4>3. CASE SkipMonth(c)
        BY <4>3 DEF SkipMonth, TypeOK
      <4> QED BY <2>2, <4>1, <4>2, <4>3
    <3>3. missing' \in [Procs -> BOOLEAN]
      BY <2>2 DEF ListMonths, ScanMonth, SkipMonth, TypeOK
    <3> QED BY <2>2, <3>2, <3>3 DEF ListMonths, ScanMonth, SkipMonth, Goto, TypeOK, Steps
  <2>3. CASE FoundRef(c)
    <3>1. Newest(found[c]) \subseteq Path /\ AfterScan(c) \in Steps
      BY DEF TypeOK, Newest, AfterScan, Steps
    <3> QED BY <2>3, <3>1 DEF FoundRef, Goto, TypeOK
  <2>4. CASE NotFound(c)
    <3>1. CASE call[c] = "Put"
      BY <2>4, <3>1 DEF NotFound, TypeOK, Steps
    <3>2. CASE call[c] # "Put"
      BY <2>4, <3>2, EndType DEF NotFound, TypeOK, Final
    <3> QED BY <3>1, <3>2
  <2>5. CASE ReadEntry(c)
    <3>1. ref[c] \in Path /\ files[ref[c]] \in Content
      BY <2>5 DEF ReadEntry, Present, TypeOK, Files
    <3>2. Edited(c, FrontmatterToMeta(ref[c], files[ref[c]])) \in Entry
      BY <2>0, <3>1, FrontmatterToMetaType, EditedType
    <3> QED BY <2>5, <3>2 DEF ReadEntry, AfterGet, TypeOK, Steps
  <2>6. CASE FileGone(c) \/ Reread(c)
    BY <2>6, EndType DEF FileGone, Reread, TypeOK, Final
  <2>7. CASE AllocateId(c)
    <3>1. [entry[c] EXCEPT !.id = last + 1, !.date = Today] \in Entry
      BY <2>7, <2>0 DEF AllocateId, Entry
    <3> QED BY <2>7, <3>1 DEF AllocateId, Goto, TypeOK, Steps
  <2>8. CASE MakeDir(c)
    BY <2>8, <2>0 DEF MakeDir, Goto, TypeOK, Steps
  <2>9. CASE RenameNote(c)
    <3>1. files[ref[c]] \in Content
      BY <2>9 DEF RenameNote, Present, TypeOK, Files
    <3> QED BY <2>9, <3>1 DEF RenameNote, Goto, TypeOK, Steps, Files
  <2>10. CASE WriteTmp(c)
    BY <2>10, <2>0 DEF WriteTmp, Goto, TypeOK, Steps, Files
  <2>11. CASE RenameTmp(c)
    <3>1. files' \in Files /\ tmp' \in Files
      <4>1. CASE NewPath(c) \in Path
        BY <2>11, <4>1 DEF RenameTmp, TypeOK, Files
      <4>2. CASE NewPath(c) \notin Path
        BY <2>11, <4>2 DEF RenameTmp, TypeOK, Files
      <4> QED BY <4>1, <4>2
    <3> QED BY <2>11, <3>1, EndType DEF RenameTmp, TypeOK, Final
  <2>12. CASE RemoveNote(c)
    <3>1. files' \in Files /\ missing' \in [Procs -> BOOLEAN]
      BY <2>12 DEF RemoveNote, TypeOK, Files
    <3> QED BY <2>12, <3>1, EndType DEF RemoveNote, TypeOK, Final
  <2>13. CASE Fail(c) \/ Crash(c)
    <3>0. \A k \in Content \cup {Absent} : [tmp EXCEPT ![NewPath(c)] = k] \in Files
      BY DEF TypeOK, Files
    <3>1. \A k \in {Empty, Absent} : TmpLeft(c, k) \subseteq Files
      <4> SUFFICES ASSUME NEW k \in {Empty, Absent}
                   PROVE  TmpLeft(c, k) \subseteq Files
        OBVIOUS
      <4>1. [tmp EXCEPT ![NewPath(c)] = k] \in Files /\ tmp \in Files
        BY <2>0, <3>0 DEF TypeOK
      <4> QED BY <4>1 DEF TmpLeft
    <3>2. tmp' \in Files /\ last' \in Nat /\ UNCHANGED <<dirs, files, op, missing>>
      BY <2>13, <3>1 DEF Fail, Crash, TypeOK
    <3> QED BY <2>13, <3>2, EndType DEF Fail, Crash, TypeOK, Final
  <2> QED BY <1>3, <2>1, <2>2, <2>3, <2>4, <2>5, <2>6, <2>7, <2>8, <2>9, <2>10, <2>11, <2>12, <2>13
          DEF Run
<1> QED BY <1>1, <1>2, <1>3 DEF Next

\* The variables keep their types, whatever the commands do to each other.
THEOREM TypeCorrect == Spec => []TypeOK
  BY InitType, NextType, PTL DEF Spec

-----------------------------------------------------------------------------
(* Each process keeps to one ID.                                           *)

\* A step of c changes no other process's variables.
Frame(c) ==
  /\ UNCHANGED op
  /\ \A d \in Procs \ {c} :
       /\ pc'[d] = pc[d] /\ call'[d] = call[d] /\ months'[d] = months[d]
       /\ found'[d] = found[d] /\ ref'[d] = ref[d] /\ entry'[d] = entry[d]

LEMMA RunFrame ==
  ASSUME TypeOK, NEW c \in Procs, Run(c)
  PROVE  Frame(c)
<1>1. CASE Start(c) \/ ListMonths(c) \/ ScanMonth(c) \/ SkipMonth(c) \/ FoundRef(c)
  BY <1>1 DEF Frame, TypeOK, Goto, Start, ListMonths, ScanMonth, SkipMonth, FoundRef
<1>2. CASE NotFound(c) \/ ReadEntry(c) \/ FileGone(c) \/ Reread(c)
  BY <1>2 DEF Frame, TypeOK, NotFound, ReadEntry, FileGone, Reread, AfterGet, End
<1>3. CASE AllocateId(c) \/ MakeDir(c) \/ RenameNote(c) \/ WriteTmp(c)
  BY <1>3 DEF Frame, TypeOK, Goto, AllocateId, MakeDir, RenameNote, WriteTmp
<1>4. CASE RenameTmp(c) \/ RemoveNote(c) \/ Fail(c) \/ Crash(c)
  BY <1>4 DEF Frame, TypeOK, End, RenameTmp, RemoveNote, Fail, Crash
<1> QED BY <1>1, <1>2, <1>3, <1>4 DEF Run

\* The process that ends.
LEMMA EndReady ==
  ASSUME Ready, NEW c \in Procs, NEW how \in Final, End(c, how), UNCHANGED op
  PROVE  Control(c)' /\ OneId(c)' /\ Id(c)' = Id(c)
<1>1. entry[c].id \in Ids \cup {0}
  BY DEF Ready, TypeOK, Entry
<1>2. /\ pc'[c] = how /\ call'[c] = "Get" /\ found'[c] = {} /\ ref'[c] = NoPath
      /\ entry'[c].id = entry[c].id
  BY <1>1, BlankType DEF Ready, TypeOK, End
<1> QED BY <1>2 DEF Control, OneId, Id, NewPath, PutSteps, Final, Running, Steps

LEMMA NextReady ==
  ASSUME Ready, [Next]_vars
  PROVE  Ready'
<1>0. TypeOK'
  BY NextType DEF Ready
<1>1. CASE UNCHANGED vars \/ RestoreIdFile
  BY <1>0, <1>1 DEF Ready, vars, RestoreIdFile, locals, Control, OneId, Id, NewPath
<1>2. ASSUME NEW c \in Procs, Run(c)
      PROVE  Ready'
  <2>0. TypeOK /\ Control(c) /\ OneId(c)
    BY DEF Ready
  <2>1. Control(c)' /\ OneId(c)'
    <3> USE <2>0 DEF PutSteps, Final, Running, Steps
    <3>1. CASE Start(c)
      <4>1. pc[c] = "idle" /\ call[c] = "Get" /\ op' = op /\ found' = found /\ ref' = ref
        BY <3>1 DEF Start, Control
      <4>2. CASE op[c].cmd = "new"
        <5>1. pc'[c] = "nextid" /\ call'[c] = "Put" /\ entry'[c].id = entry[c].id
          <6>1. entry[c] \in Entry
            BY DEF TypeOK
          <6>2. entry' = [entry EXCEPT ![c] = [entry[c] EXCEPT !.slug = op[c].slug, !.body = {c}]]
            BY <3>1, <4>2 DEF Start, TypeOK
          <6>3. entry'[c] = [entry[c] EXCEPT !.slug = op[c].slug, !.body = {c}]
            BY <6>2 DEF TypeOK
          <6>4. entry'[c].id = entry[c].id
            BY <6>1, <6>3 DEF Entry
          <6> QED BY <3>1, <4>2, <6>4 DEF Start, TypeOK
        <5> QED BY <4>1, <4>2, <5>1 DEF Control, OneId, Id, NewPath
      <4>3. CASE op[c].cmd # "new"
        <5>1. pc'[c] = "list" /\ call'[c] = "Get"
          BY <3>1, <4>1, <4>3 DEF Start, TypeOK
        <5> QED BY <4>1, <4>3, <5>1 DEF Control, OneId, Id, NewPath
      <4> QED BY <4>2, <4>3
    <3>2. CASE ListMonths(c) \/ ScanMonth(c) \/ SkipMonth(c)
      <4>1. \A m : \A p \in IdFiles(c, m) : p.id = Id(c)
        BY DEF IdFiles
      <4>2. pc[c] \in {"list", "scan"} /\ pc'[c] = "scan"
            /\ UNCHANGED <<op, call, ref, entry>>
        BY <3>2 DEF ListMonths, ScanMonth, SkipMonth, Goto, TypeOK
      <4>3. \A p \in found'[c] : p.id = Id(c)
        BY <3>2, <4>1 DEF ListMonths, ScanMonth, SkipMonth, TypeOK, OneId
      <4> QED BY <4>2, <4>3 DEF Control, OneId, Id, NewPath
    <3>3. CASE FoundRef(c)
      <4>1. pc[c] = "scan" /\ pc'[c] = AfterScan(c) /\ UNCHANGED <<op, call, found, entry>>
        BY <3>3 DEF FoundRef, Goto, TypeOK
      <4>2. ref'[c] \in found[c] /\ ref'[c] # NoPath
        BY <3>3 DEF FoundRef, Newest, TypeOK
      <4>3. call[c] \in {"Get", "Put", "Delete"}
        BY DEF TypeOK
      <4>4. /\ call[c] = "Get" => pc'[c] = "read"
            /\ call[c] = "Put" => pc'[c] = "mkdir"
            /\ call[c] = "Delete" => pc'[c] = "remove"
        BY <4>1 DEF AfterScan
      <4> QED BY <4>1, <4>2, <4>3, <4>4 DEF Control, OneId, Id, NewPath
    <3>4. CASE NotFound(c)
      <4>1. CASE call[c] = "Put"
        <5>1. pc[c] = "scan" /\ pc'[c] = "mkdir" /\ ref'[c] = NoPath
              /\ UNCHANGED <<op, call, found, entry>>
          BY <3>4, <4>1 DEF NotFound, TypeOK
        <5> QED BY <4>1, <5>1 DEF Control, OneId, Id, NewPath
      <4>2. CASE call[c] # "Put"
        BY <3>4, <4>2, EndReady DEF NotFound
      <4> QED BY <4>1, <4>2
    <3>5. CASE ReadEntry(c)
      <4>1. ref[c] \in Path /\ files[ref[c]] \in Content /\ ref[c] # NoPath
        BY <3>5 DEF ReadEntry, Present, TypeOK, Files
      <4>2. entry'[c].id = ref[c].id /\ ref[c].id \in Ids /\ ref[c].id = Id(c)
        BY <3>5, <4>1, FrontmatterToMetaType, EditedType DEF ReadEntry, TypeOK, OneId, Path
      <4>3. pc[c] = "read" /\ call[c] = "Get" /\ op[c].cmd # "new" /\ UNCHANGED <<op, found, ref>>
        BY <3>5 DEF ReadEntry, Control
      <4>4. pc'[c] \in {"reread", "list"} /\ call'[c] \in {"Get", "Put", "Delete"}
            /\ (call'[c] = "Delete" => op[c].cmd = "rm")
            /\ (pc'[c] = "reread" => op[c].cmd = "read")
        BY <3>5, <4>3 DEF ReadEntry, AfterGet, TypeOK
      <4> QED BY <4>2, <4>3, <4>4 DEF Control, OneId, Id, NewPath
    <3>6. CASE FileGone(c) \/ Reread(c) \/ RenameTmp(c) \/ RemoveNote(c) \/ Fail(c) \/ Crash(c)
      BY <3>6, EndReady DEF FileGone, Reread, RenameTmp, RemoveNote, Fail, Crash
    <3>7. CASE AllocateId(c)
      <4>1. pc[c] = "nextid" /\ pc'[c] = "list" /\ UNCHANGED <<op, call, found, ref>>
        BY <3>7 DEF AllocateId, Goto, TypeOK
      <4>2. entry'[c].id = last + 1 /\ last + 1 \in Ids
        BY <3>7 DEF AllocateId, TypeOK, Entry
      <4> QED BY <4>1, <4>2 DEF Control, OneId, Id, NewPath
    <3>8. CASE MakeDir(c) \/ RenameNote(c) \/ WriteTmp(c)
      <4>1. pc[c] \in PutSteps /\ pc'[c] \in PutSteps /\ UNCHANGED <<op, call, found, ref, entry>>
        BY <3>8 DEF MakeDir, RenameNote, WriteTmp, Goto, TypeOK
      <4>2. pc'[c] = "move" => ref[c] # NoPath /\ ref[c] # NewPath(c)
        BY <3>8 DEF MakeDir, RenameNote, WriteTmp, Goto, TypeOK
      <4> QED BY <4>1, <4>2 DEF Control, OneId, Id, NewPath
    <3> QED BY <1>2, <3>1, <3>2, <3>3, <3>4, <3>5, <3>6, <3>7, <3>8 DEF Run
  <2>2. ASSUME NEW d \in Procs \ {c}
        PROVE  Control(d)' /\ OneId(d)'
    <3>1. Control(d) /\ OneId(d) /\ Frame(c)
      BY <1>2, RunFrame DEF Ready
    <3> QED BY <3>1 DEF Frame, Control, OneId, Id, NewPath
  <2> QED BY <1>0, <2>1, <2>2 DEF Ready
<1> QED BY <1>1, <1>2 DEF Next

LEMMA InitReady == Init => Ready
  BY InitType, BlankType
  DEF Ready, Init, TypeOK, Control, OneId, Id, NewPath, PutSteps, Running, Steps, Final

LEMMA ReadyInvariant == Spec => []Ready
  BY InitReady, NextReady, PTL DEF Spec

-----------------------------------------------------------------------------
(* A note survives everything but its own removal.                         *)

\* Put writes to a name with the ID it works on, and so does its rename.
LEMMA NewPathId ==
  ASSUME Ready, NEW c \in Procs, pc[c] \in PutSteps
  PROVE  NewPath(c) \in Path /\ NewPath(c).id = Id(c) /\ entry[c].id = Id(c)
<1>1. entry[c] \in Entry /\ entry[c].id \in Ids /\ entry[c].id = Id(c)
  BY DEF Ready, TypeOK, Control, OneId, PutSteps
<1> QED BY <1>1, PathForType DEF NewPath

\* The steps that change note files, and what they do to them.
LEMMA FileSteps ==
  ASSUME Ready, [Next]_vars, files' # files
  PROVE  \E c \in Procs : RenameNote(c) \/ RenameTmp(c) \/ RemoveNote(c)
<1>1. PICK c \in Procs : Run(c)
  BY DEF Next, RestoreIdFile, vars
<1> QED
  BY <1>1 DEF Run, shared, Start, ListMonths, ScanMonth, SkipMonth, FoundRef, NotFound, ReadEntry,
              FileGone, Reread, AllocateId, MakeDir, WriteTmp, Fail, Crash

\* Renaming and committing leave a file for every ID that had one.
LEMMA RenamesKeep ==
  ASSUME Ready, NEW c \in Procs, RenameNote(c) \/ RenameTmp(c), NEW id \in Ids, HasFile(id)
  PROVE  HasFile(id)'
<1>0. files \in Files /\ tmp \in Files
  BY DEF Ready, TypeOK
<1>1. PICK p \in Path : files[p] # Absent /\ p.id = id
  BY DEF HasFile, Present
<1>2. pc[c] \in PutSteps
  BY DEF RenameNote, RenameTmp, Goto, PutSteps
<1>3. NewPath(c) \in Path /\ NewPath(c).id = Id(c)
  BY <1>2, NewPathId
<1>4. CASE RenameNote(c)
  <2>1. ref[c] \in Path /\ ref[c].id = Id(c) /\ files[ref[c]] # Absent
    BY <1>4 DEF RenameNote, Goto, Present, Ready, OneId, TypeOK
  <2>2. CASE p = ref[c]
    <3>1. NewPath(c) # ref[c]
      BY <1>4 DEF RenameNote, Goto, Ready, OneId
    <3>2. files'[NewPath(c)] # Absent
      BY <1>3, <1>4, <2>1, <3>1 DEF RenameNote
    <3> QED BY <1>1, <1>3, <2>1, <2>2, <3>2 DEF HasFile, Present
  <2>3. CASE p # ref[c]
    <3>1. files'[p] # Absent
      BY <1>0, <1>1, <1>4, <2>1, <2>3 DEF RenameNote, Files
    <3> QED BY <3>1, <1>1 DEF HasFile, Present
  <2> QED BY <2>2, <2>3
<1>5. CASE RenameTmp(c)
  <2>1. files'[p] # Absent
    BY <1>0, <1>1, <1>3, <1>5 DEF RenameTmp, Files
  <2> QED BY <2>1, <1>1 DEF HasFile, Present
<1> QED BY <1>4, <1>5

\* However many commands overlap, fail and die, and even with an id.json that
\* lags behind, only the last step of an rm takes the last file of an ID away.
THEOREM NotesSurvive == Spec => NoteSurvives
<1>1. ASSUME Ready, [Next]_vars, NEW id \in Ids, HasFile(id), ~HasFile(id)'
      PROVE  \E c \in Procs : op[c].cmd = "rm" /\ Id(c) = id /\ pc[c] = "remove" /\ pc'[c] = "done"
  <2>1. files' # files
    BY <1>1 DEF HasFile, Present
  <2>2. PICK c \in Procs : RemoveNote(c)
    BY <1>1, <2>1, FileSteps, RenamesKeep
  <2>3. pc[c] = "remove" /\ pc'[c] = "done" /\ op[c].cmd = "rm" /\ ref[c] \in Path /\ ref[c].id = Id(c)
    BY <1>1, <2>2 DEF Ready, TypeOK, Control, OneId, RemoveNote, End, Present
  <2>4. PICK p \in Path : files[p] # Absent /\ p.id = id
    BY <1>1 DEF HasFile, Present
  <2>5. p = ref[c]
    <3>1. p # ref[c] => files'[p] # Absent
      BY <1>1, <2>2, <2>4 DEF RemoveNote, Ready, TypeOK, Files
    <3> QED BY <3>1, <1>1, <2>4 DEF HasFile, Present
  <2> QED BY <2>3, <2>4, <2>5
<1>2. Ready /\ [Next]_vars =>
        [\A id \in Ids : HasFile(id) /\ ~HasFile(id)' =>
           \E c \in Procs : op[c].cmd = "rm" /\ Id(c) = id /\ pc[c] = "remove" /\ pc'[c] = "done"]_vars
  BY <1>1
<1> QED BY <1>2, ReadyInvariant, PTL DEF Spec, NoteSurvives

-----------------------------------------------------------------------------
(* A text only gets into the note it was meant for.                        *)

\* Every process's text in a body is meant for the note of that ID.
Own(body, id) == \A d \in body \cap Procs : Id(d) = id

\* The text of a new note is nowhere before the note has its ID.
Unwritten(n) ==
  /\ entry[n].body \subseteq {n}
  /\ \A p \in Path : files[p] # Absent => n \notin files[p].body
  /\ \A p \in Path : tmp[p] # Absent => n \notin tmp[p].body
  /\ \A e \in Procs \ {n} : n \notin entry[e].body

TextInv ==
  /\ \A p \in Path : /\ files[p] # Absent => Own(files[p].body, p.id)
                     /\ tmp[p] # Absent => Own(tmp[p].body, p.id)
  /\ \A c \in Procs :
       /\ Own(entry[c].body, entry[c].id)
       /\ op[c].cmd = "new" /\ pc[c] \in {"idle", "nextid"} => Unwritten(c)

\* Only AllocateId changes the ID a process works on.
LEMMA IdKept ==
  ASSUME Ready, NEW c \in Procs, Run(c), ~AllocateId(c)
  PROVE  \A d \in Procs : Id(d)' = Id(d)
<1>1. \A d \in Procs \ {c} : Id(d)' = Id(d)
  BY RunFrame DEF Ready, Frame, Id
<1>2. op' = op
  BY RunFrame DEF Ready, Frame
<1>3. op[c].cmd = "new" => entry'[c].id = entry[c].id
  <2>0. TypeOK /\ Control(c) /\ entry[c] \in Entry
    BY DEF Ready, TypeOK
  <2>1. CASE Start(c)
    <3>1. op[c].cmd = "new" =>
            entry'[c] = [entry[c] EXCEPT !.slug = op[c].slug, !.body = {c}]
      BY <2>0, <2>1 DEF Start, TypeOK
    <3> QED BY <2>0, <3>1 DEF Entry
  <2>2. CASE ReadEntry(c)
    BY <2>0, <2>2 DEF ReadEntry, Control, Running, Steps, Final
  <2>3. ASSUME NEW how, End(c, how) PROVE entry'[c].id = entry[c].id
    <3>1. entry'[c] = Blank(entry[c].id) /\ entry[c].id \in Ids \cup {0}
      BY <2>0, <2>3 DEF End, TypeOK, Entry
    <3> QED BY <3>1, BlankType
  <2>4. CASE NotFound(c)
    BY <2>3, <2>4 DEF NotFound
  <2>5. CASE FileGone(c) \/ Reread(c) \/ RenameTmp(c) \/ RemoveNote(c) \/ Fail(c) \/ Crash(c)
    BY <2>3, <2>5 DEF FileGone, Reread, RenameTmp, RemoveNote, Fail, Crash
  <2>6. CASE ListMonths(c) \/ ScanMonth(c) \/ SkipMonth(c) \/ FoundRef(c) \/ MakeDir(c)
             \/ RenameNote(c) \/ WriteTmp(c)
    BY <2>6 DEF ListMonths, ScanMonth, SkipMonth, FoundRef, MakeDir, RenameNote, WriteTmp
  <2> QED BY <2>1, <2>2, <2>4, <2>5, <2>6 DEF Run
<1> QED BY <1>1, <1>2, <1>3 DEF Id

\* Where the content of a note file or of a temporary file can come from: the
\* same file, another file of the same ID, or the entry of a Put of that ID.
LEMMA ContentOrigin ==
  ASSUME Ready, NEW c \in Procs, Run(c), NEW p \in Path
  PROVE  /\ files'[p] # Absent =>
              \E q \in Path : /\ q.id = p.id
                              /\ \/ files[q] # Absent /\ files'[p] = files[q]
                                 \/ tmp[q] # Absent /\ files'[p] = tmp[q]
         /\ tmp'[p] # Absent =>
              \/ tmp[p] # Absent /\ tmp'[p] = tmp[p]
              \/ tmp'[p].body = {}
              \/ entry[c].id = p.id /\ tmp'[p].body = entry[c].body
<1>0. files \in Files /\ tmp \in Files
  BY DEF Ready, TypeOK
<1>1. CASE RenameNote(c)
  <2>1. NewPath(c) \in Path /\ NewPath(c).id = Id(c)
    BY <1>1, NewPathId DEF RenameNote, Goto, PutSteps
  <2>2. ref[c] \in Path /\ ref[c].id = Id(c) /\ files[ref[c]] # Absent
    BY <1>1 DEF RenameNote, Goto, Present, Ready, OneId, TypeOK
  <2>3. CASE p = NewPath(c)
    BY <1>1, <2>1, <2>2, <2>3 DEF RenameNote
  <2>4. CASE p # NewPath(c)
    BY <1>1, <2>4 DEF RenameNote
  <2> QED BY <2>3, <2>4
<1>2. CASE WriteTmp(c)
  <2>1. NewPath(c) \in Path /\ NewPath(c).id = entry[c].id
    BY <1>2, NewPathId DEF WriteTmp, Goto, PutSteps
  <2>2. MetaToFrontmatter(entry[c]).body = entry[c].body
    BY MetaToFrontmatterType DEF Ready, TypeOK
  <2>3. CASE p = NewPath(c)
    BY <1>0, <1>2, <2>1, <2>2, <2>3 DEF WriteTmp, Files
  <2>4. CASE p # NewPath(c)
    BY <1>0, <1>2, <2>4 DEF WriteTmp, Files
  <2> QED BY <2>3, <2>4
<1>3. CASE RenameTmp(c)
  <2>1. NewPath(c) \in Path
    BY <1>3, NewPathId DEF RenameTmp, PutSteps
  <2>2. CASE p = NewPath(c)
    BY <1>0, <1>3, <2>1, <2>2 DEF RenameTmp, Files
  <2>3. CASE p # NewPath(c)
    BY <1>0, <1>3, <2>3 DEF RenameTmp, Files
  <2> QED BY <2>2, <2>3
<1>4. CASE RemoveNote(c)
  BY <1>0, <1>4 DEF RemoveNote, Files
<1>5. CASE Fail(c) \/ Crash(c)
  <2>1. files' = files
    BY <1>5 DEF Fail, Crash
  <2>2. tmp' \in TmpLeft(c, Empty) \cup TmpLeft(c, Absent) \cup {tmp}
    BY <1>5 DEF Fail, Crash
  <2>3. tmp'[p] \in {tmp[p], Empty, Absent}
    BY <1>0, <2>2 DEF TmpLeft, Files
  <2> QED BY <2>1, <2>3, EmptyType
<1>6. CASE UNCHANGED <<files, tmp>>
  BY <1>6
<1>7. CASE Start(c) \/ ListMonths(c) \/ ScanMonth(c) \/ SkipMonth(c) \/ FoundRef(c) \/ NotFound(c)
           \/ ReadEntry(c) \/ FileGone(c) \/ Reread(c) \/ AllocateId(c) \/ MakeDir(c)
  BY <1>6, <1>7 DEF shared, Start, ListMonths, ScanMonth, SkipMonth, FoundRef, NotFound, ReadEntry,
                    FileGone, Reread, AllocateId, MakeDir
<1> QED BY <1>1, <1>2, <1>3, <1>4, <1>5, <1>7 DEF Run

\* Where the entry of a process can come from.
LEMMA EntryOrigin ==
  ASSUME Ready, NEW c \in Procs, Run(c)
  PROVE  \/ entry'[c].body = entry[c].body /\ entry'[c].id = entry[c].id
         \/ AllocateId(c) /\ entry'[c].body = entry[c].body
         \/ entry'[c].body = {}
         \/ entry'[c].body = {c} /\ op[c].cmd = "new" /\ entry'[c].id = entry[c].id
         \/ /\ ref[c] \in Path /\ files[ref[c]] # Absent /\ entry'[c].id = ref[c].id
            /\ ref[c].id = Id(c)
            /\ entry'[c].body \subseteq files[ref[c]].body \cup {c}
<1>0. TypeOK /\ Control(c) /\ OneId(c) /\ entry[c] \in Entry
  BY DEF Ready, TypeOK
<1>1. CASE Start(c)
  <2>1. CASE op[c].cmd = "new"
    <3>1. entry'[c] = [entry[c] EXCEPT !.slug = op[c].slug, !.body = {c}]
      BY <1>0, <1>1, <2>1 DEF Start, TypeOK
    <3> QED BY <1>0, <2>1, <3>1 DEF Entry
  <2>2. CASE op[c].cmd # "new"
    BY <1>1, <2>2 DEF Start
  <2> QED BY <2>1, <2>2
<1>2. CASE ReadEntry(c)
  <2>1. ref[c] \in Path /\ files[ref[c]] \in Content /\ files[ref[c]] # Absent /\ ref[c].id = Id(c)
    BY <1>0, <1>2 DEF ReadEntry, Present, TypeOK, Files, OneId
  <2>2. entry'[c] = Edited(c, FrontmatterToMeta(ref[c], files[ref[c]])) /\ op[c] \in Commands
    BY <1>0, <1>2 DEF ReadEntry, TypeOK
  <2> QED BY <2>1, <2>2, FrontmatterToMetaType, EditedType
<1>3. CASE AllocateId(c)
  <2>1. entry'[c] = [entry[c] EXCEPT !.id = last + 1, !.date = Today]
    BY <1>0, <1>3 DEF AllocateId, TypeOK
  <2> QED BY <1>0, <1>3, <2>1 DEF Entry
<1>4. ASSUME NEW how, End(c, how) PROVE entry'[c].body = {}
  <2>1. entry'[c] = Blank(entry[c].id) /\ entry[c].id \in Ids \cup {0}
    BY <1>0, <1>4 DEF End, TypeOK, Entry
  <2> QED BY <2>1, BlankType
<1>5. CASE NotFound(c)
  BY <1>4, <1>5 DEF NotFound
<1>6. CASE FileGone(c) \/ Reread(c) \/ RenameTmp(c) \/ RemoveNote(c) \/ Fail(c) \/ Crash(c)
  BY <1>4, <1>6 DEF FileGone, Reread, RenameTmp, RemoveNote, Fail, Crash
<1>7. CASE ListMonths(c) \/ ScanMonth(c) \/ SkipMonth(c) \/ FoundRef(c) \/ MakeDir(c)
           \/ RenameNote(c) \/ WriteTmp(c)
  BY <1>7 DEF ListMonths, ScanMonth, SkipMonth, FoundRef, MakeDir, RenameNote, WriteTmp
<1> QED BY <1>1, <1>2, <1>3, <1>5, <1>6, <1>7 DEF Run

\* Taking an ID for a new note: its text is nowhere yet.
LEMMA AllocateText ==
  ASSUME Ready, TextInv, NEW c \in Procs, AllocateId(c)
  PROVE  TextInv'
<1>1. op[c].cmd = "new" /\ pc[c] = "nextid" /\ Unwritten(c)
  BY DEF Ready, Control, AllocateId, Goto, TextInv
<1>2. UNCHANGED <<files, tmp, op>> /\ pc'[c] = "list"
  BY DEF AllocateId, Goto, Ready, TypeOK
<1>3. /\ \A d \in Procs \ {c} : /\ Id(d)' = Id(d) /\ pc'[d] = pc[d]
                               /\ entry'[d] = entry[d]
      /\ Id(c)' = entry'[c].id
  BY <1>1, <1>2 DEF AllocateId, Goto, Id, Ready, TypeOK
<1>4. entry'[c].body \subseteq {c}
  <2>1. entry[c] \in Entry /\ entry'[c] = [entry[c] EXCEPT !.id = last + 1, !.date = Today]
    BY DEF AllocateId, Ready, TypeOK
  <2> QED BY <2>1, <1>1 DEF Unwritten, Entry
<1>5. ASSUME NEW p \in Path
      PROVE  /\ files'[p] # Absent => Own(files[p].body, p.id)'
             /\ tmp'[p] # Absent => Own(tmp[p].body, p.id)'
  BY <1>1, <1>2, <1>3 DEF TextInv, Own, Unwritten
<1>6. \A d \in Procs : Own(entry[d].body, entry[d].id)'
  BY <1>1, <1>3, <1>4 DEF TextInv, Own, Unwritten
<1>7. ASSUME NEW d \in Procs, op'[d].cmd = "new", pc'[d] \in {"idle", "nextid"}
      PROVE  Unwritten(d)'
  BY <1>2, <1>3, <1>4, <1>7 DEF TextInv, Unwritten
<1> QED BY <1>5, <1>6, <1>7 DEF TextInv

\* Every other step moves texts only between places of one ID.
LEMMA NextText ==
  ASSUME Ready, TextInv, [Next]_vars
  PROVE  TextInv'
<1>1. CASE UNCHANGED vars \/ RestoreIdFile
  BY <1>1 DEF vars, RestoreIdFile, locals, TextInv, Own, Unwritten, Id
<1>2. ASSUME NEW c \in Procs, Run(c), ~AllocateId(c)
      PROVE  TextInv'
  <2>1. \A d \in Procs : Id(d)' = Id(d)
    BY <1>2, IdKept
  <2>3. Frame(c)
    BY <1>2, RunFrame DEF Ready
  <2>4. ASSUME NEW p \in Path
        PROVE  /\ files'[p] # Absent => Own(files[p].body, p.id)'
               /\ tmp'[p] # Absent => Own(tmp[p].body, p.id)'
    <3>1. files'[p] # Absent => Own(files'[p].body, p.id)
      BY <1>2, ContentOrigin DEF TextInv
    <3>2. tmp'[p] # Absent => Own(tmp'[p].body, p.id)
      <4>1. Own({}, p.id) /\ Own(entry[c].body, entry[c].id)
        BY DEF Own, TextInv
      <4> QED BY <1>2, <4>1, ContentOrigin DEF TextInv
    <3>3. ASSUME files'[p] # Absent PROVE Own(files[p].body, p.id)'
      BY <2>1, <3>1, <3>3 DEF Own
    <3>4. ASSUME tmp'[p] # Absent PROVE Own(tmp[p].body, p.id)'
      BY <2>1, <3>2, <3>4 DEF Own
    <3> QED BY <3>3, <3>4
  <2>5. Own(entry'[c].body, entry'[c].id)
    <3>1. op[c].cmd = "new" => Id(c) = entry[c].id
      BY DEF Id
    <3>2. CASE /\ ref[c] \in Path /\ files[ref[c]] # Absent /\ entry'[c].id = ref[c].id
               /\ ref[c].id = Id(c)
               /\ entry'[c].body \subseteq files[ref[c]].body \cup {c}
      BY <3>2 DEF TextInv, Own
    <3> QED BY <1>2, <3>1, <3>2, EntryOrigin DEF TextInv, Own
  <2>6. \A d \in Procs : Own(entry[d].body, entry[d].id)'
    <3>1. \A d \in Procs \ {c} : Own(entry[d].body, entry[d].id)'
      BY <2>1, <2>3 DEF TextInv, Frame, Own
    <3> QED BY <2>1, <2>5, <3>1 DEF Own
  <2>7. ASSUME NEW d \in Procs, op'[d].cmd = "new", pc'[d] \in {"idle", "nextid"}
        PROVE  Unwritten(d)'
    <3>1. op[d].cmd = "new" /\ pc[d] \in {"idle", "nextid"}
      <4>1. CASE d # c
        BY <2>3, <2>7, <4>1 DEF Frame
      <4>2. CASE d = c
        <5>1. op[c].cmd = "new"
          BY <2>3, <2>7, <4>2 DEF Frame
        <5>2. pc'[c] \in {"idle", "nextid"} => Start(c)
          BY <1>2, <5>1 DEF Run, Ready, TypeOK, Goto, ListMonths, ScanMonth, SkipMonth, FoundRef,
                       AfterScan, NotFound, ReadEntry, AfterGet, FileGone, Reread, MakeDir, RenameNote,
                       WriteTmp, RenameTmp, RemoveNote, Fail, Crash, End
        <5> QED BY <2>7, <4>2, <5>1, <5>2 DEF Start
      <4> QED BY <4>1, <4>2
    <3>2. Unwritten(d)
      BY <3>1 DEF TextInv
    <3>3. \A p \in Path : /\ files'[p] # Absent => d \notin files'[p].body
                          /\ tmp'[p] # Absent => d \notin tmp'[p].body
      <4> SUFFICES ASSUME NEW p \in Path
                   PROVE  /\ files'[p] # Absent => d \notin files'[p].body
                          /\ tmp'[p] # Absent => d \notin tmp'[p].body
        OBVIOUS
      <4>1. CASE d # c
        BY <1>2, <3>2, <4>1, ContentOrigin DEF Unwritten
      <4>2. CASE d = c
        <5>1. UNCHANGED <<files, tmp>>
          <6>1. pc'[c] \in {"idle", "nextid"} /\ pc[c] \in {"idle", "nextid"} /\ ~FileGone(c)
            BY <2>7, <3>1, <4>2 DEF FileGone
          <6>2. Start(c)
            BY <1>2, <6>1 DEF Run, Ready, TypeOK, Goto, ListMonths, ScanMonth, SkipMonth, FoundRef,
                         AfterScan, NotFound, ReadEntry, AfterGet, Reread, MakeDir, RenameNote,
                         WriteTmp, RenameTmp, RemoveNote, Fail, Crash, End
          <6> QED BY <6>2 DEF Start, shared
        <5> QED BY <3>2, <4>2, <5>1 DEF Unwritten
      <4> QED BY <4>1, <4>2
    <3>4. \A e \in Procs \ {d} : d \notin entry'[e].body
      <4> SUFFICES ASSUME d # c PROVE d \notin entry'[c].body
        BY <2>3, <3>2 DEF Frame, Unwritten
      <4> QED BY <1>2, <3>2, EntryOrigin DEF Unwritten
    <3>5. entry'[d].body \subseteq {d}
      <4>1. CASE d # c
        BY <2>3, <3>2, <4>1 DEF Frame, Unwritten
      <4>2. CASE d = c
        <5>1. ~ReadEntry(c)
          BY <3>1, <4>2 DEF ReadEntry
        <5>2. ref[c] = NoPath
          BY <3>1, <4>2 DEF Ready, Control
        <5> QED BY <1>2, <3>2, <4>2, <5>2, EntryOrigin DEF Unwritten
      <4> QED BY <4>1, <4>2
    <3>6. (entry[d].body \subseteq {d})'
      BY <3>5
    <3>7. (\A p \in Path : files[p] # Absent => d \notin files[p].body)'
      BY <3>3
    <3>8. (\A p \in Path : tmp[p] # Absent => d \notin tmp[p].body)'
      BY <3>3
    <3>9. (\A e \in Procs \ {d} : d \notin entry[e].body)'
      BY <3>4
    <3> QED BY ONLY <3>6, <3>7, <3>8, <3>9 DEF Unwritten
  <2> QED BY <2>4, <2>6, <2>7 DEF TextInv
<1> QED BY <1>1, <1>2, AllocateText DEF Next

LEMMA InitText == Init => TextInv
<1> SUFFICES ASSUME Init PROVE TextInv
  OBVIOUS
<1>1. \A c \in Procs : entry[c].body = {}
  BY BlankType DEF Init
<1>2. \A p \in Path : files[p] # Absent => files[p].body \cap Procs = {}
  BY DEF Init, Present
<1>3. \A p \in Path : tmp[p] = Absent
  BY DEF Init
<1> QED BY <1>1, <1>2, <1>3 DEF TextInv, Own, Unwritten

\* Whatever overlaps and fails, and even when an old id.json makes Put take a
\* new note for an older one, a text only gets into the note it was meant for.
THEOREM TextsInTheirNotes == Spec => []NoCrossTalk
<1>1. TextInv => NoCrossTalk
  BY DEF TextInv, NoCrossTalk, Own, Present
<1>2. Spec => []TextInv
  BY InitReady, NextReady, InitText, NextText, PTL DEF Spec
<1> QED BY <1>1, <1>2, PTL

-----------------------------------------------------------------------------
(* A new note has its ID for itself.                                       *)

\* The processes in a Put that has its ID: what they write will have that ID.
Writing(c) == call[c] = "Put" /\ pc[c] \in Running \ {"nextid"}

\* Every ID in use has been counted.
Counted ==
  /\ \A p \in Present : p.id <= last
  /\ \A c \in Procs : Writing(c) => entry[c].id <= last

\* Nobody else has, or is about to write, a file of a new note's ID.
Apart(n) ==
  /\ ~HasFile(entry[n].id)
  /\ \A d \in Procs \ {n} : Writing(d) => entry[d].id # entry[n].id

FreshInv ==
  /\ Counted
  /\ \A n \in Procs : op[n].cmd = "new" /\ Writing(n) => Apart(n)

\* An ID gets its first file in the last step of a Put only.
LEMMA FirstFile ==
  ASSUME Ready, NEW c \in Procs, Run(c), NEW id, HasFile(id)', ~HasFile(id)
  PROVE  RenameTmp(c) /\ Writing(c) /\ entry[c].id = id
<1>0. files \in Files /\ Control(c) /\ OneId(c)
  BY DEF Ready, TypeOK
<1>1. PICK p \in Path : files'[p] # Absent /\ p.id = id
  BY DEF HasFile, Present
<1>2. files[p] = Absent
  BY <1>1 DEF HasFile, Present
<1>3. RenameNote(c) \/ RenameTmp(c) \/ RemoveNote(c)
  <2>1. files' # files
    BY <1>1, <1>2
  <2> QED
    BY <2>1 DEF Run, shared, Start, ListMonths, ScanMonth, SkipMonth, FoundRef, NotFound, ReadEntry,
              FileGone, Reread, AllocateId, MakeDir, WriteTmp, Fail, Crash
<1>4. ~RemoveNote(c)
  BY <1>0, <1>1, <1>2 DEF RemoveNote, Files
<1>5. pc[c] \in PutSteps
  BY <1>3, <1>4 DEF RenameNote, RenameTmp, Goto, PutSteps
<1>6. NewPath(c) \in Path /\ NewPath(c).id = Id(c) /\ entry[c].id = Id(c)
  BY <1>5, NewPathId
<1>7. ~RenameNote(c)
  <2> SUFFICES ASSUME RenameNote(c) PROVE FALSE
    OBVIOUS
  <2>1. ref[c] \in Path /\ ref[c].id = Id(c) /\ files[ref[c]] # Absent
    BY <1>0 DEF RenameNote, Goto, Present, OneId
  <2>2. p = NewPath(c)
    BY <1>1, <1>2 DEF RenameNote
  <2> QED BY <1>1, <1>6, <2>1, <2>2 DEF HasFile, Present
<1>8. RenameTmp(c)
  BY <1>3, <1>4, <1>7
<1>9. p = NewPath(c)
  BY <1>0, <1>1, <1>2, <1>8 DEF RenameTmp, Files
<1>10. Writing(c)
  BY <1>0, <1>8 DEF RenameTmp, Control, PutSteps, Writing, Running, Steps, Final
<1> QED BY <1>1, <1>6, <1>8, <1>9, <1>10

\* How a process comes to a Put that has its ID: it takes a new one, or it has
\* read a file of that ID.
LEMMA WritingOrigin ==
  ASSUME Ready, NEW c \in Procs, Run(c), Writing(c)'
  PROVE  \/ Writing(c) /\ entry'[c].id = entry[c].id /\ ~RenameTmp(c)
         \/ /\ AllocateId(c) /\ ~Writing(c)
            /\ entry'[c].id = last + 1 /\ last' = last + 1 /\ files' = files
         \/ op[c].cmd # "new" /\ HasFile(entry'[c].id) /\ ~RenameTmp(c)
<1>0. TypeOK /\ Control(c) /\ OneId(c) /\ entry[c] \in Entry
  BY DEF Ready, TypeOK
<1> USE <1>0 DEF Writing, Running, Steps, Final
<1>1. ASSUME NEW how \in Final, End(c, how) PROVE FALSE
  BY <1>1 DEF End, TypeOK
<1>2. CASE Start(c)
  BY <1>2 DEF Start, TypeOK, Control
<1>3. CASE ListMonths(c) \/ ScanMonth(c) \/ SkipMonth(c) \/ FoundRef(c)
  BY <1>3 DEF ListMonths, ScanMonth, SkipMonth, FoundRef, Goto, RenameTmp
<1>4. CASE NotFound(c)
  BY <1>1, <1>4 DEF NotFound, RenameTmp
<1>5. CASE ReadEntry(c)
  <2>1. ref[c] \in Path /\ files[ref[c]] \in Content /\ files[ref[c]] # Absent
    BY <1>5 DEF ReadEntry, Present, TypeOK, Files
  <2>2. entry'[c].id = ref[c].id
    BY <1>5, <2>1, FrontmatterToMetaType, EditedType DEF ReadEntry, TypeOK
  <2>3. HasFile(entry'[c].id)
    BY <2>1, <2>2 DEF HasFile, Present
  <2> QED BY <1>5, <2>3 DEF ReadEntry, RenameTmp, Control
<1>6. CASE FileGone(c) \/ Reread(c) \/ RenameTmp(c) \/ RemoveNote(c) \/ Fail(c) \/ Crash(c)
  BY <1>1, <1>6 DEF FileGone, Reread, RenameTmp, RemoveNote, Fail, Crash
<1>7. CASE AllocateId(c)
  <2>1. entry'[c] = [entry[c] EXCEPT !.id = last + 1, !.date = Today]
    BY <1>7 DEF AllocateId, TypeOK
  <2> QED BY <1>7, <2>1 DEF AllocateId, Goto, Entry
<1>8. CASE MakeDir(c) \/ RenameNote(c) \/ WriteTmp(c)
  BY <1>8 DEF MakeDir, RenameNote, WriteTmp, Goto, RenameTmp, Control, PutSteps
<1> QED BY <1>2, <1>3, <1>4, <1>5, <1>6, <1>7, <1>8 DEF Run

LEMMA LastGrows ==
  ASSUME Ready, NEW c \in Procs, Run(c)
  PROVE  last \in Nat /\ last' \in Nat /\ last <= last'
<1>1. last \in Nat
  BY DEF Ready, TypeOK
<1> QED
  BY <1>1 DEF Run, shared, Start, ListMonths, ScanMonth, SkipMonth, FoundRef, NotFound, ReadEntry,
              FileGone, Reread, AllocateId, MakeDir, RenameNote, WriteTmp, RenameTmp, RemoveNote,
              Fail, Crash

LEMMA NextFresh ==
  ASSUME "idlag" \notin Faults, Ready, FreshInv, [Next]_vars
  PROVE  FreshInv'
<1>1. CASE UNCHANGED vars
  BY <1>1 DEF vars, FreshInv, Counted, Apart, Writing, HasFile, Present
<1>2. ASSUME NEW c \in Procs, Run(c)
      PROVE  FreshInv'
  <2>0. /\ Frame(c) /\ op' = op
        /\ \A d \in Procs \ {c} : /\ Writing(d)' <=> Writing(d)
                                 /\ entry'[d] = entry[d]
    BY <1>2, RunFrame DEF Ready, Frame, Writing
  <2>1. last \in Nat /\ last' \in Nat /\ last <= last'
    BY <1>2, LastGrows
  <2>2. /\ \A p \in Path : p.id \in Nat
        /\ \A d \in Procs : entry[d].id \in Nat /\ entry'[d].id \in Nat
    <3>1. TypeOK /\ TypeOK'
      BY NextType DEF Ready
    <3>2. \A d \in Procs : entry[d] \in Entry /\ entry'[d] \in Entry
      BY <3>1 DEF TypeOK
    <3>3. Ids \subseteq Nat /\ 0 \in Nat
      OBVIOUS
    <3> QED BY <3>2, <3>3 DEF Path, Entry
  <2>3. \A id : HasFile(id) => id \in Nat /\ id <= last
    BY <2>2 DEF FreshInv, Counted, HasFile, Present
  <2>4. ASSUME NEW p \in Path, files'[p] # Absent
        PROVE  p.id <= last'
    <3>1. HasFile(p.id)'
      BY <2>4 DEF HasFile, Present
    <3>2. p.id <= last
      <4>1. CASE HasFile(p.id)
        BY <4>1, <2>3
      <4>2. CASE ~HasFile(p.id)
        BY <1>2, <3>1, <4>2, FirstFile DEF FreshInv, Counted
      <4> QED BY <4>1, <4>2
    <3> QED BY <2>1, <2>2, <3>2
  <2>5. ASSUME NEW d \in Procs, Writing(d)'
        PROVE  entry'[d].id <= last'
    <3>1. CASE d = c
      BY <1>2, <2>1, <2>2, <2>3, <2>5, <3>1, WritingOrigin DEF FreshInv, Counted
    <3>2. CASE d # c
      BY <2>0, <2>1, <2>2, <2>5, <3>2 DEF FreshInv, Counted
    <3> QED BY <3>1, <3>2
  <2>6. ASSUME NEW n \in Procs, op[n].cmd = "new", Writing(n)'
        PROVE  Apart(n)'
    <3>1. ~HasFile(entry[n].id)'
      <4>1. CASE n = c
        <5>1. CASE Writing(c) /\ entry'[c].id = entry[c].id /\ ~RenameTmp(c)
          BY <1>2, <2>6, <4>1, <5>1, FirstFile DEF FreshInv, Apart
        <5>2. CASE entry'[c].id = last + 1 /\ files' = files
          BY <2>1, <2>3, <4>1, <5>2 DEF HasFile, Present
        <5> QED BY <1>2, <2>6, <4>1, <5>1, <5>2, WritingOrigin
      <4>2. CASE n # c
        <5>1. Apart(n) /\ entry'[n].id = entry[n].id
          BY <2>0, <2>6, <4>2 DEF FreshInv
        <5> QED BY <1>2, <4>2, <5>1, FirstFile DEF Apart
      <4> QED BY <4>1, <4>2
    <3>2. ASSUME NEW d \in Procs \ {n}, Writing(d)'
          PROVE  entry'[d].id # entry'[n].id
      <4>1. CASE n = c
        <5>1. d # c /\ Writing(d) /\ entry'[d].id = entry[d].id /\ entry[d].id <= last
          BY <2>0, <3>2, <4>1 DEF FreshInv, Counted
        <5>2. CASE Writing(c) /\ entry'[c].id = entry[c].id
          BY <2>6, <4>1, <5>1, <5>2 DEF FreshInv, Apart
        <5>3. CASE entry'[c].id = last + 1
          BY <2>1, <2>2, <4>1, <5>1, <5>3
        <5> QED BY <1>2, <2>6, <4>1, <5>2, <5>3, WritingOrigin
      <4>2. CASE n # c
        <5>1. Writing(n) /\ Apart(n) /\ entry'[n].id = entry[n].id /\ entry[n].id <= last
          BY <2>0, <2>6, <4>2 DEF FreshInv, Counted
        <5>2. CASE d # c
          BY <2>0, <3>2, <5>1, <5>2 DEF Apart
        <5>3. CASE d = c /\ Writing(c) /\ entry'[c].id = entry[c].id
          BY <4>2, <5>1, <5>3 DEF Apart
        <5>4. CASE d = c /\ entry'[c].id = last + 1
          BY <2>1, <2>2, <5>1, <5>4
        <5>5. CASE d = c /\ HasFile(entry'[c].id)
          BY <5>1, <5>5 DEF Apart
        <5> QED BY <1>2, <3>2, <5>2, <5>3, <5>4, <5>5, WritingOrigin
      <4> QED BY <4>1, <4>2
    <3> QED BY <3>1, <3>2 DEF Apart
  <2>7. Counted'
    BY <2>4, <2>5 DEF Counted, Present
  <2> QED BY <2>0, <2>6, <2>7 DEF FreshInv
<1> QED BY <1>1, <1>2 DEF Next, RestoreIdFile

LEMMA InitFresh == Init => FreshInv
<1> SUFFICES ASSUME Init PROVE FreshInv
  OBVIOUS
<1>1. \A c \in Procs : ~Writing(c)
  BY DEF Init, Writing, Running, Steps, Final
<1>2. \A p \in Present : p.id <= last
  BY DEF Init
<1> QED BY <1>1, <1>2 DEF FreshInv, Counted

\* However many commands overlap, fail and die, and whatever months cannot be
\* read, a new note has its ID for itself, unless an older id.json comes back.
THEOREM NewNotesAreNew ==
  ASSUME "idlag" \notin Faults
  PROVE  Spec => []FreshId
<1>1. Ready /\ FreshInv => FreshId
  <2> SUFFICES ASSUME Ready, FreshInv, NEW c \in Procs, op[c].cmd = "new",
                      pc[c] \in {"list", "scan", "mkdir", "move", "write", "commit"}
               PROVE  ~HasFile(entry[c].id)
    BY DEF FreshId
  <2>1. Writing(c)
    BY DEF Ready, Control, Writing, Running, Steps, Final
  <2> QED BY <2>1 DEF FreshInv, Apart
<1>2. Ready /\ FreshInv /\ [Next]_vars => FreshInv'
  BY NextFresh
<1> QED BY <1>1, <1>2, InitFresh, ReadyInvariant, PTL DEF Spec
-----------------------------------------------------------------------------
(* Commands that do not overlap: where a process is in its store call.     *)

Alone(c) == \A d \in Procs \ {c} : pc[d] \notin Running

FilesOf(id) == {p \in Present : p.id = id}

\* Every note file is in a month directory that a scan will list.
Covered == \A p \in Present : DirPath(p.date) \in dirs

\* A scan has come across each file of its ID, or still has its month to read.
ScanSeesAll(c) ==
  pc[c] = "scan" =>
    /\ found[c] \subseteq Present
    /\ \A p \in FilesOf(Id(c)) : p \in found[c] \/ DirPath(p.date) \in months[c]
    /\ HasFile(Id(c)) \/ missing[c]

\* What the scan ended with is still so when the call acts on it: the file found
\* is there, or there is none; from the rename on, the only file is the new one.
RefSettled(c) ==
  /\ pc[c] \in {"read", "remove", "move"} => ref[c] \in Present
  /\ pc[c] = "mkdir" => IF ref[c] = NoPath THEN ~HasFile(Id(c)) ELSE ref[c] \in Present
  /\ pc[c] \in {"move", "write", "commit"} => DirPath(entry[c].date) \in dirs
  /\ pc[c] \in {"write", "commit"} => FilesOf(Id(c)) \subseteq {NewPath(c)}
  /\ pc[c] = "commit" => tmp[NewPath(c)] = MetaToFrontmatter(entry[c])

SerialInv ==
  /\ OneFilePerId
  /\ Covered
  /\ \A c \in Procs : /\ pc[c] \in Running => Alone(c)
                      /\ ScanSeesAll(c)
                      /\ RefSettled(c)

\* What the three steps that change note files make of the files there are.
LEMMA RenameNotePresent ==
  ASSUME Ready, NEW c \in Procs, RenameNote(c)
  PROVE  /\ Present' = (Present \ {ref[c]}) \cup {NewPath(c)}
         /\ ref[c] \in Present /\ ref[c].id = Id(c) /\ ref[c] # NewPath(c)
         /\ NewPath(c) \in Path /\ NewPath(c).id = Id(c) /\ NewPath(c).date = entry[c].date
         /\ files'[NewPath(c)] = files[ref[c]]
         /\ \A p \in Path \ {ref[c], NewPath(c)} : files'[p] = files[p]
<1>1. NewPath(c) \in Path /\ NewPath(c).id = Id(c)
  BY NewPathId DEF RenameNote, Goto, PutSteps
<1>2. ref[c] \in Present /\ ref[c].id = Id(c) /\ ref[c] # NewPath(c) /\ ref[c] \in Path
  BY DEF RenameNote, Goto, Present, Ready, OneId
<1>3. NewPath(c).date = entry[c].date
  BY DEF NewPath, PathFor
<1>4. /\ files'[NewPath(c)] = files[ref[c]]
      /\ files'[ref[c]] = Absent
      /\ \A p \in Path \ {ref[c], NewPath(c)} : files'[p] = files[p]
  BY <1>1, <1>2 DEF RenameNote
<1>5. Present' = (Present \ {ref[c]}) \cup {NewPath(c)}
  BY <1>1, <1>2, <1>4 DEF Present
<1> QED BY <1>1, <1>2, <1>3, <1>4, <1>5

LEMMA RenameTmpPresent ==
  ASSUME Ready, NEW c \in Procs, RenameTmp(c)
  PROVE  /\ Present' = Present \cup {NewPath(c)}
         /\ NewPath(c) \in Path /\ NewPath(c).id = Id(c) /\ NewPath(c).date = entry[c].date
         /\ files'[NewPath(c)] = tmp[NewPath(c)]
         /\ \A p \in Path \ {NewPath(c)} : files'[p] = files[p]
<1>1. NewPath(c) \in Path /\ NewPath(c).id = Id(c)
  BY NewPathId DEF RenameTmp, PutSteps
<1>2. NewPath(c).date = entry[c].date
  BY DEF NewPath, PathFor
<1>3. /\ files'[NewPath(c)] = tmp[NewPath(c)]
      /\ tmp[NewPath(c)] # Absent
      /\ \A p \in Path \ {NewPath(c)} : files'[p] = files[p]
  BY <1>1 DEF RenameTmp, Ready, TypeOK, Files
<1>4. Present' = Present \cup {NewPath(c)}
  BY <1>1, <1>3 DEF Present
<1> QED BY <1>1, <1>2, <1>3, <1>4

LEMMA RemoveNotePresent ==
  ASSUME Ready, NEW c \in Procs, RemoveNote(c)
  PROVE  /\ Present' = Present \ {ref[c]}
         /\ ref[c] \in Present /\ ref[c].id = Id(c) /\ op[c].cmd = "rm"
         /\ \A p \in Path \ {ref[c]} : files'[p] = files[p]
<1>1. ref[c] \in Present /\ ref[c].id = Id(c) /\ op[c].cmd = "rm"
  BY DEF RemoveNote, Present, Ready, OneId, Control
<1>2. files'[ref[c]] = Absent /\ \A p \in Path \ {ref[c]} : files'[p] = files[p]
  BY <1>1 DEF RemoveNote, Present, Ready, TypeOK, Files
<1>3. Present' = Present \ {ref[c]}
  BY <1>1, <1>2 DEF Present
<1> QED BY <1>1, <1>2, <1>3

\* Who takes a step is alone.
LEMMA RunsAlone ==
  ASSUME Serial, Ready, SerialInv, NEW c \in Procs, Run(c)
  PROVE  /\ Alone(c) /\ Alone(c)'
         /\ \A d \in Procs \ {c} : pc[d] \notin Running /\ pc'[d] = pc[d]
<1>1. Alone(c)
  <2>1. CASE Start(c)
    BY <2>1 DEF Start, Alone
  <2>2. CASE ~Start(c)
    <3>1. pc[c] \in Running
      BY <2>2 DEF Run, Goto, ListMonths, ScanMonth, SkipMonth, FoundRef, NotFound, ReadEntry, FileGone,
                  Reread, AllocateId, MakeDir, RenameNote, WriteTmp, RenameTmp, RemoveNote, Fail, Crash,
                  Running, Steps, Final
    <3> QED BY <3>1 DEF SerialInv
  <2> QED BY <2>1, <2>2
<1>2. \A d \in Procs \ {c} : pc'[d] = pc[d]
  BY RunFrame DEF Ready, Frame
<1> QED BY <1>1, <1>2 DEF Alone

\* A process that ends leaves its call.
LEMMA EndSettles ==
  ASSUME Ready, NEW c \in Procs, NEW how \in Final, End(c, how)
  PROVE  pc'[c] = how /\ ScanSeesAll(c)' /\ RefSettled(c)'
<1>1. pc'[c] = how
  BY DEF End, Ready, TypeOK
<1> QED BY <1>1 DEF ScanSeesAll, RefSettled, Final

\* The steps that leave the files alone.
LEMMA QuietStep ==
  ASSUME "skip" \notin Faults, Ready, SerialInv, NEW c \in Procs, Run(c),
         ~RenameNote(c), ~RenameTmp(c), ~RemoveNote(c)
  PROVE  /\ files' = files /\ Present' = Present /\ dirs \subseteq dirs'
         /\ ScanSeesAll(c)' /\ RefSettled(c)'
<1>0. /\ TypeOK /\ Control(c) /\ OneId(c)
      /\ OneFilePerId /\ Covered /\ ScanSeesAll(c) /\ RefSettled(c)
  BY DEF Ready, SerialInv
<1>1. files' = files /\ dirs \subseteq dirs'
  BY DEF Run, shared, Start, ListMonths, ScanMonth, SkipMonth, FoundRef, NotFound, ReadEntry, FileGone,
         Reread, AllocateId, MakeDir, WriteTmp, Fail, Crash
<1>2. Present' = Present
  BY <1>1 DEF Present
<1>3. CASE Start(c) \/ ReadEntry(c) \/ AllocateId(c)
  <2>1. pc'[c] \in {"nextid", "list", "reread"}
    BY <1>0, <1>3 DEF Start, ReadEntry, AfterGet, AllocateId, Goto, TypeOK
  <2> QED BY <1>1, <1>2, <2>1 DEF ScanSeesAll, RefSettled
<1>4. CASE ListMonths(c)
  <2>1. /\ pc'[c] = "scan" /\ months'[c] = dirs /\ found'[c] = {}
        /\ missing'[c] = ~HasFile(Id(c)) /\ Id(c)' = Id(c)
    BY <1>0, <1>4 DEF ListMonths, Goto, TypeOK, Id
  <2>2. HasFile(Id(c))' <=> HasFile(Id(c))
    BY <1>2, <2>1 DEF HasFile
  <2> QED BY <1>0, <1>1, <1>2, <2>1, <2>2 DEF ScanSeesAll, RefSettled, FilesOf, Covered
<1>5. CASE ScanMonth(c)
  <2>1. PICK m \in months[c] : /\ months'[c] = months[c] \ {m}
                              /\ found'[c] = found[c] \cup IdFiles(c, m)
    BY <1>0, <1>5 DEF ScanMonth, TypeOK
  <2>2. pc[c] = "scan" /\ pc'[c] = "scan" /\ missing' = missing /\ Id(c)' = Id(c)
    BY <1>5 DEF ScanMonth, Id
  <2>3. HasFile(Id(c))' <=> HasFile(Id(c))
    BY <1>2, <2>2 DEF HasFile
  <2> QED BY <1>0, <1>1, <1>2, <2>1, <2>2, <2>3 DEF ScanSeesAll, RefSettled, FilesOf, IdFiles
<1>6. CASE FoundRef(c)
  <2>1. pc[c] = "scan" /\ pc'[c] \in {"read", "mkdir", "remove"} /\ ref'[c] \in found[c]
    BY <1>0, <1>6 DEF FoundRef, Goto, AfterScan, Newest, TypeOK
  <2>2. ref'[c] \in Present' /\ ref'[c] # NoPath
    BY <1>0, <1>2, <2>1 DEF ScanSeesAll, TypeOK, Present
  <2> QED BY <1>1, <1>2, <2>1, <2>2 DEF ScanSeesAll, RefSettled
<1>7. CASE NotFound(c)
  <2>1. ~HasFile(Id(c))
    BY <1>0, <1>7 DEF NotFound, ScanSeesAll, FilesOf, HasFile
  <2>2. CASE call[c] = "Put"
    <3>1. pc'[c] = "mkdir" /\ ref'[c] = NoPath /\ Id(c)' = Id(c)
      BY <1>0, <1>7, <2>2 DEF NotFound, TypeOK, Id
    <3>2. ~HasFile(Id(c))'
      BY <1>2, <2>1, <3>1 DEF HasFile
    <3> QED BY <1>1, <1>2, <3>1, <3>2 DEF ScanSeesAll, RefSettled
  <2>3. CASE call[c] # "Put"
    BY <1>1, <1>2, <1>7, <2>3, EndSettles DEF NotFound, Final
  <2> QED BY <2>2, <2>3
<1>8. CASE FileGone(c) \/ Reread(c) \/ Fail(c) \/ Crash(c)
  BY <1>1, <1>2, <1>8, EndSettles DEF FileGone, Reread, Fail, Crash, Final
<1>9. CASE MakeDir(c)
  <2>1. /\ pc[c] = "mkdir"
        /\ pc'[c] = IF ref[c] \in {NoPath, NewPath(c)} THEN "write" ELSE "move"
        /\ DirPath(entry[c].date) \in dirs'
        /\ UNCHANGED <<ref, entry, tmp>> /\ Id(c)' = Id(c) /\ NewPath(c)' = NewPath(c)
    BY <1>0, <1>9 DEF MakeDir, Goto, TypeOK, Id, NewPath
  <2>2. ref[c] = NewPath(c) => ref[c].id = Id(c) /\ FilesOf(Id(c)) \subseteq {NewPath(c)}
    BY <1>0, <2>1, NewPathId DEF PutSteps, RefSettled, OneFilePerId, FilesOf, Present
  <2>3. ref[c] = NoPath => FilesOf(Id(c)) = {}
    BY <1>0, <2>1 DEF RefSettled, FilesOf, HasFile
  <2>4. FilesOf(Id(c))' = FilesOf(Id(c))
    BY <1>2, <2>1 DEF FilesOf
  <2> QED BY <1>0, <1>1, <1>2, <2>1, <2>2, <2>3, <2>4 DEF ScanSeesAll, RefSettled
<1>10. CASE WriteTmp(c)
  <2>1. /\ pc[c] = "write" /\ pc'[c] = "commit"
        /\ UNCHANGED <<entry, dirs>> /\ Id(c)' = Id(c) /\ NewPath(c)' = NewPath(c)
        /\ NewPath(c) \in Path
    BY <1>0, <1>10, NewPathId DEF WriteTmp, Goto, TypeOK, Id, NewPath, PutSteps
  <2>2. tmp'[NewPath(c)] = MetaToFrontmatter(entry[c])
    BY <1>0, <1>10, <2>1 DEF WriteTmp, TypeOK, Files
  <2>3. FilesOf(Id(c))' = FilesOf(Id(c))
    BY <1>2, <2>1 DEF FilesOf
  <2>4. (tmp[NewPath(c)] = MetaToFrontmatter(entry[c]))'
    BY <2>1, <2>2
  <2> QED BY <1>0, <1>1, <1>2, <2>1, <2>3, <2>4 DEF ScanSeesAll, RefSettled
<1>11. ~SkipMonth(c)
  BY DEF SkipMonth
<1> QED BY <1>3, <1>4, <1>5, <1>6, <1>7, <1>8, <1>9, <1>10, <1>11 DEF Run

\* The steps that change the files.
LEMMA FileStep ==
  ASSUME Ready, SerialInv, NEW c \in Procs, RenameNote(c) \/ RenameTmp(c) \/ RemoveNote(c)
  PROVE  /\ OneFilePerId' /\ Covered'
         /\ ScanSeesAll(c)' /\ RefSettled(c)'
<1>0. /\ TypeOK /\ OneFilePerId /\ Covered /\ RefSettled(c)
  BY DEF Ready, SerialInv
<1>1. CASE RenameNote(c)
  <2>1. /\ pc[c] = "move" /\ pc'[c] = "write" /\ UNCHANGED <<dirs, tmp>>
        /\ NewPath(c)' = NewPath(c) /\ Id(c)' = Id(c) /\ entry' = entry
    BY <1>0, <1>1 DEF RenameNote, Goto, TypeOK, NewPath, Id
  <2>2. /\ Present' = (Present \ {ref[c]}) \cup {NewPath(c)}
        /\ ref[c] \in Present /\ ref[c].id = Id(c)
        /\ NewPath(c) \in Path /\ NewPath(c).id = Id(c) /\ NewPath(c).date = entry[c].date
    BY <1>1, RenameNotePresent
  <2>3. \A p \in Present' : p.id = Id(c) => p = NewPath(c)
    BY <1>0, <2>2 DEF OneFilePerId
  <2>4. OneFilePerId'
    BY <1>0, <2>2, <2>3 DEF OneFilePerId
  <2>5. DirPath(NewPath(c).date) \in dirs
    BY <1>0, <2>1, <2>2 DEF RefSettled
  <2>6. Covered'
    BY <1>0, <2>1, <2>2, <2>5 DEF Covered
  <2> QED BY <1>0, <2>1, <2>2, <2>3, <2>4, <2>5, <2>6 DEF ScanSeesAll, RefSettled, FilesOf
<1>2. CASE RenameTmp(c)
  <2>1. pc[c] = "commit" /\ dirs' = dirs /\ End(c, "done")
    BY <1>2 DEF RenameTmp
  <2>2. /\ Present' = Present \cup {NewPath(c)}
        /\ NewPath(c) \in Path /\ NewPath(c).id = Id(c) /\ NewPath(c).date = entry[c].date
    BY <1>2, RenameTmpPresent
  <2>3. \A p \in Present' : p.id = Id(c) => p = NewPath(c)
    BY <1>0, <2>1, <2>2 DEF RefSettled, FilesOf
  <2>4. OneFilePerId'
    BY <1>0, <2>2, <2>3 DEF OneFilePerId
  <2>5. Covered'
    BY <1>0, <2>1, <2>2 DEF Covered, RefSettled
  <2> QED BY <2>1, <2>4, <2>5, EndSettles DEF Final
<1>3. CASE RemoveNote(c)
  <2>1. dirs' = dirs /\ End(c, "done") /\ Present' \subseteq Present
    BY <1>3, RemoveNotePresent DEF RemoveNote
  <2> QED BY <1>0, <2>1, EndSettles DEF Final, OneFilePerId, Covered
<1> QED BY <1>1, <1>2, <1>3

LEMMA NextSerial ==
  ASSUME Serial, "skip" \notin Faults, Ready, SerialInv, [Next]_vars
  PROVE  SerialInv'
<1>1. CASE UNCHANGED vars \/ RestoreIdFile
  BY <1>1 DEF vars, RestoreIdFile, locals, SerialInv, OneFilePerId, Covered, Alone, ScanSeesAll,
              RefSettled, FilesOf, HasFile, Present, Id, NewPath
<1>2. ASSUME NEW c \in Procs, Run(c)
      PROVE  SerialInv'
  <2>1. /\ Alone(c)'
        /\ \A d \in Procs \ {c} : pc'[d] \notin Running
    BY <1>2, RunsAlone
  <2>2. OneFilePerId' /\ Covered' /\ ScanSeesAll(c)' /\ RefSettled(c)'
    <3>1. CASE RenameNote(c) \/ RenameTmp(c) \/ RemoveNote(c)
      BY <3>1, FileStep
    <3>2. CASE ~(RenameNote(c) \/ RenameTmp(c) \/ RemoveNote(c))
      BY <1>2, <3>2, QuietStep DEF SerialInv, OneFilePerId, Covered
    <3> QED BY <3>1, <3>2
  <2>3. ASSUME NEW d \in Procs \ {c}
        PROVE  /\ pc'[d] \notin Running /\ ScanSeesAll(d)' /\ RefSettled(d)'
    BY <2>1 DEF Running, Steps, Final, ScanSeesAll, RefSettled
  <2> QED BY <2>1, <2>2, <2>3 DEF SerialInv
<1> QED BY <1>1, <1>2 DEF Next

LEMMA InitSerial == Init => SerialInv
<1> SUFFICES ASSUME Init PROVE SerialInv
  OBVIOUS
<1>1. \A c \in Procs : pc[c] = "idle"
  BY DEF Init
<1>2. OneFilePerId /\ Covered
  BY DEF Init, OneFilePerId, Covered
<1> QED BY <1>1, <1>2 DEF SerialInv, ScanSeesAll, RefSettled, Running, Steps, Final

LEMMA SerialInvariant ==
  ASSUME Serial, "skip" \notin Faults
  PROVE  Spec => [](Ready /\ SerialInv)
<1>1. Ready /\ SerialInv /\ [Next]_vars => SerialInv'
  BY NextSerial
<1> QED BY <1>1, InitSerial, ReadyInvariant, PTL DEF Spec

\* An ID names one file at most, for any number of commands one after the other
\* and any archive, whichever of them failed or died at whichever step, if every
\* month can be read.
THEOREM OneFile ==
  ASSUME Serial, "skip" \notin Faults
  PROVE  Spec => []OneFilePerId
<1>1. SerialInv => OneFilePerId
  BY DEF SerialInv
<1> QED BY <1>1, SerialInvariant, PTL

LEMMA NextMissing ==
  ASSUME Serial, "skip" \notin Faults, Ready, SerialInv, NotFoundMeansMissing, [Next]_vars
  PROVE  NotFoundMeansMissing'
<1> SUFFICES ASSUME NEW d \in Procs, pc'[d] = "notfound"
             PROVE  missing'[d]
  BY DEF NotFoundMeansMissing
<1>0. TypeOK
  BY DEF Ready
<1>1. CASE UNCHANGED vars \/ RestoreIdFile
  BY <1>1 DEF vars, RestoreIdFile, locals, NotFoundMeansMissing
<1>2. ASSUME NEW c \in Procs, Run(c)
      PROVE  missing'[d]
  <2>1. CASE d # c
    <3>1. missing[d]
      BY <1>2, <2>1, RunFrame DEF Ready, Frame, NotFoundMeansMissing
    <3> QED BY <1>0, <1>2, <2>1, <3>1
            DEF TypeOK, Run, shared, Start, ListMonths, ScanMonth, SkipMonth, FoundRef, NotFound,
                ReadEntry, FileGone, Reread, AllocateId, MakeDir, RenameNote, WriteTmp, RenameTmp,
                RemoveNote, Fail, Crash
  <2>2. CASE d = c
    <3>1. NotFound(c)
      BY <1>0, <1>2, <2>2
      DEF TypeOK, Run, Goto, End, Start, ListMonths, ScanMonth, SkipMonth, FoundRef, AfterScan,
          ReadEntry, AfterGet, FileGone, Reread, AllocateId, MakeDir, RenameNote, WriteTmp, RenameTmp,
          RemoveNote, Fail, Crash
    <3>2. ~HasFile(Id(c)) /\ missing' = missing
      BY <3>1 DEF NotFound, SerialInv, ScanSeesAll, FilesOf, HasFile
    <3> QED BY <2>2, <3>1, <3>2 DEF SerialInv, ScanSeesAll, NotFound
  <2> QED BY <2>1, <2>2
<1> QED BY <1>1, <1>2 DEF Next

\* What Get and Delete say of an ID they did not find is true of some moment of
\* their scan, whatever month moves the commands before have made.
THEOREM NotFoundIsMissing ==
  ASSUME Serial, "skip" \notin Faults
  PROVE  Spec => []NotFoundMeansMissing
<1>1. Init => NotFoundMeansMissing
  BY DEF Init, NotFoundMeansMissing
<1>2. Ready /\ SerialInv /\ NotFoundMeansMissing /\ [Next]_vars => NotFoundMeansMissing'
  BY NextMissing
<1> QED BY <1>1, <1>2, SerialInvariant, PTL DEF Spec

-----------------------------------------------------------------------------
(* Commands that do not overlap: what a process is about to write.         *)

\* Between Get and the end of Put, the entry of c is the note with the change
\* that the command makes, and no more: the text of an append, the process's
\* own name, is added to what the file has; no other command changes the text.
EntryFits(c) ==
  /\ call[c] = "Put" => op[c].cmd \in {"new", "update", "append"}
  /\ call[c] = "Put" /\ op[c].cmd \in {"new", "append"} => c \in entry[c].body
  /\ Writing(c) /\ op[c].cmd # "new" => HasFile(Id(c))
  /\ Writing(c) => \A p \in FilesOf(Id(c)) :
       IF op[c].cmd = "append"
         THEN /\ entry[c].body = files[p].body \cup {c}
              /\ entry[c].slug = NoteOf(p).slug /\ entry[c].date = NoteOf(p).date
         ELSE entry[c].body = files[p].body

FitInv == Ready /\ FreshInv /\ SerialInv /\ \A c \in Procs : EntryFits(c)

LEMMA EndFits ==
  ASSUME Ready, NEW c \in Procs, NEW how \in Final, End(c, how)
  PROVE  EntryFits(c)'
<1>1. call'[c] = "Get"
  BY DEF End, Ready, TypeOK
<1> QED BY <1>1 DEF EntryFits, Writing

\* The steps of a Put that only look, and those of other calls.
LEMMA SameFits ==
  ASSUME NEW c \in Procs, EntryFits(c), UNCHANGED <<op, files, call, entry>>, Writing(c)' => Writing(c)
  PROVE  EntryFits(c)'
BY DEF EntryFits, HasFile, FilesOf, Present, Id, NoteOf

LEMMA ReadFits ==
  ASSUME Ready, SerialInv, NEW c \in Procs, ReadEntry(c)
  PROVE  EntryFits(c)'
<1>0. TypeOK /\ Control(c) /\ OneId(c) /\ OneFilePerId
  BY DEF Ready, SerialInv
<1>1. /\ pc[c] = "read" /\ call[c] = "Get" /\ op[c].cmd # "new"
      /\ UNCHANGED <<op, files>> /\ ref[c] \in Present /\ ref[c] \in Path /\ ref[c].id = Id(c)
  BY <1>0 DEF ReadEntry, Control, OneId, Running, Steps, Final, Present, shared
<1>2. Id(c)' = Id(c) /\ Present' = Present
  BY <1>1 DEF Id, Present
<1>3. call'[c] = "Put" => op[c].cmd \in {"update", "append"}
  <2>1. op[c] \in Commands
    BY <1>0 DEF TypeOK
  <2>2. op[c].cmd \in {"new", "update", "append", "rm", "read"}
    BY <2>1
  <2> QED BY <1>0, <1>1, <2>2 DEF ReadEntry, AfterGet, TypeOK
<1>4. \A p \in FilesOf(Id(c))' : p = ref[c]
  BY <1>0, <1>1, <1>2 DEF FilesOf, OneFilePerId
<1>5. HasFile(Id(c))'
  BY <1>1, <1>2 DEF HasFile
<1> DEFINE e == FrontmatterToMeta(ref[c], files[ref[c]])
<1>6. files[ref[c]] \in Content /\ e \in Entry /\ e.body = files[ref[c]].body
  BY <1>0, <1>1, FrontmatterToMetaType DEF Present, TypeOK, Files
<1>7. entry'[c] = Edited(c, e)
  BY <1>0, <1>1 DEF ReadEntry, TypeOK
<1>8. op[c].cmd = "update" => entry'[c].body = files[ref[c]].body
  <2> SUFFICES ASSUME op[c].cmd = "update" PROVE entry'[c].body = files[ref[c]].body
    OBVIOUS
  <2>1. entry'[c] = Update(e, op[c])
    BY <1>7 DEF Edited
  <2>2. Update(e, op[c]).body = e.body
    BY <1>6 DEF Update, Entry
  <2> QED BY <1>6, <2>1, <2>2
<1>9. op[c].cmd = "append" =>
        /\ entry'[c].body = files[ref[c]].body \cup {c}
        /\ entry'[c].slug = NoteOf(ref[c]).slug /\ entry'[c].date = NoteOf(ref[c]).date
  <2> SUFFICES ASSUME op[c].cmd = "append"
               PROVE  /\ entry'[c].body = files[ref[c]].body \cup {c}
                      /\ entry'[c].slug = NoteOf(ref[c]).slug
                      /\ entry'[c].date = NoteOf(ref[c]).date
    OBVIOUS
  <2>1. entry'[c] = AppendText(e, c)
    BY <1>7 DEF Edited
  <2>2. /\ AppendText(e, c).body = e.body \cup {c}
        /\ AppendText(e, c).slug = e.slug /\ AppendText(e, c).date = e.date
    BY <1>6 DEF AppendText, Entry
  <2>3. NoteOf(ref[c]).slug = e.slug /\ NoteOf(ref[c]).date = e.date
    BY DEF NoteOf
  <2> QED BY <1>6, <2>1, <2>2, <2>3
<1>10. ASSUME NEW p \in Path
       PROVE  NoteOf(p)' = NoteOf(p)
  BY <1>1 DEF NoteOf
<1>11. Writing(c)' => \A p \in FilesOf(Id(c))' :
         IF op'[c].cmd = "append"
           THEN /\ entry'[c].body = files'[p].body \cup {c}
                /\ entry'[c].slug = (NoteOf(p).slug)' /\ entry'[c].date = (NoteOf(p).date)'
           ELSE entry'[c].body = files'[p].body
  BY <1>1, <1>3, <1>4, <1>8, <1>9, <1>10 DEF Writing
<1>12. call'[c] = "Put" /\ op[c].cmd \in {"new", "append"} => c \in entry'[c].body
  BY <1>1, <1>9
<1> QED BY <1>1, <1>3, <1>5, <1>11, <1>12 DEF EntryFits

LEMMA RenameFits ==
  ASSUME Ready, SerialInv, NEW c \in Procs, EntryFits(c), RenameNote(c)
  PROVE  EntryFits(c)'
<1>0. TypeOK /\ Control(c) /\ OneId(c) /\ OneFilePerId /\ entry[c] \in Entry
  BY DEF Ready, SerialInv, TypeOK
<1>1. /\ pc[c] = "move" /\ UNCHANGED <<op, call, entry>> /\ Id(c)' = Id(c) /\ Writing(c)
  BY <1>0 DEF RenameNote, Goto, Id, Control, PutSteps, Writing, Running, Steps, Final
<1>2. /\ Present' = (Present \ {ref[c]}) \cup {NewPath(c)}
      /\ ref[c] \in Present /\ ref[c] \in Path /\ ref[c].id = Id(c)
      /\ files'[NewPath(c)] = files[ref[c]]
      /\ NewPath(c).id = Id(c)
  BY RenameNotePresent DEF Present
<1>3. PICK q \in Path : /\ q = NewPath(c) /\ q.id = Id(c)
                       /\ q.slug = entry[c].slug /\ q.date = entry[c].date
  <2>1. NewPath(c) \in Path
    BY RenameNotePresent
  <2> QED BY <1>2, <2>1 DEF NewPath, PathFor
<1>4. \A p \in FilesOf(Id(c))' : p = q
  BY <1>0, <1>1, <1>2, <1>3 DEF FilesOf, OneFilePerId
<1>5. HasFile(Id(c))'
  BY <1>1, <1>2, <1>3 DEF HasFile
<1>6. files'[q] = files[ref[c]] /\ files[ref[c]] \in Content
  BY <1>0, <1>2, <1>3 DEF Present, TypeOK, Files
<1>7. ref[c] \in FilesOf(Id(c))
  BY <1>2 DEF FilesOf
<1>8. CASE op[c].cmd = "append"
  <2>1. /\ entry[c].body = files[ref[c]].body \cup {c}
        /\ entry[c].slug = NoteOf(ref[c]).slug /\ entry[c].date = NoteOf(ref[c]).date
    BY <1>1, <1>7, <1>8 DEF EntryFits
  <2>2. NoteOf(q)'.slug = entry[c].slug /\ NoteOf(q)'.date = entry[c].date
    BY <1>3, <1>6, <2>1 DEF NoteOf, FrontmatterToMeta
  <2> QED BY <1>1, <1>4, <1>5, <1>6, <1>8, <2>1, <2>2 DEF EntryFits
<1>9. CASE op[c].cmd # "append"
  <2>1. entry[c].body = files[ref[c]].body
    BY <1>1, <1>7, <1>9 DEF EntryFits
  <2> QED BY <1>1, <1>4, <1>5, <1>6, <1>9, <2>1 DEF EntryFits
<1> QED BY <1>8, <1>9

LEMMA NextFits ==
  ASSUME Serial, "skip" \notin Faults, "idlag" \notin Faults, FitInv, [Next]_vars
  PROVE  FitInv'
<1>0. Ready' /\ FreshInv' /\ SerialInv'
  BY NextReady, NextFresh, NextSerial DEF FitInv
<1>1. CASE UNCHANGED vars \/ RestoreIdFile
  BY <1>0, <1>1 DEF vars, RestoreIdFile, locals, FitInv, EntryFits, HasFile, FilesOf, Present, Id,
                    NoteOf, Writing
<1>2. ASSUME NEW c \in Procs, Run(c)
      PROVE  FitInv'
  <2>0. /\ Ready /\ TypeOK /\ FreshInv /\ SerialInv /\ EntryFits(c) /\ Control(c)
        /\ entry[c] \in Entry /\ op[c] \in Commands
    BY DEF FitInv, Ready, TypeOK
  <2>1. EntryFits(c)'
    <3>1. CASE Start(c)
      <4>1. op' = op /\ pc'[c] \in {"nextid", "list"} /\ call[c] = "Get"
        BY <2>0, <3>1 DEF Start, TypeOK, Control
      <4>2. CASE op[c].cmd = "new"
        <5>1. /\ pc'[c] = "nextid" /\ call'[c] = "Put"
              /\ entry'[c] = [entry[c] EXCEPT !.slug = op[c].slug, !.body = {c}]
          BY <2>0, <3>1, <4>2 DEF Start, TypeOK
        <5>2. entry'[c].body = {c}
          BY <2>0, <5>1 DEF Entry
        <5> QED BY <4>1, <4>2, <5>1, <5>2 DEF EntryFits, Writing
      <4>3. CASE op[c].cmd # "new"
        <5>1. call'[c] = "Get"
          BY <3>1, <4>1, <4>3 DEF Start
        <5> QED BY <5>1 DEF EntryFits, Writing
      <4> QED BY <4>2, <4>3
    <3>2. CASE ListMonths(c) \/ ScanMonth(c) \/ SkipMonth(c) \/ FoundRef(c) \/ MakeDir(c) \/ WriteTmp(c)
      <4>1. /\ UNCHANGED <<op, files, call, entry>>
            /\ pc[c] \in {"list", "scan", "mkdir", "write"}
        BY <3>2 DEF ListMonths, ScanMonth, SkipMonth, FoundRef, MakeDir, WriteTmp, Goto, shared
      <4>2. Writing(c)' => Writing(c)
        BY <4>1 DEF Writing, Running, Steps, Final
      <4> QED BY <2>0, <4>1, <4>2, SameFits
    <3>3. CASE NotFound(c)
      <4>1. CASE call[c] = "Put"
        <5>1. UNCHANGED <<op, files, call, entry>> /\ pc[c] = "scan"
          BY <3>3, <4>1 DEF NotFound, shared
        <5>2. Writing(c)' => Writing(c)
          BY <5>1 DEF Writing, Running, Steps, Final
        <5> QED BY <2>0, <5>1, <5>2, SameFits
      <4>2. CASE call[c] # "Put"
        BY <2>0, <3>3, <4>2, EndFits DEF NotFound, Final
      <4> QED BY <4>1, <4>2
    <3>4. CASE ReadEntry(c)
      BY <2>0, <3>4, ReadFits
    <3>5. CASE AllocateId(c)
      <4>1. /\ pc[c] = "nextid" /\ op[c].cmd = "new" /\ call[c] = "Put"
            /\ UNCHANGED <<op, call, files>>
            /\ entry'[c] = [entry[c] EXCEPT !.id = last + 1, !.date = Today]
        BY <2>0, <3>5 DEF AllocateId, Goto, Control, TypeOK
      <4>2. entry'[c].body = entry[c].body /\ c \in entry[c].body /\ Id(c)' = last + 1
        BY <2>0, <4>1 DEF Entry, EntryFits, Id
      <4>3. FilesOf(Id(c))' = {}
        <5>1. last \in Nat /\ \A p \in Path : p.id \in Nat
          BY <2>0 DEF TypeOK, Path
        <5>2. \A p \in Present : p.id \in Nat /\ p.id <= last
          BY <2>0, <5>1 DEF FreshInv, Counted, Present
        <5> QED BY <4>1, <4>2, <5>1, <5>2 DEF FilesOf, Present
      <4> QED BY <4>1, <4>2, <4>3 DEF EntryFits
    <3>6. CASE RenameNote(c)
      BY <2>0, <3>6, RenameFits
    <3>7. CASE FileGone(c) \/ Reread(c) \/ RenameTmp(c) \/ RemoveNote(c) \/ Fail(c) \/ Crash(c)
      BY <2>0, <3>7, EndFits DEF FileGone, Reread, RenameTmp, RemoveNote, Fail, Crash, Final
    <3> QED BY <1>2, <3>1, <3>2, <3>3, <3>4, <3>5, <3>6, <3>7 DEF Run
  <2>2. ASSUME NEW d \in Procs \ {c}
        PROVE  EntryFits(d)'
    <3>1. pc'[d] \notin Running
      BY <1>2, <2>0, RunsAlone
    <3>2. EntryFits(d) /\ op' = op /\ call'[d] = call[d] /\ entry'[d] = entry[d]
      BY <1>2, <2>0, RunFrame DEF FitInv, Frame
    <3> QED BY <3>1, <3>2 DEF EntryFits, Writing
  <2> QED BY <1>0, <2>1, <2>2 DEF FitInv
<1> QED BY <1>1, <1>2 DEF Next

LEMMA InitFits == Init => FitInv
<1> SUFFICES ASSUME Init PROVE FitInv
  OBVIOUS
<1>1. \A c \in Procs : call[c] = "Get"
  BY DEF Init
<1> QED BY <1>1, InitReady, InitFresh, InitSerial DEF FitInv, EntryFits, Writing

LEMMA FitInvariant ==
  ASSUME Serial, "skip" \notin Faults, "idlag" \notin Faults
  PROVE  Spec => []FitInv
<1>1. FitInv /\ [Next]_vars => FitInv'
  BY NextFits
<1> QED BY <1>1, InitFits, PTL DEF Spec

\* The text of c is in its note, or somebody has removed the note.
TextThere(c) ==
  \/ \E p \in Present : p.id = Id(c) /\ c \in files[p].body
  \/ \E d \in Procs : pc[d] = "done" /\ op[d].cmd = "rm" /\ Id(d) = Id(c)

\* A new or append that ends with "done" has written.
LEMMA DoneSteps ==
  ASSUME Ready, NEW c \in Procs, Run(c), pc'[c] = "done", op[c].cmd \in {"new", "append"}
  PROVE  RenameTmp(c)
<1>0. TypeOK /\ Control(c) /\ call[c] \in {"Get", "Put", "Delete"}
  BY DEF Ready, TypeOK
<1>1. ~FoundRef(c)
  BY <1>0 DEF FoundRef, Goto, AfterScan, TypeOK
<1> QED BY <1>0, <1>1
  DEF TypeOK, Control, Run, Goto, End, Start, ListMonths, ScanMonth, SkipMonth, NotFound,
      ReadEntry, AfterGet, FileGone, Reread, AllocateId, MakeDir, RenameNote, WriteTmp, RemoveNote,
      Fail, Crash

LEMMA NextTexts ==
  ASSUME FitInv, WrittenTextStays, [Next]_vars
  PROVE  WrittenTextStays'
<1> SUFFICES ASSUME NEW c \in Procs, pc'[c] = "done", op'[c].cmd \in {"new", "append"}
             PROVE  TextThere(c)'
  BY DEF WrittenTextStays, TextThere
<1>0. Ready /\ SerialInv /\ OneFilePerId /\ TypeOK
  BY DEF FitInv, SerialInv, Ready
<1>1. CASE UNCHANGED vars \/ RestoreIdFile
  BY <1>1 DEF vars, RestoreIdFile, locals, WrittenTextStays, TextThere, Present, Id
<1>2. ASSUME NEW e \in Procs, Run(e), ~AllocateId(e)
      PROVE  TextThere(c)'
  <2>0. /\ op' = op
        /\ \A d \in Procs : Id(d)' = Id(d)
        /\ \A d \in Procs \ {e} : pc'[d] = pc[d]
        /\ Control(e) /\ OneId(e) /\ EntryFits(e) /\ RefSettled(e)
    BY <1>0, <1>2, IdKept, RunFrame DEF Frame, FitInv, Ready, SerialInv
  <2>1. CASE c = e
    <3>1. RenameTmp(c)
      BY <1>0, <1>2, <2>0, <2>1, DoneSteps
    <3>2. /\ NewPath(c) \in Path /\ NewPath(c) \in Present' /\ NewPath(c).id = Id(c)
          /\ files'[NewPath(c)] = tmp[NewPath(c)]
      BY <1>0, <3>1, RenameTmpPresent
    <3>3. pc[c] = "commit" /\ call[c] = "Put"
      BY <2>0, <2>1, <3>1 DEF RenameTmp, Control, PutSteps
    <3>4. tmp[NewPath(c)] = MetaToFrontmatter(entry[c])
      BY <2>0, <2>1, <3>3 DEF RefSettled
    <3>5. c \in files'[NewPath(c)].body
      BY <1>0, <2>0, <2>1, <3>2, <3>3, <3>4, MetaToFrontmatterType DEF EntryFits, TypeOK
    <3> QED BY <2>0, <3>2, <3>5 DEF TextThere
  <2>2. CASE c # e /\ \E d \in Procs : pc[d] = "done" /\ op[d].cmd = "rm" /\ Id(d) = Id(c)
    <3>1. PICK d \in Procs : pc[d] = "done" /\ op[d].cmd = "rm" /\ Id(d) = Id(c)
      BY <2>2
    <3>2. d # e
      BY <1>0, <1>2, <3>1
      DEF TypeOK, Run, Goto, Start, ListMonths, ScanMonth, SkipMonth, FoundRef, NotFound, ReadEntry,
          FileGone, Reread, AllocateId, MakeDir, RenameNote, WriteTmp, RenameTmp, RemoveNote, Fail,
          Crash, Running, Steps, Final
    <3> QED BY <2>0, <3>1, <3>2 DEF TextThere
  <2>3. CASE c # e /\ \E p \in Present : p.id = Id(c) /\ c \in files[p].body
    <3>1. PICK p \in Present : p.id = Id(c) /\ c \in files[p].body
      BY <2>3
    <3>2. CASE RenameNote(e)
      <4>1. /\ Present' = (Present \ {ref[e]}) \cup {NewPath(e)}
            /\ ref[e] \in Present /\ ref[e].id = Id(e) /\ ref[e] # NewPath(e)
            /\ NewPath(e).id = Id(e)
            /\ files'[NewPath(e)] = files[ref[e]]
            /\ \A q \in Path \ {ref[e], NewPath(e)} : files'[q] = files[q]
        BY <1>0, <3>2, RenameNotePresent
      <4>2. p # NewPath(e)
        BY <1>0, <4>1 DEF OneFilePerId
      <4>3. CASE p = ref[e]
        BY <2>0, <3>1, <4>1, <4>3 DEF TextThere
      <4>4. CASE p # ref[e]
        BY <2>0, <3>1, <4>1, <4>2, <4>4 DEF TextThere, Present
      <4> QED BY <4>3, <4>4
    <3>3. CASE RenameTmp(e)
      <4>1. /\ Present' = Present \cup {NewPath(e)} /\ NewPath(e).id = Id(e)
            /\ files'[NewPath(e)] = tmp[NewPath(e)]
            /\ \A q \in Path \ {NewPath(e)} : files'[q] = files[q]
        BY <1>0, <3>3, RenameTmpPresent
      <4>2. pc[e] = "commit" /\ Writing(e)
        BY <2>0, <3>3 DEF RenameTmp, Control, PutSteps, Writing, Running, Steps, Final
      <4>3. tmp[NewPath(e)] = MetaToFrontmatter(entry[e])
        BY <2>0, <4>2 DEF RefSettled
      <4>4. CASE p = NewPath(e)
        <5>1. p \in FilesOf(Id(e))
          BY <4>1, <4>4 DEF FilesOf
        <5>2. files[p].body \subseteq entry[e].body
          BY <2>0, <4>2, <5>1 DEF EntryFits
        <5>3. c \in files'[p].body
          BY <1>0, <3>1, <4>1, <4>3, <4>4, <5>2, MetaToFrontmatterType DEF TypeOK
        <5> QED BY <2>0, <3>1, <4>1, <5>3 DEF TextThere
      <4>5. CASE p # NewPath(e)
        BY <2>0, <3>1, <4>1, <4>5 DEF TextThere, Present
      <4> QED BY <4>4, <4>5
    <3>4. CASE RemoveNote(e)
      <4>1. /\ Present' = Present \ {ref[e]} /\ ref[e].id = Id(e) /\ op[e].cmd = "rm"
            /\ \A q \in Path \ {ref[e]} : files'[q] = files[q]
        BY <1>0, <3>4, RemoveNotePresent
      <4>2. CASE p = ref[e]
        <5>1. pc'[e] = "done"
          BY <1>0, <3>4 DEF RemoveNote, End, TypeOK
        <5> QED BY <2>0, <3>1, <4>1, <4>2, <5>1 DEF TextThere
      <4>3. CASE p # ref[e]
        BY <2>0, <3>1, <4>1, <4>3 DEF TextThere, Present
      <4> QED BY <4>2, <4>3
    <3>5. CASE ~(RenameNote(e) \/ RenameTmp(e) \/ RemoveNote(e))
      <4>1. files' = files
        BY <1>2, <3>5
        DEF Run, shared, Start, ListMonths, ScanMonth, SkipMonth, FoundRef, NotFound, ReadEntry,
            FileGone, Reread, MakeDir, WriteTmp, Fail, Crash
      <4> QED BY <2>0, <3>1, <4>1 DEF TextThere, Present
    <3> QED BY <3>2, <3>3, <3>4, <3>5
  <2>4. c # e => TextThere(c)
    BY <2>0 DEF WrittenTextStays, TextThere
  <2> QED BY <2>1, <2>2, <2>3, <2>4 DEF TextThere
<1>3. ASSUME NEW e \in Procs, AllocateId(e)
      PROVE  TextThere(c)'
  <2>1. /\ files' = files /\ op' = op /\ pc[e] = "nextid" /\ pc'[e] = "list"
        /\ \A d \in Procs \ {e} : pc'[d] = pc[d] /\ Id(d)' = Id(d)
    BY <1>0, <1>3 DEF AllocateId, Goto, TypeOK, Id
  <2>2. c # e /\ TextThere(c)
    BY <2>1 DEF WrittenTextStays, TextThere
  <2> QED BY <2>1, <2>2 DEF TextThere, Present
<1> QED BY <1>1, <1>2, <1>3 DEF Next

\* The text that a finished new or append has written stays until somebody removes
\* the note, through any number of later renames and rewrites, also by commands
\* that fail or die.
THEOREM WrittenTexts ==
  ASSUME Serial, "skip" \notin Faults, "idlag" \notin Faults
  PROVE  Spec => []WrittenTextStays
<1>1. Init => WrittenTextStays
  BY DEF Init, WrittenTextStays
<1>2. FitInv /\ WrittenTextStays /\ [Next]_vars => WrittenTextStays'
  BY NextTexts
<1> QED BY <1>1, <1>2, FitInvariant, PTL DEF Spec

-----------------------------------------------------------------------------
(* The refinement of Store.                                                *)

\* With one file for each ID, Notes says what the files say.
NotesGood ==
  /\ \A p \in Present : Notes[p.id] = NoteOf(p) /\ NoteOf(p) \in Abstract!Note
  /\ \A id \in Ids : HasFile(id) <=> Notes[id] # Absent

LEMMA OnlyOne ==
  ASSUME NEW S, \A p, q \in S : p.id = q.id => p = q, NEW p \in S
  PROVE  (CHOOSE q \in S : q.id = p.id) = p
OBVIOUS

LEMMA NotesFromFiles == TypeOK /\ OneFilePerId => NotesGood
<1> SUFFICES ASSUME TypeOK, OneFilePerId PROVE NotesGood
  OBVIOUS
<1>1. ASSUME NEW p \in Present
      PROVE  Notes[p.id] = NoteOf(p) /\ NoteOf(p) \in Abstract!Note
  <2>1. p \in Path /\ p.id \in Ids /\ files[p] \in Content
    BY DEF Present, Path, TypeOK, Files
  <2>2. HasFile(p.id)
    BY DEF HasFile
  <2>3. (CHOOSE q \in Present : q.id = p.id) = p
    BY OnlyOne DEF OneFilePerId
  <2>4. Notes[p.id] = NoteOf(p)
    BY <2>1, <2>2, <2>3 DEF Notes
  <2>5. FrontmatterToMeta(p, files[p]) \in Entry
    BY <2>1, FrontmatterToMetaType
  <2>6. NoteOf(p) \in Abstract!Note
    BY <2>5 DEF NoteOf, Entry, Abstract!Note
  <2> QED BY <2>4, <2>6
<1>2. \A id \in Ids : ~HasFile(id) => Notes[id] = Absent
  BY DEF Notes, NoNote
<1>3. Absent \notin Abstract!Note
  BY DEF Abstract!Note
<1>4. \A id \in Ids : HasFile(id) => Notes[id] # Absent
  BY <1>1, <1>3 DEF HasFile
<1> QED BY <1>1, <1>2, <1>4 DEF NotesGood

LEMMA NotesFromFilesNext ==
  ASSUME TypeOK', OneFilePerId'
  PROVE  NotesGood'
BY NotesFromFiles, PTL

\* The note of an ID whose files do not change stays the same.
LEMMA NotesKept ==
  ASSUME NotesGood, NotesGood', NEW i \in Ids,
         \A p \in Path : p.id = i => files'[p] = files[p]
  PROVE  Notes'[i] = Notes[i]
<1>1. CASE HasFile(i)
  <2>1. PICK p \in Path : p \in Present /\ p.id = i
    BY <1>1 DEF HasFile, Present
  <2>2. files'[p] = files[p] /\ p \in Present'
    BY <2>1 DEF Present
  <2>3. NoteOf(p)' = NoteOf(p)
    BY <2>2 DEF NoteOf
  <2> QED BY <2>1, <2>2, <2>3 DEF NotesGood
<1>2. CASE ~HasFile(i)
  <2>1. ~HasFile(i)'
    BY <1>2 DEF HasFile, Present
  <2> QED BY <1>2, <2>1 DEF NotesGood
<1> QED BY <1>1, <1>2

\* One note changes: what is left to say is what becomes of it.
LEMMA OneNoteChanges ==
  ASSUME NotesGood, NotesGood', NEW id \in Ids,
         \A p \in Path : p.id # id => files'[p] = files[p]
  PROVE  Notes' = [Notes EXCEPT ![id] = Notes'[id]]
<1>1. \A i \in Ids \ {id} : Notes'[i] = Notes[i]
  BY NotesKept
<1>2. /\ Notes = [i \in Ids |-> Notes[i]]
      /\ Notes' = [i \in Ids |-> Notes'[i]]
  BY DEF Notes
<1> QED BY <1>1, <1>2

\* Of the process that takes a step, Reserved holds the ID of its new note.
OwnReserved(c) ==
  IF op[c].cmd = "new" /\ pc[c] \in Running \ {"nextid"} THEN {entry[c].id} ELSE {}

LEMMA ReservedIsOwn ==
  ASSUME NEW c \in Procs, Alone(c), Alone(c)'
  PROVE  Reserved = OwnReserved(c) /\ Reserved' = OwnReserved(c)'
BY DEF Alone, Reserved, OwnReserved

\* The steps that leave the files alone take an ID, lose one, or do nothing that
\* Store knows of.
LEMMA QuietStepStore ==
  ASSUME FitInv, NEW c \in Procs, Run(c), Alone(c), Alone(c)',
         ~RenameNote(c), ~RenameTmp(c), ~RemoveNote(c)
  PROVE  Abstract!Next \/ UNCHANGED Abstract!vars
<1>0. /\ TypeOK /\ Control(c) /\ OneId(c)
      /\ Reserved = OwnReserved(c) /\ Reserved' = OwnReserved(c)' /\ op' = op
      /\ entry[c] \in Entry /\ last \in Nat
  BY ReservedIsOwn, RunFrame DEF FitInv, Ready, Frame, TypeOK
<1>1. files' = files
  BY DEF Run, shared, Start, ListMonths, ScanMonth, SkipMonth, FoundRef, NotFound, ReadEntry, FileGone,
         Reread, AllocateId, MakeDir, WriteTmp, Fail, Crash
<1>2. Notes' = Notes
  BY <1>1 DEF Notes, HasFile, Present, NoteOf
<1>3. ASSUME last' = last, Reserved' = Reserved
      PROVE  UNCHANGED Abstract!vars
  BY <1>2, <1>3 DEF Abstract!vars
<1>4. ASSUME last' = last + 1, Reserved' \in {Reserved, Reserved \cup {last + 1}}
      PROVE  Abstract!Next
  BY <1>2, <1>4 DEF Abstract!Next, Abstract!TakeId
<1>5. ASSUME NEW how \in Final, End(c, how),
             last' = last \/ (pc[c] = "nextid" /\ last' = last + 1)
      PROVE  Abstract!Next \/ UNCHANGED Abstract!vars
  <2>1. Reserved' = {}
    BY <1>0, <1>5 DEF OwnReserved, End, TypeOK, Running
  <2>2. CASE Reserved = {}
    BY <1>3, <1>4, <1>5, <2>1, <2>2
  <2>3. CASE Reserved # {}
    <3>1. op[c].cmd = "new" /\ pc[c] \in Running \ {"nextid"} /\ Reserved = {entry[c].id}
      BY <1>0, <2>3 DEF OwnReserved
    <3>2. entry[c].id \in Ids
      BY <1>0, <3>1 DEF Control, OneId
    <3>3. Abstract!LoseId(entry[c].id)
      BY <1>2, <1>5, <2>1, <3>1 DEF Abstract!LoseId
    <3> QED BY <3>2, <3>3 DEF Abstract!Next
  <2> QED BY <2>2, <2>3
<1>6. CASE Start(c)
  <2>1. pc[c] = "idle" /\ last' = last
    BY <1>6 DEF Start, shared
  <2>2. op[c].cmd = "new" => pc'[c] = "nextid"
    BY <1>0, <1>6 DEF Start, TypeOK
  <2> QED BY <1>0, <1>3, <2>1, <2>2 DEF OwnReserved, Running, Steps, Final
<1>7. CASE ListMonths(c) \/ ScanMonth(c) \/ SkipMonth(c) \/ FoundRef(c) \/ MakeDir(c) \/ WriteTmp(c)
  <2>1. /\ last' = last /\ entry' = entry
        /\ pc[c] \in {"list", "scan", "mkdir", "write"}
        /\ pc'[c] \in {"scan", "read", "mkdir", "remove", "write", "move", "commit"}
    <3>1. FoundRef(c) => pc'[c] \in {"read", "mkdir", "remove"}
      BY <1>0 DEF FoundRef, Goto, AfterScan, TypeOK
    <3> QED BY <1>0, <1>7, <3>1
            DEF ListMonths, ScanMonth, SkipMonth, FoundRef, MakeDir, WriteTmp, Goto, shared, TypeOK
  <2> QED BY <1>0, <1>3, <2>1 DEF OwnReserved, Running, Steps, Final
<1>8. CASE NotFound(c)
  <2>1. CASE call[c] = "Put"
    <3>1. last' = last /\ entry' = entry /\ pc[c] = "scan" /\ pc'[c] = "mkdir"
      BY <1>0, <1>8, <2>1 DEF NotFound, shared, TypeOK
    <3> QED BY <1>0, <1>3, <3>1 DEF OwnReserved, Running, Steps, Final
  <2>2. CASE call[c] # "Put"
    <3>1. End(c, "notfound") /\ last' = last
      BY <1>8, <2>2 DEF NotFound, shared
    <3> QED BY <1>5, <3>1 DEF Final
  <2> QED BY <2>1, <2>2
<1>9. CASE ReadEntry(c)
  <2>1. op[c].cmd # "new" /\ last' = last
    BY <1>0, <1>9 DEF ReadEntry, Control, Running, Steps, Final, shared
  <2> QED BY <1>0, <1>3, <2>1 DEF OwnReserved
<1>10. CASE AllocateId(c)
  <2>1. /\ pc[c] = "nextid" /\ pc'[c] = "list" /\ op[c].cmd = "new" /\ last' = last + 1
        /\ entry'[c] = [entry[c] EXCEPT !.id = last + 1, !.date = Today]
    BY <1>0, <1>10 DEF AllocateId, Goto, Control, TypeOK
  <2>2. Reserved = {} /\ Reserved' = {last + 1}
    BY <1>0, <2>1 DEF OwnReserved, Entry, Running, Steps, Final
  <2> QED BY <1>4, <2>1, <2>2
<1>11. CASE FileGone(c) \/ Reread(c) \/ Fail(c) \/ Crash(c)
  <2>1. PICK how \in Final : End(c, how)
    BY <1>11 DEF FileGone, Reread, Fail, Crash, Final
  <2>2. last' = last \/ (pc[c] = "nextid" /\ last' = last + 1)
    BY <1>11 DEF FileGone, Reread, Fail, Crash, shared
  <2> QED BY <1>5, <2>1, <2>2
<1> QED BY <1>6, <1>7, <1>8, <1>9, <1>10, <1>11 DEF Run

\* Moving the file changes the slug and the date of its note at most.
LEMMA RenameNoteStore ==
  ASSUME FitInv, NotesGood, NotesGood', NEW c \in Procs, RenameNote(c), Alone(c), Alone(c)'
  PROVE  Abstract!Next
<1>0. /\ Ready /\ TypeOK /\ Reserved = OwnReserved(c) /\ Reserved' = OwnReserved(c)'
  BY ReservedIsOwn DEF FitInv, Ready
<1>1. /\ last' = last /\ pc[c] = "move" /\ pc'[c] = "write" /\ UNCHANGED <<op, entry>>
  BY <1>0 DEF RenameNote, Goto, TypeOK
<1>2. Reserved' = Reserved
  BY <1>0, <1>1 DEF OwnReserved, Running, Steps, Final
<1>3. /\ ref[c] \in Present /\ ref[c].id = Id(c) /\ NewPath(c) \in Path /\ NewPath(c).id = Id(c)
      /\ NewPath(c) \in Present' /\ files'[NewPath(c)] = files[ref[c]]
      /\ \A p \in Path : p.id # Id(c) => files'[p] = files[p]
  BY <1>0, RenameNotePresent
<1>4. PICK q \in Path : q = NewPath(c)
  BY <1>3
<1>5. PICK id \in Ids : id = Id(c)
  BY <1>3 DEF Path
<1>6. /\ Notes[id] = NoteOf(ref[c]) /\ Notes'[id] = NoteOf(q)'
      /\ NoteOf(ref[c]) \in Abstract!Note /\ NoteOf(q)' \in Abstract!Note
  BY <1>3, <1>4, <1>5 DEF NotesGood
<1>7. NoteOf(q)'.body = NoteOf(ref[c]).body
  BY <1>3, <1>4 DEF NoteOf, FrontmatterToMeta
<1>8. Notes'[id] = [Notes[id] EXCEPT !.slug = NoteOf(q)'.slug, !.date = NoteOf(q)'.date]
  BY <1>6, <1>7 DEF Abstract!Note
<1>9. Notes' = [Notes EXCEPT ![id] = Notes'[id]]
  BY <1>3, <1>5, OneNoteChanges
<1>10. Notes[id] # NoNote
  BY <1>3, <1>5 DEF NotesGood, HasFile, NoNote
<1>11. NoteOf(q)'.slug \in Slugs /\ NoteOf(q)'.date \in Dates
  BY <1>6 DEF Abstract!Note
<1>12. Abstract!Rename(id, NoteOf(q)'.slug, NoteOf(q)'.date)
  BY <1>1, <1>2, <1>8, <1>9, <1>10 DEF Abstract!Rename
<1> QED BY <1>11, <1>12 DEF Abstract!Next

\* Put's last step is the creation, the renaming or the appending.
LEMMA RenameTmpStore ==
  ASSUME FitInv, NotesGood, NotesGood', NEW c \in Procs, RenameTmp(c), Alone(c), Alone(c)'
  PROVE  Abstract!Next
<1>0. /\ Ready /\ TypeOK /\ Reserved = OwnReserved(c) /\ Reserved' = OwnReserved(c)'
      /\ RefSettled(c) /\ EntryFits(c) /\ Control(c) /\ OneId(c) /\ entry[c] \in Entry
  BY ReservedIsOwn DEF FitInv, Ready, SerialInv, TypeOK
<1>1. /\ last' = last /\ op' = op /\ pc[c] = "commit" /\ pc'[c] = "done" /\ call[c] = "Put"
      /\ Writing(c)
  BY <1>0 DEF RenameTmp, End, TypeOK, Control, PutSteps, Writing, Running, Steps, Final
<1>2. Reserved' = {} /\ Reserved = IF op[c].cmd = "new" THEN {entry[c].id} ELSE {}
  BY <1>0, <1>1 DEF OwnReserved, Running, Steps, Final
<1>3. /\ NewPath(c) \in Path /\ NewPath(c).id = Id(c) /\ NewPath(c) \in Present'
      /\ files'[NewPath(c)] = MetaToFrontmatter(entry[c])
      /\ \A p \in Path : p.id # Id(c) => files'[p] = files[p]
  <2>1. tmp[NewPath(c)] = MetaToFrontmatter(entry[c])
    BY <1>0, <1>1 DEF RefSettled
  <2> QED BY <1>0, <2>1, RenameTmpPresent
<1>4. PICK q \in Path : /\ q = NewPath(c) /\ q.slug = entry[c].slug /\ q.date = entry[c].date
  BY <1>3 DEF NewPath, PathFor
<1>5. PICK id \in Ids : id = Id(c) /\ id = entry[c].id
  BY <1>0, <1>1 DEF OneId
<1>6. Notes'[id] = NoteOf(q)' /\ NoteOf(q)' \in Abstract!Note
  BY <1>3, <1>4, <1>5 DEF NotesGood
<1>7. /\ NoteOf(q)'.slug = entry[c].slug /\ NoteOf(q)'.date = entry[c].date
      /\ NoteOf(q)'.body = entry[c].body
  <2>1. files'[q] = MetaToFrontmatter(entry[c])
    BY <1>3, <1>4
  <2>2. entry[c].date # NoDate
    BY <1>0 DEF Entry
  <2> QED BY <1>4, <2>1, <2>2 DEF NoteOf, FrontmatterToMeta, MetaToFrontmatter
<1>8. Notes' = [Notes EXCEPT ![id] = Notes'[id]]
  BY <1>3, <1>5, OneNoteChanges
<1>9. CASE op[c].cmd = "new"
  <2>1. Notes[id] = NoNote
    BY <1>1, <1>5, <1>9 DEF FitInv, FreshInv, Apart, NotesGood, NoNote
  <2>2. Abstract!Create(id, NoteOf(q)')
    BY <1>1, <1>2, <1>5, <1>6, <1>8, <1>9, <2>1 DEF Abstract!Create
  <2> QED BY <1>6, <2>2 DEF Abstract!Next
<1>10. CASE op[c].cmd # "new"
  <2>1. q \in Present /\ q \in FilesOf(Id(c))
    BY <1>0, <1>1, <1>4, <1>10 DEF RefSettled, EntryFits, FilesOf, HasFile
  <2>2. Notes[id] = NoteOf(q) /\ NoteOf(q) \in Abstract!Note /\ Notes[id] # NoNote
    <3>1. q.id = id
      BY <1>3, <1>4, <1>5
    <3>2. HasFile(id)
      BY <2>1, <3>1 DEF HasFile
    <3> QED BY <2>1, <3>1, <3>2 DEF NotesGood, NoNote
  <2>3. NoteOf(q).body = files[q].body
    BY DEF NoteOf, FrontmatterToMeta
  <2>4. CASE op[c].cmd = "append"
    <3>1. /\ entry[c].body = NoteOf(q).body \cup {c}
          /\ entry[c].slug = NoteOf(q).slug /\ entry[c].date = NoteOf(q).date
      BY <1>0, <1>1, <2>1, <2>3, <2>4 DEF EntryFits
    <3>2. Notes'[id] = [Notes[id] EXCEPT !.body = @ \cup {c}]
      BY <1>6, <1>7, <2>2, <3>1 DEF Abstract!Note
    <3>3. Notes' = [Notes EXCEPT ![id].body = @ \cup {c}]
      BY <1>8, <3>2
    <3>4. Reserved' = Reserved
      BY <1>2, <1>10
    <3>5. Abstract!AppendText(id, c)
      BY <1>1, <2>2, <3>3, <3>4 DEF Abstract!AppendText
    <3>6. c \in Texts
      OBVIOUS
    <3> QED BY <3>5, <3>6 DEF Abstract!Next
  <2>5. CASE op[c].cmd # "append"
    <3>1. entry[c].body = NoteOf(q).body
      BY <1>0, <1>1, <2>1, <2>3, <2>5 DEF EntryFits
    <3>2. Notes'[id] = [Notes[id] EXCEPT !.slug = entry[c].slug, !.date = entry[c].date]
      BY <1>6, <1>7, <2>2, <3>1 DEF Abstract!Note
    <3>3. Abstract!Rename(id, entry[c].slug, entry[c].date)
      BY <1>1, <1>2, <1>8, <1>10, <2>2, <3>2 DEF Abstract!Rename
    <3> QED BY <1>0, <3>3 DEF Abstract!Next, Entry
  <2> QED BY <2>4, <2>5
<1> QED BY <1>9, <1>10

\* Removing the one file of an ID is the deletion of its note.
LEMMA RemoveNoteStore ==
  ASSUME FitInv, NotesGood, NotesGood', NEW c \in Procs, RemoveNote(c), Alone(c), Alone(c)'
  PROVE  Abstract!Next
<1>0. /\ Ready /\ TypeOK /\ OneFilePerId /\ Reserved = OwnReserved(c) /\ Reserved' = OwnReserved(c)'
  BY ReservedIsOwn DEF FitInv, Ready, SerialInv
<1>1. /\ last' = last /\ op' = op
      /\ Present' = Present \ {ref[c]} /\ ref[c] \in Present /\ ref[c].id = Id(c) /\ op[c].cmd = "rm"
      /\ \A p \in Path : p.id # Id(c) => files'[p] = files[p]
  BY <1>0, RemoveNotePresent DEF RemoveNote
<1>2. Reserved' = Reserved
  BY <1>0, <1>1 DEF OwnReserved
<1>3. PICK id \in Ids : id = Id(c)
  BY <1>1 DEF Present, Path
<1>4. Notes[id] # NoNote
  BY <1>1, <1>3 DEF NotesGood, HasFile, NoNote
<1>5. ~HasFile(id)'
  BY <1>0, <1>1, <1>3 DEF OneFilePerId, HasFile
<1>6. Notes' = [Notes EXCEPT ![id] = NoNote]
  <2>1. Notes' = [Notes EXCEPT ![id] = Notes'[id]]
    BY <1>1, <1>3, OneNoteChanges
  <2> QED BY <1>5, <2>1 DEF NotesGood, NoNote
<1>7. Abstract!Delete(id)
  BY <1>1, <1>2, <1>4, <1>6 DEF Abstract!Delete
<1> QED BY <1>7 DEF Abstract!Next

LEMMA InitStore == Init => Abstract!Init
<1> SUFFICES ASSUME Init PROVE Abstract!Init
  OBVIOUS
<1>1. TypeOK /\ OneFilePerId
  BY InitType DEF Init, OneFilePerId
<1>2. NotesGood
  BY <1>1, NotesFromFiles
<1>3. Reserved = {}
  BY DEF Init, Reserved, Running, Steps, Final
<1>4. Notes \in [Ids -> Abstract!Note \cup {NoNote}]
  <2>1. Notes = [id \in Ids |-> Notes[id]]
    BY DEF Notes
  <2>2. \A id \in Ids : Notes[id] \in Abstract!Note \cup {NoNote}
    <3> SUFFICES ASSUME NEW id \in Ids PROVE Notes[id] \in Abstract!Note \cup {NoNote}
      OBVIOUS
    <3>1. CASE HasFile(id)
      <4>1. PICK p \in Present : p.id = id
        BY <3>1 DEF HasFile
      <4> QED BY <1>2, <4>1 DEF NotesGood
    <3>2. CASE ~HasFile(id)
      BY <1>2, <3>2 DEF NotesGood, NoNote
    <3> QED BY <3>1, <3>2
  <2> QED BY <2>1, <2>2
<1>5. \A id \in Ids : id > last => Notes[id] = NoNote
  <2>1. ASSUME NEW id \in Ids, id > last
        PROVE  ~HasFile(id)
    <3>1. id \in Nat /\ last \in Nat
      BY <1>1 DEF TypeOK
    <3> QED BY <2>1, <3>1 DEF Init, HasFile
  <2> QED BY <1>2, <2>1 DEF NotesGood, NoNote
<1> QED BY <1>1, <1>3, <1>4, <1>5 DEF Abstract!Init, TypeOK

\* Commands one after the other keep every promise of Store, whichever of their
\* system calls failed and wherever they died: a note is created, appended to or
\* deleted in one step or not at all, a rename changes no text, though an update cut
\* off between its renames may have changed the date without the slug, and nothing
\* else happens to any note.
THEOREM Refinement ==
  ASSUME Serial, "skip" \notin Faults, "idlag" \notin Faults
  PROVE  Spec => ImplementsStore
<1>1. ASSUME FitInv, FitInv', [Next]_vars
      PROVE  [Abstract!Next]_(Abstract!vars)
  <2>1. TypeOK /\ TypeOK' /\ OneFilePerId /\ OneFilePerId' /\ Ready /\ SerialInv
    BY <1>1 DEF FitInv, Ready, SerialInv
  <2>2. NotesGood /\ NotesGood'
    BY <2>1, NotesFromFiles, NotesFromFilesNext
  <2>3. CASE UNCHANGED vars
    BY <2>3 DEF vars, Abstract!vars, Notes, Reserved, HasFile, Present, NoteOf
  <2>4. ASSUME NEW c \in Procs, Run(c)
        PROVE  Abstract!Next \/ UNCHANGED Abstract!vars
    <3>1. Alone(c) /\ Alone(c)'
      BY <2>1, <2>4, RunsAlone
    <3> QED BY <1>1, <2>2, <2>4, <3>1, QuietStepStore, RenameNoteStore, RenameTmpStore, RemoveNoteStore
  <2> QED BY <1>1, <2>3, <2>4 DEF Next, RestoreIdFile
<1>2. FitInv /\ FitInv' /\ [Next]_vars => [Abstract!Next]_(Abstract!vars)
  BY <1>1
<1> QED BY <1>2, InitStore, FitInvariant, PTL DEF Spec, ImplementsStore, Abstract!Spec
=============================================================================

----------------------------- MODULE Reconcile -----------------------------
(***************************************************************************)
(* Store.Reconcile and the caller that keeps a copy of the store up to     *)
(* date with it: known maps the ID of a note to the modification time of   *)
(* the file it was read from, and a file whose time is the known one is    *)
(* not read again.  Other processes write, rename, touch, restore and      *)
(* remove notes between any two of its system calls.                       *)
(*                                                                         *)
(* Abstractions: the scan is one step (OSStore has it in detail) and finds *)
(* one file of an ID; all notes are of one day; times are as fine as the   *)
(* comment on Reconcile asks for, so that no write has the time of an      *)
(* earlier one.                                                            *)
(***************************************************************************)
EXTENDS Naturals

CONSTANTS
  Ids,      \* note IDs
  Names,    \* the file names of an ID
  None,     \* no file, or nothing known
  Changes   \* bound: how often the store changes or a system call fails

Time    == 0..Changes
Version == [text : Time, mtime : Time]
File    == [name : Names, version : Version]
Ref     == [id : Ids, name : Names]
Entry   == [id : Ids, version : Version]

ASSUME ReconcileAssumption ==
  /\ Ids \subseteq Nat /\ Ids # {}
  /\ Names # {}
  /\ None \notin File \cup Version
  /\ Changes \in Nat

VARIABLES
  files,   \* the file of each note
  now,     \* the clock; every change and every failure takes one tick
  past,    \* history: the versions each note has had
  slips,   \* history: the times of files that got another text after they were
           \* read and before Reconcile took their time
  pc,      \* the next step of Reconcile
  refs,    \* the files the scan has found, not yet dealt with
  ref,     \* the one being read
  text,    \* what was read of it
  seen,    \* the IDs that are still there
  diff,    \* the entries read: those added, those updated
  copy,    \* the caller's copy: of each note, text and known modification time
  still    \* history: nothing has changed or failed since the last scan

outside == <<files, now, past, slips>>
locals  == <<refs, ref, text, seen, diff>>
vars    == <<files, now, past, slips, pc, refs, ref, text, seen, diff, copy, still>>

Present == {id \in Ids : files[id] # None}

NoDiff == [added |-> {}, updated |-> {}]

\* The copy is empty, or was made by All.
Init ==
  /\ files \in [Ids -> [name : Names, version : {[text |-> 0, mtime |-> 0]}] \cup {None}]
  /\ now = 0
  /\ past = [id \in Ids |-> IF files[id] = None THEN {} ELSE {files[id].version}]
  /\ slips = {}
  /\ pc = "idle"
  /\ refs = {}
  /\ ref = CHOOSE r \in Ref : TRUE
  /\ text = 0
  /\ seen = {}
  /\ diff = NoDiff
  /\ copy \in {[id \in Ids |-> None],
               [id \in Ids |-> IF files[id] = None THEN None ELSE files[id].version]}
  /\ still = FALSE

-----------------------------------------------------------------------------
(* Other processes.                                                        *)

\* The file that has been read, and not yet looked at again, gets another text.
Slips(id, file) ==
  /\ pc = "restat"
  /\ [id |-> id, name |-> file.name] = ref
  /\ file.version.text # text

Change(id, file) ==
  /\ now < Changes
  /\ now' = now + 1
  /\ files' = [files EXCEPT ![id] = file]
  /\ past' = IF file = None THEN past ELSE [past EXCEPT ![id] = @ \cup {file.version}]
  /\ slips' = IF file # None /\ Slips(id, file) THEN slips \cup {<<id, file.version.mtime>>} ELSE slips
  /\ still' = FALSE
  /\ UNCHANGED <<pc, locals, copy>>

\* A Put, under the same name or, for a new note, under any.
Write(id, name) ==
  /\ id \in Present => name = files[id].name
  /\ Change(id, [name |-> name, version |-> [text |-> now + 1, mtime |-> now + 1]])

Rename(id, name) ==
  /\ id \in Present
  /\ name # files[id].name
  /\ Change(id, [files[id] EXCEPT !.name = name])

Touch(id) ==
  /\ id \in Present
  /\ Change(id, [files[id] EXCEPT !.version.mtime = now + 1])

\* rsync or a backup puts an earlier version back, with its time.
Restore(id, name) ==
  \E v \in past[id] : Change(id, [name |-> name, version |-> v])

Remove(id) ==
  /\ id \in Present
  /\ Change(id, None)

-----------------------------------------------------------------------------
(* Mutants, used only to show that the properties below can fail.          *)

IsKnownIfNotOlder(id, mtime) == copy[id] # None /\ copy[id].mtime >= mtime

RemovedUnlessRead == {id \in Ids : copy[id] # None} \ {e.id : e \in diff.added \cup diff.updated}

-----------------------------------------------------------------------------
(* Reconcile.                                                              *)

\* knownTime.Equal(modTime)
IsKnown(id, mtime) == copy[id] # None /\ copy[id].mtime = mtime

\* The IDs that are known and were not seen.
Removed == {id \in Ids : copy[id] # None} \ seen

Scan ==
  /\ pc = "idle"
  /\ pc' = "stat"
  /\ refs' = {[id |-> id, name |-> files[id].name] : id \in Present}
  /\ seen' = {}
  /\ diff' = NoDiff
  /\ still' = TRUE
  /\ UNCHANGED <<outside, ref, text, copy>>

\* The file of a ref is where the scan has found it.
There(r) == files[r.id] # None /\ files[r.id].name = r.name

\* The newest of the files that are left is looked at: it is gone, is known, or
\* has to be read.
Stat ==
  /\ pc = "stat"
  /\ \E r \in refs :
       /\ \A q \in refs : q.id <= r.id
       /\ refs' = refs \ {r}
       /\ IF There(r) /\ ~IsKnown(r.id, files[r.id].version.mtime)
            THEN /\ pc' = "read"
                 /\ ref' = r
                 /\ UNCHANGED seen
            ELSE /\ seen' = IF There(r) THEN seen \cup {r.id} ELSE seen
                 /\ UNCHANGED <<pc, ref>>
  /\ UNCHANGED <<outside, text, diff, copy, still>>

\* readEntry: a file that has gone meanwhile is passed over.
Gone ==
  /\ pc \in {"read", "restat"}
  /\ ~There(ref)
  /\ pc' = "stat"
  /\ UNCHANGED <<outside, locals, copy, still>>

ReadFile ==
  /\ pc = "read"
  /\ There(ref)
  /\ pc' = "restat"
  /\ text' = files[ref.id].version.text
  /\ UNCHANGED <<outside, refs, ref, seen, diff, copy, still>>

\* The entry gets the time the file has after it was read.
Restat ==
  /\ pc = "restat"
  /\ There(ref)
  /\ pc' = "stat"
  /\ seen' = seen \cup {ref.id}
  /\ LET e == [id |-> ref.id, version |-> [text |-> text, mtime |-> files[ref.id].version.mtime]]
     IN  diff' = IF copy[ref.id] # None THEN [diff EXCEPT !.updated = @ \cup {e}]
                                        ELSE [diff EXCEPT !.added = @ \cup {e}]
  /\ UNCHANGED <<outside, refs, ref, text, copy, still>>

\* The entries read of a note.
EntriesOf(id) == {e \in diff.added \cup diff.updated : e.id = id}

\* The caller takes over the entries and drops what was removed.
Applied(id) ==
  IF EntriesOf(id) # {} THEN (CHOOSE e \in EntriesOf(id) : TRUE).version
  ELSE IF id \in Removed THEN None
  ELSE copy[id]

Return ==
  /\ pc = "stat"
  /\ refs = {}
  /\ pc' = "idle"
  /\ copy' = [id \in Ids |-> Applied(id)]
  /\ UNCHANGED <<outside, locals, still>>

\* A system call fails otherwise, or the file cannot be parsed: no diff at all.
Fail ==
  /\ now < Changes
  /\ \/ pc \in {"read", "restat"}
     \/ pc = "stat" /\ refs # {}
  /\ now' = now + 1
  /\ pc' = "idle"
  /\ still' = FALSE
  /\ UNCHANGED <<files, past, slips, locals, copy>>

-----------------------------------------------------------------------------
Others ==
  \E id \in Ids :
    \/ Touch(id) \/ Remove(id)
    \/ \E name \in Names : Write(id, name) \/ Rename(id, name) \/ Restore(id, name)

Pass == Scan \/ Stat \/ Gone \/ ReadFile \/ Restat \/ Return

Next == Others \/ Pass \/ Fail

Spec == Init /\ [][Next]_vars

-----------------------------------------------------------------------------
(* Properties.                                                             *)

TypeOK ==
  /\ files \in [Ids -> File \cup {None}]
  /\ now \in Time
  /\ past \in [Ids -> SUBSET Version]
  /\ slips \subseteq Ids \X Time
  /\ pc \in {"idle", "stat", "read", "restat"}
  /\ refs \subseteq Ref
  /\ ref \in Ref
  /\ text \in Time
  /\ seen \subseteq Ids
  /\ diff \in [added : SUBSET Entry, updated : SUBSET Entry]
  /\ copy \in [Ids -> Version \cup {None}]
  /\ still \in BOOLEAN

\* The file still has the time that Reconcile has taken together with a text
\* that was no longer in it.
Slipped(id) ==
  /\ files[id] # None /\ copy[id] # None
  /\ copy[id].mtime = files[id].version.mtime
  /\ <<id, copy[id].mtime>> \in slips

\* The copy is the store, in every text and time, but for a note that slipped
\* Reconcile between its read and its stat and has had the same time since.
UpToDate ==
  \A id \in Ids : copy[id] = (IF files[id] = None THEN None ELSE files[id].version) \/ Slipped(id)

\* However many passes were disturbed at any of their system calls, broken off or
\* told of notes that had only been renamed: after one pass in quiet the copy is
\* up to date.  What a disturbed pass got wrong is not taken for known, but for a
\* text that slipped it, which is caught up with the note's next new time.
QuietPassCatchesUp == pc = "idle" /\ still => UpToDate

\* A caller that goes on reconciling is up to date for good, once the store has
\* stopped changing.
EventuallyUpToDate == WF_vars(Pass) => <>[]UpToDate
=============================================================================

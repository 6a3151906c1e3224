------------------------------ MODULE Commands ------------------------------
(***************************************************************************)
(* The commands new, update, append, annotate and rm, run by processes     *)
(* that share an archive: each looks, then edits what it has seen, then    *)
(* writes the note whole, and the others' steps come between.              *)
(*                                                                         *)
(* A call of the store is one step here, and a Put that is cut off between *)
(* its rename and its write another: no other process comes in between     *)
(* (OSStore has the system calls of Put, Get and Delete one by one,        *)
(* IdAlloc those of NextID).  The in-memory store is given the same Puts   *)
(* and Deletes beside the files, but for those that were cut off.          *)
(***************************************************************************)
EXTENDS MemStore

CONSTANTS
  Procs,     \* processes, each of one command at a time
  Given,     \* the command lines they are run with
  Asked,     \* the queries that ls, resolve, new and new-todo make
  Answers,   \* what claude may answer
  Archives,  \* what may be in the store to begin with
  Keep,      \* a flag that was not given
  MaxLines   \* the length that bodies stop growing at

NewCommand == [op : {"new"}, upsert : BOOLEAN, title : Titles, slug : Slugs, tags : SUBSET Tags, body : Data]

UpdateCommand == [op : {"update"}, id : Ids, title : Titles \cup {Keep}, slug : Slugs \cup {Keep},
                  tags : {Keep} \cup SUBSET Tags, date : Dates \cup {Keep}]

AppendCommand == [op : {"append"}, id : Ids, content : Data]

PlainCommand == [op : {"annotate", "rm"}, id : Ids]

Command == NewCommand \cup UpdateCommand \cup AppendCommand \cup PlainCommand

ASSUME CommandsAssumption ==
  /\ Given \subseteq Command
  /\ \A c \in Given : c.op = "new" /\ c.upsert => c.slug # NoSlug
  /\ Asked \subseteq Query
  /\ Answers \subseteq [title : Titles, tags : SUBSET Tags]
  /\ Archives \subseteq Memory /\ Archives # {}
  /\ None \notin Entry /\ None \notin File /\ None \notin Command
  /\ Unset \notin Slugs /\ Unset \notin Dates
  /\ Keep \notin Titles /\ Keep \notin Slugs /\ (\A tags \in SUBSET Tags : Keep # tags) /\ Keep \notin Dates
  /\ MaxLines \in Nat

VARIABLES
  files,    \* the archive, by ID
  mem,      \* the in-memory store after the same calls
  halfway,  \* history: the notes whose last Put was cut off after its rename
  last,     \* last_id of id.json
  day,      \* today
  pc, cmd,  \* of each process: where it is, its command line
  got,      \* the entry that Get has returned
  overtaken \* whether what it has seen has changed since

vars == <<files, mem, halfway, last, day, pc, cmd, got, overtaken>>

Init ==
  /\ mem \in Archives
  /\ files = [id \in Ids |-> IF mem[id] = None THEN None ELSE WriteEntry(mem[id])]
  /\ halfway = {}
  /\ last \in Ids \cup {0} /\ \A id \in Present(mem) : id <= last
  /\ day \in Dates
  /\ pc = [p \in Procs |-> "idle"]
  /\ cmd = [p \in Procs |-> None]
  /\ got = [p \in Procs |-> None]
  /\ overtaken = [p \in Procs |-> FALSE]

-----------------------------------------------------------------------------
(* The calls of the store.                                                 *)

Readable(id) == files[id] # None /\ ~Malformed(files[id].data)

\* Another process has looked at what p changes: at the note, or, before it
\* creates one, at the archive and the day.
Overtakes(p, id) ==
  overtaken' = [q \in Procs |-> q # p /\
    \/ overtaken[q]
    \/ pc[q] = "create"
    \/ pc[q] \in {"edit", "delete"} /\ cmd[q].id = id]

Ends(p) ==
  /\ pc' = [pc EXCEPT ![p] = "idle"]
  /\ cmd' = [cmd EXCEPT ![p] = None]
  /\ got' = [got EXCEPT ![p] = None]

\* A mutant: the name of a file that exists is left as it is.
PutUnderOldName(p, id, e) ==
  /\ files' = [files EXCEPT ![id] =
       [WriteEntry(e) EXCEPT !.slug = IF files[id] = None THEN @ ELSE files[id].slug]]
  /\ mem' = MemPut(mem, id, e)
  /\ halfway' = halfway \ {id}
  /\ Overtakes(p, id)
  /\ Ends(p)

\* A note that was removed since Get is created again.
Put(p, id, e) ==
  /\ files' = [files EXCEPT ![id] = WriteEntry(e)]
  /\ mem' = MemPut(mem, id, e)
  /\ halfway' = halfway \ {id}
  /\ Overtakes(p, id)
  /\ Ends(p)

\* The file has been renamed; then the process dies, or WriteAtomic fails.
CutPut(p, id, e) ==
  /\ files[id] # None
  /\ files[id].date # e.date \/ files[id].slug # NameSlug(e.slug)
  /\ files' = [files EXCEPT ![id] = [WriteEntry(e) EXCEPT !.data = files[id].data]]
  /\ halfway' = halfway \cup {id}
  /\ Overtakes(p, id)
  /\ Ends(p)
  /\ UNCHANGED mem

Edits(p, e) == Put(p, cmd[p].id, e) \/ CutPut(p, cmd[p].id, e)

Goto(p, label) ==
  /\ pc' = [pc EXCEPT ![p] = label]
  /\ UNCHANGED <<files, mem, halfway, last, day, cmd>>
  /\ overtaken' = [overtaken EXCEPT ![p] = FALSE]

\* The command ends without a change: nothing to do, not found, an error, or
\* the process dies.
Gives(p) ==
  /\ Ends(p)
  /\ overtaken' = [overtaken EXCEPT ![p] = FALSE]
  /\ UNCHANGED <<files, mem, halfway, last, day>>

-----------------------------------------------------------------------------
(* new                                                                     *)

NewEntry(c) ==
  [title |-> c.title, slug |-> c.slug, date |-> day, dateExplicit |-> FALSE,
   tags |-> c.tags, extra |-> NoExtra, body |-> c.body]

FindExisting(p) ==
  LET q == UpsertQuery(cmd[p].slug, day)
  IN  /\ pc[p] = "look"
      /\ IF FindStops(files, q) = {}
           THEN Goto(p, "create") /\ UNCHANGED got
           ELSE Gives(p)  \* found, or a note before it does not parse

Create(p) ==
  /\ pc[p] = "create"
  /\ last + 1 \in Ids
  /\ last' = last + 1
  /\ Put(p, last + 1, NewEntry(cmd[p]))
  /\ UNCHANGED day

\* NextID has counted, the write of the note fails.
CreateFails(p) ==
  /\ pc[p] = "create"
  /\ last + 1 \in Ids
  /\ last' = last + 1
  /\ Ends(p)
  /\ overtaken' = [overtaken EXCEPT ![p] = FALSE]
  /\ UNCHANGED <<files, mem, halfway, day>>

-----------------------------------------------------------------------------
(* update, append, annotate, rm                                            *)

\* annotateEmptyFields, and the check for a body.
NothingToAnnotate(e) ==
  \/ e.title # NoTitle /\ e.tags # {}
  \/ \A i \in DOMAIN e.body : e.body[i] = Blank

Get(p) ==
  /\ pc[p] = "get"
  /\ IF \/ ~Readable(cmd[p].id)
        \/ cmd[p].op = "annotate" /\ NothingToAnnotate(ReadEntry(files[cmd[p].id]))
       THEN Gives(p)
       ELSE /\ Goto(p, IF cmd[p].op = "rm" THEN "delete" ELSE "edit")
            /\ got' = [got EXCEPT ![p] = ReadEntry(files[cmd[p].id])]

Chosen(flag, old) == IF flag = Keep THEN old ELSE flag

Updated(c, e) ==
  [title |-> Chosen(c.title, e.title), slug |-> Chosen(c.slug, e.slug),
   date |-> Chosen(c.date, e.date), dateExplicit |-> e.dateExplicit \/ c.date # Keep,
   tags |-> Chosen(c.tags, e.tags), extra |-> e.extra, body |-> e.body]

Update(p) ==
  /\ pc[p] = "edit" /\ cmd[p].op = "update"
  /\ Edits(p, Updated(cmd[p], got[p]))
  /\ UNCHANGED <<last, day>>

Appended(c, e) == [e EXCEPT !.body = @ \o <<Blank>> \o c.content]

AppendText(p) ==
  /\ pc[p] = "edit" /\ cmd[p].op = "append"
  /\ Len(Appended(cmd[p], got[p]).body) <= MaxLines
  /\ Edits(p, Appended(cmd[p], got[p]))
  /\ UNCHANGED <<last, day>>

\* A mutant: what claude answers replaces what the note has.
MergeAnnotationOver(e, gen) == [e EXCEPT !.title = gen.title, !.tags = gen.tags]

MergeAnnotation(e, gen) ==
  [e EXCEPT !.title = IF @ = NoTitle THEN gen.title ELSE @,
            !.tags = IF @ = {} THEN gen.tags ELSE @]

\* claude has answered, with what the schema asks for or not.
Annotate(p) ==
  /\ pc[p] = "edit" /\ cmd[p].op = "annotate"
  /\ \E gen \in Answers : Edits(p, MergeAnnotation(got[p], gen))
  /\ UNCHANGED <<last, day>>

Delete(p) ==
  /\ pc[p] = "delete"
  /\ files[cmd[p].id] # None
  /\ files' = [files EXCEPT ![cmd[p].id] = None]
  /\ mem' = MemDelete(mem, cmd[p].id)
  /\ halfway' = halfway \ {cmd[p].id}
  /\ Overtakes(p, cmd[p].id)
  /\ Ends(p)
  /\ UNCHANGED <<last, day>>

-----------------------------------------------------------------------------

Start(p) ==
  /\ pc[p] = "idle"
  /\ \E c \in Given :
       /\ cmd' = [cmd EXCEPT ![p] = c]
       /\ pc' = [pc EXCEPT ![p] = IF c.op # "new" THEN "get"
                                  ELSE IF c.upsert THEN "look" ELSE "create"]
  /\ UNCHANGED <<files, mem, halfway, last, day, got, overtaken>>

\* An error, claude's and its timeout among them, or the process is killed.
Fail(p) == pc[p] # "idle" /\ Gives(p)

NextDay ==
  /\ day + 1 \in Dates
  /\ day' = day + 1
  /\ overtaken' = [p \in Procs |-> overtaken[p] \/ pc[p] = "create"]
  /\ UNCHANGED <<files, mem, halfway, last, pc, cmd, got>>

Step(p) ==
  \/ Start(p) \/ FindExisting(p) \/ Create(p) \/ CreateFails(p)
  \/ Get(p) \/ Update(p) \/ AppendText(p) \/ Annotate(p) \/ Delete(p)
  \/ Fail(p)

Next == NextDay \/ \E p \in Procs : Step(p)

Spec == Init /\ [][Next]_vars

-----------------------------------------------------------------------------
(* Properties.                                                             *)

Placed(p) ==
  /\ pc[p] = "idle" => cmd[p] = None
  /\ pc[p] # "idle" => cmd[p] \in Given
  /\ pc[p] \in {"look", "create"} => cmd[p].op = "new"
  /\ pc[p] = "get" => cmd[p].op # "new"
  /\ pc[p] = "edit" => cmd[p].op \in {"update", "append", "annotate"}
  /\ pc[p] = "delete" => cmd[p].op = "rm"
  /\ pc[p] \in {"edit", "delete"} => got[p] \in Entry

\* Types; in addition, where a process is follows from its command.
TypeOK ==
  /\ files \in [Ids -> File \cup {None}]
  /\ mem \in Memory
  /\ halfway \subseteq Ids
  /\ last \in Ids \cup {0}
  /\ day \in Dates
  /\ pc \in [Procs -> {"idle", "look", "create", "get", "edit", "delete"}]
  /\ cmd \in [Procs -> Given \cup {None}]
  /\ got \in [Procs -> Entry \cup {None}]
  /\ overtaken \in [Procs -> BOOLEAN]
  /\ \A p \in Procs : Placed(p)

\* What the note of the double reads as with the name its file has, which stands
\* in for a type or a date that the frontmatter does not give.
Named(id) ==
  [Shown(mem[id]) EXCEPT !.slug = IF @ = NoSlug THEN files[id].slug ELSE @,
                         !.date = IF mem[id].dateExplicit THEN @ ELSE files[id].date]

\* The in-memory store that the commands are tested with is a fair double of
\* the files: after the same calls it has the same notes, and each of them,
\* formatted, named, parsed and completed from its name, reads as the entry
\* the double kept, with its hashtags.  A Put that was cut off has changed
\* nothing but what the name stands in for, and the next whole one mends that.
\* The double is never ahead with its IDs (it may be behind, when the newest
\* note was removed).
DoubleAgrees ==
  /\ Present(files) = Present(mem)
  /\ MemNextId(mem) <= last + 1
  /\ \A id \in Present(mem) : Plain(mem[id]) =>
       /\ ~Malformed(files[id].data)
       /\ ReadEntry(files[id]) = Named(id)
       /\ id \notin halfway => ReadEntry(files[id]) = Shown(mem[id])

\* The notes whose names answer q as their frontmatters do.
Listed(q) == {id \in Present(mem) \ halfway : q.slug # Unset => mem[id].slug \in InName}

\* As long as every note is plain, All and Find, which go by the file names
\* first, answer as if they went through the entries, in the same order, so
\* with the same one newest, but for the notes whose last Put was cut off and,
\* in a filter by type, those whose type a name cannot carry: these may be
\* missed.  No stale name outlives the next whole Put of its note, or hides
\* another note.
QueriesComplete ==
  (\A id \in Present(mem) : Plain(mem[id])) =>
    /\ \A q \in Asked :
         LET all  == All(files, q)
             want == MemAll(mem, q)
         IN  /\ ~AllFails(files, q)
             /\ all \ halfway \subseteq want
             /\ want \cap Listed(q) \subseteq all
             /\ Found(files, q) <=> all # {}
    /\ \A i, j \in Present(mem) \ halfway : Newer(files, i, j) <=> Newer(mem, i, j)

\* What a command is not for stays as it was when the command looked, through
\* parsing, the hashtags and formatting.
Untouched(c, old, new) ==
  /\ new.extra = old.extra
  /\ IF c.op = "append" THEN /\ SubSeq(new.body, 1, Len(old.body)) = old.body
                             /\ old.tags \subseteq new.tags
                        ELSE new.body = old.body
  /\ c.op # "update" =>
       /\ new.slug = old.slug /\ new.date = old.date /\ new.dateExplicit = old.dateExplicit
       /\ old.title # NoTitle => new.title = old.title
       /\ c.op = "append" => new.title = old.title
       /\ c.op = "annotate" => IF old.tags # {} THEN new.tags = old.tags ELSE TRUE
  /\ c.op = "update" =>
       /\ c.title = Keep => new.title = old.title
       /\ c.slug = Keep => new.slug = old.slug
       /\ c.tags = Keep => new.tags = old.tags
       /\ c.date = Keep => new.date = old.date /\ new.dateExplicit = old.dateExplicit

\* An edit changes what its command is for and no more, of the file as it is,
\* even if it is cut off half way.  Of one that was overtaken and is not cut off,
\* every field is as its process has seen or made it: it may put back what others
\* have changed, but makes no note that is partly theirs.
UntouchedFieldsStay ==
  [][\A p \in Procs :
       pc[p] = "edit" /\ pc'[p] = "idle" /\ files' # files =>
         LET id == cmd[p].id
         IN  /\ ~overtaken[p] => files[id] # None
             /\ Plain(mem'[id]) =>
                  /\ ~overtaken[p] => Untouched(cmd[p], ReadEntry(files[id]), ReadEntry(files'[id]))
                  /\ id \notin halfway' => Untouched(cmd[p], got[p], ReadEntry(files'[id]))]_vars

\* new --upsert writes a second note of a type on one day only if another
\* process, or midnight, came between its search and its Put, or the last Put
\* of the first was cut off.
UpsertReuses ==
  [][\A p \in Procs :
       /\ pc[p] = "create" /\ cmd[p].upsert /\ pc'[p] = "idle" /\ files' # files
       /\ ~overtaken[p] /\ cmd[p].slug \in InName
       => \A id \in Present(mem) \ halfway : Plain(mem[id]) =>
            ~(mem[id].slug = cmd[p].slug /\ mem[id].date = mem'[last'].date)]_vars
=============================================================================

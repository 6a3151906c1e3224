------------------------------ MODULE Watcher ------------------------------
(***************************************************************************)
(* OSStore.Watch: a goroutine turns the file system's notifications into   *)
(* events about note IDs, holds them back for a debounce window in which   *)
(* it merges those of one ID, and sends them on a bounded channel to a     *)
(* consumer that has subscribed first and then listed the store.           *)
(*                                                                         *)
(* Around it are modelled, from how the code uses them: other processes    *)
(* that change note files and create month directories, fsnotify, which    *)
(* reports what happens in the directories it watches, in order, and the   *)
(* consumer, whose listing reads one month after the other while all of    *)
(* this goes on.  Abstractions: the watcher's own scans and its walks over *)
(* the directories are one step each; notifications about other files,     *)
(* which only put off the timer, are left out, and time with them: an      *)
(* armed timer may expire at any moment.                                   *)
(***************************************************************************)
EXTENDS Naturals, Sequences, Functions

CONSTANTS
  Ids,        \* note IDs
  Months,     \* month directories
  Names,      \* file names an ID may have in a month (its slugs)
  BufSize,    \* watchBufSize
  Changes,    \* bound: how often other processes change the store
  Gap         \* whether other processes act between the first scan and the watches

ASSUME WatcherAssumption ==
  /\ BufSize \in Nat \ {0}
  /\ Changes \in Nat
  /\ Gap \in BOOLEAN

Path == [id : Ids, month : Months, name : Names]

VARIABLES
  files,    \* the note files
  gone,     \* the IDs of notes that were removed
  strayed,  \* history: those moved to, or removed from, a month not watched yet
  months,   \* the month directories
  watched,  \* the month directories fsnotify watches
  raw,      \* its notifications, not yet taken
  left,     \* the changes still allowed
  pc,       \* what the watcher is about to do
  known,    \* the IDs it takes to exist
  pending,  \* the event held back for each ID
  order,    \* the IDs in the order their events will be sent
  sent,     \* how many of them this flush has dealt with
  fresh,    \* the IDs discovered in a new directory, still to be reported
  armed,    \* the debounce timer is running
  out,      \* the event channel
  done,     \* Close was called, or the context cancelled
  listing,  \* the consumer has begun to list the store
  unlisted, \* the months its listing has still to read
  view,     \* the IDs the consumer takes to exist
  unheard,  \* history: those it has listed before the watcher told of them, and
            \* has received no event of
  told      \* history: the IDs that exist according to the first scan and the events sent

outside == <<files, gone, strayed, months, left>>
kernel  == <<watched, raw>>
held    == <<known, pending, order, sent, fresh, armed>>
reader  == <<listing, unlisted, view, unheard>>
vars    == <<files, gone, strayed, months, watched, raw, left, pc, known, pending, order, sent, fresh,
             armed, out, done, listing, unlisted, view, unheard, told>>

Kinds   == {"created", "updated", "deleted"}
Nothing == [id \in Ids |-> "none"]
Event   == [type : Kinds, id : Ids]
Notice  == [op : {"create", "remove"}, path : Path] \cup [op : {"mkdir"}, month : Months]

NoteIds == {p.id : p \in files}

Init ==
  /\ months \in SUBSET Months
  /\ files \in SUBSET {p \in Path : p.month \in months}
  /\ \A p, q \in files : p.id = q.id => p = q
  /\ gone = {}
  /\ strayed = {}
  /\ watched = {}
  /\ raw = <<>>
  /\ left = Changes
  /\ pc = "scan"
  /\ known = {}
  /\ pending = Nothing
  /\ order = <<>>
  /\ sent = 0
  /\ fresh = {}
  /\ armed = FALSE
  /\ out = <<>>
  /\ done = FALSE
  /\ listing = FALSE
  /\ unlisted = {}
  /\ view = {}
  /\ unheard = {}
  /\ told = {}

HasPending(p) == \E id \in Ids : p[id] # "none"

\* Watch has returned its Watcher.
Returned == pc \notin {"scan", "arm"}

\* The consumer's All has returned.
Listed == listing /\ unlisted = {}

-----------------------------------------------------------------------------
(* Mutants, used only to show that the properties below can fail.          *)

CoalesceLastWins(prev, next) == next

CoalesceKeepsUpdate(prev, next) == IF prev = "updated" THEN "updated" ELSE next

SendUnbounded ==
  /\ pc = "flush"
  /\ sent < Len(order)
  /\ LET e == [type |-> pending[order[sent + 1]], id |-> order[sent + 1]]
     IN  /\ e.type # "none"
         /\ out' = Append(out, e)
         /\ told' = IF e.type = "deleted" THEN told \ {e.id} ELSE told \cup {e.id}
  /\ sent' = sent + 1
  /\ UNCHANGED <<outside, kernel, pc, known, pending, order, fresh, armed, done, reader>>

ReportedWithoutTimer ==
  /\ pc = "report"
  /\ fresh = {}
  /\ pc' = "loop"
  /\ UNCHANGED <<outside, kernel, known, pending, order, sent, fresh, armed, out, done, reader, told>>

StopBetweenFlushes ==
  /\ done
  /\ pc = "loop"
  /\ pc' = "closed"
  /\ UNCHANGED <<outside, kernel, held, out, done, reader, told>>

FlushedKeepingPending ==
  /\ pc = "flush"
  /\ sent = Len(order)
  /\ order' = <<>>
  /\ sent' = 0
  /\ pc' = "loop"
  /\ UNCHANGED <<outside, kernel, known, pending, fresh, armed, out, done, reader, told>>

-----------------------------------------------------------------------------
(* Other processes change the store and fsnotify takes notice.             *)

MayChange ==
  /\ left > 0
  /\ (Returned /\ pc # "closed") \/ (pc = "arm" /\ Gap)
  /\ left' = left - 1

\* What becomes of a note there is not noticed.
Stray(id, m) ==
  strayed' = IF Returned /\ m \notin watched THEN strayed \cup {id} ELSE strayed

Seen(op, p) == IF p.month \in watched THEN <<[op |-> op, path |-> p]>> ELSE <<>>

\* A note is written: the temporary file is renamed to its name.  NextID gives
\* no ID a second time.
WriteNote(p) ==
  /\ MayChange
  /\ p.id \notin gone
  /\ p.month \in months
  /\ \A q \in files : q.id = p.id => q = p
  /\ files' = files \cup {p}
  /\ raw' = raw \o Seen("create", p)
  /\ UNCHANGED <<gone, strayed, months, watched, pc, held, out, done, reader, told>>

MoveNote(p, q) ==
  /\ MayChange
  /\ p \in files /\ q # p /\ q.id = p.id
  /\ q.month \in months
  /\ files' = (files \ {p}) \cup {q}
  /\ Stray(p.id, q.month)
  /\ raw' = raw \o Seen("remove", p) \o Seen("create", q)
  /\ UNCHANGED <<gone, months, watched, pc, held, out, done, reader, told>>

RemoveNote(p) ==
  /\ MayChange
  /\ p \in files
  /\ files' = files \ {p}
  /\ gone' = gone \cup {p.id}
  /\ Stray(p.id, p.month)
  /\ raw' = raw \o Seen("remove", p)
  /\ UNCHANGED <<months, watched, pc, held, out, done, reader, told>>

\* The year's directory is watched like the others.
MakeMonth(m) ==
  /\ MayChange
  /\ m \notin months
  /\ months' = months \cup {m}
  /\ raw' = IF Returned THEN Append(raw, [op |-> "mkdir", month |-> m]) ELSE raw
  /\ UNCHANGED <<files, gone, strayed, watched, pc, held, out, done, reader, told>>

-----------------------------------------------------------------------------
(* Watch, before it returns.                                               *)

WatchKnownIDs ==
  /\ pc = "scan"
  /\ pc' = "arm"
  /\ known' = NoteIds
  /\ told' = NoteIds
  /\ UNCHANGED <<outside, kernel, pending, order, sent, fresh, armed, out, done, reader>>

AddWatchDirs ==
  /\ pc = "arm"
  /\ pc' = "loop"
  /\ watched' = months
  /\ UNCHANGED <<outside, raw, held, out, done, reader, told>>

-----------------------------------------------------------------------------
(* runWatch.                                                               *)

\* What is left of the event held back for an ID when the next one arrives.
Coalesce(prev, next) ==
  IF prev = "created" /\ next = "updated" THEN "created"
  ELSE IF prev = "created" /\ next = "deleted" THEN "none"
  ELSE IF prev = "deleted" /\ next = "created" THEN "updated"
  ELSE next

\* coalesceWatchEvent; an ID keeps its place in the order.
Hold(id, type) ==
  /\ pending' = [pending EXCEPT ![id] = Coalesce(@, type)]
  /\ order' = IF pending[id] = "none" /\ id \notin Range(order) THEN Append(order, id) ELSE order

\* classifyWatchEvent: a removal counts for a known ID only, any other
\* notification only if the file is there when it is handled.
Classify(n) ==
  IF n.op = "remove"
    THEN IF n.path.id \in known THEN "deleted" ELSE "none"
    ELSE IF n.path \notin files THEN "none"
         ELSE IF n.path.id \in known THEN "updated" ELSE "created"

Take(op) ==
  /\ pc = "loop"
  /\ raw # <<>>
  /\ Head(raw).op \in op
  /\ raw' = Tail(raw)

\* The timer starts anew as long as something is held back.
IgnoreNotice ==
  /\ Take({"create", "remove"})
  /\ Classify(Head(raw)) = "none"
  /\ armed' = (armed \/ HasPending(pending))
  /\ UNCHANGED <<outside, watched, pc, known, pending, order, sent, fresh, out, done, reader, told>>

HandleNotice ==
  /\ Take({"create", "remove"})
  /\ LET id   == Head(raw).path.id
         type == Classify(Head(raw))
     IN  /\ type # "none"
         /\ known' = IF type = "deleted" THEN known \ {id} ELSE known \cup {id}
         /\ Hold(id, type)
  /\ armed' = HasPending(pending')
  /\ UNCHANGED <<outside, watched, pc, sent, fresh, out, done, reader, told>>

\* addCreatedDir
AddCreatedDir ==
  /\ Take({"mkdir"})
  /\ watched' = watched \cup {Head(raw).month}
  /\ pc' = "discover"
  /\ UNCHANGED <<outside, held, out, done, reader, told>>

\* discoverWatchCreates, and its events held back one after the other.
DiscoverWatchCreates ==
  /\ pc = "discover"
  /\ fresh' = NoteIds \ known
  /\ pc' = "report"
  /\ UNCHANGED <<outside, kernel, known, pending, order, sent, armed, out, done, reader, told>>

Report ==
  /\ pc = "report"
  /\ \E id \in fresh :
       /\ fresh' = fresh \ {id}
       /\ known' = known \cup {id}
       /\ Hold(id, "created")
  /\ UNCHANGED <<outside, kernel, pc, sent, armed, out, done, reader, told>>

Reported ==
  /\ pc = "report"
  /\ fresh = {}
  /\ pc' = "loop"
  /\ armed' = (armed \/ HasPending(pending))
  /\ UNCHANGED <<outside, kernel, known, pending, order, sent, fresh, out, done, reader, told>>

\* The timer expires; flush stops it and goes through the order.
TimerExpires ==
  /\ pc = "loop"
  /\ armed
  /\ armed' = FALSE
  /\ pc' = "flush"
  /\ UNCHANGED <<outside, kernel, known, pending, order, sent, fresh, out, done, reader, told>>

\* Blocks while the channel is full.
Send ==
  /\ pc = "flush"
  /\ sent < Len(order)
  /\ Len(out) < BufSize
  /\ LET e == [type |-> pending[order[sent + 1]], id |-> order[sent + 1]]
     IN  /\ e.type # "none"
         /\ out' = Append(out, e)
         /\ told' = IF e.type = "deleted" THEN told \ {e.id} ELSE told \cup {e.id}
  /\ sent' = sent + 1
  /\ UNCHANGED <<outside, kernel, pc, known, pending, order, fresh, armed, done, reader>>

\* A creation that was cancelled by a deletion leaves its ID in the order.
SkipCancelled ==
  /\ pc = "flush"
  /\ sent < Len(order)
  /\ pending[order[sent + 1]] = "none"
  /\ sent' = sent + 1
  /\ UNCHANGED <<outside, kernel, pc, known, pending, order, fresh, armed, out, done, reader, told>>

Flushed ==
  /\ pc = "flush"
  /\ sent = Len(order)
  /\ pending' = Nothing
  /\ order' = <<>>
  /\ sent' = 0
  /\ pc' = "loop"
  /\ UNCHANGED <<outside, kernel, known, fresh, armed, out, done, reader, told>>

\* Between two notifications, or instead of a send.
Stop ==
  /\ done
  /\ \/ pc = "loop"
     \/ pc = "flush" /\ sent < Len(order) /\ pending[order[sent + 1]] # "none"
  /\ pc' = "closed"
  /\ UNCHANGED <<outside, kernel, held, out, done, reader, told>>

-----------------------------------------------------------------------------
(* The consumer: it subscribes, lists the store, and applies the events.   *)

ListMonths ==
  /\ Returned
  /\ ~listing
  /\ listing' = TRUE
  /\ unlisted' = months
  /\ UNCHANGED <<outside, kernel, pc, held, out, done, view, unheard, told>>

ListMonth(m) ==
  /\ m \in unlisted
  /\ unlisted' = unlisted \ {m}
  /\ LET ids == {p.id : p \in {q \in files : q.month = m}}
     IN  /\ view' = view \cup ids
         /\ unheard' = unheard \cup (ids \ told)
  /\ UNCHANGED <<outside, kernel, pc, held, out, done, listing, told>>

Receive ==
  /\ Listed
  /\ out # <<>>
  /\ out' = Tail(out)
  /\ view' = IF Head(out).type = "deleted" THEN view \ {Head(out).id} ELSE view \cup {Head(out).id}
  /\ unheard' = unheard \ {Head(out).id}
  /\ UNCHANGED <<outside, kernel, pc, held, done, listing, unlisted, told>>

Close ==
  /\ Returned
  /\ ~done
  /\ done' = TRUE
  /\ UNCHANGED <<outside, kernel, pc, held, out, reader, told>>

-----------------------------------------------------------------------------
Change ==
  \/ \E p \in Path : WriteNote(p) \/ RemoveNote(p) \/ \E q \in Path : MoveNote(p, q)
  \/ \E m \in Months : MakeMonth(m)

Loop ==
  \/ IgnoreNotice \/ HandleNotice \/ AddCreatedDir
  \/ DiscoverWatchCreates \/ Report \/ Reported
  \/ TimerExpires \/ Send \/ SkipCancelled \/ Flushed

Watch == WatchKnownIDs \/ AddWatchDirs \/ Loop

List == ListMonths \/ \E m \in Months : ListMonth(m)

Next == Change \/ Watch \/ Stop \/ List \/ Receive \/ Close

Spec == Init /\ [][Next]_vars

\* The goroutine runs, its timer expires when nothing puts it off, and its
\* select sees a closed done channel.  The consumer need not read.
FairSpec == Spec /\ WF_vars(Watch) /\ SF_vars(Stop)

-----------------------------------------------------------------------------
(* Properties.                                                             *)

TypeOK ==
  /\ files \subseteq Path
  /\ gone \subseteq Ids
  /\ strayed \subseteq Ids
  /\ months \subseteq Months
  /\ watched \subseteq Months
  /\ raw \in Seq(Notice)
  /\ left \in 0..Changes
  /\ pc \in {"scan", "arm", "loop", "discover", "report", "flush", "closed"}
  /\ known \subseteq Ids
  /\ pending \in [Ids -> Kinds \cup {"none"}]
  /\ order \in Seq(Ids)
  /\ sent \in 0..Len(order)
  /\ fresh \subseteq Ids
  /\ armed \in BOOLEAN
  /\ out \in Seq(Event)
  /\ Len(out) <= BufSize
  /\ done \in BOOLEAN
  /\ listing \in BOOLEAN
  /\ unlisted \subseteq Months
  /\ view \subseteq Ids
  /\ unheard \subseteq Ids
  /\ told \subseteq Ids

\* The events of an ID make sense one after the other, across debounce windows
\* and whatever was merged inside them: created only for an ID that did not
\* exist, updated and deleted only for one that did.
EventsMakeSense ==
  [][\A e \in Event : out' = Append(out, e) => (e.type = "created" <=> e.id \notin told)]_vars

\* Everything that has happened is told, received and applied.
Quiet == pc = "loop" /\ raw = <<>> /\ ~HasPending(pending) /\ out = <<>> /\ Listed

\* Once everything has been delivered, a consumer that subscribed first and then
\* called All, as Watch's comment tells it to, has missed no note, whatever was
\* changed before, during and after its listing.  What it takes for a note and is
\* none any more, it has listed before the watcher told of it, and no event came:
\* the note was made before the watches, or in one window with its removal.  So it
\* is of every note that was not moved to, or removed from, an unwatched month.
ViewConverges ==
  Quiet => \A id \in Ids \ strayed : /\ id \in NoteIds => id \in view
                                    /\ id \in view \ NoteIds => id \in unheard

\* What Watch's comment says of changes during the initial list, that they are
\* queued on the watcher: the list and the events together are the store.
ListingIsCaughtUp == Quiet => view = NoteIds

\* An event that is held back always has a timer running for it.
PendingIsTimed == pc = "loop" /\ HasPending(pending) => armed

\* With a consumer that reads, no event is held back for ever.
EventsDelivered ==
  (WF_vars(List) /\ WF_vars(Receive)) =>
    \A id \in Ids : pending[id] # "none" ~> pending[id] = "none" \/ pc = "closed"

\* Close ends the goroutine, even in a flush that is blocked on a full channel
\* nobody reads from.
CloseEnds == done ~> pc = "closed"
=============================================================================

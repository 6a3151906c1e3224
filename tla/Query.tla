------------------------------- MODULE Query -------------------------------
(***************************************************************************)
(* All, Find and IDs of the file store and the commands that are no more   *)
(* than one of them (ls, resolve): a scan gives the files newest first by  *)
(* name, the filters that a name can answer are applied to it, and only    *)
(* what is left is read and filtered again.  Times are days, and the local *)
(* time is not behind UTC (TodoRollover has the case that it is).          *)
(***************************************************************************)
EXTENDS NoteFormat

CONSTANTS
  None,  \* no note
  Unset  \* a filter that was not given

\* type and slug, tags, the day, before a day
Query == [slug : Slugs \cup {Unset}, tags : SUBSET Tags, on : Dates \cup {Unset}, before : Dates \cup {Unset}]

\* resolve and ls without a flag.
NoFilter == [slug |-> Unset, tags |-> {}, on |-> Unset, before |-> Unset]

\* A mutant, used only to show that a property can fail: before today, not on it.
UpsertQueryBefore(slug, day) == [NoFilter EXCEPT !.slug = slug, !.before = day]

\* findUpsertEntry
UpsertQuery(slug, day) == [NoFilter EXCEPT !.slug = slug, !.on = day]

Present(store) == {id \in Ids : store[id] # None}

\* sortByRecency; sortEntriesByRecency of the memory store.
Newer(store, i, j) ==
  \/ store[i].date > store[j].date
  \/ store[i].date = store[j].date /\ i > j

RefMatchesFilename(k, q) ==
  /\ q.slug # Unset => k.slug = q.slug
  /\ q.on # Unset => k.date = q.on
  /\ q.before # Unset => k.date < q.before

HasAllTags(tags, required) == ToLower(required) \subseteq ToLower(tags)

Matches(e, q) ==
  /\ q.slug # Unset => e.slug = q.slug
  /\ HasAllTags(e.tags, q.tags)
  /\ q.on # Unset => e.date = q.on
  /\ q.before # Unset => e.date < q.before

Filtered(files, q) == {id \in Present(files) : RefMatchesFilename(files[id], q)}

\* One file that does not parse makes the whole of All fail.
AllFails(files, q) == \E id \in Filtered(files, q) : Malformed(files[id].data)

All(files, q) == {id \in Filtered(files, q) : Matches(ReadEntry(files[id]), q)}

\* The files are read newest first up to the first that matches or fails.
FindStops(files, q) ==
  {id \in Filtered(files, q) : Malformed(files[id].data) \/ Matches(ReadEntry(files[id]), q)}

FindFails(files, q) ==
  \E id \in FindStops(files, q) :
    /\ Malformed(files[id].data)
    /\ \A other \in FindStops(files, q) \ {id} : Newer(files, id, other)

Found(files, q) == FindStops(files, q) # {} /\ ~FindFails(files, q)
=============================================================================

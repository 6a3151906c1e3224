----------------------------- MODULE MCOSStore -----------------------------
(***************************************************************************)
(* Small instances of OSStore: one note on one of two days in two months,  *)
(* and every kind of command on it and on the next note.                   *)
(***************************************************************************)
EXTENDS OSStore, TLC

CONSTANTS a, b, NoText

January  == 20260131
February == 20260201

MCDates == {January, February}
MCSlugs == {NoSlug, a, b}
MCTexts == Procs \cup {NoText}

File(p, k) == [q \in Path |-> IF q = p THEN k ELSE Absent]

\* A note whose name carries its slug and its date.
Named(date, slug) ==
  File([id |-> 1, date |-> date, slug |-> slug],
       [slug |-> slug, date |-> NoDate, body |-> {NoText}])

\* A note whose frontmatter, edited by hand, has another slug or a date.
Edit(date, slug, fmSlug, fmDate) ==
  File([id |-> 1, date |-> date, slug |-> slug],
       [slug |-> fmSlug, date |-> fmDate, body |-> {NoText}])

NamedArchives  == {Named(January, a), Named(February, NoSlug)}
EditedArchives == {Edit(January, a, b, NoDate), Edit(February, NoSlug, a, January)}
AllArchives    == NamedArchives \cup EditedArchives

New(slug)       == [cmd |-> "new",    id |-> 0,  slug |-> slug, date |-> Keep]
Upd(id, slug, date) == [cmd |-> "update", id |-> id, slug |-> slug, date |-> date]
Append(id)      == [cmd |-> "append", id |-> id, slug |-> Keep, date |-> Keep]
Rm(id)          == [cmd |-> "rm",     id |-> id, slug |-> Keep, date |-> Keep]
Read(id)        == [cmd |-> "read",   id |-> id, slug |-> Keep, date |-> Keep]

SerialCommands ==
  {New(a), Upd(1, b, Keep), Upd(1, NoSlug, January), Append(1), Append(2), Rm(1), Read(1)}

RaceCommands == SerialCommands \cup {Upd(1, Keep, February), Rm(2), Read(2)}

\* Processes differ in nothing but their name.
Symmetry == Permutations(Procs)
=============================================================================

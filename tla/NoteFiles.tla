----------------------------- MODULE NoteFiles -----------------------------
(***************************************************************************)
(* The names and the contents of note files, and the conversions between   *)
(* a file and the Entry the commands work on.                              *)
(*                                                                         *)
(* A slug stands for everything besides date and ID that the file name     *)
(* carries as a copy of the frontmatter (slug and type).  Title, tags and  *)
(* the other frontmatter keys, which no file name depends on, are left     *)
(* out.  A body is the set of texts written into it.                       *)
(***************************************************************************)
EXTENDS Naturals

CONSTANTS
  Ids,      \* note IDs
  Dates,    \* days, as YYYYMMDD numbers
  Slugs,    \* slugs, NoSlug among them
  Texts,    \* what can be written into a body
  NoSlug,   \* the empty slug
  NoDate,   \* the zero time.Time: no date in the frontmatter
  Absent    \* a file that does not exist

ASSUME NoteFilesAssumption ==
  /\ Ids \subseteq Nat \ {0}
  /\ Dates \subseteq Nat
  /\ NoSlug \in Slugs
  /\ NoDate \notin Dates
  /\ Absent \notin [slug : Slugs, date : Dates \cup {NoDate}, body : SUBSET Texts]

\* root/YYYY/MM/YYYYMMDD_id[_slug][.type].md
Path == [id : Ids, date : Dates, slug : Slugs]

\* A file's frontmatter and body.
Content == [slug : Slugs, date : Dates \cup {NoDate}, body : SUBSET Texts]

\* A file truncated before anything was written to it.
Empty == [slug |-> NoSlug, date |-> NoDate, body |-> {}]

\* An entry with ID 0 has not been given one yet.
Entry == [id : Ids \cup {0}, slug : Slugs, date : Dates, dateExplicit : BOOLEAN, body : SUBSET Texts]

\* The month directory of a date: all but the day's two digits.
DirPath(date) == date \div 100

\* The frontmatter wins over the file name, which stands in for what the
\* frontmatter does not say.
FrontmatterToMeta(p, k) ==
  [ id           |-> p.id,
    slug         |-> IF k.slug = NoSlug THEN p.slug ELSE k.slug,
    date         |-> IF k.date = NoDate THEN p.date ELSE k.date,
    dateExplicit |-> k.date # NoDate,
    body         |-> k.body ]

PathFor(e) == [id |-> e.id, date |-> e.date, slug |-> e.slug]

\* A date the user did not give stays out of the frontmatter.
MetaToFrontmatter(e) ==
  [ slug |-> e.slug,
    date |-> IF e.dateExplicit THEN e.date ELSE NoDate,
    body |-> e.body ]
=============================================================================

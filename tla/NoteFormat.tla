----------------------------- MODULE NoteFormat -----------------------------
(***************************************************************************)
(* A note file line by line: the frontmatter block that FormatNote writes  *)
(* and ParseNote looks for, the hashtags in the body, and the conversions  *)
(* between a file and the Entry the commands work on.                      *)
(*                                                                         *)
(* A slug stands for slug and type, which behave alike, a title for title  *)
(* and description, and extra for the aliases and the keys the program     *)
(* does not know.  A text line is a value together with the hashtags found *)
(* in it; that a heading or inline code has none is part of that value.    *)
(***************************************************************************)
EXTENDS Naturals, Sequences, FiniteSets

CONSTANTS
  Ids,       \* note IDs
  Dates,     \* days
  Slugs,     \* slugs and types, NoSlug among them
  InName,    \* those that a file name can carry
  Titles,    \* titles, NoTitle among them
  Extras,    \* other keys with their values, NoExtra among them
  Tags,      \* tags as they are written
  Lower,     \* strings.ToLower on them
  Texts,     \* text lines
  Hashtags,  \* the hashtags of each text line
  NoSlug, NoTitle, NoExtra,
  NoDate     \* the zero time.Time

ASSUME NoteFormatAssumption ==
  /\ Ids \subseteq Nat \ {0}
  /\ Dates \subseteq Nat /\ NoDate \notin Dates
  /\ InName \subseteq Slugs /\ NoSlug \in InName
  /\ NoTitle \in Titles /\ NoExtra \in Extras
  /\ Lower \in [Tags -> Tags] /\ \A t \in Tags : Lower[Lower[t]] = Lower[t]
  /\ Hashtags \in [Texts -> SUBSET Tags]

Frontmatter == [title : Titles, slug : Slugs, date : Dates \cup {NoDate},
                tags : SUBSET Tags, extra : Extras]

ZeroFrontmatter == [title |-> NoTitle, slug |-> NoSlug, date |-> NoDate, tags |-> {}, extra |-> NoExtra]

Delim   == [line |-> "---"]
Blank   == [line |-> ""]
Fence   == [line |-> "fence"]
Text(t) == [line |-> "text", text |-> t]

\* The keys of a frontmatter.  A zero value is not written and a key that is
\* missing reads as zero, so that the fields stand for the keys.
Yaml(f) == [line |-> "yaml", fm |-> f]

Line == {Delim, Blank, Fence} \cup [line : {"yaml"}, fm : Frontmatter] \cup [line : {"text"}, text : Texts]

Data == Seq(Line)

-----------------------------------------------------------------------------
(* Mutants, used only to show that properties of Commands can fail.        *)

FormatNoteTight(f, body) ==
  IF f = ZeroFrontmatter THEN body ELSE <<Delim, Yaml(f), Delim>> \o body

NameSlugAsIs(slug) == slug

-----------------------------------------------------------------------------
(* FormatNote and ParseNote.                                               *)

FormatNote(f, body) ==
  IF f = ZeroFrontmatter THEN body ELSE <<Delim, Yaml(f), Delim, Blank>> \o body

\* A block begins in the first line and ends with the next delimiter.
HasBlock(data) ==
  /\ data # <<>>
  /\ data[1] = Delim
  /\ \E i \in 2..Len(data) : data[i] = Delim

FrontmatterEnd(data) ==
  CHOOSE j \in 2..Len(data) : data[j] = Delim /\ \A i \in 2..(j - 1) : data[i] # Delim

\* One blank line after the block belongs to it.
BodyStart(data) ==
  LET j == FrontmatterEnd(data)
  IN  IF j < Len(data) /\ data[j + 1] = Blank THEN j + 2 ELSE j + 1

BodyOf(data) == IF HasBlock(data) THEN SubSeq(data, BodyStart(data), Len(data)) ELSE data

Block(data) == IF HasBlock(data) THEN 2..(FrontmatterEnd(data) - 1) ELSE {}

\* Anything but keys between the delimiters is an error.
Malformed(data) == \E i \in Block(data) : data[i].line \notin {"yaml", ""}

FrontmatterOf(data) ==
  LET keys == {i \in Block(data) : data[i].line = "yaml"}
  IN  IF keys = {} THEN ZeroFrontmatter ELSE data[CHOOSE i \in keys : TRUE].fm

-----------------------------------------------------------------------------
(* Hashtags.                                                               *)

InFence(body, i) == Cardinality({j \in 1..(i - 1) : body[j] = Fence}) % 2 = 1

ExtractHashtags(body) ==
  UNION {Hashtags[body[i].text] : i \in {j \in DOMAIN body : body[j].line = "text" /\ ~InFence(body, j)}}

ToLower(tags) == {Lower[t] : t \in tags}

\* computeMergedTags
MergedTags(tags, body) == ToLower(tags) \cup ToLower(ExtractHashtags(body))

-----------------------------------------------------------------------------
(* Entries and files.                                                      *)

Entry == [title : Titles, slug : Slugs, date : Dates, dateExplicit : BOOLEAN,
          tags : SUBSET Tags, extra : Extras, body : Data]

\* A file's name, besides the ID, and its content.
File == [date : Dates, slug : InName, data : Data]

\* A type with a dot or a slash in it stays out of the file name.
NameSlug(slug) == IF slug \in InName THEN slug ELSE NoSlug

MetaToFrontmatter(e) ==
  [title |-> e.title, slug |-> e.slug, date |-> IF e.dateExplicit THEN e.date ELSE NoDate,
   tags |-> e.tags, extra |-> e.extra]

\* What Put writes: the frontmatter wins when it is read back, the name stands
\* in for what the frontmatter does not say.
WriteEntry(e) ==
  [date |-> e.date, slug |-> NameSlug(e.slug), data |-> FormatNote(MetaToFrontmatter(e), e.body)]

ReadEntry(k) ==
  LET f == FrontmatterOf(k.data)
  IN  [title        |-> f.title,
       slug         |-> IF f.slug = NoSlug THEN k.slug ELSE f.slug,
       date         |-> IF f.date = NoDate THEN k.date ELSE f.date,
       dateExplicit |-> f.date # NoDate,
       tags         |-> MergedTags(f.tags, BodyOf(k.data)),
       extra        |-> f.extra,
       body         |-> BodyOf(k.data)]

\* An entry whose file reads back as the entry: without a frontmatter of its own
\* a body must not begin with a block.
Plain(e) == MetaToFrontmatter(e) = ZeroFrontmatter => ~HasBlock(e.body)
=============================================================================

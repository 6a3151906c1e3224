--------------------------- MODULE CommandsProofs ---------------------------
(***************************************************************************)
(* The commands, with any number of processes, notes, days and command     *)
(* lines, and before them what parsing makes of what formatting has        *)
(* written, for all entries.                                               *)
(***************************************************************************)
EXTENDS Commands, SequenceTheorems, WellFoundedInduction, TLAPS

USE NoteFormatAssumption

-----------------------------------------------------------------------------
(* Types of what is parsed, whatever the text.                             *)

LEMMA ZeroType == ZeroFrontmatter \in Frontmatter
BY DEF ZeroFrontmatter, Frontmatter

LEMMA LineTypes ==
  /\ Delim \in Line /\ Blank \in Line /\ Fence \in Line
  /\ \A f \in Frontmatter : Yaml(f) \in Line
  /\ \A l \in Line : l.line = "yaml" => l.fm \in Frontmatter
  /\ \A l \in Line : l.line = "text" => l.text \in Texts
<1>1. Delim \in Line /\ Blank \in Line /\ Fence \in Line
  BY DEF Line
<1>2. \A f \in Frontmatter : Yaml(f) \in Line
  BY DEF Yaml, Line
<1>3. ASSUME NEW l \in Line
      PROVE  /\ l.line = "yaml" => l.fm \in Frontmatter
             /\ l.line = "text" => l.text \in Texts
  <2>1. CASE l \in {Delim, Blank, Fence}
    <3>1. l.line \in {"---", "", "fence"}
      <4>1. Delim.line = "---" /\ Blank.line = "" /\ Fence.line = "fence"
        BY DEF Delim, Blank, Fence
      <4> QED BY <2>1, <4>1
    <3> QED BY <3>1
  <2>2. CASE l \in [line : {"yaml"}, fm : Frontmatter]
    BY <2>2
  <2>3. CASE l \in [line : {"text"}, text : Texts]
    BY <2>3
  <2> QED BY <2>1, <2>2, <2>3 DEF Line
<1> QED BY <1>1, <1>2, <1>3

LEMMA ToLowerType ==
  ASSUME NEW tags \in SUBSET Tags
  PROVE  ToLower(tags) \in SUBSET Tags /\ ToLower(ToLower(tags)) = ToLower(tags)
<1>1. \A t \in tags : Lower[t] \in Tags /\ Lower[Lower[t]] = Lower[t]
  OBVIOUS
<1> QED BY <1>1 DEF ToLower

LEMMA HashtagsType ==
  ASSUME NEW body \in Data
  PROVE  ExtractHashtags(body) \in SUBSET Tags
<1>1. \A i \in DOMAIN body : body[i].line = "text" => Hashtags[body[i].text] \in SUBSET Tags
  BY LineTypes DEF Data
<1> QED BY <1>1 DEF ExtractHashtags

LEMMA MergedTagsType ==
  ASSUME NEW tags \in SUBSET Tags, NEW body \in Data
  PROVE  /\ MergedTags(tags, body) \in SUBSET Tags
         /\ MergedTags(MergedTags(tags, body), body) = MergedTags(tags, body)
<1>1. ExtractHashtags(body) \in SUBSET Tags
  BY HashtagsType
<1> DEFINE h == ExtractHashtags(body)
<1>2. ToLower(tags) \in SUBSET Tags /\ ToLower(h) \in SUBSET Tags
  BY <1>1, ToLowerType
<1>3. ToLower(ToLower(tags) \cup ToLower(h)) = ToLower(tags) \cup ToLower(h)
  <2>1. ToLower(ToLower(tags) \cup ToLower(h)) = ToLower(ToLower(tags)) \cup ToLower(ToLower(h))
    BY DEF ToLower
  <2> QED BY <1>1, <2>1, ToLowerType
<1> QED BY <1>2, <1>3 DEF MergedTags

Less == {ss \in Nat \X Nat : ss[1] < ss[2]}

LEMMA Smallest ==
  ASSUME NEW T \in SUBSET Nat, T # {}
  PROVE  \E n \in T : \A m \in T : n <= m
<1>1. IsWellFoundedOn(Less, Nat)
  BY NatLessThanWellFounded DEF OpToRel, Less
<1>2. PICK n \in T : \A m \in T : ~(<<m, n>> \in Less)
  BY <1>1, WFMin
<1>3. ASSUME NEW m \in T PROVE n <= m
  <2>1. <<m, n>> \in Nat \X Nat /\ <<m, n>>[1] = m /\ <<m, n>>[2] = n
    OBVIOUS
  <2>2. ~(m < n)
    BY <1>2, <2>1 DEF Less
  <2> QED BY <2>2
<1> QED BY <1>3

\* A block has a first closing delimiter.
LEMMA BlockEnds ==
  ASSUME NEW data \in Data, HasBlock(data)
  PROVE  FrontmatterEnd(data) \in 2..Len(data)
<1> DEFINE T == {i \in 2..Len(data) : data[i] = Delim}
<1>1. T \in SUBSET Nat /\ T # {}
  BY DEF HasBlock, Data
<1>2. PICK j \in T : \A m \in T : j <= m
  BY <1>1, Smallest
<1>3. \A i \in 2..(j - 1) : data[i] # Delim
  <2> SUFFICES ASSUME NEW i \in 2..(j - 1), data[i] = Delim PROVE FALSE
    OBVIOUS
  <2>1. i \in T /\ i < j
    BY DEF Data
  <2> QED BY <1>1, <1>2, <2>1
<1>4. \E k \in 2..Len(data) : data[k] = Delim /\ \A i \in 2..(k - 1) : data[i] # Delim
  BY <1>2, <1>3
<1> QED BY <1>4 DEF FrontmatterEnd

LEMMA BodyType ==
  ASSUME NEW data \in Data
  PROVE  BodyOf(data) \in Data
<1>1. CASE ~HasBlock(data)
  BY <1>1 DEF BodyOf
<1>2. CASE HasBlock(data)
  <2>1. FrontmatterEnd(data) \in 2..Len(data) /\ Len(data) \in Nat
    BY <1>2, BlockEnds DEF Data
  <2>2. BodyStart(data) \in Nat /\ BodyStart(data) >= 2
    BY <2>1 DEF BodyStart
  <2>3. \A i \in BodyStart(data)..Len(data) : data[i] \in Line
    BY <2>1, <2>2 DEF Data
  <2>4. SubSeq(data, BodyStart(data), Len(data)) \in Seq(Line)
    BY <2>1, <2>2, <2>3, SubSeqProperties
  <2> QED BY <1>2, <2>4 DEF BodyOf, Data
<1> QED BY <1>1, <1>2

LEMMA FrontmatterType ==
  ASSUME NEW data \in Data
  PROVE  FrontmatterOf(data) \in Frontmatter
<1> DEFINE keys == {i \in Block(data) : data[i].line = "yaml"}
<1>1. CASE keys = {}
  BY <1>1, ZeroType DEF FrontmatterOf
<1>2. CASE keys # {}
  <2>1. (CHOOSE i \in keys : TRUE) \in keys
    BY <1>2
  <2> DEFINE k == CHOOSE i \in keys : TRUE
  <2>2. k \in Block(data) /\ data[k].line = "yaml"
    BY <2>1
  <2>3. HasBlock(data) /\ k \in 2..(FrontmatterEnd(data) - 1)
    BY <2>2 DEF Block
  <2>4. k \in 1..Len(data)
    BY <2>3, BlockEnds DEF Data
  <2>5. data[k] \in Line
    BY <2>4 DEF Data
  <2> HIDE DEF k
  <2>6. data[k].fm \in Frontmatter
    BY <2>2, <2>5, LineTypes
  <2>7. FrontmatterOf(data) = data[k].fm
    BY <1>2 DEF FrontmatterOf, k
  <2> QED BY <2>6, <2>7
<1> QED BY <1>1, <1>2

\* What is read from a file, whatever it says, is an entry.
LEMMA ReadEntryType ==
  ASSUME NEW k \in File
  PROVE  ReadEntry(k) \in Entry
<1> DEFINE f == FrontmatterOf(k.data)
<1>1. k.data \in Data /\ k.slug \in Slugs /\ k.date \in Dates
  BY DEF File
<1>2. f \in Frontmatter /\ BodyOf(k.data) \in Data
  BY <1>1, FrontmatterType, BodyType
<1>3. f.title \in Titles /\ f.slug \in Slugs /\ f.date \in Dates \cup {NoDate}
      /\ f.tags \in SUBSET Tags /\ f.extra \in Extras
  BY <1>2 DEF Frontmatter
<1>4. MergedTags(f.tags, BodyOf(k.data)) \in SUBSET Tags
  BY <1>2, <1>3, MergedTagsType
<1> HIDE DEF f
<1> QED BY <1>1, <1>2, <1>3, <1>4 DEF ReadEntry, Entry, f

-----------------------------------------------------------------------------
(* FormatNote and back.                                                    *)

LEMMA FormatType ==
  ASSUME NEW f \in Frontmatter, NEW body \in Data
  PROVE  /\ FormatNote(f, body) \in Data
         /\ f # ZeroFrontmatter =>
              /\ Len(FormatNote(f, body)) = Len(body) + 4
              /\ FormatNote(f, body)[1] = Delim
              /\ FormatNote(f, body)[2] = Yaml(f)
              /\ FormatNote(f, body)[3] = Delim
              /\ FormatNote(f, body)[4] = Blank
              /\ \A i \in 1..Len(body) : FormatNote(f, body)[i + 4] = body[i]
<1> DEFINE head == <<Delim, Yaml(f), Delim, Blank>>
<1>1. head \in Seq(Line) /\ Len(head) = 4
  BY LineTypes
<1>2. /\ head \o body \in Seq(Line)
      /\ Len(head \o body) = Len(body) + 4
      /\ \A i \in 1..(Len(body) + 4) : (head \o body)[i] = IF i <= 4 THEN head[i] ELSE body[i - 4]
  <2>1. body \in Seq(Line) /\ Len(body) \in Nat
    BY DEF Data
  <2> HIDE DEF head
  <2>2. /\ head \o body \in Seq(Line)
        /\ Len(head \o body) = Len(head) + Len(body)
        /\ \A i \in 1..(Len(head) + Len(body)) :
             (head \o body)[i] = IF i <= Len(head) THEN head[i] ELSE body[i - Len(head)]
    BY <1>1, <2>1, ConcatProperties
  <2> QED BY <1>1, <2>1, <2>2
<1> QED BY <1>1, <1>2 DEF FormatNote, Data

\* Where there is no block the whole file is the body.
LEMMA ParseBare ==
  ASSUME NEW data \in Data, ~HasBlock(data)
  PROVE  BodyOf(data) = data /\ FrontmatterOf(data) = ZeroFrontmatter /\ ~Malformed(data)
BY DEF BodyOf, FrontmatterOf, Block, Malformed

LEMMA ParseFormatted ==
  ASSUME NEW f \in Frontmatter, f # ZeroFrontmatter, NEW body \in Data
  PROVE  LET data == FormatNote(f, body)
         IN  BodyOf(data) = body /\ FrontmatterOf(data) = f /\ ~Malformed(data)
<1> DEFINE data == FormatNote(f, body)
<1>1. /\ data \in Data /\ Len(data) = Len(body) + 4 /\ Len(body) \in Nat
      /\ data[1] = Delim /\ data[2] = Yaml(f) /\ data[3] = Delim /\ data[4] = Blank
      /\ \A i \in 1..Len(body) : data[i + 4] = body[i]
  BY FormatType DEF Data
<1> HIDE DEF data
<1>2. Yaml(f).line = "yaml" /\ Delim.line = "---" /\ Yaml(f).fm = f
  BY DEF Yaml, Delim
<1>3. HasBlock(data)
  BY <1>1 DEF HasBlock
<1>4. FrontmatterEnd(data) = 3
  <2>1. data[2] # Delim
    BY <1>1, <1>2
  <2>2. \A j \in 2..Len(data) :
          (data[j] = Delim /\ \A i \in 2..(j - 1) : data[i] # Delim) <=> j = 3
    BY <1>1, <2>1
  <2>3. 3 \in 2..Len(data)
    BY <1>1
  <2>4. \E j \in 2..Len(data) : data[j] = Delim /\ \A i \in 2..(j - 1) : data[i] # Delim
    BY <2>2, <2>3
  <2>5. /\ FrontmatterEnd(data) \in 2..Len(data)
        /\ data[FrontmatterEnd(data)] = Delim
        /\ \A i \in 2..(FrontmatterEnd(data) - 1) : data[i] # Delim
    BY <2>4 DEF FrontmatterEnd
  <2> QED BY <2>2, <2>5
<1>5. BodyOf(data) = body
  <2>1. BodyStart(data) = 5
    BY <1>1, <1>4 DEF BodyStart
  <2>2. \A i \in 5..Len(data) : data[i] \in Line
    BY <1>1 DEF Data
  <2>3. /\ Len(SubSeq(data, 5, Len(data))) = Len(body)
        /\ SubSeq(data, 5, Len(data)) \in Seq(Line)
        /\ \A i \in 1..Len(body) : SubSeq(data, 5, Len(data))[i] = data[i + 4]
    BY <1>1, <2>2, SubSeqProperties
  <2>4. SubSeq(data, 5, Len(data)) = body
    BY <1>1, <2>3 DEF Data
  <2> QED BY <1>3, <2>1, <2>4 DEF BodyOf
<1>6. Block(data) = {2}
  BY <1>3, <1>4 DEF Block
<1>7. FrontmatterOf(data) = f
  <2>1. {i \in Block(data) : data[i].line = "yaml"} = {2}
    BY <1>1, <1>2, <1>6
  <2> QED BY <1>1, <1>2, <2>1 DEF FrontmatterOf
<1>8. ~Malformed(data)
  BY <1>1, <1>2, <1>6 DEF Malformed
<1> QED BY <1>5, <1>7, <1>8 DEF data

LEMMA WriteEntryType ==
  ASSUME NEW e \in Entry
  PROVE  WriteEntry(e) \in File
<1>1. MetaToFrontmatter(e) \in Frontmatter /\ e.body \in Data
  BY DEF MetaToFrontmatter, Frontmatter, Entry
<1>2. FormatNote(MetaToFrontmatter(e), e.body) \in Data
  BY <1>1, FormatType
<1>3. NameSlug(e.slug) \in InName /\ e.date \in Dates
  BY DEF NameSlug, Entry
<1> QED BY <1>2, <1>3 DEF WriteEntry, File

\* What is read from a file whose text is that of an entry, whatever its name: the
\* name stands in for the type and the date that the frontmatter does not give.
LEMMA ReadBack ==
  ASSUME NEW e \in Entry, Plain(e), NEW k \in File, k.data = WriteEntry(e).data
  PROVE  /\ ~Malformed(k.data)
         /\ ReadEntry(k) = [e EXCEPT !.slug = IF @ = NoSlug THEN k.slug ELSE @,
                                     !.date = IF e.dateExplicit THEN @ ELSE k.date,
                                     !.tags = MergedTags(e.tags, e.body)]
<1> DEFINE f == MetaToFrontmatter(e)
           data == FormatNote(f, e.body)
<1>1. /\ e.title \in Titles /\ e.slug \in Slugs /\ e.date \in Dates /\ e.dateExplicit \in BOOLEAN
      /\ e.tags \in SUBSET Tags /\ e.extra \in Extras /\ e.body \in Data
  BY DEF Entry
<1>2. f \in Frontmatter
  BY <1>1 DEF MetaToFrontmatter, Frontmatter
<1>3. BodyOf(data) = e.body /\ FrontmatterOf(data) = f /\ ~Malformed(data)
  <2>1. CASE f = ZeroFrontmatter
    BY <1>1, <2>1, ParseBare DEF Plain, FormatNote
  <2>2. CASE f # ZeroFrontmatter
    BY <1>1, <1>2, <2>2, ParseFormatted
  <2> QED BY <2>1, <2>2
<1>4. k.data = data
  BY DEF WriteEntry
<1> HIDE DEF data
<1>5. f.slug = e.slug
  BY DEF MetaToFrontmatter
<1>6. /\ (IF f.date = NoDate THEN k.date ELSE f.date) = IF e.dateExplicit THEN e.date ELSE k.date
      /\ (f.date # NoDate) = e.dateExplicit
  BY <1>1 DEF MetaToFrontmatter
<1>7. f.title = e.title /\ f.tags = e.tags /\ f.extra = e.extra
  BY DEF MetaToFrontmatter
<1> HIDE DEF f
<1>8. ReadEntry(k) =
        [title |-> e.title, slug |-> IF e.slug = NoSlug THEN k.slug ELSE e.slug,
         date |-> IF e.dateExplicit THEN e.date ELSE k.date, dateExplicit |-> e.dateExplicit,
         tags |-> MergedTags(e.tags, e.body), extra |-> e.extra, body |-> e.body]
  BY <1>3, <1>4, <1>5, <1>6, <1>7 DEF ReadEntry
<1> DEFINE slug == IF e.slug = NoSlug THEN k.slug ELSE e.slug
           date == IF e.dateExplicit THEN e.date ELSE k.date
           tags == MergedTags(e.tags, e.body)
<1> HIDE DEF slug, date, tags
<1>9. [e EXCEPT !.slug = slug, !.date = date, !.tags = tags] =
        [title |-> e.title, slug |-> slug, date |-> date, dateExplicit |-> e.dateExplicit,
         tags |-> tags, extra |-> e.extra, body |-> e.body]
  <2> DEFINE a == [e EXCEPT !.slug = slug]
             b == [a EXCEPT !.date = date]
             c == [b EXCEPT !.tags = tags]
  <2>1. a = [title |-> e.title, slug |-> slug, date |-> e.date, dateExplicit |-> e.dateExplicit,
             tags |-> e.tags, extra |-> e.extra, body |-> e.body]
    BY DEF Entry
  <2> HIDE DEF a
  <2>2. b = [title |-> e.title, slug |-> slug, date |-> date, dateExplicit |-> e.dateExplicit,
             tags |-> e.tags, extra |-> e.extra, body |-> e.body]
    BY <2>1
  <2> HIDE DEF b
  <2>3. c = [title |-> e.title, slug |-> slug, date |-> date, dateExplicit |-> e.dateExplicit,
             tags |-> tags, extra |-> e.extra, body |-> e.body]
    BY <2>2
  <2> QED BY <2>3, Zenon DEF a, b
<1> QED BY <1>3, <1>4, <1>8, <1>9 DEF slug, date, tags

\* Put and Get of the file store are inverse, but for the hashtags that become
\* tags, for every entry whose text does not begin like a frontmatter or that
\* has a frontmatter of its own.
THEOREM RoundTrip ==
  ASSUME NEW e \in Entry, Plain(e)
  PROVE  /\ ~Malformed(WriteEntry(e).data)
         /\ ReadEntry(WriteEntry(e)) = [e EXCEPT !.tags = MergedTags(e.tags, e.body)]
<1> DEFINE k == WriteEntry(e)
<1>1. k \in File /\ k.slug = NameSlug(e.slug) /\ k.date = e.date
  BY WriteEntryType DEF WriteEntry
<1>2. e.slug = NoSlug => k.slug = NoSlug
  BY <1>1 DEF NameSlug
<1> HIDE DEF k
<1>3. k.data = WriteEntry(e).data
  BY DEF k
<1>4. /\ ~Malformed(k.data)
      /\ ReadEntry(k) = [e EXCEPT !.slug = IF @ = NoSlug THEN k.slug ELSE @,
                                  !.date = IF e.dateExplicit THEN @ ELSE k.date,
                                  !.tags = MergedTags(e.tags, e.body)]
  BY <1>1, <1>3, ReadBack
<1>5. ReadEntry(k) = [e EXCEPT !.tags = MergedTags(e.tags, e.body)]
  BY <1>1, <1>2, <1>4 DEF Entry
<1> QED BY <1>4, <1>5 DEF k

\* What is read has the hashtags of its body among its tags.
LEMMA ReadMerged ==
  ASSUME NEW k \in File
  PROVE  ReadEntry(k).tags = MergedTags(ReadEntry(k).tags, ReadEntry(k).body)
<1>1. FrontmatterOf(k.data).tags \in SUBSET Tags /\ BodyOf(k.data) \in Data
  BY FrontmatterType, BodyType DEF File, Frontmatter
<1>2. /\ ReadEntry(k).tags = MergedTags(FrontmatterOf(k.data).tags, BodyOf(k.data))
      /\ ReadEntry(k).body = BodyOf(k.data)
  BY DEF ReadEntry
<1> QED BY <1>1, <1>2, MergedTagsType

HIDE NoteFormatAssumption

-----------------------------------------------------------------------------
(* The inductive invariant.                                                *)

\* A file is what formatting makes of the entry last put, name included unless a
\* Put has been cut off since.
FilesFollow ==
  \A id \in Ids :
    /\ files[id] = None <=> mem[id] = None
    /\ mem[id] # None => /\ files[id].data = WriteEntry(mem[id]).data
                         /\ id \notin halfway => files[id] = WriteEntry(mem[id])

Numbered ==
  /\ \A id \in Present(mem) : id <= last
  /\ \A p \in Procs : pc[p] \in {"edit", "delete"} => cmd[p].id <= last

\* What a process has seen was read from a file.
Read ==
  \A p \in Procs : pc[p] \in {"edit", "delete"} => got[p].tags = MergedTags(got[p].tags, got[p].body)

\* What a process has seen still holds, unless it was overtaken.
Fresh ==
  \A p \in Procs : ~overtaken[p] =>
    /\ pc[p] \in {"edit", "delete"} =>
         files[cmd[p].id] # None /\ got[p] = ReadEntry(files[cmd[p].id])
    /\ pc[p] = "create" /\ cmd[p].upsert => FindStops(files, UpsertQuery(cmd[p].slug, day)) = {}

Inv == TypeOK /\ FilesFollow /\ Numbered /\ Read /\ Fresh

-----------------------------------------------------------------------------
(* Types of the data.                                                      *)

LEMMA CommandTypes ==
  ASSUME NEW c \in Given
  PROVE  /\ c.op = "new" => /\ c.title \in Titles /\ c.slug \in Slugs /\ c.tags \in SUBSET Tags
                            /\ c.body \in Data /\ c.upsert \in BOOLEAN
         /\ c.op # "new" => c.id \in Ids
         /\ c.op = "append" => c.content \in Data
         /\ c.op = "update" => /\ c.title \in Titles \cup {Keep} /\ c.slug \in Slugs \cup {Keep}
                               /\ c.tags \in {Keep} \cup SUBSET Tags /\ c.date \in Dates \cup {Keep}
<1>1. c \in NewCommand \cup UpdateCommand \cup AppendCommand \cup PlainCommand
  BY CommandsAssumption DEF Command
<1>2. CASE c \in NewCommand
  BY <1>2 DEF NewCommand
<1>3. CASE c \in UpdateCommand
  BY <1>3 DEF UpdateCommand
<1>4. CASE c \in AppendCommand
  BY <1>4 DEF AppendCommand
<1>5. CASE c \in PlainCommand
  BY <1>5 DEF PlainCommand
<1> QED BY <1>1, <1>2, <1>3, <1>4, <1>5

LEMMA PresentAlike ==
  ASSUME FilesFollow
  PROVE  Present(files) = Present(mem)
BY DEF FilesFollow, Present

LEMMA NewEntryType ==
  ASSUME TypeOK, NEW c \in Given, c.op = "new"
  PROVE  NewEntry(c) \in Entry
BY CommandTypes, NoteFormatAssumption DEF NewEntry, Entry, TypeOK

LEMMA UpdatedType ==
  ASSUME NEW c \in Given, c.op = "update", NEW e \in Entry
  PROVE  Updated(c, e) \in Entry
<1>1. /\ Chosen(c.title, e.title) \in Titles /\ Chosen(c.slug, e.slug) \in Slugs
      /\ Chosen(c.tags, e.tags) \in SUBSET Tags /\ Chosen(c.date, e.date) \in Dates
  BY CommandTypes DEF Chosen, Entry
<1> QED BY <1>1 DEF Updated, Entry

LEMMA AppendedType ==
  ASSUME NEW c \in Given, c.op = "append", NEW e \in Entry
  PROVE  /\ Appended(c, e) \in Entry
         /\ SubSeq(Appended(c, e).body, 1, Len(e.body)) = e.body
<1>1. e.body \in Seq(Line) /\ c.content \in Seq(Line) /\ <<Blank>> \in Seq(Line)
  BY CommandTypes, LineTypes DEF Entry, Data
<1>2. e.body \o <<Blank>> \in Seq(Line)
  BY <1>1, ConcatProperties
<1> DEFINE a == e.body \o <<Blank>>
           b == a \o c.content
<1>3. /\ a \in Seq(Line) /\ Len(a) = Len(e.body) + 1 /\ Len(e.body) \in Nat
      /\ \A i \in 1..Len(e.body) : a[i] = e.body[i]
  BY <1>1, <1>2, ConcatProperties
<1> HIDE DEF a
<1>4. /\ b \in Seq(Line) /\ Len(b) = Len(a) + Len(c.content) /\ Len(c.content) \in Nat
      /\ \A i \in 1..Len(a) : b[i] = a[i]
  <2>1. /\ b \in Seq(Line) /\ Len(b) = Len(a) + Len(c.content)
        /\ \A i \in 1..(Len(a) + Len(c.content)) :
             b[i] = IF i <= Len(a) THEN a[i] ELSE c.content[i - Len(a)]
    BY <1>1, <1>3, ConcatProperties
  <2>2. Len(a) \in Nat /\ Len(c.content) \in Nat
    BY <1>1, <1>3
  <2> HIDE DEF b
  <2> QED BY <2>1, <2>2
<1> HIDE DEF b
<1>5. \A i \in 1..Len(e.body) : b[i] = e.body[i] /\ b[i] \in Line
  <2> SUFFICES ASSUME NEW i \in 1..Len(e.body) PROVE b[i] = e.body[i] /\ e.body[i] \in Line
    OBVIOUS
  <2>1. i \in 1..Len(a)
    BY <1>3
  <2>2. e.body[i] \in Line
    BY <1>1, <1>3
  <2>3. b[i] = a[i]
    BY <1>4, <2>1
  <2>4. a[i] = e.body[i]
    BY <1>3
  <2> QED BY <2>2, <2>3, <2>4
<1>6. SubSeq(b, 1, Len(e.body)) = e.body
  <2>1. /\ SubSeq(b, 1, Len(e.body)) \in Seq(Line)
        /\ Len(SubSeq(b, 1, Len(e.body))) = Len(e.body)
        /\ \A i \in 1..Len(e.body) : SubSeq(b, 1, Len(e.body))[i] = b[i]
    BY <1>3, <1>5, SubSeqProperties
  <2> QED BY <1>1, <1>5, <2>1
<1>7. Appended(c, e) = [e EXCEPT !.body = b]
  BY DEF Appended, a, b
<1> QED BY <1>4, <1>6, <1>7 DEF Entry, Data

LEMMA AnnotatedType ==
  ASSUME NEW gen \in Answers, NEW e \in Entry
  PROVE  MergeAnnotation(e, gen) \in Entry
<1>1. gen.title \in Titles /\ gen.tags \in SUBSET Tags
  BY CommandsAssumption
<1> QED BY <1>1 DEF MergeAnnotation, Entry

LEMMA AtMost == \A i, j, k \in Nat : i <= j /\ j <= k => i <= k
OBVIOUS

-----------------------------------------------------------------------------
(* Each step keeps the invariant.                                          *)

LEMMA InitInv == Init => Inv
<1> SUFFICES ASSUME Init PROVE Inv
  OBVIOUS
<1>1. mem \in Memory
  BY CommandsAssumption DEF Init
<1>2. FilesFollow
  <2>1. \A id \in Ids : mem[id] # None => WriteEntry(mem[id]) # None
    BY <1>1, WriteEntryType, CommandsAssumption DEF Memory
  <2> QED BY <2>1 DEF Init, FilesFollow
<1>3. files \in [Ids -> File \cup {None}]
  <2>1. \A id \in Ids : mem[id] # None => WriteEntry(mem[id]) \in File
    BY <1>1, WriteEntryType DEF Memory
  <2> QED BY <2>1 DEF Init
<1>4. \A p \in Procs : Placed(p)
  BY DEF Init, Placed
<1>5. TypeOK
  BY <1>1, <1>3, <1>4 DEF Init, TypeOK
<1>6. Numbered /\ Read /\ Fresh
  BY DEF Init, Numbered, Read, Fresh
<1> QED BY <1>2, <1>5, <1>6 DEF Inv

\* A command that ends without a change to the notes.
LEMMA EndKeeps ==
  ASSUME Inv, NEW p \in Procs, Ends(p), overtaken' = [overtaken EXCEPT ![p] = FALSE],
         UNCHANGED <<files, mem, halfway, day>>, last' \in Ids \cup {0}, last <= last'
  PROVE  Inv'
<1> USE DEF Inv, TypeOK, Ends
<1>0. last \in Nat /\ last' \in Nat /\ \A id \in Ids : id \in Nat
  BY NoteFormatAssumption
<1>1. \A q \in Procs : Placed(q)'
  <2> SUFFICES ASSUME NEW q \in Procs PROVE Placed(q)'
    OBVIOUS
  <2>1. Placed(q)
    OBVIOUS
  <2>2. CASE q = p
    BY <2>2 DEF Placed
  <2>3. CASE q # p
    BY <2>1, <2>3 DEF Placed
  <2> QED BY <2>2, <2>3
<1>2. TypeOK'
  BY <1>1
<1>3. FilesFollow'
  BY DEF FilesFollow
<1>4. Numbered'
  <2>1. \A id \in Present(mem)' : id <= last'
    BY <1>0 DEF Numbered, Present
  <2>2. ASSUME NEW q \in Procs, pc'[q] \in {"edit", "delete"} PROVE cmd'[q].id <= last'
    <3>1. q # p /\ pc[q] \in {"edit", "delete"} /\ cmd'[q] = cmd[q]
      BY <2>2
    <3>2. cmd[q].id \in Ids /\ cmd[q].id <= last
      BY <3>1, CommandTypes DEF Numbered, Placed
    <3>3. cmd[q].id \in Nat
      BY <1>0, <3>2
    <3>4. cmd[q].id <= last'
      BY <1>0, <3>2, <3>3, AtMost
    <3> QED BY <3>1, <3>4
  <2> QED BY <2>1, <2>2 DEF Numbered
<1>5. Read' /\ Fresh'
  BY DEF Read, Fresh, Present, FindStops, Filtered
<1> QED BY <1>2, <1>3, <1>4, <1>5

\* A note is written, half written or removed, and the command ends.
LEMMA ChangeKeeps ==
  ASSUME Inv, NEW p \in Procs, NEW id \in Ids, NEW e \in Entry \cup {None}, NEW k \in File \cup {None},
         k = None <=> e = None,
         e # None => k.data = WriteEntry(e).data /\ (id \notin halfway' => k = WriteEntry(e)),
         halfway' \in {halfway \cup {id}, halfway \ {id}},
         files' = [files EXCEPT ![id] = k],
         mem' = [mem EXCEPT ![id] = e],
         Overtakes(p, id), Ends(p), day' = day,
         last' \in Ids, last <= last', id <= last'
  PROVE  Inv'
<1> USE DEF Inv, TypeOK, Ends
<1>0. last \in Nat /\ last' \in Nat /\ \A i \in Ids : i \in Nat
  BY NoteFormatAssumption
<1>1. \A q \in Procs : Placed(q)'
  <2> SUFFICES ASSUME NEW q \in Procs PROVE Placed(q)'
    OBVIOUS
  <2>1. Placed(q)
    OBVIOUS
  <2>2. CASE q = p
    BY <2>2 DEF Placed
  <2>3. CASE q # p
    BY <2>1, <2>3 DEF Placed
  <2> QED BY <2>2, <2>3
<1>2. TypeOK'
  <2>1. files' \in [Ids -> File \cup {None}] /\ halfway' \subseteq Ids
    OBVIOUS
  <2>2. mem' \in Memory
    BY DEF Memory
  <2>3. overtaken' \in [Procs -> BOOLEAN]
    BY DEF Overtakes
  <2> QED BY <1>1, <2>1, <2>2, <2>3
<1>3. FilesFollow'
  <2> SUFFICES ASSUME NEW i \in Ids
               PROVE  /\ files'[i] = None <=> mem'[i] = None
                      /\ mem'[i] # None => /\ files'[i].data = WriteEntry(mem'[i]).data
                                           /\ i \notin halfway' => files'[i] = WriteEntry(mem'[i])
    BY DEF FilesFollow
  <2>1. CASE i = id
    BY <2>1 DEF Memory
  <2>2. CASE i # id
    BY <2>2 DEF FilesFollow, Memory
  <2> QED BY <2>1, <2>2
<1>4. Numbered'
  <2>1. \A i \in Present(mem)' : i <= last'
    BY <1>0 DEF Numbered, Present, Memory
  <2>2. ASSUME NEW q \in Procs, pc'[q] \in {"edit", "delete"} PROVE cmd'[q].id <= last'
    <3>1. q # p /\ pc[q] \in {"edit", "delete"} /\ cmd'[q] = cmd[q]
      BY <2>2
    <3>2. cmd[q].id \in Ids /\ cmd[q].id <= last
      BY <3>1, CommandTypes DEF Numbered, Placed
    <3>3. cmd[q].id \in Nat
      BY <1>0, <3>2
    <3>4. cmd[q].id <= last'
      BY <1>0, <3>2, <3>3, AtMost
    <3> QED BY <3>1, <3>4
  <2> QED BY <2>1, <2>2 DEF Numbered
<1>5. Read'
  BY DEF Read
<1>6. Fresh'
  <2> SUFFICES ASSUME NEW q \in Procs, ~overtaken'[q]
               PROVE  /\ pc'[q] # "create"
                      /\ pc'[q] \in {"edit", "delete"} =>
                           files'[cmd'[q].id] # None /\ got'[q] = ReadEntry(files'[cmd'[q].id])
    BY DEF Fresh
  <2>1. CASE q = p
    BY <2>1
  <2>2. CASE q # p
    <3>1. /\ pc'[q] = pc[q] /\ cmd'[q] = cmd[q] /\ got'[q] = got[q]
          /\ ~overtaken[q] /\ pc[q] # "create"
          /\ pc[q] \in {"edit", "delete"} => cmd[q].id # id
      BY <2>2 DEF Overtakes
    <3>2. pc[q] \in {"edit", "delete"} => files'[cmd[q].id] = files[cmd[q].id]
      BY <3>1, CommandTypes DEF Placed
    <3> QED BY <3>1, <3>2 DEF Fresh
  <2> QED BY <2>1, <2>2
<1> QED BY <1>2, <1>3, <1>4, <1>6, <1>5

LEMMA NumberType == TypeOK => last \in Nat /\ \A id \in Ids : id \in Nat /\ id > 0
BY NoteFormatAssumption DEF TypeOK

\* A process moves on in its command.
LEMMA StartKeeps ==
  ASSUME Inv, NEW p \in Procs, Start(p)
  PROVE  Inv'
<1> USE DEF Inv, TypeOK
<1>1. PICK c \in Given :
        /\ cmd' = [cmd EXCEPT ![p] = c]
        /\ pc' = [pc EXCEPT ![p] = IF c.op # "new" THEN "get"
                                   ELSE IF c.upsert THEN "look" ELSE "create"]
  BY DEF Start
<1>2. UNCHANGED <<files, mem, halfway, last, day, got, overtaken>>
  BY DEF Start
<1>3. \A q \in Procs : Placed(q)'
  <2> SUFFICES ASSUME NEW q \in Procs PROVE Placed(q)'
    OBVIOUS
  <2>1. Placed(q)
    OBVIOUS
  <2>2. CASE q = p
    BY <1>1, <1>2, <2>2 DEF Placed
  <2>3. CASE q # p
    BY <1>1, <1>2, <2>1, <2>3 DEF Placed
  <2> QED BY <2>2, <2>3
<1>4. TypeOK'
  BY <1>1, <1>2, <1>3
<1>5. FilesFollow'
  BY <1>2 DEF FilesFollow
<1>6. Numbered' /\ Read'
  BY <1>1, <1>2 DEF Numbered, Present, Read
<1>7. Fresh'
  <2> SUFFICES ASSUME NEW q \in Procs, ~overtaken'[q]
               PROVE  /\ pc'[q] \in {"edit", "delete"} =>
                           files[cmd'[q].id] # None /\ got[q] = ReadEntry(files[cmd'[q].id])
                      /\ pc'[q] = "create" /\ cmd'[q].upsert =>
                           FindStops(files, UpsertQuery(cmd'[q].slug, day)) = {}
    BY <1>2 DEF Fresh, Present, FindStops, Filtered
  <2>1. CASE q = p
    BY <1>1, <2>1
  <2>2. CASE q # p
    BY <1>1, <1>2, <2>2 DEF Fresh
  <2> QED BY <2>1, <2>2
<1> QED BY <1>4, <1>5, <1>6, <1>7

LEMMA GivesKeeps ==
  ASSUME Inv, NEW p \in Procs, Gives(p)
  PROVE  Inv'
<1>1. last' \in Ids \cup {0} /\ last <= last'
  BY NumberType DEF Gives, Inv, TypeOK
<1> QED BY <1>1, EndKeeps DEF Gives

LEMMA FindExistingKeeps ==
  ASSUME Inv, NEW p \in Procs, FindExisting(p)
  PROVE  Inv'
<1> USE DEF Inv, TypeOK
<1> DEFINE stops(c) == FindStops(files, UpsertQuery(c.slug, day))
<1>1. CASE Gives(p)
  BY <1>1, GivesKeeps
<1>2. CASE stops(cmd[p]) = {} /\ Goto(p, "create") /\ UNCHANGED got
  <2>1. /\ UNCHANGED <<files, mem, halfway, last, day, cmd, got>>
        /\ pc' = [pc EXCEPT ![p] = "create"]
        /\ overtaken' = [overtaken EXCEPT ![p] = FALSE]
    BY <1>2 DEF Goto
  <2>2. pc[p] = "look"
    BY DEF FindExisting
  <2>3. \A q \in Procs : Placed(q)'
    <3> SUFFICES ASSUME NEW q \in Procs PROVE Placed(q)'
      OBVIOUS
    <3>1. Placed(q)
      OBVIOUS
    <3>2. CASE q = p
      BY <2>1, <2>2, <3>1, <3>2 DEF Placed
    <3>3. CASE q # p
      BY <2>1, <3>1, <3>3 DEF Placed
    <3> QED BY <3>2, <3>3
  <2>4. TypeOK'
    BY <2>1, <2>3
  <2>5. FilesFollow' /\ Numbered' /\ Read'
    BY <2>1 DEF FilesFollow, Numbered, Present, Read
  <2>6. Fresh'
    <3> SUFFICES ASSUME NEW q \in Procs, ~overtaken'[q]
                 PROVE  /\ pc'[q] \in {"edit", "delete"} =>
                             files[cmd[q].id] # None /\ got[q] = ReadEntry(files[cmd[q].id])
                        /\ pc'[q] = "create" /\ cmd[q].upsert => stops(cmd[q]) = {}
      BY <2>1 DEF Fresh, Present, FindStops, Filtered
    <3>1. CASE q = p
      BY <1>2, <2>1, <3>1
    <3>2. CASE q # p
      BY <2>1, <3>2 DEF Fresh
    <3> QED BY <3>1, <3>2
  <2> QED BY <2>4, <2>5, <2>6
<1> QED BY <1>1, <1>2 DEF FindExisting

LEMMA GetKeeps ==
  ASSUME Inv, NEW p \in Procs, Get(p)
  PROVE  Inv'
<1> USE DEF Inv, TypeOK
<1> DEFINE id == cmd[p].id
           label == IF cmd[p].op = "rm" THEN "delete" ELSE "edit"
<1>1. CASE Gives(p)
  BY <1>1, GivesKeeps
<1>2. CASE Readable(id) /\ Goto(p, label) /\ got' = [got EXCEPT ![p] = ReadEntry(files[id])]
  <2>1. /\ UNCHANGED <<files, mem, halfway, last, day, cmd>>
        /\ pc' = [pc EXCEPT ![p] = label]
        /\ overtaken' = [overtaken EXCEPT ![p] = FALSE]
        /\ got' = [got EXCEPT ![p] = ReadEntry(files[id])]
        /\ files[id] # None
    BY <1>2 DEF Goto, Readable
  <2>2. cmd[p] \in Given /\ cmd[p].op # "new"
    BY DEF Get, Placed
  <2>3. id \in Ids
    BY <2>2, CommandTypes
  <2>4. files[id] \in File
    BY <2>1, <2>3
  <2>5. ReadEntry(files[id]) \in Entry
    BY <2>4, ReadEntryType
  <2>6. cmd[p].op \in {"update", "append", "annotate", "rm"}
    <3>1. cmd[p] \in NewCommand \cup UpdateCommand \cup AppendCommand \cup PlainCommand
      BY <2>2, CommandsAssumption DEF Command
    <3> QED BY <2>2, <3>1 DEF NewCommand, UpdateCommand, AppendCommand, PlainCommand
  <2>7. \A q \in Procs : Placed(q)'
    <3> SUFFICES ASSUME NEW q \in Procs PROVE Placed(q)'
      OBVIOUS
    <3>1. Placed(q)
      OBVIOUS
    <3>2. CASE q = p
      BY <2>1, <2>2, <2>5, <2>6, <3>2 DEF Placed
    <3>3. CASE q # p
      BY <2>1, <3>1, <3>3 DEF Placed
    <3> QED BY <3>2, <3>3
  <2>8. TypeOK'
    BY <2>1, <2>5, <2>7
  <2>9. FilesFollow'
    BY <2>1 DEF FilesFollow
  <2>10. Numbered'
    <3>1. id <= last
      <4>1. mem[id] # None
        BY <2>1, <2>3 DEF FilesFollow
      <4> QED BY <2>3, <4>1 DEF Numbered, Present
    <3> QED BY <2>1, <3>1 DEF Numbered, Present
  <2>11. Fresh'
    <3> SUFFICES ASSUME NEW q \in Procs, ~overtaken'[q]
                 PROVE  /\ pc'[q] \in {"edit", "delete"} =>
                             files[cmd[q].id] # None /\ got'[q] = ReadEntry(files[cmd[q].id])
                        /\ pc'[q] = "create" /\ cmd[q].upsert =>
                             FindStops(files, UpsertQuery(cmd[q].slug, day)) = {}
      BY <2>1 DEF Fresh, Present, FindStops, Filtered
    <3>1. CASE q = p
      BY <2>1, <3>1
    <3>2. CASE q # p
      BY <2>1, <3>2 DEF Fresh
    <3> QED BY <3>1, <3>2
  <2>12. Read'
    BY <2>1, <2>4, ReadMerged DEF Read
  <2> QED BY <2>8, <2>9, <2>10, <2>11, <2>12
<1> QED BY <1>1, <1>2 DEF Get

\* A Put, whole or cut off.
LEMMA PutKeeps ==
  ASSUME Inv, NEW p \in Procs, NEW id \in Ids, NEW e \in Entry, Put(p, id, e) \/ CutPut(p, id, e),
         day' = day, last' \in Ids, last <= last', id <= last'
  PROVE  Inv'
<1>1. WriteEntry(e) \in File /\ WriteEntry(e) # None /\ e # None
  BY WriteEntryType, CommandsAssumption
<1>2. CASE Put(p, id, e)
  BY <1>1, <1>2, ChangeKeeps DEF Put, MemPut
<1>3. CASE CutPut(p, id, e)
  <2> DEFINE k == [WriteEntry(e) EXCEPT !.data = files[id].data]
  <2>1. files[id] \in File /\ mem[id] \in Entry /\ mem[id] # None /\ files[id].data = WriteEntry(mem[id]).data
    BY <1>3 DEF CutPut, Inv, TypeOK, Memory, FilesFollow
  <2>2. k \in File /\ k.data = files[id].data
    BY <1>1, <2>1 DEF File
  <2>3. k # None
    BY <2>2, CommandsAssumption
  <2>4. mem' = [mem EXCEPT ![id] = mem[id]] /\ files' = [files EXCEPT ![id] = k]
    BY <1>3 DEF CutPut, Inv, TypeOK, Memory
  <2>5. halfway' = halfway \cup {id} /\ Overtakes(p, id) /\ Ends(p)
    BY <1>3 DEF CutPut
  <2> HIDE DEF k
  <2> QED BY <2>1, <2>2, <2>3, <2>4, <2>5, ChangeKeeps
<1> QED BY <1>2, <1>3

LEMMA CreateKeeps ==
  ASSUME Inv, NEW p \in Procs, Create(p) \/ CreateFails(p)
  PROVE  Inv'
<1>1. last' = last + 1 /\ last' \in Ids /\ last <= last' /\ last' <= last'
  BY NumberType DEF Create, CreateFails, Inv
<1>2. CASE Create(p)
  <2>1. NewEntry(cmd[p]) \in Entry
    BY <1>2, NewEntryType DEF Create, Inv, TypeOK, Placed
  <2> QED BY <1>1, <1>2, <2>1, PutKeeps DEF Create
<1>3. CASE CreateFails(p)
  BY <1>1, <1>3, EndKeeps DEF CreateFails
<1> QED BY <1>2, <1>3

\* What a command puts is an entry.
Makes(p, e) ==
  \/ cmd[p].op = "update" /\ e = Updated(cmd[p], got[p])
  \/ cmd[p].op = "append" /\ e = Appended(cmd[p], got[p])
  \/ cmd[p].op = "annotate" /\ \E gen \in Answers : e = MergeAnnotation(got[p], gen)

LEMMA EditType ==
  ASSUME Inv, NEW p \in Procs, pc[p] = "edit", NEW e, Makes(p, e)
  PROVE  e \in Entry /\ e # None /\ cmd[p] \in Given /\ cmd[p].id \in Ids
<1>1. cmd[p] \in Given /\ cmd[p].op # "new" /\ got[p] \in Entry
  BY DEF Inv, TypeOK, Placed
<1>2. e \in Entry
  BY <1>1, UpdatedType, AppendedType, AnnotatedType DEF Makes
<1> QED BY <1>1, <1>2, CommandTypes, CommandsAssumption

\* An edit is one of the three.
LEMMA EditSteps ==
  ASSUME NEW p \in Procs, Update(p) \/ AppendText(p) \/ Annotate(p)
  PROVE  /\ pc[p] = "edit" /\ UNCHANGED <<last, day>>
         /\ \E e : Makes(p, e) /\ Edits(p, e)
BY DEF Update, AppendText, Annotate, Makes

LEMMA EditKeeps ==
  ASSUME Inv, NEW p \in Procs, Update(p) \/ AppendText(p) \/ Annotate(p)
  PROVE  Inv'
<1>1. PICK e : Makes(p, e) /\ Edits(p, e)
  BY EditSteps
<1>2. pc[p] = "edit" /\ last' = last /\ day' = day
  BY EditSteps
<1>3. e \in Entry /\ e # None /\ cmd[p].id \in Ids
  BY <1>1, <1>2, EditType
<1>4. cmd[p].id <= last
  BY <1>2 DEF Inv, Numbered
<1>5. last \in Ids /\ last <= last
  BY <1>3, <1>4, NumberType DEF Inv, TypeOK
<1> QED BY <1>1, <1>2, <1>3, <1>4, <1>5, PutKeeps DEF Edits

LEMMA DeleteKeeps ==
  ASSUME Inv, NEW p \in Procs, Delete(p)
  PROVE  Inv'
<1>1. cmd[p].id \in Ids /\ cmd[p].id <= last
  BY CommandTypes DEF Delete, Inv, TypeOK, Placed, Numbered
<1>2. last \in Ids /\ last <= last
  BY <1>1, NumberType DEF Inv, TypeOK
<1> QED BY <1>1, <1>2, ChangeKeeps DEF Delete, MemDelete

LEMMA NextDayKeeps ==
  ASSUME Inv, NextDay
  PROVE  Inv'
<1>1. \A q \in Procs : Placed(q)'
  BY DEF Inv, TypeOK, Placed, NextDay
<1>2. TypeOK' /\ FilesFollow' /\ Numbered' /\ Read'
  BY <1>1 DEF Inv, TypeOK, NextDay, FilesFollow, Numbered, Read, Present
<1>3. Fresh'
  BY DEF Inv, Fresh, NextDay
<1> QED BY <1>2, <1>3 DEF Inv

LEMMA NextInv == Inv /\ [Next]_vars => Inv'
<1> SUFFICES ASSUME Inv, [Next]_vars PROVE Inv'
  OBVIOUS
<1>1. CASE UNCHANGED vars
  BY <1>1 DEF vars, Inv, TypeOK, Placed, FilesFollow, Numbered, Read, Fresh, Present, FindStops, Filtered
<1>2. CASE NextDay
  BY <1>2, NextDayKeeps
<1>3. ASSUME NEW p \in Procs, Step(p) PROVE Inv'
  BY <1>3, StartKeeps, FindExistingKeeps, CreateKeeps, GetKeeps, EditKeeps, DeleteKeeps, GivesKeeps
     DEF Step, Fail
<1> QED BY <1>1, <1>2, <1>3 DEF Next

-----------------------------------------------------------------------------
(* What follows from the invariant.                                        *)

\* What a plain entry in the double reads as in the files.
LEMMA Alike ==
  ASSUME Inv, NEW id \in Present(mem)
  PROVE  /\ id \in Ids /\ mem[id] \in Entry
         /\ id \notin halfway => files[id].slug = NameSlug(mem[id].slug) /\ files[id].date = mem[id].date
         /\ Plain(mem[id]) => /\ ~Malformed(files[id].data)
                              /\ ReadEntry(files[id]) = Named(id)
                              /\ id \notin halfway => ReadEntry(files[id]) = Shown(mem[id])
<1>1. id \in Ids /\ mem[id] # None /\ mem[id] \in Entry
  BY DEF Present, Inv, TypeOK, Memory
<1>2. /\ files[id] \in File /\ files[id].data = WriteEntry(mem[id]).data
      /\ id \notin halfway => files[id] = WriteEntry(mem[id])
  BY <1>1 DEF Inv, TypeOK, FilesFollow
<1>3. id \notin halfway => files[id].slug = NameSlug(mem[id].slug) /\ files[id].date = mem[id].date
  BY <1>2 DEF WriteEntry
<1>4. Plain(mem[id]) => ~Malformed(files[id].data) /\ ReadEntry(files[id]) = Named(id)
  <2> DEFINE e == mem[id]
             k == files[id]
  <2>1. k \in File /\ e \in Entry /\ k.data = WriteEntry(e).data
    BY <1>1, <1>2
  <2>2. Named(id) = [e EXCEPT !.slug = IF @ = NoSlug THEN k.slug ELSE @,
                              !.date = IF e.dateExplicit THEN @ ELSE k.date,
                              !.tags = MergedTags(e.tags, e.body)]
    BY <2>1 DEF Named, Shown, Entry
  <2> HIDE DEF e, k
  <2>3. Plain(e) => ~Malformed(k.data) /\ ReadEntry(k) = Named(id)
    BY <2>1, <2>2, ReadBack
  <2> QED BY <2>3 DEF e, k
<1>5. Plain(mem[id]) /\ id \notin halfway => ReadEntry(files[id]) = Shown(mem[id])
  BY <1>1, <1>2, RoundTrip DEF Shown
<1> QED BY <1>1, <1>3, <1>4, <1>5

LEMMA NextIdBounded ==
  ASSUME Inv
  PROVE  MemNextId(mem) <= last + 1
<1>1. last \in Nat /\ \A id \in Present(mem) : id \in Nat /\ id <= last
  BY NumberType DEF Inv, Numbered, Present
<1> DEFINE candidates == {1} \cup {id + 1 : id \in Present(mem)}
<1>2. \E n \in candidates : \A id \in Present(mem) : id < n
  <2>1. CASE Present(mem) = {}
    BY <2>1
  <2>2. CASE Present(mem) # {}
    <3> DEFINE T == {last - id : id \in Present(mem)}
    <3>1. T \in SUBSET Nat /\ T # {}
      BY <1>1, <2>2
    <3>2. PICK n \in T : \A m \in T : n <= m
      BY <3>1, Smallest
    <3>3. PICK newest \in Present(mem) : n = last - newest
      BY <3>2
    <3>4. ASSUME NEW id \in Present(mem) PROVE id < newest + 1
      <4>1. last - id \in T
        OBVIOUS
      <4>2. last - newest <= last - id
        BY <3>2, <3>3, <4>1
      <4> QED BY <1>1, <4>2
    <3>5. newest + 1 \in candidates
      OBVIOUS
    <3> QED BY <3>4, <3>5
  <2> QED BY <2>1, <2>2
<1>3. MemNextId(mem) \in candidates
  BY <1>2 DEF MemNextId
<1> QED BY <1>1, <1>3

LEMMA InvDouble == Inv => DoubleAgrees
<1> SUFFICES ASSUME Inv PROVE DoubleAgrees
  OBVIOUS
<1>1. Present(files) = Present(mem)
  BY PresentAlike DEF Inv
<1> QED BY <1>1, Alike, NextIdBounded DEF DoubleAgrees

\* A name that is not stale and can carry the type answers as the entry does.
LEMMA NameAnswers ==
  ASSUME Inv, NEW q \in Query, NEW id \in Listed(q), Plain(mem[id]), Matches(ReadEntry(files[id]), q)
  PROVE  RefMatchesFilename(files[id], q)
<1>1. id \in Present(mem) /\ id \notin halfway /\ (q.slug # Unset => mem[id].slug \in InName)
  BY DEF Listed
<1>2. /\ files[id].slug = NameSlug(mem[id].slug) /\ files[id].date = mem[id].date
      /\ ReadEntry(files[id]) = Shown(mem[id]) /\ mem[id] \in Entry
  BY <1>1, Alike
<1>3. ReadEntry(files[id]).slug = mem[id].slug /\ ReadEntry(files[id]).date = mem[id].date
  BY <1>2 DEF Shown, Entry
<1> QED BY <1>1, <1>2, <1>3 DEF Matches, RefMatchesFilename, NameSlug

LEMMA InvQueries == Inv => QueriesComplete
<1> SUFFICES ASSUME Inv, \A id \in Present(mem) : Plain(mem[id])
             PROVE  /\ \A q \in Asked :
                         /\ ~AllFails(files, q)
                         /\ All(files, q) \ halfway \subseteq MemAll(mem, q)
                         /\ MemAll(mem, q) \cap Listed(q) \subseteq All(files, q)
                         /\ Found(files, q) <=> All(files, q) # {}
                    /\ \A i, j \in Present(mem) \ halfway : Newer(files, i, j) <=> Newer(mem, i, j)
  BY DEF QueriesComplete
<1>1. Present(files) = Present(mem)
  BY PresentAlike DEF Inv
<1>2. \A id \in Present(mem) : ~Malformed(files[id].data)
  BY Alike
<1>3. \A id \in Present(mem) \ halfway : ReadEntry(files[id]) = Shown(mem[id])
  BY Alike
<1>4. ASSUME NEW q \in Asked
      PROVE  /\ ~AllFails(files, q)
             /\ All(files, q) \ halfway \subseteq MemAll(mem, q)
             /\ MemAll(mem, q) \cap Listed(q) \subseteq All(files, q)
             /\ Found(files, q) <=> All(files, q) # {}
  <2>1. q \in Query
    BY CommandsAssumption
  <2>2. \A id \in Filtered(files, q) : ~Malformed(files[id].data)
    BY <1>1, <1>2 DEF Filtered
  <2>3. All(files, q) \ halfway \subseteq MemAll(mem, q)
    BY <1>1, <1>3 DEF All, MemAll, Filtered
  <2>4. MemAll(mem, q) \cap Listed(q) \subseteq All(files, q)
    <3> SUFFICES ASSUME NEW id \in MemAll(mem, q) \cap Listed(q)
                 PROVE  id \in All(files, q)
      OBVIOUS
    <3>1. id \in Present(mem) /\ id \notin halfway /\ Matches(Shown(mem[id]), q)
      BY DEF MemAll, Listed
    <3>2. Matches(ReadEntry(files[id]), q)
      BY <1>3, <3>1
    <3>3. RefMatchesFilename(files[id], q)
      BY <2>1, <3>1, <3>2, NameAnswers
    <3> QED BY <1>1, <3>1, <3>2, <3>3 DEF All, Filtered
  <2>5. FindStops(files, q) = All(files, q) /\ ~FindFails(files, q)
    BY <2>2 DEF FindStops, FindFails, All
  <2> QED BY <2>2, <2>3, <2>4, <2>5 DEF AllFails, Found
<1>5. \A i, j \in Present(mem) \ halfway : Newer(files, i, j) <=> Newer(mem, i, j)
  BY Alike DEF Newer
<1> QED BY <1>4, <1>5

-----------------------------------------------------------------------------
(* What a step may do.                                                     *)

\* An edit keeps what it is not for.
LEMMA EditIsApart ==
  ASSUME NEW c \in Given, c.op # "new", NEW old \in Entry, NEW new \in Entry,
         old.tags = MergedTags(old.tags, old.body),
         \/ c.op = "update" /\ new = Updated(c, old)
         \/ c.op = "append" /\ new = Appended(c, old)
         \/ c.op = "annotate" /\ \E gen \in Answers : new = MergeAnnotation(old, gen)
  PROVE  Untouched(c, old, Shown(new))
<1>1. /\ Shown(new).title = new.title /\ Shown(new).slug = new.slug /\ Shown(new).date = new.date
      /\ Shown(new).dateExplicit = new.dateExplicit /\ Shown(new).extra = new.extra
      /\ Shown(new).body = new.body /\ Shown(new).tags = MergedTags(new.tags, new.body)
  BY DEF Shown, Entry
<1> DEFINE shown == Shown(new)
<1> HIDE DEF shown
<1>2. CASE c.op = "update" /\ new = Updated(c, old)
  <2>1. /\ new.body = old.body /\ new.extra = old.extra
        /\ c.title = Keep => new.title = old.title
        /\ c.slug = Keep => new.slug = old.slug
        /\ c.tags = Keep => new.tags = old.tags
        /\ c.date = Keep => new.date = old.date /\ new.dateExplicit = old.dateExplicit
    BY <1>2 DEF Updated, Chosen, Entry
  <2> QED BY <1>1, <1>2, <2>1 DEF Untouched
<1>3. CASE c.op = "append" /\ new = Appended(c, old)
  <2>1. /\ new.title = old.title /\ new.slug = old.slug /\ new.date = old.date
        /\ new.dateExplicit = old.dateExplicit /\ new.extra = old.extra /\ new.tags = old.tags
    BY <1>3 DEF Appended, Entry
  <2>2. SubSeq(new.body, 1, Len(old.body)) = old.body
    BY <1>3, AppendedType
  <2>3. old.tags \subseteq MergedTags(new.tags, new.body)
    <3>1. old.tags = ToLower(old.tags) \cup ToLower(ExtractHashtags(old.body))
      BY DEF MergedTags
    <3>2. old.tags \in SUBSET Tags
      BY DEF Entry
    <3>3. ASSUME NEW t \in old.tags PROVE t \in ToLower(old.tags)
      <4>1. MergedTags(old.tags, old.body) = old.tags
        OBVIOUS
      <4>2. PICK u \in Tags : t = Lower[u]
        <5>1. old.body \in Data
          BY DEF Entry
        <5> QED BY <3>1, <3>2, <5>1, HashtagsType DEF ToLower
      <4>3. Lower[t] = t
        BY <4>2, NoteFormatAssumption
      <4> QED BY <4>3 DEF ToLower
    <3> QED BY <2>1, <3>3 DEF MergedTags
  <2> QED BY <1>1, <1>3, <2>1, <2>2, <2>3 DEF Untouched
<1>4. CASE c.op = "annotate" /\ \E gen \in Answers : new = MergeAnnotation(old, gen)
  <2>1. /\ new.slug = old.slug /\ new.date = old.date /\ new.dateExplicit = old.dateExplicit
        /\ new.extra = old.extra /\ new.body = old.body
        /\ old.title # NoTitle => new.title = old.title
        /\ old.tags # {} => new.tags = old.tags
    BY <1>4 DEF MergeAnnotation, Entry
  <2> QED BY <1>1, <1>4, <2>1 DEF Untouched
<1> QED BY <1>2, <1>3, <1>4

\* Only p ends its command in a step of p, and only an edit, a creation or a
\* removal changes the files.
LEMMA WhoActs ==
  ASSUME Inv, NEW p \in Procs, [Next]_vars, pc[p] \in {"edit", "create"}, pc'[p] = "idle", files' # files
  PROVE  \/ pc[p] = "edit" /\ (Update(p) \/ AppendText(p) \/ Annotate(p))
         \/ pc[p] = "create" /\ Create(p)
<1> USE DEF Inv, TypeOK
<1>1. PICK q \in Procs : Step(q)
  BY DEF Next, NextDay, vars
<1>2. q = p
  BY <1>1 DEF Step, Start, FindExisting, Create, CreateFails, Get, Update, AppendText, Annotate, Delete,
              Fail, Edits, Put, CutPut, Gives, Goto, Ends
<1>3. /\ ~Start(p) /\ ~FindExisting(p) /\ ~Get(p) /\ ~Delete(p)
      /\ ~CreateFails(p) /\ ~Fail(p)
  BY DEF Start, FindExisting, CreateFails, Get, Delete, Fail, Gives
<1> QED BY <1>1, <1>2, <1>3 DEF Step, Update, AppendText, Annotate, Create

\* Nor does a Put that was cut off change what it is not for, of the file as it is.
LEMMA CutIsApart ==
  ASSUME NEW c \in Given, c.op # "new", NEW k \in File, NEW new \in Entry,
         \/ c.op = "update" /\ new = Updated(c, ReadEntry(k))
         \/ c.op = "append" /\ new = Appended(c, ReadEntry(k))
         \/ c.op = "annotate" /\ \E gen \in Answers : new = MergeAnnotation(ReadEntry(k), gen)
  PROVE  Untouched(c, ReadEntry(k), ReadEntry([WriteEntry(new) EXCEPT !.data = k.data]))
<1> DEFINE old  == ReadEntry(k)
           left == [WriteEntry(new) EXCEPT !.data = k.data]
           f    == FrontmatterOf(k.data)
<1>1. left.data = k.data /\ left.slug = NameSlug(new.slug) /\ left.date = new.date
  BY DEF WriteEntry
<1>2. k.slug \in InName /\ old \in Entry
  BY ReadEntryType DEF File
<1> HIDE DEF left
<1>3. /\ ReadEntry(left).title = old.title /\ ReadEntry(left).tags = old.tags
      /\ ReadEntry(left).extra = old.extra /\ ReadEntry(left).body = old.body
      /\ ReadEntry(left).dateExplicit = old.dateExplicit
      /\ ReadEntry(left).slug = IF f.slug = NoSlug THEN NameSlug(new.slug) ELSE f.slug
      /\ ReadEntry(left).date = IF f.date = NoDate THEN new.date ELSE f.date
      /\ old.slug = IF f.slug = NoSlug THEN k.slug ELSE f.slug
      /\ old.date = IF f.date = NoDate THEN k.date ELSE f.date
  BY <1>1 DEF ReadEntry
<1> HIDE DEF f, old
<1>4. /\ new.slug = old.slug => ReadEntry(left).slug = old.slug
      /\ new.date = old.date => ReadEntry(left).date = old.date
  BY <1>2, <1>3 DEF NameSlug
<1>5. c.op = "append" => SubSeq(old.body, 1, Len(old.body)) = old.body
  <2>1. old.body \in Seq(Line)
    BY <1>2 DEF Entry, Data
  <2>2. Len(old.body) \in Nat /\ \A i \in 1..Len(old.body) : old.body[i] \in Line
    BY <2>1
  <2>3. /\ SubSeq(old.body, 1, Len(old.body)) \in Seq(Line)
        /\ Len(SubSeq(old.body, 1, Len(old.body))) = Len(old.body)
        /\ \A i \in 1..Len(old.body) : SubSeq(old.body, 1, Len(old.body))[i] = old.body[i]
    BY <2>1, <2>2, SubSeqProperties
  <2> QED BY <2>1, <2>3
<1>6. Untouched(c, old, ReadEntry(left))
  <2>1. CASE c.op = "update" /\ new = Updated(c, old)
    <3>1. /\ c.slug = Keep => new.slug = old.slug
          /\ c.date = Keep => new.date = old.date
      BY <2>1 DEF Updated, Chosen
    <3> QED BY <1>3, <1>4, <2>1, <3>1 DEF Untouched
  <2>2. CASE c.op = "append" /\ new = Appended(c, old)
    <3>1. new.slug = old.slug /\ new.date = old.date
      BY <1>2, <2>2 DEF Appended, Entry
    <3> QED BY <1>3, <1>4, <1>5, <2>2, <3>1 DEF Untouched
  <2>3. CASE c.op = "annotate" /\ \E gen \in Answers : new = MergeAnnotation(old, gen)
    <3>1. new.slug = old.slug /\ new.date = old.date
      BY <1>2, <2>3 DEF MergeAnnotation, Entry
    <3> QED BY <1>3, <1>4, <2>3, <3>1 DEF Untouched
  <2> QED BY <2>1, <2>2, <2>3 DEF old
<1> QED BY <1>6 DEF old, left

LEMMA StepUntouched ==
  ASSUME Inv, [Next]_vars, NEW p \in Procs, pc[p] = "edit", pc'[p] = "idle", files' # files
  PROVE  LET id == cmd[p].id
         IN  /\ ~overtaken[p] => files[id] # None
             /\ Plain(mem'[id]) =>
                  /\ ~overtaken[p] => Untouched(cmd[p], ReadEntry(files[id]), ReadEntry(files'[id]))
                  /\ id \notin halfway' => Untouched(cmd[p], got[p], ReadEntry(files'[id]))
<1> DEFINE id == cmd[p].id
           old == got[p]
<1>1. Update(p) \/ AppendText(p) \/ Annotate(p)
  BY WhoActs
<1>2. PICK new : Makes(p, new) /\ Edits(p, new)
  BY <1>1, EditSteps
<1>3. /\ new \in Entry /\ id \in Ids /\ cmd[p] \in Given /\ cmd[p].op # "new" /\ old \in Entry
  BY <1>2, EditType DEF Inv, TypeOK, Placed
<1>4. \/ cmd[p].op = "update" /\ new = Updated(cmd[p], old)
      \/ cmd[p].op = "append" /\ new = Appended(cmd[p], old)
      \/ cmd[p].op = "annotate" /\ \E gen \in Answers : new = MergeAnnotation(old, gen)
  BY <1>2 DEF Makes
<1>5. ~overtaken[p] => files[id] # None /\ old = ReadEntry(files[id])
  BY DEF Inv, Fresh
<1>6. CASE Put(p, id, new)
  <2>1. old.tags = MergedTags(old.tags, old.body)
    BY DEF Inv, Read
  <2>2. mem'[id] = new /\ files'[id] = WriteEntry(new)
    BY <1>3, <1>6 DEF Put, MemPut, Inv, TypeOK, Memory
  <2>3. ASSUME Plain(new) PROVE Untouched(cmd[p], old, ReadEntry(files'[id]))
    <3>1. ReadEntry(files'[id]) = Shown(new)
      BY <1>3, <2>2, <2>3, RoundTrip DEF Shown
    <3> QED BY <1>3, <1>4, <2>1, <3>1, EditIsApart
  <2> QED BY <1>5, <2>2, <2>3
<1>7. CASE CutPut(p, id, new)
  <2>1. /\ files[id] \in File /\ id \in halfway'
        /\ files'[id] = [WriteEntry(new) EXCEPT !.data = files[id].data]
    BY <1>3, <1>7 DEF CutPut, Inv, TypeOK
  <2>2. ~overtaken[p] => Untouched(cmd[p], ReadEntry(files[id]), ReadEntry(files'[id]))
    BY <1>3, <1>4, <1>5, <2>1, CutIsApart
  <2> QED BY <1>5, <2>1, <2>2
<1> QED BY <1>2, <1>6, <1>7 DEF Edits

LEMMA StepUpsert ==
  ASSUME Inv, [Next]_vars, NEW p \in Procs,
         pc[p] = "create", cmd[p].upsert, pc'[p] = "idle", files' # files,
         ~overtaken[p], cmd[p].slug \in InName,
         NEW id \in Present(mem) \ halfway, Plain(mem[id])
  PROVE  ~(mem[id].slug = cmd[p].slug /\ mem[id].date = mem'[last'].date)
<1> SUFFICES ASSUME mem[id].slug = cmd[p].slug, mem[id].date = mem'[last'].date PROVE FALSE
  OBVIOUS
<1>1. Create(p)
  BY WhoActs
<1>2. mem'[last'].date = day
  BY <1>1 DEF Create, Put, MemPut, NewEntry, Inv, TypeOK, Memory
<1> DEFINE q == UpsertQuery(cmd[p].slug, day)
<1>3. FindStops(files, q) = {}
  BY DEF Inv, Fresh
<1>4. /\ id \in Present(files)
      /\ files[id].slug = mem[id].slug /\ files[id].date = mem[id].date
      /\ ReadEntry(files[id]) = Shown(mem[id]) /\ mem[id] \in Entry
  BY Alike, PresentAlike DEF NameSlug, Inv
<1>5. q.slug = cmd[p].slug /\ q.tags = {} /\ q.on = day /\ q.before = Unset
  BY DEF UpsertQuery, NoFilter
<1> HIDE DEF q
<1>6. RefMatchesFilename(files[id], q)
  BY <1>2, <1>4, <1>5 DEF RefMatchesFilename
<1>7. ReadEntry(files[id]).slug = cmd[p].slug /\ ReadEntry(files[id]).date = day
  BY <1>2, <1>4 DEF Shown, Entry
<1>8. Matches(ReadEntry(files[id]), q)
  BY <1>5, <1>7 DEF Matches, HasAllTags, ToLower
<1> QED BY <1>3, <1>4, <1>6, <1>8 DEF FindStops, Filtered

-----------------------------------------------------------------------------

\* The variables keep their types, and every entry that is read, edited or put
\* is one, whatever the files of the archive say.
THEOREM TypeCorrect == Spec => []TypeOK
<1>1. Inv => TypeOK
  BY DEF Inv
<1> QED BY <1>1, InitInv, NextInv, PTL DEF Spec

\* The in-memory store that the tests use and the files show the same notes.
THEOREM Doubles == Spec => []DoubleAgrees
<1> QED BY InvDouble, InitInv, NextInv, PTL DEF Spec

\* Whatever commands have made the archive, and wherever they were cut off, the
\* file names hide no note from a query, and show none too many, but those whose
\* own last Put was cut off and those whose type a name cannot carry.
THEOREM Queries == Spec => []QueriesComplete
<1> QED BY InvQueries, InitInv, NextInv, PTL DEF Spec

\* A command changes only what it is for, of what it has seen; and of the file as
\* it is, unless it was overtaken.
THEOREM EditsAreApart == Spec => UntouchedFieldsStay
<1>1. Inv /\ [Next]_vars =>
        [\A p \in Procs :
           pc[p] = "edit" /\ pc'[p] = "idle" /\ files' # files =>
             LET id == cmd[p].id
             IN  /\ ~overtaken[p] => files[id] # None
                 /\ Plain(mem'[id]) =>
                      /\ ~overtaken[p] => Untouched(cmd[p], ReadEntry(files[id]), ReadEntry(files'[id]))
                      /\ id \notin halfway' => Untouched(cmd[p], got[p], ReadEntry(files'[id]))]_vars
  BY StepUntouched
<1> QED BY <1>1, InitInv, NextInv, PTL DEF Spec, UntouchedFieldsStay

\* new --upsert makes a second note of a day only when it was overtaken.
THEOREM UpsertsReuse == Spec => UpsertReuses
<1>1. Inv /\ [Next]_vars =>
        [\A p \in Procs :
           /\ pc[p] = "create" /\ cmd[p].upsert /\ pc'[p] = "idle" /\ files' # files
           /\ ~overtaken[p] /\ cmd[p].slug \in InName
           => \A id \in Present(mem) \ halfway : Plain(mem[id]) =>
                ~(mem[id].slug = cmd[p].slug /\ mem[id].date = mem'[last'].date)]_vars
  BY StepUpsert
<1> QED BY <1>1, InitInv, NextInv, PTL DEF Spec, UpsertReuses
=============================================================================

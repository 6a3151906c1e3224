----------------------------- MODULE MCCommands -----------------------------
(* A small instance of Commands.                                           *)
EXTENDS Commands, TLC

CONSTANTS todo, dotted, title, extra, Go, go, plain, tagged

MCLower == (Go :> go) @@ (go :> go)

MCHashtags == (plain :> {}) @@ (tagged :> {Go})

MCSymmetry == Permutations(Procs)

\* A body under a tag, one that begins with what reads as a frontmatter, and
\* one that begins with what does not parse as one.
MCBody     == <<Blank, Text(tagged)>>
MCBlock    == <<Delim, Yaml([ZeroFrontmatter EXCEPT !.title = title]), Delim, Text(plain)>>
MCNonsense == <<Delim, Text(plain), Delim>>

MCNew(upsert, slug, tags, body) ==
  [op |-> "new", upsert |-> upsert, title |-> NoTitle, slug |-> slug, tags |-> tags, body |-> body]

MCUpdate(id, flags) ==
  flags @@ [op |-> "update", id |-> id, title |-> Keep, slug |-> Keep, tags |-> Keep, date |-> Keep]

MCGiven ==
  {MCNew(TRUE, todo, {}, <<>>), MCNew(FALSE, NoSlug, {}, MCBlock), MCNew(FALSE, NoSlug, {}, MCNonsense)}
  \cup {MCUpdate(1, [title |-> title, tags |-> {}]), MCUpdate(1, [slug |-> NoSlug, date |-> 1]),
        [op |-> "append", id |-> 1, content |-> <<Fence, Text(tagged)>>],
        [op |-> "annotate", id |-> 1], [op |-> "rm", id |-> 1]}

MCAsked ==
  {NoFilter, UpsertQuery(todo, 2)}
  \cup {flags @@ NoFilter : flags \in {[slug |-> todo], [slug |-> todo, before |-> 2], [tags |-> {Go}]}}

MCAnswers == {[title |-> title, tags |-> {Go}], [title |-> NoTitle, tags |-> {}]}

MCOldNote ==
  [title |-> NoTitle, slug |-> todo, date |-> 1, dateExplicit |-> FALSE, tags |-> {},
   extra |-> extra, body |-> MCBody]

\* A type that a name cannot carry.
MCDottedNote == [MCOldNote EXCEPT !.slug = dotted, !.tags = {Go}, !.extra = NoExtra, !.body = MCBlock]

MCArchives ==
  {[id \in Ids |-> None]} \cup {[id \in Ids |-> IF id = 1 THEN e ELSE None] : e \in {MCOldNote, MCDottedNote}}
=============================================================================

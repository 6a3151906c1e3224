------------------------------ MODULE MemStore ------------------------------
(***************************************************************************)
(* The in-memory store that the tests of the commands run against: entries *)
(* by ID, kept as Put was given them, with no file, no name and no         *)
(* frontmatter between Put and Get.                                        *)
(***************************************************************************)
EXTENDS Query

Memory == [Ids -> Entry \cup {None}]

MemPut(mem, id, e) == [mem EXCEPT ![id] = e]

MemDelete(mem, id) == [mem EXCEPT ![id] = None]

\* The largest ID plus one, which may be an ID that was in use before.
MemNextId(mem) ==
  CHOOSE n \in {1} \cup {id + 1 : id \in Present(mem)} : \A id \in Present(mem) : id < n

\* Unlike the file store it does not look for hashtags: they are added here to
\* compare the two.
Shown(e) == [e EXCEPT !.tags = MergedTags(e.tags, e.body)]

MemAll(mem, q) == {id \in Present(mem) : Matches(Shown(mem[id]), q)}
=============================================================================

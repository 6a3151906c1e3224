------------------------------- MODULE Store -------------------------------
(***************************************************************************)
(* What the store promises to one command after another: every ID names at *)
(* most one note; a new note gets an ID no note ever had; changing a       *)
(* note's slug or date leaves its text alone; appending leaves the text    *)
(* that was there and the name; and a note goes away only when deleted.    *)
(* OSStore is shown to implement this when its commands do not overlap,    *)
(* whatever command fails or dies half-way.                                *)
(***************************************************************************)
EXTENDS Naturals

CONSTANTS Ids, Dates, Slugs, Texts, NoNote

Note == [slug : Slugs, date : Dates, body : SUBSET Texts]

VARIABLES
  last,      \* the last ID taken
  reserved,  \* IDs taken for notes not yet written
  notes      \* the note of each ID, or NoNote

vars == <<last, reserved, notes>>

Init ==
  /\ last \in Nat
  /\ reserved = {}
  /\ notes \in [Ids -> Note \cup {NoNote}]
  /\ \A id \in Ids : id > last => notes[id] = NoNote

TakeId ==
  /\ last' = last + 1
  /\ reserved' \in {reserved, reserved \cup {last + 1}}
  /\ UNCHANGED notes

LoseId(id) ==
  /\ reserved' = reserved \ {id}
  /\ UNCHANGED <<last, notes>>

Create(id, n) ==
  /\ id \in reserved
  /\ notes[id] = NoNote
  /\ reserved' = reserved \ {id}
  /\ notes' = [notes EXCEPT ![id] = n]
  /\ UNCHANGED last

\* Changing the slug or the date; the text stays.
Rename(id, slug, date) ==
  /\ notes[id] # NoNote
  /\ notes' = [notes EXCEPT ![id] = [@ EXCEPT !.slug = slug, !.date = date]]
  /\ UNCHANGED <<last, reserved>>

AppendText(id, t) ==
  /\ notes[id] # NoNote
  /\ notes' = [notes EXCEPT ![id].body = @ \cup {t}]
  /\ UNCHANGED <<last, reserved>>

Delete(id) ==
  /\ notes[id] # NoNote
  /\ notes' = [notes EXCEPT ![id] = NoNote]
  /\ UNCHANGED <<last, reserved>>

Next ==
  \/ TakeId
  \/ \E id \in Ids :
       \/ LoseId(id)
       \/ \E n \in Note : Create(id, n)
       \/ \E slug \in Slugs, date \in Dates : Rename(id, slug, date)
       \/ \E t \in Texts : AppendText(id, t)
       \/ Delete(id)

Spec == Init /\ [][Next]_vars
=============================================================================

-------------------------- MODULE ReconcileProofs --------------------------
(***************************************************************************)
(* Reconcile with any number of notes and of changes around it: a pass in  *)
(* quiet brings the caller's copy up to date, but for the texts that have  *)
(* slipped it between a read and the stat after it.                        *)
(***************************************************************************)
EXTENDS Reconcile, TLAPS

USE ReconcileAssumption

-----------------------------------------------------------------------------
(* The inductive invariant.                                                *)

\* A modification time stands for one text of a note.
TimesTell ==
  /\ \A id \in Present : files[id].version \in past[id]
  /\ \A id \in Ids : \A v, w \in past[id] : v.mtime = w.mtime => v = w
  /\ \A id \in Ids : \A v \in past[id] : v.mtime <= now

Entries == diff.added \cup diff.updated

\* What is read and what the caller has are versions the note has had, but for
\* texts that have slipped.
Had(id, v) == v \in past[id] \/ <<id, v.mtime>> \in slips

Honest ==
  /\ \A id \in Ids : copy[id] # None => Had(id, copy[id])
  /\ \A e \in Entries : Had(e.id, e.version)
  /\ pc = "restat" /\ There(ref) =>
       files[ref.id].version.text = text \/ <<ref.id, files[ref.id].version.mtime>> \in slips

\* A version with the time of the file has its text, unless that has slipped.
Current(id, v) ==
  v.mtime = files[id].version.mtime /\ (v = files[id].version \/ <<id, v.mtime>> \in slips)

\* In a pass in quiet: what is left to do, and what has been done.
Undisturbed ==
  /\ \A r \in refs : There(r)
  /\ pc \in {"read", "restat"} => There(ref)
  /\ seen \subseteq Present
  /\ \A id \in Present : \/ id \in seen
                         \/ \E r \in refs : r.id = id
                         \/ pc \in {"read", "restat"} /\ ref.id = id
  /\ \A e \in Entries : e.id \in Present /\ Current(e.id, e.version)
  /\ \A id \in seen : EntriesOf(id) # {} \/ (copy[id] # None /\ Current(id, copy[id]))

Inv ==
  /\ TypeOK
  /\ TimesTell
  /\ Honest
  /\ still => IF pc = "idle" THEN UpToDate ELSE Undisturbed

-----------------------------------------------------------------------------
(* Types.                                                                  *)

LEMMA InitType == Init => TypeOK
<1> SUFFICES ASSUME Init PROVE TypeOK
  OBVIOUS
<1>1. ref \in Ref
  <2>1. PICK id \in Ids, name \in Names : TRUE
    OBVIOUS
  <2>2. [id |-> id, name |-> name] \in Ref
    BY DEF Ref
  <2> QED BY <2>2 DEF Init
<1>2. [text |-> 0, mtime |-> 0] \in Version /\ 0 \in Time
  BY DEF Version, Time
<1>3. files \in [Ids -> File \cup {None}]
  BY <1>2 DEF Init, File
<1>4. \A id \in Ids : files[id] # None => files[id].version \in Version
  BY <1>3 DEF File
<1>5. past \in [Ids -> SUBSET Version]
  BY <1>4 DEF Init
<1>6. copy \in [Ids -> Version \cup {None}]
  BY <1>4 DEF Init
<1> QED BY <1>1, <1>2, <1>3, <1>5, <1>6 DEF Init, TypeOK, NoDiff

\* What another process does: to one note, in one tick of the clock.
LEMMA OthersChange ==
  ASSUME TypeOK, TimesTell, Others
  PROVE  \E id \in Ids, file \in File \cup {None} :
           /\ Change(id, file)
           /\ file # None => \/ file.version \in past[id]
                             \/ file.version.mtime = now + 1
<1> USE DEF TypeOK
<1>0. now < Changes => now + 1 \in Time
  BY DEF Time
<1>1. ASSUME NEW id \in Ids, Remove(id)
      PROVE  Change(id, None)
  BY <1>1 DEF Remove
<1>2. ASSUME NEW id \in Ids, NEW name \in Names, Write(id, name)
      PROVE  \E file \in File : Change(id, file) /\ file.version.mtime = now + 1
  <2> DEFINE file == [name |-> name, version |-> [text |-> now + 1, mtime |-> now + 1]]
  <2>1. Change(id, file) /\ now < Changes
    BY <1>2 DEF Write, Change
  <2>2. file \in File
    BY <1>0, <2>1 DEF File, Version
  <2> QED BY <2>1, <2>2
<1>3. ASSUME NEW id \in Ids, Touch(id)
      PROVE  \E file \in File : Change(id, file) /\ file.version.mtime = now + 1
  <2> DEFINE file == [files[id] EXCEPT !.version.mtime = now + 1]
  <2>1. Change(id, file) /\ now < Changes /\ files[id] \in File
    BY <1>3 DEF Touch, Change, Present
  <2>2. file \in File /\ file.version.mtime = now + 1
    BY <1>0, <2>1 DEF File, Version
  <2> QED BY <2>1, <2>2
<1>4. ASSUME NEW id \in Ids, NEW name \in Names, Rename(id, name)
      PROVE  \E file \in File : Change(id, file) /\ file.version \in past[id]
  <2> DEFINE file == [files[id] EXCEPT !.name = name]
  <2>1. Change(id, file) /\ id \in Present /\ files[id] \in File
    BY <1>4 DEF Rename, Present
  <2>2. file \in File /\ file.version = files[id].version
    BY <2>1 DEF File
  <2> QED BY <2>1, <2>2 DEF TimesTell
<1>5. ASSUME NEW id \in Ids, NEW name \in Names, Restore(id, name)
      PROVE  \E file \in File : Change(id, file) /\ file.version \in past[id]
  <2>1. PICK v \in past[id] : Change(id, [name |-> name, version |-> v])
    BY <1>5 DEF Restore
  <2>2. [name |-> name, version |-> v] \in File
    BY DEF File
  <2> QED BY <2>1, <2>2
<1> QED BY <1>1, <1>2, <1>3, <1>4, <1>5 DEF Others

\* A change leaves the times telling.
LEMMA ChangeType ==
  ASSUME TypeOK, TimesTell, NEW id \in Ids, NEW file \in File \cup {None}, Change(id, file),
         file # None => file.version \in past[id] \/ file.version.mtime = now + 1
  PROVE  /\ TypeOK'
         /\ TimesTell'
         /\ slips \subseteq slips'
         /\ \A i \in Ids : past[i] \subseteq past'[i]
         /\ \A i \in Ids \ {id} : files'[i] = files[i]
         /\ files'[id] = file
<1> USE DEF TypeOK
<1>0. now \in Nat /\ now' = now + 1 /\ now' \in Time
  BY DEF Change, Time
<1>1. file # None => file.version \in Version
  BY DEF File
<1>2. /\ files' \in [Ids -> File \cup {None}]
      /\ files'[id] = file
      /\ \A i \in Ids \ {id} : files'[i] = files[i]
  BY DEF Change
<1>3. past' \in [Ids -> SUBSET Version]
  BY <1>1 DEF Change
<1>4. /\ \A i \in Ids \ {id} : past'[i] = past[i]
      /\ past'[id] = IF file = None THEN past[id] ELSE past[id] \cup {file.version}
  BY DEF Change
<1>5. TypeOK' /\ slips \subseteq slips'
  <2>1. slips' \subseteq Ids \X Time /\ slips \subseteq slips'
    BY <1>1 DEF Change, Version
  <2> QED BY <1>0, <1>2, <1>3, <2>1 DEF Change, locals
<1>6. TimesTell'
  <2>1. \A i \in Ids : files'[i] # None => files'[i].version \in past'[i]
    BY <1>2, <1>4 DEF TimesTell, Present
  <2>2. \A i \in Ids : \A v \in past[i] : v.mtime \in Nat /\ v.mtime <= now
    BY DEF TimesTell, Version, Time
  <2>3. \A i \in Ids : \A v \in past'[i] : v.mtime <= now'
    BY <1>0, <1>4, <2>2
  <2>4. \A i \in Ids : \A v, w \in past'[i] : v.mtime = w.mtime => v = w
    <3>1. ASSUME NEW v \in past'[id], NEW w \in past'[id], v.mtime = w.mtime
          PROVE  v = w
      BY <1>0, <1>4, <2>2, <3>1 DEF TimesTell
    <3> QED BY <1>4, <3>1 DEF TimesTell
  <2> QED BY <2>1, <2>3, <2>4 DEF TimesTell, Present
<1> QED BY <1>2, <1>4, <1>5, <1>6

\* Reconcile itself keeps the types, and changes neither files nor history.
LEMMA PassType ==
  ASSUME TypeOK, Pass \/ Fail
  PROVE  TypeOK' /\ UNCHANGED <<files, past, slips>> /\ now <= now'
<1> USE DEF TypeOK, outside, locals
<1>0. now \in Nat /\ Time \subseteq Nat
  BY DEF Time
<1>1. CASE Scan
  <2>1. \A id \in Present : files[id].name \in Names
    BY DEF Present, File
  <2> QED BY <1>0, <1>1, <2>1 DEF Scan, Ref, Present, NoDiff
<1>2. CASE Stat
  <2>1. PICK r \in refs : /\ refs' = refs \ {r}
                          /\ ref' \in {ref, r} /\ pc' \in {"stat", "read"}
                          /\ seen' \in {seen, seen \cup {r.id}}
    BY <1>2 DEF Stat
  <2>2. r \in Ref /\ r.id \in Ids
    BY <2>1 DEF Ref
  <2> QED BY <1>0, <1>2, <2>1, <2>2 DEF Stat
<1>3. CASE Gone
  BY <1>0, <1>3 DEF Gone
<1>4. CASE ReadFile
  <2>1. files[ref.id].version.text \in Time
    BY <1>4 DEF ReadFile, There, Ref, File, Version
  <2> QED BY <1>0, <1>4, <2>1 DEF ReadFile
<1>5. CASE Restat
  <2> DEFINE e == [id |-> ref.id, version |-> [text |-> text, mtime |-> files[ref.id].version.mtime]]
  <2>1. ref.id \in Ids /\ e \in Entry
    BY <1>5 DEF Restat, There, Ref, File, Version, Entry
  <2>2. diff' \in [added : SUBSET Entry, updated : SUBSET Entry]
    BY <1>5, <2>1 DEF Restat
  <2> QED BY <1>0, <1>5, <2>1, <2>2 DEF Restat
<1>6. CASE Return
  <2>1. \A id \in Ids : Applied(id) \in Version \cup {None}
    <3> SUFFICES ASSUME NEW id \in Ids PROVE Applied(id) \in Version \cup {None}
      OBVIOUS
    <3>1. EntriesOf(id) \subseteq Entry
      BY DEF EntriesOf
    <3>2. \A e \in EntriesOf(id) : e.version \in Version
      BY <3>1 DEF Entry
    <3>3. EntriesOf(id) # {} => (CHOOSE e \in EntriesOf(id) : TRUE) \in EntriesOf(id)
      OBVIOUS
    <3> QED BY <3>2, <3>3 DEF Applied
  <2> QED BY <1>0, <1>6, <2>1 DEF Return
<1>7. CASE Fail
  <2>1. now < Changes /\ now' = now + 1
    BY <1>7 DEF Fail
  <2>2. now' \in Time /\ now <= now'
    BY <1>0, <2>1 DEF Time
  <2> QED BY <1>7, <2>2 DEF Fail
<1> QED BY <1>1, <1>2, <1>3, <1>4, <1>5, <1>6, <1>7 DEF Pass

-----------------------------------------------------------------------------
(* The invariant.                                                          *)

LEMMA InitInv == Init => Inv
<1> SUFFICES ASSUME Init PROVE Inv
  OBVIOUS
<1>1. TypeOK
  BY InitType
<1>2. TimesTell
  <2>1. \A id \in Present : files[id].version = [text |-> 0, mtime |-> 0]
    BY DEF Init, Present
  <2> QED BY <2>1 DEF Init, TimesTell, Present
<1>3. Honest
  BY DEF Init, Honest, Had, Entries, NoDiff
<1> QED BY <1>1, <1>2, <1>3 DEF Init, Inv

LEMMA OthersInv ==
  ASSUME Inv, Others
  PROVE  Inv'
<1>0. TypeOK /\ TimesTell /\ Honest
  BY DEF Inv
<1>1. PICK id \in Ids, file \in File \cup {None} :
        /\ Change(id, file)
        /\ file # None => \/ file.version \in past[id]
                          \/ file.version.mtime = now + 1
  BY <1>0, OthersChange
<1>2. /\ TypeOK' /\ TimesTell' /\ slips \subseteq slips'
      /\ \A i \in Ids : past[i] \subseteq past'[i]
      /\ \A i \in Ids \ {id} : files'[i] = files[i]
      /\ files'[id] = file
  BY <1>0, <1>1, ChangeType
<1>3. UNCHANGED <<pc, locals, copy>> /\ still' = FALSE
  BY <1>1 DEF Change
<1>4. Honest'
  <2>1. \A i \in Ids : \A v : Had(i, v) => Had(i, v)'
    BY <1>2 DEF Had
  <2>2. (\A i \in Ids : copy[i] # None => Had(i, copy[i]))'
    BY <1>0, <1>2, <1>3 DEF Honest, Had
  <2>3. (\A e \in Entries : Had(e.id, e.version))'
    <3>1. Entries' = Entries /\ \A e \in Entries : e.id \in Ids
      BY <1>0, <1>3 DEF locals, Entries, TypeOK, Entry
    <3> QED BY <1>0, <2>1, <3>1 DEF Honest, Had
  <2>4. ASSUME pc' = "restat", There(ref)'
        PROVE  files'[ref.id].version.text = text \/ <<ref.id, files'[ref.id].version.mtime>> \in slips'
    <3>1. ref.id \in Ids
      BY <1>0 DEF TypeOK, Ref
    <3>2. ref' = ref /\ text' = text /\ pc' = pc
      BY <1>3 DEF locals
    <3>3. CASE ref.id = id
      <4>1. file # None /\ file.name = ref.name
        BY <1>2, <2>4, <3>2, <3>3 DEF There
      <4>2. [id |-> id, name |-> file.name] = ref
        BY <1>0, <3>3, <4>1 DEF TypeOK, Ref
      <4>3. file.version.text # text => <<id, file.version.mtime>> \in slips'
        BY <1>1, <2>4, <3>2, <4>1, <4>2 DEF Change, Slips
      <4> QED BY <1>2, <3>3, <4>3
    <3>4. CASE ref.id # id
      <4>1. files'[ref.id] = files[ref.id] /\ There(ref) /\ pc = "restat"
        BY <1>2, <2>4, <3>1, <3>2, <3>4 DEF There
      <4> QED BY <1>0, <1>2, <4>1 DEF Honest
    <3> QED BY <3>3, <3>4
  <2>5. (pc = "restat" /\ There(ref) =>
           files[ref.id].version.text = text \/ <<ref.id, files[ref.id].version.mtime>> \in slips)'
    <3>1. ref' = ref /\ text' = text
      BY <1>3 DEF locals
    <3> QED BY <2>4, <3>1
  <2> QED BY <2>2, <2>3, <2>5 DEF Honest
<1> QED BY <1>2, <1>3, <1>4 DEF Inv

\* The entry that is read has the time of the file, and its text unless that has
\* slipped.
LEMMA RestatCurrent ==
  ASSUME TypeOK, Honest, Restat
  PROVE  /\ ref.id \in Present
         /\ Current(ref.id, [text |-> text, mtime |-> files[ref.id].version.mtime])
<1>1. ref.id \in Present /\ files[ref.id].version \in Version
  BY DEF Restat, There, Present, TypeOK, Ref, File
<1>2. files[ref.id].version.text = text \/ <<ref.id, files[ref.id].version.mtime>> \in slips
  BY DEF Restat, Honest
<1>3. files[ref.id].version.text = text =>
        [text |-> text, mtime |-> files[ref.id].version.mtime] = files[ref.id].version
  BY <1>1 DEF Version
<1> QED BY <1>1, <1>2, <1>3 DEF Current

\* What is read is a version the note has had, or has slipped.
LEMMA PassHonest ==
  ASSUME Inv, Pass \/ Fail
  PROVE  TimesTell' /\ Honest'
<1>0. TypeOK /\ TimesTell /\ Honest
  BY DEF Inv
<1>1. TypeOK' /\ UNCHANGED <<files, past, slips>> /\ now <= now'
  BY <1>0, PassType
<1>2. TimesTell'
  <2>1. now \in Nat /\ now' \in Nat /\ \A id \in Ids : \A v \in past[id] : v.mtime \in Nat
    BY <1>0, <1>1 DEF TypeOK, Time, Version
  <2>2. \A id \in Ids : \A v \in past'[id] : v.mtime <= now'
    <3> SUFFICES ASSUME NEW id \in Ids, NEW v \in past[id] PROVE v.mtime <= now'
      BY <1>1
    <3>1. v.mtime <= now
      BY <1>0 DEF TimesTell
    <3> QED BY <1>1, <2>1, <3>1
  <2> QED BY <1>0, <1>1, <2>2 DEF TimesTell, Present
<1> USE DEF outside, locals
<1>3. CASE Scan
  BY <1>0, <1>1, <1>2, <1>3 DEF Scan, Honest, Had, Entries, NoDiff
<1>4. CASE Stat
  <2>1. UNCHANGED <<diff, copy, text>> /\ pc' \in {"stat", "read"}
    BY <1>4 DEF Stat
  <2> QED BY <1>0, <1>1, <1>2, <2>1 DEF Honest, Had, Entries
<1>5. CASE Gone \/ Fail
  <2>1. UNCHANGED <<diff, copy>> /\ pc' \in {"stat", "idle"}
    BY <1>5 DEF Gone, Fail
  <2> QED BY <1>0, <1>1, <1>2, <2>1 DEF Honest, Had, Entries
<1>6. CASE ReadFile
  BY <1>0, <1>1, <1>2, <1>6 DEF ReadFile, Honest, Had, Entries
<1>7. CASE Restat
  <2> DEFINE e == [id |-> ref.id, version |-> [text |-> text, mtime |-> files[ref.id].version.mtime]]
  <2>1. ref.id \in Present /\ Had(e.id, e.version)
    BY <1>0, <1>7, RestatCurrent DEF Restat, Current, Had, TimesTell
  <2>2. Entries' = Entries \cup {e}
    BY <1>0, <1>7 DEF Restat, Entries, TypeOK
  <2>3. pc' = "stat" /\ copy' = copy
    BY <1>7 DEF Restat
  <2> QED BY <1>0, <1>1, <1>2, <2>1, <2>2, <2>3 DEF Honest, Had
<1>8. CASE Return
  <2>1. ASSUME NEW id \in Ids, Applied(id) # None
        PROVE  Had(id, Applied(id))
    <3>1. \A e \in EntriesOf(id) : Had(id, e.version)
      BY <1>0 DEF EntriesOf, Honest, Entries
    <3>2. EntriesOf(id) # {} => (CHOOSE e \in EntriesOf(id) : TRUE) \in EntriesOf(id)
      OBVIOUS
    <3>3. copy[id] # None => Had(id, copy[id])
      BY <1>0 DEF Honest
    <3> QED BY <2>1, <3>1, <3>2, <3>3 DEF Applied
  <2>2. \A id \in Ids : copy'[id] # None => Had(id, copy'[id])
    BY <1>8, <2>1 DEF Return
  <2> QED BY <1>0, <1>1, <1>2, <1>8, <2>2 DEF Return, Honest, Had, Entries
<1> QED BY <1>3, <1>4, <1>5, <1>6, <1>7, <1>8 DEF Pass

\* A pass in quiet leaves nothing out, and ends with the copy up to date.
LEMMA PassQuiet ==
  ASSUME Inv, Pass \/ Fail, still'
  PROVE  IF pc' = "idle" THEN UpToDate' ELSE Undisturbed'
<1>0. TypeOK /\ TimesTell /\ Honest /\ (still /\ pc # "idle" => Undisturbed)
  BY DEF Inv
<1>1. TypeOK' /\ UNCHANGED <<files, past, slips>>
  BY <1>0, PassType
<1>2. \A id : There(id)' <=> There(id)
  BY <1>1 DEF There
<1>3. Present' = Present /\ \A id, v : Current(id, v)' <=> Current(id, v)
  BY <1>1 DEF Present, Current
<1> USE DEF outside, locals
<1>4. CASE Scan
  <2>1. refs' = {[id |-> id, name |-> files[id].name] : id \in Present}
        /\ pc' = "stat" /\ seen' = {} /\ diff' = NoDiff
    BY <1>4 DEF Scan
  <2>2. \A r \in refs' : There(r)
    BY <2>1 DEF There, Present
  <2>3. \A id \in Present : \E r \in refs' : r.id = id
    <3>1. \A id \in Present : [id |-> id, name |-> files[id].name] \in refs'
      BY <2>1
    <3> QED BY <3>1
  <2>4. Entries' = {}
    BY <2>1 DEF Entries, NoDiff
  <2> QED BY <1>2, <1>3, <2>1, <2>2, <2>3, <2>4 DEF Undisturbed
<1>5. CASE Stat
  <2>0. Undisturbed /\ pc = "stat"
    BY <1>0, <1>5 DEF Stat
  <2>1. PICK r \in refs :
          /\ refs' = refs \ {r}
          /\ IF There(r) /\ ~IsKnown(r.id, files[r.id].version.mtime)
               THEN pc' = "read" /\ ref' = r /\ seen' = seen
               ELSE /\ seen' = IF There(r) THEN seen \cup {r.id} ELSE seen
                    /\ pc' = pc /\ ref' = ref
    BY <1>5 DEF Stat
  <2>2. There(r) /\ r.id \in Present
    BY <1>0, <2>0 DEF Undisturbed, There, Present, TypeOK, Ref
  <2>3. UNCHANGED <<diff, copy>>
    BY <1>5 DEF Stat
  <2>4. \A q \in refs : q.id = r.id => q = r
    BY <1>0, <2>0, <2>2 DEF Undisturbed, There, TypeOK, Ref
  <2>5. CASE IsKnown(r.id, files[r.id].version.mtime)
    <3>1. pc' = "stat" /\ seen' = seen \cup {r.id}
      BY <2>0, <2>1, <2>2, <2>5
    <3>2. copy[r.id] # None /\ Current(r.id, copy[r.id])
      BY <1>0, <2>2, <2>5 DEF IsKnown, Honest, Had, Current, TimesTell, Present
    <3> QED BY <1>1, <1>2, <1>3, <2>0, <2>1, <2>2, <2>3, <3>1, <3>2
            DEF Undisturbed, Entries, EntriesOf
  <2>6. CASE ~IsKnown(r.id, files[r.id].version.mtime)
    <3>1. pc' = "read" /\ ref' = r /\ seen' = seen
      BY <2>1, <2>2, <2>6
    <3> QED BY <1>1, <1>2, <1>3, <2>0, <2>1, <2>2, <2>3, <3>1
            DEF Undisturbed, Entries, EntriesOf
  <2> QED BY <2>5, <2>6
<1>6. CASE Gone
  BY <1>0, <1>6 DEF Gone, Undisturbed
<1>7. CASE ReadFile
  <2>1. Undisturbed /\ pc = "read" /\ pc' = "restat" /\ UNCHANGED <<refs, ref, seen, diff, copy>>
    BY <1>0, <1>7 DEF ReadFile
  <2> QED BY <1>1, <1>2, <1>3, <2>1 DEF Undisturbed, Entries, EntriesOf
<1>8. CASE Restat
  <2> DEFINE e == [id |-> ref.id, version |-> [text |-> text, mtime |-> files[ref.id].version.mtime]]
  <2>0. Undisturbed /\ pc' = "stat" /\ seen' = seen \cup {ref.id} /\ UNCHANGED <<refs, ref, copy>>
    BY <1>0, <1>8 DEF Restat
  <2>1. ref.id \in Present /\ Current(ref.id, e.version)
    BY <1>0, <1>8, RestatCurrent
  <2>3. Entries' = Entries \cup {e}
    BY <1>0, <1>8 DEF Restat, Entries, TypeOK
  <2>4. (\A x \in Entries : x.id \in Present /\ Current(x.id, x.version))'
    <3>1. \A x \in Entries \cup {e} : x.id \in Present /\ Current(x.id, x.version)
      BY <2>0, <2>1 DEF Undisturbed
    <3> QED BY <1>1, <1>3, <2>3, <3>1 DEF Current
  <2>5. (\A id \in seen : EntriesOf(id) # {} \/ (copy[id] # None /\ Current(id, copy[id])))'
    <3>1. \A id : EntriesOf(id)' = {x \in Entries' : x.id = id}
      BY DEF EntriesOf, Entries
    <3>2. \A id : EntriesOf(id) = {x \in Entries : x.id = id}
      BY DEF EntriesOf, Entries
    <3>3. e \in {x \in Entries' : x.id = ref.id}
      BY <2>3
    <3> QED BY <1>1, <1>3, <2>0, <2>3, <3>1, <3>2, <3>3 DEF Undisturbed, Current
  <2> QED BY <1>2, <1>3, <2>0, <2>1, <2>4, <2>5 DEF Undisturbed
<1>9. CASE Return
  <2>0. Undisturbed /\ pc = "stat" /\ refs = {} /\ pc' = "idle"
    BY <1>0, <1>9 DEF Return
  <2>1. seen = Present
    BY <2>0 DEF Undisturbed
  <2>2. ASSUME NEW id \in Ids
        PROVE  IF id \in Present THEN Applied(id) # None /\ Current(id, Applied(id)) ELSE Applied(id) = None
    <3>1. \A e \in EntriesOf(id) : id \in Present /\ e.version # None /\ Current(id, e.version)
      <4>1. \A e \in Entries : e.version \in Version
        BY <1>0 DEF TypeOK, Entries, Entry
      <4> QED BY <2>0, <4>1 DEF EntriesOf, Entries, Undisturbed
    <3>2. CASE EntriesOf(id) # {}
      <4>1. (CHOOSE e \in EntriesOf(id) : TRUE) \in EntriesOf(id)
        BY <3>2
      <4> QED BY <3>1, <3>2, <4>1 DEF Applied
    <3>3. CASE EntriesOf(id) = {} /\ id \in Present
      BY <2>0, <2>1, <3>3 DEF Applied, Removed, Undisturbed, Present
    <3>4. CASE EntriesOf(id) = {} /\ id \notin Present
      BY <2>1, <3>4 DEF Applied, Removed, Present
    <3> QED BY <3>2, <3>3, <3>4
  <2>3. copy' = [id \in Ids |-> Applied(id)]
    BY <1>9 DEF Return
  <2>4. \A id \in Ids : copy'[id] = (IF files[id] = None THEN None ELSE files[id].version) \/ Slipped(id)'
    BY <1>1, <2>2, <2>3 DEF Slipped, Current, Present
  <2> QED BY <1>1, <2>0, <2>4 DEF UpToDate
<1>10. CASE Fail
  BY <1>10 DEF Fail
<1> QED BY <1>4, <1>5, <1>6, <1>7, <1>8, <1>9, <1>10 DEF Pass

LEMMA NextInv ==
  ASSUME Inv, [Next]_vars
  PROVE  Inv'
<1>1. CASE UNCHANGED vars
  BY <1>1 DEF vars, Inv, TypeOK, TimesTell, Present, Honest, Had, Entries, There,
              UpToDate, Slipped, Undisturbed, Current, EntriesOf
<1>2. CASE Others
  BY <1>2, OthersInv
<1>3. CASE Pass \/ Fail
  <2>1. TypeOK'
    BY <1>3, PassType DEF Inv
  <2>2. TimesTell' /\ Honest'
    BY <1>3, PassHonest
  <2>3. still' => IF pc' = "idle" THEN UpToDate' ELSE Undisturbed'
    BY <1>3, PassQuiet
  <2> QED BY <2>1, <2>2, <2>3 DEF Inv
<1> QED BY <1>1, <1>2, <1>3 DEF Next

\* One pass in quiet brings the copy up to date, however the passes before it
\* were disturbed, for any number of notes and of changes.
THEOREM QuietPasses == Spec => []QuietPassCatchesUp
<1>1. Inv => QuietPassCatchesUp
  BY DEF Inv, QuietPassCatchesUp
<1>2. Inv /\ [Next]_vars => Inv'
  BY NextInv
<1> QED BY <1>1, <1>2, InitInv, PTL DEF Spec
=============================================================================

--------------------------- MODULE WatcherProofs ---------------------------
(***************************************************************************)
(* The events of the watcher make sense for any number of notes, whatever  *)
(* other processes do and however its windows and its flushes fall, and a  *)
(* consumer that has subscribed, listed the store and received the events  *)
(* has missed no note.                                                     *)
(***************************************************************************)
EXTENDS Watcher, SequenceTheorems, TLAPS

-----------------------------------------------------------------------------
(* The inductive invariant.                                                *)

\* An event is held back for id, and the flush under way has not sent it yet.
Waiting(id) == pending[id] # "none" /\ \A i \in 1..sent : order[i] # id

\* The event held back is the difference between what the events sent so far
\* say and what the watcher knows.
Difference(id) ==
  /\ ~Waiting(id) => (id \in told <=> id \in known)
  /\ Waiting(id) =>
       /\ pending[id] = "created" => id \notin told /\ id \in known
       /\ pending[id] = "updated" => id \in told /\ id \in known
       /\ pending[id] = "deleted" => id \in told /\ id \notin known

\* Every event held back has one place in the order.
Ordered ==
  /\ \A i, j \in 1..Len(order) : order[i] = order[j] => i = j
  /\ \A id \in Ids : pending[id] # "none" => \E i \in 1..Len(order) : order[i] = id
  /\ pc \notin {"flush", "closed"} => sent = 0
  /\ pc = "scan" => pending = Nothing
  /\ pc = "report" => fresh \cap known = {}

IndInv == TypeOK /\ Ordered /\ \A id \in Ids : Difference(id)

-----------------------------------------------------------------------------
(* Types.                                                                  *)

LEMMA NoticeType ==
  ASSUME NEW n \in Notice
  PROVE  /\ n.op \in {"create", "remove"} => n.path \in Path /\ n.path.id \in Ids
         /\ n.op = "mkdir" => n.month \in Months
  BY DEF Notice, Path

LEMMA SeenType ==
  ASSUME NEW p \in Path, NEW op \in {"create", "remove"}
  PROVE  Seen(op, p) \in Seq(Notice)
<1>1. [op |-> op, path |-> p] \in Notice
  BY DEF Notice
<1> QED BY <1>1 DEF Seen

LEMMA TakeType ==
  ASSUME TypeOK, NEW ops, Take(ops)
  PROVE  Head(raw) \in Notice /\ raw' \in Seq(Notice)
  BY HeadTailProperties DEF TypeOK, Take

LEMMA NoteIdsType == TypeOK => NoteIds \subseteq Ids
  BY DEF TypeOK, NoteIds, Path

LEMMA InitType == Init => TypeOK
<1> SUFFICES ASSUME Init PROVE TypeOK
  OBVIOUS
<1>1. raw \in Seq(Notice) /\ order \in Seq(Ids) /\ out \in Seq(Event) /\ Len(out) = 0 /\ Len(order) = 0
  BY EmptySeq DEF Init
<1>2. pending \in [Ids -> Kinds \cup {"none"}]
  BY DEF Init, Nothing
<1>3. files \subseteq Path /\ months \subseteq Months
  BY DEF Init
<1>4. left \in 0..Changes /\ sent \in 0..Len(order) /\ Len(out) <= BufSize
  BY <1>1, WatcherAssumption DEF Init
<1> QED BY <1>1, <1>2, <1>3, <1>4 DEF Init, TypeOK

\* Holding an event back for an ID.
LEMMA HoldType ==
  ASSUME TypeOK, NEW id \in Ids, NEW type \in Kinds, Hold(id, type)
  PROVE  /\ pending' \in [Ids -> Kinds \cup {"none"}]
         /\ order' \in Seq(Ids)
         /\ Len(order) <= Len(order')
<1>1. Coalesce(pending[id], type) \in Kinds \cup {"none"}
  BY DEF Coalesce, Kinds
<1>2. order' = order \/ order' = Append(order, id)
  BY DEF Hold
<1> QED BY <1>1, <1>2, AppendProperties, LenProperties DEF Hold, TypeOK

LEMMA ChangeType == TypeOK /\ Change => TypeOK'
<1> SUFFICES ASSUME TypeOK, Change PROVE TypeOK'
  OBVIOUS
<1> DEFINE Changed == /\ files' \subseteq Path /\ gone' \subseteq Ids /\ strayed' \subseteq Ids
                      /\ months' \subseteq Months /\ raw' \in Seq(Notice)
<1>0. left' \in 0..Changes
  <2>1. MayChange
    BY DEF Change, WriteNote, MoveNote, RemoveNote, MakeMonth
  <2> QED BY <2>1, WatcherAssumption DEF MayChange, TypeOK
<1>1. UNCHANGED <<watched, pc, held, out, done, reader, told>>
  BY DEF Change, WriteNote, MoveNote, RemoveNote, MakeMonth
<1>2. ASSUME NEW p \in Path, WriteNote(p) \/ RemoveNote(p)
      PROVE  Changed
  <2>1. files' \subseteq Path /\ gone' \subseteq Ids /\ strayed' \subseteq Ids /\ months' = months
    BY <1>2 DEF WriteNote, RemoveNote, Stray, TypeOK, Path
  <2>2. raw' = raw \o Seen("create", p) \/ raw' = raw \o Seen("remove", p)
    BY <1>2 DEF WriteNote, RemoveNote
  <2>3. Seen("create", p) \in Seq(Notice) /\ Seen("remove", p) \in Seq(Notice) /\ raw \in Seq(Notice)
    BY SeenType DEF TypeOK
  <2>4. raw \o Seen("create", p) \in Seq(Notice) /\ raw \o Seen("remove", p) \in Seq(Notice)
    BY <2>3, ConcatProperties
  <2> QED BY <2>1, <2>2, <2>4 DEF TypeOK
<1>3. ASSUME NEW p \in Path, NEW q \in Path, MoveNote(p, q)
      PROVE  Changed
  <2>1. files' \subseteq Path /\ gone' \subseteq Ids /\ strayed' \subseteq Ids /\ months' = months
    BY <1>3 DEF MoveNote, Stray, TypeOK, Path
  <2>2. raw' \in Seq(Notice)
    BY <1>3, SeenType, ConcatProperties DEF MoveNote, TypeOK
  <2> QED BY <2>1, <2>2 DEF TypeOK
<1>4. ASSUME NEW m \in Months, MakeMonth(m)
      PROVE  Changed
  <2>1. [op |-> "mkdir", month |-> m] \in Notice
    BY DEF Notice
  <2> QED BY <1>4, <2>1, AppendProperties DEF MakeMonth, TypeOK
<1>5. Changed
  BY <1>2, <1>3, <1>4 DEF Change
<1> QED BY <1>0, <1>1, <1>5 DEF TypeOK, held, reader

LEMMA NextType == TypeOK /\ [Next]_vars => TypeOK'
<1> SUFFICES ASSUME TypeOK, [Next]_vars PROVE TypeOK'
  OBVIOUS
<1> USE DEF outside, kernel, held, reader
<1>1. CASE UNCHANGED vars
  BY <1>1 DEF vars, TypeOK
<1>2. CASE Change
  BY <1>2, ChangeType
<1>3. CASE WatchKnownIDs \/ AddWatchDirs
  BY <1>3, NoteIdsType DEF WatchKnownIDs, AddWatchDirs, TypeOK
<1>4. CASE IgnoreNotice
  BY <1>4, TakeType DEF IgnoreNotice, TypeOK, HasPending
<1>5. CASE HandleNotice
  <2>1. Head(raw).path.id \in Ids
    BY <1>5, TakeType, NoticeType DEF HandleNotice, Take
  <2>2. Classify(Head(raw)) \in Kinds
    BY <1>5 DEF HandleNotice, Classify, Kinds
  <2>3. Hold(Head(raw).path.id, Classify(Head(raw)))
    BY <1>5 DEF HandleNotice
  <2>4. known' \subseteq Ids
    BY <1>5, <2>1 DEF HandleNotice, TypeOK
  <2>5. /\ pending' \in [Ids -> Kinds \cup {"none"}] /\ order' \in Seq(Ids)
        /\ sent' \in 0..Len(order')
    BY <1>5, <2>1, <2>2, <2>3, HoldType, LenProperties DEF HandleNotice, TypeOK
  <2>6. raw' \in Seq(Notice) /\ armed' \in BOOLEAN
    BY <1>5, TakeType DEF HandleNotice, HasPending
  <2> QED BY <1>5, <2>4, <2>5, <2>6 DEF HandleNotice, TypeOK
<1>6. CASE AddCreatedDir
  <2>1. raw' \in Seq(Notice) /\ watched' \subseteq Months
    BY <1>6, TakeType, NoticeType DEF AddCreatedDir, Take, TypeOK
  <2> QED BY <1>6, <2>1 DEF AddCreatedDir, TypeOK
<1>7. CASE DiscoverWatchCreates \/ Reported \/ TimerExpires \/ Stop
  BY <1>7, NoteIdsType DEF DiscoverWatchCreates, Reported, TimerExpires, Stop, TypeOK, HasPending
<1>8. CASE Report
  <2>1. PICK id \in fresh : fresh' = fresh \ {id} /\ known' = known \cup {id} /\ Hold(id, "created")
    BY <1>8 DEF Report
  <2>2. id \in Ids
    BY <2>1 DEF TypeOK
  <2>3. /\ pending' \in [Ids -> Kinds \cup {"none"}] /\ order' \in Seq(Ids)
        /\ sent' \in 0..Len(order')
    BY <1>8, <2>1, <2>2, HoldType, LenProperties DEF Report, TypeOK, Kinds
  <2> QED BY <1>8, <2>1, <2>2, <2>3 DEF Report, TypeOK
<1>9. CASE Send
  <2>1. /\ order[sent + 1] \in Ids /\ sent + 1 \in 0..Len(order)
        /\ [type |-> pending[order[sent + 1]], id |-> order[sent + 1]] \in Event
    BY <1>9, ElementOfSeq, LenProperties DEF Send, TypeOK, Event
  <2>2. out' \in Seq(Event) /\ Len(out') <= BufSize
    BY <1>9, <2>1, AppendProperties, LenProperties, WatcherAssumption DEF Send, TypeOK
  <2>3. told' \subseteq Ids
    BY <1>9, <2>1 DEF Send, TypeOK
  <2> QED BY <1>9, <2>1, <2>2, <2>3 DEF Send, TypeOK
<1>10. CASE SkipCancelled
  BY <1>10, LenProperties DEF SkipCancelled, TypeOK
<1>11. CASE Flushed
  BY <1>11, EmptySeq DEF Flushed, TypeOK, Nothing
<1>12. CASE List
  <2>1. CASE ListMonths
    BY <2>1 DEF ListMonths, TypeOK
  <2>2. ASSUME NEW m \in Months, ListMonth(m)
        PROVE  TypeOK'
    <3>1. view' \subseteq Ids /\ unheard' \subseteq Ids /\ unlisted' \subseteq Months
      BY <2>2 DEF ListMonth, TypeOK, Path
    <3> QED BY <2>2, <3>1 DEF ListMonth, TypeOK
  <2> QED BY <1>12, <2>1, <2>2 DEF List
<1>13. CASE Receive
  <2>1. Head(out) \in Event /\ out' \in Seq(Event) /\ Len(out') <= BufSize
    BY <1>13, HeadTailProperties, LenProperties, WatcherAssumption DEF Receive, TypeOK
  <2> QED BY <1>13, <2>1 DEF Receive, TypeOK, Event
<1>14. CASE Close
  BY <1>14 DEF Close, TypeOK
<1> QED BY <1>1, <1>2, <1>3, <1>4, <1>5, <1>6, <1>7, <1>8, <1>9, <1>10, <1>11, <1>12, <1>13, <1>14
        DEF Next, Watch, Loop

\* Type correctness: in particular the channel never holds more than its size.
THEOREM TypeCorrect == Spec => []TypeOK
  BY InitType, NextType, PTL DEF Spec

-----------------------------------------------------------------------------
(* The events make sense.                                                  *)

LEMMA InitInv == Init => IndInv
<1> SUFFICES ASSUME Init PROVE IndInv
  OBVIOUS
<1>1. pending = Nothing /\ order = <<>> /\ sent = 0 /\ pc = "scan" /\ told = {} /\ known = {}
  BY DEF Init
<1>2. Ordered
  BY <1>1, EmptySeq DEF Ordered, Nothing
<1>3. \A id \in Ids : Difference(id)
  BY <1>1 DEF Difference, Waiting, Nothing
<1> QED BY <1>2, <1>3, InitType DEF IndInv

\* Holding back the event of a change that known has just followed, outside a
\* flush: the difference stays right and the order keeps its form.
LEMMA HoldInv ==
  ASSUME IndInv, sent = 0, sent' = 0, told' = told, TypeOK',
         NEW id \in Ids, NEW type \in Kinds, Hold(id, type),
         type = "created" => id \notin known /\ known' = known \cup {id},
         type = "updated" => id \in known /\ known' = known,
         type = "deleted" => id \in known /\ known' = known \ {id}
  PROVE  /\ \A x \in Ids : Difference(x)'
         /\ \A i, j \in 1..Len(order') : order'[i] = order'[j] => i = j
         /\ \A x \in Ids : pending'[x] # "none" => \E i \in 1..Len(order') : order'[i] = x
<1>0. TypeOK /\ Ordered /\ \A x \in Ids : Difference(x)
  BY DEF IndInv
<1>1. pending'[id] = Coalesce(pending[id], type) /\ \A x \in Ids \ {id} : pending'[x] = pending[x]
  BY <1>0 DEF Hold, TypeOK
<1>2. \A x \in Ids : /\ Waiting(x) <=> pending[x] # "none"
                     /\ Waiting(x)' <=> pending'[x] # "none"
  BY DEF Waiting
<1>3. ASSUME NEW x \in Ids PROVE Difference(x)'
  <2>1. CASE x = id
    <3>1. pending[id] \in {"none", "created", "updated", "deleted"}
      BY <1>0 DEF TypeOK, Kinds
    <3>2. /\ pending[id] = "none" => (id \in told <=> id \in known)
          /\ pending[id] = "created" => id \notin told /\ id \in known
          /\ pending[id] = "updated" => id \in told /\ id \in known
          /\ pending[id] = "deleted" => id \in told /\ id \notin known
      BY <1>0, <1>2 DEF Difference
    <3>3. /\ pending'[id] = "none" => (id \in told <=> id \in known')
          /\ pending'[id] = "created" => id \notin told /\ id \in known'
          /\ pending'[id] = "updated" => id \in told /\ id \in known'
          /\ pending'[id] = "deleted" => id \in told /\ id \notin known'
      BY <1>1, <3>1, <3>2 DEF Coalesce, Kinds
    <3> QED BY <1>2, <2>1, <3>3 DEF Difference
  <2>2. CASE x # id
    <3>1. x \in known' <=> x \in known
      BY <2>2 DEF Kinds
    <3> QED BY <1>0, <1>1, <1>2, <2>2, <3>1 DEF Difference
  <2> QED BY <2>1, <2>2
<1>4. CASE order' = order
  <2>1. pending[id] # "none" \/ \E i \in 1..Len(order) : order[i] = id
    <3>1. ASSUME pending[id] = "none", id \notin Range(order) PROVE FALSE
      BY <1>0, <1>4, <3>1, AppendProperties, LenProperties DEF Hold, TypeOK
    <3>2. id \in Range(order) => \E i \in 1..Len(order) : order[i] = id
      BY <1>0, LenProperties DEF Range, TypeOK
    <3> QED BY <3>1, <3>2
  <2> QED BY <1>0, <1>1, <1>3, <1>4, <2>1 DEF Ordered
<1>5. CASE order' = Append(order, id) /\ id \notin Range(order)
  <2>1. \A i \in 1..Len(order) : order[i] # id
    BY <1>0, <1>5, LenProperties DEF Range, TypeOK
  <2>2. /\ Len(order') = Len(order) + 1 /\ Len(order) \in Nat
        /\ order'[Len(order) + 1] = id
        /\ \A i \in 1..Len(order) : order'[i] = order[i]
    BY <1>0, <1>5, AppendProperties, LenProperties DEF TypeOK
  <2>3. \A i, j \in 1..Len(order') : order'[i] = order'[j] => i = j
    BY <1>0, <2>1, <2>2 DEF Ordered
  <2>4. \A x \in Ids : pending'[x] # "none" => \E i \in 1..Len(order') : order'[i] = x
    BY <1>0, <1>1, <2>2 DEF Ordered
  <2> QED BY <1>3, <2>3, <2>4
<1> QED BY <1>4, <1>5 DEF Hold

\* Which steps hold something back, send something or do neither.
LEMMA NextInv == IndInv /\ [Next]_vars => IndInv'
<1> SUFFICES ASSUME IndInv, [Next]_vars PROVE IndInv'
  OBVIOUS
<1>0. TypeOK /\ TypeOK' /\ Ordered /\ \A id \in Ids : Difference(id)
  BY NextType DEF IndInv
<1> USE DEF outside, kernel, held, reader
<1>1. CASE /\ UNCHANGED <<known, pending, order, sent, told>>
           /\ pc' \in {"flush", "closed"} \/ sent = 0
           /\ pc' = "scan" => pc = "scan"
           /\ pc' = "report" => fresh' \cap known = {}
  <2>1. \A id \in Ids : Difference(id)'
    BY <1>0, <1>1 DEF Difference, Waiting
  <2>2. Ordered'
    BY <1>0, <1>1 DEF Ordered
  <2> QED BY <1>0, <2>1, <2>2 DEF IndInv
<1>2. CASE \/ UNCHANGED vars \/ Change \/ AddWatchDirs \/ IgnoreNotice \/ AddCreatedDir
           \/ DiscoverWatchCreates \/ Reported \/ TimerExpires \/ Stop \/ List \/ Receive \/ Close
  <2>1. UNCHANGED <<known, pending, order, sent, told>>
    BY <1>2 DEF vars, Change, WriteNote, MoveNote, RemoveNote, MakeMonth, AddWatchDirs, IgnoreNotice,
                AddCreatedDir, DiscoverWatchCreates, Reported, TimerExpires, Stop, List, ListMonths,
                ListMonth, Receive, Close
  <2>2. /\ pc \in {"flush", "closed"} => pc' \in {"flush", "closed"}
        /\ pc' = "scan" => pc = "scan"
        /\ pc' = "report" => (pc = "report" /\ fresh' = fresh) \/ fresh' = NoteIds \ known
    BY <1>2 DEF vars, Change, WriteNote, MoveNote, RemoveNote, MakeMonth, AddWatchDirs, IgnoreNotice, Take,
                AddCreatedDir, DiscoverWatchCreates, Reported, TimerExpires, Stop, List, ListMonths,
                ListMonth, Receive, Close
  <2> QED BY <1>0, <1>1, <2>1, <2>2 DEF Ordered
<1>3. CASE WatchKnownIDs
  <2>1. pending = Nothing /\ pending' = Nothing /\ known' = told' /\ sent' = 0 /\ pc' = "arm"
    BY <1>0, <1>3 DEF WatchKnownIDs, Ordered
  <2>2. \A id \in Ids : Difference(id)'
    BY <2>1 DEF Difference, Waiting, Nothing
  <2>3. Ordered'
    BY <1>0, <1>3, <2>1 DEF Ordered, WatchKnownIDs
  <2> QED BY <1>0, <2>2, <2>3 DEF IndInv
<1>4. CASE HandleNotice
  <2>1. Head(raw).path.id \in Ids
    BY <1>0, <1>4, TakeType, NoticeType DEF HandleNotice, Take
  <2>2. PICK id \in Ids, type \in Kinds :
          /\ id = Head(raw).path.id /\ type = Classify(Head(raw)) /\ Hold(id, type)
          /\ known' = IF type = "deleted" THEN known \ {id} ELSE known \cup {id}
    BY <1>4, <2>1 DEF HandleNotice, Classify, Kinds
  <2>3. /\ type = "created" => id \notin known
        /\ type \in {"updated", "deleted"} => id \in known
    BY <2>2 DEF Classify
  <2>4. sent = 0 /\ sent' = 0 /\ told' = told /\ pc' = "loop"
    BY <1>0, <1>4 DEF HandleNotice, Take, Ordered
  <2>5. type = "updated" => known' = known
    BY <2>2, <2>3
  <2>6. /\ \A x \in Ids : Difference(x)'
        /\ \A i, j \in 1..Len(order') : order'[i] = order'[j] => i = j
        /\ \A x \in Ids : pending'[x] # "none" => \E i \in 1..Len(order') : order'[i] = x
    BY <1>0, <2>2, <2>3, <2>4, <2>5, HoldInv
  <2> QED BY <1>0, <2>4, <2>6 DEF IndInv, Ordered
<1>5. CASE Report
  <2>1. PICK id \in fresh : fresh' = fresh \ {id} /\ known' = known \cup {id} /\ Hold(id, "created")
    BY <1>5 DEF Report
  <2>2. id \in Ids /\ id \notin known
    BY <1>0, <1>5, <2>1 DEF Report, Ordered, TypeOK
  <2>3. sent = 0 /\ sent' = 0 /\ told' = told /\ pc' = "report"
    BY <1>0, <1>5 DEF Report, Ordered
  <2>4. /\ \A x \in Ids : Difference(x)'
        /\ \A i, j \in 1..Len(order') : order'[i] = order'[j] => i = j
        /\ \A x \in Ids : pending'[x] # "none" => \E i \in 1..Len(order') : order'[i] = x
    BY <1>0, <2>1, <2>2, <2>3, HoldInv DEF Kinds
  <2>5. fresh' \cap known' = {}
    BY <1>0, <1>5, <2>1 DEF Report, Ordered
  <2> QED BY <1>0, <2>3, <2>4, <2>5 DEF IndInv, Ordered
<1>6. CASE Send
  <2>0. order[sent + 1] \in Ids /\ sent + 1 \in 1..Len(order) /\ sent \in Nat
    BY <1>0, <1>6, ElementOfSeq, LenProperties DEF Send, TypeOK
  <2>1. PICK it \in Ids : it = order[sent + 1] /\ pending[it] # "none"
    BY <1>6, <2>0 DEF Send
  <2>2. /\ UNCHANGED <<known, pending, order, pc, fresh>> /\ sent' = sent + 1 /\ pc = "flush"
        /\ told' = IF pending[it] = "deleted" THEN told \ {it} ELSE told \cup {it}
    BY <1>6, <2>1 DEF Send
  <2>3. Waiting(it) /\ ~Waiting(it)'
    <3>1. \A i \in 1..sent : order[i] # it
      <4>1. \A i \in 1..sent : i \in 1..Len(order) /\ i # sent + 1
        BY <1>0, <2>0 DEF TypeOK
      <4> QED BY <1>0, <2>0, <2>1, <4>1 DEF Ordered
    <3>2. sent + 1 \in 1..sent' /\ order'[sent + 1] = it
      BY <2>0, <2>1, <2>2
    <3> QED BY <2>1, <3>1, <3>2 DEF Waiting
  <2>4. it \in told' <=> it \in known'
    BY <1>0, <2>1, <2>2, <2>3 DEF Difference, TypeOK, Kinds
  <2>5. \A x \in Ids \ {it} : (Waiting(x)' <=> Waiting(x)) /\ (x \in told' <=> x \in told)
    BY <1>0, <2>0, <2>1, <2>2 DEF Waiting, TypeOK
  <2>6. \A x \in Ids : Difference(x)'
    BY <1>0, <2>2, <2>3, <2>4, <2>5 DEF Difference
  <2>7. Ordered'
    BY <1>0, <2>2 DEF Ordered
  <2> QED BY <1>0, <2>6, <2>7 DEF IndInv
<1>7. CASE SkipCancelled
  <2>1. /\ UNCHANGED <<known, pending, order, pc, fresh, told>> /\ sent' = sent + 1 /\ pc = "flush"
        /\ pending[order[sent + 1]] = "none" /\ sent \in Nat
    BY <1>0, <1>7 DEF SkipCancelled, TypeOK
  <2>2. \A x \in Ids : Waiting(x)' <=> Waiting(x)
    BY <2>1 DEF Waiting
  <2>3. \A x \in Ids : Difference(x)'
    BY <1>0, <2>1, <2>2 DEF Difference
  <2>4. Ordered'
    BY <1>0, <2>1 DEF Ordered
  <2> QED BY <1>0, <2>3, <2>4 DEF IndInv
<1>8. CASE Flushed
  <2>1. /\ pending' = Nothing /\ order' = <<>> /\ sent' = 0 /\ pc' = "loop" /\ UNCHANGED <<known, told>>
        /\ sent = Len(order)
    BY <1>8 DEF Flushed
  <2>2. \A x \in Ids : ~Waiting(x)
    BY <1>0, <2>1 DEF Waiting, Ordered
  <2>3. \A x \in Ids : Difference(x)'
    BY <1>0, <2>1, <2>2 DEF Difference, Waiting, Nothing
  <2>4. Ordered'
    BY <2>1, EmptySeq DEF Ordered, Nothing
  <2> QED BY <1>0, <2>3, <2>4 DEF IndInv
<1> QED BY <1>2, <1>3, <1>4, <1>5, <1>6, <1>7, <1>8 DEF Next, Watch, Loop

THEOREM Invariance == Spec => []IndInv
  BY InitInv, NextInv, PTL DEF Spec

LEMMA SendMakesSense ==
  ASSUME IndInv, [Next]_vars, NEW e \in Event, out' = Append(out, e)
  PROVE  e.type = "created" <=> e.id \notin told
<1>0. TypeOK /\ Ordered /\ \A id \in Ids : Difference(id)
  BY DEF IndInv
<1>1. Len(out') = Len(out) + 1 /\ Len(out) \in Nat /\ out'[Len(out) + 1] = e
  BY <1>0, AppendProperties, LenProperties DEF TypeOK
<1>2. Send
  <2>1. out' # out
    BY <1>1
  <2>2. ~Receive
    BY <1>0, <1>1, HeadTailProperties DEF Receive, TypeOK
  <2> QED BY <2>1, <2>2 DEF Next, vars, Change, WriteNote, MoveNote, RemoveNote, MakeMonth, Watch,
             WatchKnownIDs, AddWatchDirs, Loop, IgnoreNotice, HandleNotice, AddCreatedDir,
             DiscoverWatchCreates, Report, Reported, TimerExpires, SkipCancelled, Flushed, Stop, List,
             ListMonths, ListMonth, Close
<1> DEFINE it == order[sent + 1]
           f  == [type |-> pending[it], id |-> it]
<1>3. it \in Ids /\ sent + 1 \in 1..Len(order) /\ pending[it] \in Kinds /\ sent \in Nat
  BY <1>0, <1>2, ElementOfSeq, LenProperties DEF Send, TypeOK
<1>4. f \in Event /\ out' = Append(out, f)
  BY <1>2, <1>3 DEF Send, Event
<1>5. e = f
  BY <1>0, <1>1, <1>4, AppendProperties DEF TypeOK
<1>6. Waiting(it)
  BY <1>0, <1>3 DEF Waiting, Ordered, Kinds
<1> QED BY <1>0, <1>3, <1>5, <1>6 DEF Difference, Kinds

\* Whatever other processes do to however many notes, and however windows and
\* flushes fall, the events of an ID make sense one after the other.
THEOREM EventsAlternate == Spec => EventsMakeSense
<1>1. IndInv /\ [Next]_vars =>
        [\A e \in Event : out' = Append(out, e) => (e.type = "created" <=> e.id \notin told)]_vars
  BY SendMakesSense
<1> QED BY <1>1, Invariance, PTL DEF Spec, EventsMakeSense

-----------------------------------------------------------------------------
(* Nothing is held back without a timer.                                   *)

\* Before the loop nothing is held back; what a discovery holds back is timed
\* when it ends, and a flush forgets everything that it has taken the timer from.
Timed ==
  /\ pc \in {"scan", "arm"} => pending = Nothing
  /\ PendingIsTimed

LEMMA NothingPending == ~HasPending(Nothing)
  BY DEF HasPending, Nothing

LEMMA NextTimed ==
  ASSUME Timed, [Next]_vars
  PROVE  Timed'
<1> USE DEF Timed, PendingIsTimed, HasPending
<1>1. CASE UNCHANGED <<pc, pending, armed>>
  BY <1>1
<1>2. CASE WatchKnownIDs \/ AddWatchDirs
  BY <1>2, NothingPending DEF WatchKnownIDs, AddWatchDirs, held
<1>3. CASE IgnoreNotice
  BY <1>3 DEF IgnoreNotice, Take
<1>4. CASE HandleNotice
  BY <1>4 DEF HandleNotice, Take
<1>5. CASE AddCreatedDir \/ DiscoverWatchCreates \/ TimerExpires
  BY <1>5 DEF AddCreatedDir, DiscoverWatchCreates, TimerExpires, Take
<1>6. CASE Report
  BY <1>6 DEF Report
<1>7. CASE Reported
  BY <1>7 DEF Reported
<1>8. CASE Send \/ SkipCancelled
  BY <1>8 DEF Send, SkipCancelled
<1>9. CASE Flushed
  BY <1>9, NothingPending DEF Flushed
<1>10. CASE Stop
  BY <1>10 DEF Stop, held
<1>11. CASE Change \/ List \/ Receive \/ Close \/ UNCHANGED vars
  BY <1>1, <1>11 DEF Change, WriteNote, MoveNote, RemoveNote, MakeMonth, List, ListMonths, ListMonth,
                     Receive, Close, held, vars
<1> QED BY <1>2, <1>3, <1>4, <1>5, <1>6, <1>7, <1>8, <1>9, <1>10, <1>11 DEF Next, Watch, Loop

\* Whatever branch of its select an event came in by, the goroutine never waits
\* in it with an event held back and no timer running.
THEOREM HeldEventsAreTimed == Spec => []PendingIsTimed
<1>1. Init => Timed
  BY DEF Init, Timed, PendingIsTimed
<1>2. Timed => PendingIsTimed
  BY DEF Timed
<1> QED BY <1>1, <1>2, NextTimed, PTL DEF Spec

-----------------------------------------------------------------------------
(* The view of a consumer that subscribed first and then listed the store. *)

Running == Returned /\ pc # "closed"

RemovalOf(n, id) == n.op = "remove" /\ n.path.id = id

CreationOf(n, p) == n.op = "create" /\ n.path = p

\* A notice that will make the file's note known, if it is not yet.
Settles(n, p) == n.op = "mkdir" \/ CreationOf(n, p)

\* No event of the ID is on its way to the consumer; none will be.
Unsent(id) == \A i \in 1..Len(out) : out[i].id # id
Untold(id) == pending[id] = "none" /\ Unsent(id)

\* The consumer's listing has read the month.
Read(m) == listing /\ m \notin unlisted

\* A note has one file, in a month there is, and discoveries are reported at once.
OneFile ==
  /\ \A p, q \in files : p.id = q.id => p = q
  /\ \A p \in files : p.month \in months
  /\ pc # "report" => fresh = {}

\* Nobody takes for a note what never was one.
Existed == known \cup fresh \cup told \subseteq NoteIds \cup gone

\* Before Watch returns, nothing is noticed, reported or listed.
Before ==
  /\ pc \in {"scan", "arm"} => /\ raw = <<>> /\ out = <<>> /\ pending = Nothing
                               /\ watched = {} /\ ~listing
  /\ ~listing => view = {} /\ unlisted = {}

\* Of a month that is not watched there is a notice still to be taken.
MonthsSeen ==
  Running => \A m \in months \ watched : \E i \in 1..Len(raw) : raw[i].op = "mkdir" /\ raw[i].month = m

\* Where a removal was noticed, the note was removed for good or moved.
RemovalsTrue ==
  \A i \in 1..Len(raw) : raw[i].op = "remove" => raw[i].path.id \in NoteIds \cup gone

\* A note that was removed before the watches.
GapRemoved(id) == id \notin fresh /\ id \notin view /\ Untold(id)

\* What the watcher takes for a note and is none any more will be removed.
GoneFollow ==
  Running => \A id \in Ids \ (NoteIds \cup strayed) :
    id \in known \cup fresh => (\E i \in 1..Len(raw) : RemovalOf(raw[i], id)) \/ GapRemoved(id)

\* A note that was written before the watches: the listing finds it.
GapWritten(p) == p.id \notin known \cup fresh /\ Untold(p.id) /\ (Read(p.month) => p.id \in view)

WillBeKnown(p) ==
  \/ p.id \in known \cup fresh
  \/ pc = "discover"
  \/ \E i \in 1..Len(raw) : Settles(raw[i], p)

\* A note is known or will be, and after any removal still to be taken again.
FilesFollow ==
  Running => \A p \in files : p.id \notin strayed =>
    /\ WillBeKnown(p) \/ GapWritten(p)
    /\ \A j \in 1..Len(raw) : RemovalOf(raw[j], p.id) => \E i \in (j + 1)..Len(raw) : Settles(raw[i], p)

StoreInv == OneFile /\ Existed /\ Before /\ MonthsSeen /\ RemovalsTrue /\ GoneFollow /\ FilesFollow

\* The last event of an ID that was not received yet is what was told of it;
\* where there is none, the consumer takes for a note what was told or unheard.
Behind(id) ==
  /\ Unsent(id) /\ id \in view => id \in told \cup unheard
  /\ \A i \in 1..Len(out) :
       out[i].id = id /\ (\A j \in (i + 1)..Len(out) : out[j].id # id) =>
         (id \in told <=> out[i].type # "deleted")

\* A note that was told and that the listing has missed was moved while it ran,
\* and an event will say so.
Missed(p) ==
  Unsent(p.id) /\ p.id \in told /\ p.id \notin view /\ p.id \notin strayed /\ Read(p.month) =>
    Waiting(p.id) \/ \E i \in 1..Len(raw) : CreationOf(raw[i], p)

ReadInv == (\A id \in Ids : Behind(id)) /\ \A p \in files : Missed(p)

LEMMA InitView == Init => StoreInv /\ ReadInv
<1> SUFFICES ASSUME Init PROVE StoreInv /\ ReadInv
  OBVIOUS
<1>1. /\ pc = "scan" /\ raw = <<>> /\ fresh = {} /\ known = {} /\ told = {} /\ ~listing /\ out = <<>>
      /\ order = <<>> /\ view = {} /\ unlisted = {} /\ watched = {} /\ pending = Nothing
      /\ \A p, q \in files : p.id = q.id => p = q
      /\ \A p \in files : p.month \in months
  BY DEF Init
<1>2. Len(raw) = 0 /\ Len(out) = 0
  BY <1>1, EmptySeq
<1>3. OneFile /\ Existed /\ Before
  BY <1>1 DEF OneFile, Existed, Before
<1> QED BY <1>1, <1>2, <1>3 DEF StoreInv, MonthsSeen, RemovalsTrue, GoneFollow, FilesFollow,
                          Running, Returned, ReadInv, Behind, Missed, Read

LEMMA NoteIdsMember ==
  \A id : id \in NoteIds <=> \E p \in files : p.id = id
BY DEF NoteIds

-----------------------------------------------------------------------------
(* What the consumer is told and shows of an ID.                           *)

LEMMA ReceiveTakes ==
  ASSUME TypeOK, Receive
  PROVE  /\ Len(out) \in Nat /\ Len(out) > 0 /\ Len(out') = Len(out) - 1
         /\ Head(out) = out[1] /\ out[1] \in Event
         /\ \A i \in 1..Len(out') : i + 1 \in 1..Len(out) /\ out'[i] = out[i + 1]
         /\ \A i \in 1..Len(out) : i = 1 \/ (i - 1 \in 1..Len(out') /\ out'[i - 1] = out[i])
<1>1. out \in Seq(Event) /\ out # <<>> /\ out' = Tail(out)
  BY DEF Receive, TypeOK
<1>2. /\ Len(out) \in Nat /\ Len(out) > 0 /\ Len(out') = Len(out) - 1
      /\ Head(out) = out[1] /\ out[1] \in Event
      /\ \A i \in 1..Len(out') : out'[i] = out[i + 1]
  BY <1>1, HeadTailProperties, LenProperties, ElementOfSeq
<1>3. ASSUME NEW i \in 1..Len(out), i # 1
      PROVE  i - 1 \in 1..Len(out') /\ out'[i - 1] = out[i]
  BY <1>2, <1>3
<1>4. ASSUME NEW i \in 1..Len(out') PROVE i + 1 \in 1..Len(out)
  BY <1>2
<1> QED BY <1>2, <1>3, <1>4

LEMMA SendAdds ==
  ASSUME TypeOK, Send
  PROVE  LET it == order[sent + 1]
             e  == [type |-> pending[it], id |-> it]
         IN  /\ it \in Ids /\ e \in Event /\ e.id = it /\ e.type # "none"
             /\ Len(out) \in Nat /\ Len(out') = Len(out) + 1 /\ out'[Len(out) + 1] = e
             /\ \A i \in 1..Len(out) : i \in 1..Len(out') /\ out'[i] = out[i]
             /\ \A i \in 1..Len(out') : i \in 1..Len(out) \/ i = Len(out) + 1
             /\ Len(out) + 1 \in 1..Len(out')
<1> DEFINE it == order[sent + 1]
           e  == [type |-> pending[it], id |-> it]
<1>1. e \in Event /\ it \in Ids /\ e.id = it /\ e.type # "none"
  BY ElementOfSeq, LenProperties DEF Send, TypeOK, Event
<1>2. out' = Append(out, e)
  BY DEF Send
<1> HIDE DEF e, it
<1>3. /\ Len(out) \in Nat /\ Len(out') = Len(out) + 1 /\ out'[Len(out) + 1] = e
      /\ \A i \in 1..Len(out) : out'[i] = out[i]
  BY <1>1, <1>2, AppendProperties, LenProperties DEF TypeOK
<1>4. /\ \A i \in 1..Len(out) : i \in 1..Len(out')
      /\ \A i \in 1..Len(out') : i \in 1..Len(out) \/ i = Len(out) + 1
      /\ Len(out) + 1 \in 1..Len(out')
  BY <1>3
<1> QED BY <1>1, <1>3, <1>4 DEF e, it

\* Only Send gives an event to the consumer and only Receive takes one.
LEMMA OutSteps ==
  ASSUME [Next]_vars, ~Send, ~Receive
  PROVE  out' = out
BY DEF Next, vars, Change, WriteNote, MoveNote, RemoveNote, MakeMonth, Watch, WatchKnownIDs, AddWatchDirs,
       Loop, IgnoreNotice, HandleNotice, AddCreatedDir, DiscoverWatchCreates, Report, Reported,
       TimerExpires, SkipCancelled, Flushed, Stop, List, ListMonths, ListMonth, Close

\* Only these steps of the consumer change what it shows.
LEMMA ReaderSteps ==
  ASSUME [Next]_vars, ~Receive, ~List
  PROVE  UNCHANGED reader
BY DEF Next, vars, reader, Change, WriteNote, MoveNote, RemoveNote, MakeMonth, Watch, WatchKnownIDs,
       AddWatchDirs, Loop, IgnoreNotice, HandleNotice, AddCreatedDir, DiscoverWatchCreates, Report, Reported,
       TimerExpires, Send, SkipCancelled, Flushed, Stop, Close

\* Only these steps of the watcher change what it holds back.
LEMMA PendingSteps ==
  ASSUME [Next]_vars, ~HandleNotice, ~Report, ~Flushed
  PROVE  pending' = pending
BY DEF Next, vars, held, Change, WriteNote, MoveNote, RemoveNote, MakeMonth, Watch, WatchKnownIDs,
       AddWatchDirs, Loop, IgnoreNotice, AddCreatedDir, DiscoverWatchCreates, Reported,
       TimerExpires, Send, SkipCancelled, Stop, List, ListMonths, ListMonth, Receive, Close

\* Nothing comes after the last event but by Send.
LEMMA UnsentKept ==
  ASSUME TypeOK, [Next]_vars, NEW id, Unsent(id), pending[id] = "none"
  PROVE  Unsent(id)'
<1>1. CASE Send
  BY <1>1, SendAdds DEF Unsent
<1>2. CASE Receive
  BY <1>2, ReceiveTakes DEF Unsent
<1> QED BY <1>1, <1>2, OutSteps DEF Unsent

LEMMA UntoldKept ==
  ASSUME TypeOK, [Next]_vars, NEW id \in Ids, Untold(id),
         HandleNotice => Head(raw).path.id # id,
         Report => id \notin fresh
  PROVE  Untold(id)'
<1>1. Unsent(id)'
  BY UnsentKept DEF Untold
<1>2. pending'[id] = "none"
  <2>1. CASE HandleNotice
    BY <2>1 DEF HandleNotice, Hold, Untold, TypeOK
  <2>2. CASE Report
    BY <2>2 DEF Report, Hold, Untold, TypeOK
  <2>3. CASE Flushed
    BY <2>3 DEF Flushed, Nothing
  <2> QED BY <2>1, <2>2, <2>3, PendingSteps DEF Untold
<1> QED BY <1>1, <1>2 DEF Untold

\* A file that the listing finds is shown, while no event says otherwise.
LEMMA ShownKept ==
  ASSUME TypeOK, StoreInv, [Next]_vars, NEW p \in files, p \in files', Unsent(p.id),
         Read(p.month) => p.id \in view
  PROVE  Read(p.month)' => p.id \in view'
<1>1. CASE ListMonths
  BY <1>1 DEF ListMonths, Read, StoreInv, OneFile
<1>2. ASSUME NEW m \in Months, ListMonth(m)
      PROVE  Read(p.month)' => p.id \in view'
  BY <1>2 DEF ListMonth, Read
<1>3. CASE Receive
  <2>1. Head(out).id # p.id
    BY <1>3, ReceiveTakes DEF Unsent
  <2> QED BY <1>3, <2>1 DEF Receive, Read
<1>4. CASE UNCHANGED reader
  BY <1>4 DEF reader, Read
<1> QED BY <1>1, <1>2, <1>3, <1>4, ReaderSteps DEF List

\* An ID of no note is not listed.
LEMMA HiddenKept ==
  ASSUME TypeOK, [Next]_vars, NEW id, id \notin NoteIds, id \notin view, Unsent(id)
  PROVE  id \notin view'
<1>1. CASE ListMonths
  BY <1>1 DEF ListMonths
<1>2. ASSUME NEW m \in Months, ListMonth(m)
      PROVE  id \notin view'
  BY <1>2 DEF ListMonth, NoteIds
<1>3. CASE Receive
  <2>1. Head(out).id # id
    BY <1>3, ReceiveTakes DEF Unsent
  <2> QED BY <1>3, <2>1 DEF Receive
<1>4. CASE UNCHANGED reader
  BY <1>4 DEF reader
<1> QED BY <1>1, <1>2, <1>3, <1>4, ReaderSteps DEF List

\* Only these steps change what the watcher takes to exist.
LEMMA KnownSteps ==
  ASSUME [Next]_vars, ~WatchKnownIDs, ~HandleNotice, ~DiscoverWatchCreates, ~Report
  PROVE  UNCHANGED <<known, fresh>>
BY DEF Next, vars, held, Change, WriteNote, MoveNote, RemoveNote, MakeMonth, Watch,
       AddWatchDirs, Loop, IgnoreNotice, AddCreatedDir, Reported,
       TimerExpires, Send, SkipCancelled, Flushed, Stop, List, ListMonths, ListMonth, Receive, Close

\* A note written before the watches stays so, or becomes known.
LEMMA GapWrittenKept ==
  ASSUME TypeOK, StoreInv, [Next]_vars, Running, NEW p \in files, p \in files', GapWritten(p)
  PROVE  GapWritten(p)' \/ p.id \in known' \cup fresh'
<1>0. p.id \in Ids /\ ~WatchKnownIDs
  BY DEF TypeOK, Path, WatchKnownIDs, Running, Returned
<1>1. Read(p.month)' => p.id \in view'
  BY ShownKept DEF GapWritten, Untold
<1>2. CASE HandleNotice /\ Head(raw).path.id = p.id
  <2>1. Classify(Head(raw)) # "none" /\ p.id \notin known
    BY <1>2 DEF HandleNotice, GapWritten
  <2>2. Classify(Head(raw)) # "deleted"
    BY <1>2, <2>1 DEF Classify
  <2> QED BY <1>2, <2>2 DEF HandleNotice
<1>3. CASE ~(HandleNotice /\ Head(raw).path.id = p.id)
  <2>1. Untold(p.id)'
    BY <1>0, <1>3, UntoldKept DEF GapWritten
  <2>2. p.id \notin known' \cup fresh' \/ p.id \in known' \cup fresh'
    OBVIOUS
  <2> QED BY <1>1, <2>1, <2>2 DEF GapWritten
<1> QED BY <1>2, <1>3

\* So is a note removed before them, until it is forgotten.
LEMMA GapRemovedKept ==
  ASSUME TypeOK, [Next]_vars, Running, NEW id \in Ids \ NoteIds, GapRemoved(id)
  PROVE  GapRemoved(id)' \/ id \notin known' \cup fresh'
<1>0. ~WatchKnownIDs
  BY DEF WatchKnownIDs, Running, Returned
<1>1. id \notin view'
  BY HiddenKept DEF GapRemoved, Untold
<1>2. id \notin fresh'
  BY <1>0, KnownSteps DEF GapRemoved, HandleNotice, DiscoverWatchCreates, Report
<1>3. CASE HandleNotice /\ Head(raw).path.id = id
  <2>1. Head(raw).path \notin files /\ Classify(Head(raw)) # "none"
    BY <1>3 DEF HandleNotice, NoteIds
  <2>2. Classify(Head(raw)) = "deleted"
    BY <2>1 DEF Classify
  <2> QED BY <1>2, <1>3, <2>2 DEF HandleNotice
<1>4. CASE ~(HandleNotice /\ Head(raw).path.id = id)
  <2>1. Untold(id)'
    BY <1>4, UntoldKept DEF GapRemoved
  <2> QED BY <1>1, <1>2, <2>1 DEF GapRemoved
<1> QED BY <1>3, <1>4

-----------------------------------------------------------------------------
(* What other processes do, and fsnotify's notices of it.                  *)

\* Notices are added at the end.
Longer(r, s) ==
  /\ Len(r) \in Nat /\ Len(s) \in Nat /\ Len(r) <= Len(s)
  /\ \A i \in 1..Len(r) : s[i] = r[i] /\ i \in 1..Len(s)

LEMMA Grown ==
  ASSUME NEW r \in Seq(Notice), NEW n \in Notice, NEW s, s = Append(r, n)
  PROVE  /\ s \in Seq(Notice) /\ Longer(r, s)
         /\ Len(r) \in Nat /\ Len(s) = Len(r) + 1 /\ s[Len(r) + 1] = n
         /\ Len(r) + 1 \in 1..Len(s)
         /\ \A i \in 1..Len(s) : i \in 1..Len(r) \/ s[i] = n
<1>1. /\ s \in Seq(Notice) /\ Len(r) \in Nat /\ Len(s) = Len(r) + 1 /\ s[Len(r) + 1] = n
      /\ \A i \in 1..Len(r) : s[i] = r[i]
  BY AppendProperties, LenProperties
<1>2. \A i \in 1..Len(s) : i \in 1..Len(r) \/ i = Len(r) + 1
  BY <1>1
<1> QED BY <1>1, <1>2 DEF Longer

LEMMA SeenGrown ==
  ASSUME NEW r \in Seq(Notice), NEW p \in Path, NEW op \in {"create", "remove"}
  PROVE  /\ p.month \in watched => r \o Seen(op, p) = Append(r, [op |-> op, path |-> p])
         /\ p.month \notin watched => r \o Seen(op, p) = r
         /\ [op |-> op, path |-> p] \in Notice
  BY DEF Seen, Notice

LEMMA Unchanging ==
  ASSUME NEW r \in Seq(Notice)
  PROVE  Longer(r, r)
  BY LenProperties DEF Longer

\* What was still to be noticed still is.
LEMMA LongerKeeps ==
  ASSUME StoreInv, Running, Longer(raw, raw'),
         UNCHANGED <<watched, known, fresh, pc>>
  PROVE  /\ \A m \in months \ watched : \E i \in 1..Len(raw') : raw'[i].op = "mkdir" /\ raw'[i].month = m
         /\ \A id : (\E i \in 1..Len(raw) : RemovalOf(raw[i], id))
                      => \E i \in 1..Len(raw') : RemovalOf(raw'[i], id)
         /\ \A p : WillBeKnown(p) => WillBeKnown(p)'
         /\ \A p \in files, j \in 1..Len(raw) : p.id \notin strayed /\ RemovalOf(raw[j], p.id) =>
              \E i \in (j + 1)..Len(raw') : Settles(raw'[i], p)
<1>1. \A m \in months \ watched : \E i \in 1..Len(raw') : raw'[i].op = "mkdir" /\ raw'[i].month = m
  BY DEF StoreInv, MonthsSeen, Longer
<1>2. \A id : (\E i \in 1..Len(raw) : RemovalOf(raw[i], id))
                => \E i \in 1..Len(raw') : RemovalOf(raw'[i], id)
  BY DEF Longer
<1>3. \A p : WillBeKnown(p) => WillBeKnown(p)'
  BY DEF Longer, WillBeKnown
<1>4. ASSUME NEW p \in files, NEW j \in 1..Len(raw), p.id \notin strayed, RemovalOf(raw[j], p.id)
      PROVE  \E i \in (j + 1)..Len(raw') : Settles(raw'[i], p)
  <2>1. PICK i \in (j + 1)..Len(raw) : Settles(raw[i], p)
    BY <1>4 DEF StoreInv, FilesFollow
  <2>2. i \in 1..Len(raw) /\ i \in (j + 1)..Len(raw')
    BY <2>1 DEF Longer
  <2>3. raw'[i] = raw[i]
    BY <2>2 DEF Longer
  <2> QED BY <2>1, <2>2, <2>3
<1> QED BY <1>1, <1>2, <1>3, <1>4

\* While Watch has not returned, nothing that happens is noticed.
LEMMA ChangeBefore ==
  ASSUME TypeOK, StoreInv, Change, ~Returned
  PROVE  raw' = raw /\ strayed' = strayed
<1>1. watched = {} /\ raw \in Seq(Notice)
  BY DEF StoreInv, Before, Returned, TypeOK
<1>2. \A p \in Path : raw \o Seen("create", p) = raw /\ raw \o Seen("remove", p) = raw
  BY <1>1, SeenGrown
<1> QED BY <1>2 DEF Change, WriteNote, MoveNote, RemoveNote, MakeMonth, Stray

\* The parts that do not look at the notices.
LEMMA ChangeKeepsFiles ==
  ASSUME TypeOK, StoreInv, Change
  PROVE  OneFile' /\ Existed' /\ Before' /\ NoteIds \subseteq NoteIds' \cup gone'
<1>1. UNCHANGED <<watched, pc, known, fresh, told, pending, out, listing, unlisted, view>>
  BY DEF Change, WriteNote, MoveNote, RemoveNote, MakeMonth, held, reader
<1>2. NoteIds \subseteq NoteIds' \cup gone' /\ gone \subseteq gone'
  <2>1. ASSUME NEW p \in Path, WriteNote(p)
        PROVE  NoteIds \subseteq NoteIds' \cup gone' /\ gone \subseteq gone'
    BY <2>1 DEF WriteNote, NoteIds
  <2>2. ASSUME NEW p \in Path, RemoveNote(p)
        PROVE  NoteIds \subseteq NoteIds' \cup gone' /\ gone \subseteq gone'
    BY <2>2 DEF RemoveNote, NoteIds
  <2>3. ASSUME NEW p \in Path, NEW q \in Path, MoveNote(p, q)
        PROVE  NoteIds \subseteq NoteIds' \cup gone' /\ gone \subseteq gone'
    BY <2>3 DEF MoveNote, NoteIds
  <2>4. ASSUME NEW m \in Months, MakeMonth(m)
        PROVE  NoteIds \subseteq NoteIds' \cup gone' /\ gone \subseteq gone'
    BY <2>4 DEF MakeMonth, NoteIds
  <2> QED BY <2>1, <2>2, <2>3, <2>4 DEF Change
<1>3. Existed'
  BY <1>1, <1>2 DEF StoreInv, Existed
<1>4. OneFile'
  <2>1. ASSUME NEW p \in Path, WriteNote(p) PROVE OneFile'
    BY <1>1, <2>1 DEF WriteNote, StoreInv, OneFile
  <2>2. ASSUME NEW p \in Path, RemoveNote(p) PROVE OneFile'
    BY <1>1, <2>2 DEF RemoveNote, StoreInv, OneFile
  <2>3. ASSUME NEW p \in Path, NEW q \in Path, MoveNote(p, q) PROVE OneFile'
    BY <1>1, <2>3 DEF MoveNote, StoreInv, OneFile
  <2>4. ASSUME NEW m \in Months, MakeMonth(m) PROVE OneFile'
    BY <1>1, <2>4 DEF MakeMonth, StoreInv, OneFile
  <2> QED BY <2>1, <2>2, <2>3, <2>4 DEF Change
<1>5. Before'
  BY <1>1, ChangeBefore DEF StoreInv, Before, Returned
<1> QED BY <1>2, <1>3, <1>4, <1>5

\* Then what follows the notices is only of what was there before.
LEMMA ChangeKeepsGap ==
  ASSUME TypeOK, StoreInv, Change
  PROVE  /\ UNCHANGED <<watched, known, fresh, pc>>
         /\ \A p \in files \cap files' : GapWritten(p) => GapWritten(p)'
         /\ \A id \in Ids \ NoteIds : GapRemoved(id) => GapRemoved(id)'
<1>1. UNCHANGED <<watched, pc, known, fresh, pending, out, listing, unlisted, view>>
  BY DEF Change, WriteNote, MoveNote, RemoveNote, MakeMonth, held, reader
<1> QED BY <1>1 DEF GapWritten, GapRemoved, Untold, Unsent, Read

LEMMA WriteFollows ==
  ASSUME TypeOK, StoreInv, NEW p \in Path, WriteNote(p), Running
  PROVE  MonthsSeen' /\ RemovalsTrue' /\ GoneFollow' /\ FilesFollow'
<1> DEFINE n == [op |-> "create", path |-> p]
<1>0. Change /\ raw \in Seq(Notice)
  BY DEF Change, TypeOK
<1>1. /\ p.id \notin gone /\ p.month \in months /\ \A q \in files : q.id = p.id => q = p
      /\ files' = files \cup {p} /\ NoteIds' = NoteIds \cup {p.id}
      /\ UNCHANGED <<gone, strayed, months, watched, pc, known, fresh>> /\ Running'
  BY DEF WriteNote, held, NoteIds, Running, Returned
<1>2. /\ p.month \in watched => raw' = Append(raw, n)
      /\ p.month \notin watched => raw' = raw
      /\ n \in Notice /\ n.op = "create" /\ n.path = p
  BY <1>0, SeenGrown DEF WriteNote
<1> HIDE DEF n
<1>3. /\ Longer(raw, raw')
      /\ \A i \in 1..Len(raw') : i \in 1..Len(raw) \/ raw'[i] = n
      /\ p.month \in watched => \E i \in 1..Len(raw') : raw'[i] = n
  <2>1. CASE p.month \in watched
    BY <1>0, <1>2, <2>1, Grown
  <2>2. CASE p.month \notin watched
    BY <1>0, <1>2, <2>2, Unchanging
  <2> QED BY <2>1, <2>2
<1>4. MonthsSeen'
  BY <1>1, <1>3, LongerKeeps DEF MonthsSeen
<1>5. RemovalsTrue'
  BY <1>1, <1>2, <1>3 DEF StoreInv, RemovalsTrue, Longer
<1>6. GoneFollow'
  <2>1. ASSUME NEW id \in Ids \ (NoteIds' \cup strayed'), id \in known' \cup fresh'
        PROVE  (\E i \in 1..Len(raw') : RemovalOf(raw'[i], id)) \/ GapRemoved(id)'
    BY <1>0, <1>1, <1>3, <2>1, LongerKeeps, ChangeKeepsGap DEF StoreInv, GoneFollow
  <2> QED BY <2>1 DEF GoneFollow
<1>7. ASSUME NEW q \in files', q.id \notin strayed', NEW j \in 1..Len(raw'), RemovalOf(raw'[j], q.id)
      PROVE  \E i \in (j + 1)..Len(raw') : Settles(raw'[i], q)
  <2>1. j \in 1..Len(raw) /\ raw'[j] = raw[j]
    BY <1>2, <1>3, <1>7 DEF RemovalOf, Longer
  <2>2. q \in files
    <3>1. SUFFICES ASSUME q = p, p \notin files PROVE FALSE
      BY <1>1
    <3>2. p.id \in NoteIds \cup gone
      BY <1>7, <2>1, <3>1 DEF StoreInv, RemovalsTrue, RemovalOf
    <3> QED BY <1>1, <3>1, <3>2, NoteIdsMember
  <2> QED BY <1>1, <1>3, <1>7, <2>1, <2>2, LongerKeeps
<1>8. ASSUME NEW q \in files', q.id \notin strayed'
      PROVE  WillBeKnown(q)' \/ GapWritten(q)'
  <2>1. CASE q \in files
    BY <1>0, <1>1, <1>3, <1>8, <2>1, LongerKeeps, ChangeKeepsGap DEF StoreInv, FilesFollow
  <2>2. CASE q = p /\ p.month \in watched
    BY <1>2, <1>3, <2>2 DEF WillBeKnown, Settles, CreationOf
  <2>3. CASE q = p /\ p.month \notin watched
    <3>1. \E i \in 1..Len(raw') : raw'[i].op = "mkdir"
      BY <1>1, <1>3, <2>3, LongerKeeps
    <3> QED BY <3>1 DEF WillBeKnown, Settles
  <2> QED BY <1>1, <2>1, <2>2, <2>3
<1>9. FilesFollow'
  BY <1>7, <1>8 DEF FilesFollow
<1> QED BY <1>4, <1>5, <1>6, <1>9

\* Where the note was not moved astray, its creation is noticed last.
LEMMA MoveNoticed ==
  ASSUME TypeOK, NEW p \in Path, NEW q \in Path, MoveNote(p, q), Returned
  PROVE  /\ Longer(raw, raw')
         /\ \A i \in 1..Len(raw') : i \in 1..Len(raw) \/ RemovalOf(raw'[i], p.id)
                                    \/ raw'[i].op = "create"
         /\ p.id \notin strayed' => /\ Len(raw') > 0 /\ CreationOf(raw'[Len(raw')], q)
<1> DEFINE a == [op |-> "remove", path |-> p]
           b == [op |-> "create", path |-> q]
           r == raw \o Seen("remove", p)
<1>1. raw \in Seq(Notice) /\ raw' = r \o Seen("create", q)
  BY DEF TypeOK, MoveNote
<1>2. /\ a \in Notice /\ a.op = "remove" /\ a.path.id = p.id
      /\ b \in Notice /\ b.op = "create" /\ b.path = q
      /\ r = raw \/ r = Append(raw, a)
  BY <1>1, SeenGrown
<1> HIDE DEF a, b
<1>3. /\ r \in Seq(Notice) /\ Longer(raw, r)
      /\ \A i \in 1..Len(r) : i \in 1..Len(raw) \/ r[i] = a
  <2>1. CASE r = Append(raw, a)
    <3>1. a \in Notice /\ raw \in Seq(Notice)
      BY <1>1, <1>2
    <3> QED BY <2>1, <3>1, Grown
  <2>2. CASE r = raw
    BY <1>1, <2>2, Unchanging
  <2> QED BY <1>2, <2>1, <2>2
<1> HIDE DEF r
<1>4. /\ q.month \in watched => raw' = Append(r, b)
      /\ q.month \notin watched => raw' = r
  BY <1>1, <1>3, SeenGrown DEF b
<1>5. /\ Longer(r, raw')
      /\ \A i \in 1..Len(raw') : i \in 1..Len(r) \/ raw'[i] = b
      /\ q.month \in watched => Len(raw') > 0 /\ raw'[Len(raw')] = b
  <2>1. CASE q.month \in watched
    <3>1. /\ Longer(r, raw') /\ Len(raw') = Len(r) + 1 /\ raw'[Len(r) + 1] = b
          /\ \A i \in 1..Len(raw') : i \in 1..Len(r) \/ raw'[i] = b
          /\ Len(r) \in Nat
      BY <1>2, <1>3, <1>4, <2>1, Grown
    <3> QED BY <3>1 DEF Longer
  <2>2. CASE q.month \notin watched
    BY <1>3, <1>4, <2>2, Unchanging
  <2> QED BY <2>1, <2>2
<1>6. Longer(raw, raw')
  BY <1>3, <1>5 DEF Longer
<1>7. ASSUME NEW i \in 1..Len(raw')
      PROVE  i \in 1..Len(raw) \/ raw'[i] = a \/ raw'[i] = b
  BY <1>3, <1>5 DEF Longer
<1>8. p.id \notin strayed' => q.month \in watched
  BY DEF MoveNote, Stray
<1>9. p.id \notin strayed' => Len(raw') > 0 /\ CreationOf(raw'[Len(raw')], q)
  BY <1>2, <1>5, <1>8 DEF CreationOf
<1>10. \A i \in 1..Len(raw') : i \in 1..Len(raw) \/ RemovalOf(raw'[i], p.id)
                               \/ raw'[i].op = "create"
  BY <1>2, <1>7 DEF RemovalOf
<1> QED BY <1>6, <1>9, <1>10

LEMMA MoveFollows ==
  ASSUME TypeOK, StoreInv, NEW p \in Path, NEW q \in Path, MoveNote(p, q), Running
  PROVE  MonthsSeen' /\ RemovalsTrue' /\ GoneFollow' /\ FilesFollow'
<1>0. Change /\ raw \in Seq(Notice) /\ Returned
  BY DEF Change, TypeOK, Running
<1>1. /\ p \in files /\ q # p /\ q.id = p.id
      /\ files' = (files \ {p}) \cup {q} /\ NoteIds' = NoteIds /\ p.id \in NoteIds
      /\ strayed \subseteq strayed'
      /\ UNCHANGED <<gone, months, watched, pc, known, fresh>> /\ Running'
  BY DEF MoveNote, held, NoteIds, Running, Returned, Stray
<1> DEFINE n == Len(raw')
<1>2. /\ Longer(raw, raw')
      /\ \A i \in 1..n : i \in 1..Len(raw) \/ RemovalOf(raw'[i], p.id)
                         \/ raw'[i].op = "create"
      /\ p.id \notin strayed' => n > 0 /\ CreationOf(raw'[n], q)
  BY <1>0, MoveNoticed
<1>3. n \in Nat
  BY <1>2 DEF Longer
<1>4. MonthsSeen'
  BY <1>1, <1>2, LongerKeeps DEF MonthsSeen
<1>5. RemovalsTrue'
  BY <1>1, <1>2 DEF StoreInv, RemovalsTrue, RemovalOf, Longer
<1>6. GoneFollow'
  <2>1. ASSUME NEW id \in Ids \ (NoteIds' \cup strayed'), id \in known' \cup fresh'
        PROVE  (\E i \in 1..Len(raw') : RemovalOf(raw'[i], id)) \/ GapRemoved(id)'
    BY <1>0, <1>1, <1>2, <2>1, LongerKeeps, ChangeKeepsGap DEF StoreInv, GoneFollow
  <2> QED BY <2>1 DEF GoneFollow
<1>7. ASSUME NEW f \in files', f.id \notin strayed', NEW j \in 1..n, RemovalOf(raw'[j], f.id)
      PROVE  \E i \in (j + 1)..n : Settles(raw'[i], f)
  <2>1. CASE f = q
    <3>1. CreationOf(raw'[n], q) /\ n \in 1..n
      BY <1>1, <1>2, <1>3, <1>7, <2>1
    <3>2. j # n
      BY <1>7, <3>1 DEF RemovalOf, CreationOf
    <3> QED BY <1>3, <2>1, <3>1, <3>2 DEF Settles
  <2>2. CASE f # q
    <3>1. f \in files /\ f.id # p.id
      BY <1>1, <2>2 DEF StoreInv, OneFile
    <3>2. j \in 1..Len(raw)
      BY <1>2, <1>7, <3>1 DEF RemovalOf
    <3>3. raw'[j] = raw[j]
      BY <1>2, <3>2 DEF Longer
    <3> QED BY <1>1, <1>2, <1>7, <3>1, <3>2, <3>3, LongerKeeps
  <2> QED BY <2>1, <2>2
<1>8. ASSUME NEW f \in files', f.id \notin strayed'
      PROVE  WillBeKnown(f)' \/ GapWritten(f)'
  <2>1. CASE f = q
    BY <1>1, <1>2, <1>3, <1>8, <2>1 DEF WillBeKnown, Settles
  <2>2. CASE f \in files
    BY <1>0, <1>1, <1>2, <1>8, <2>2, LongerKeeps, ChangeKeepsGap DEF StoreInv, FilesFollow
  <2> QED BY <1>1, <2>1, <2>2
<1>9. FilesFollow'
  BY <1>7, <1>8 DEF FilesFollow
<1> QED BY <1>4, <1>5, <1>6, <1>9

LEMMA RemoveFollows ==
  ASSUME TypeOK, StoreInv, NEW p \in Path, RemoveNote(p), Running
  PROVE  MonthsSeen' /\ RemovalsTrue' /\ GoneFollow' /\ FilesFollow'
<1> DEFINE a == [op |-> "remove", path |-> p]
<1>0. Change /\ raw \in Seq(Notice) /\ Returned
  BY DEF Change, TypeOK, Running
<1>1. /\ p \in files /\ files' = files \ {p} /\ gone' = gone \cup {p.id}
      /\ NoteIds \subseteq NoteIds' \cup {p.id} /\ NoteIds' \subseteq NoteIds
      /\ strayed \subseteq strayed' /\ (p.id \notin strayed' => p.month \in watched)
      /\ UNCHANGED <<months, watched, pc, known, fresh>> /\ Running'
  BY <1>0 DEF RemoveNote, held, NoteIds, Running, Returned, Stray
<1>2. /\ p.month \in watched => raw' = Append(raw, a)
      /\ p.month \notin watched => raw' = raw
      /\ a \in Notice /\ a.op = "remove" /\ a.path = p
  BY <1>0, SeenGrown DEF RemoveNote
<1> HIDE DEF a
<1>3. /\ Longer(raw, raw')
      /\ \A i \in 1..Len(raw') : i \in 1..Len(raw) \/ raw'[i] = a
      /\ p.month \in watched => \E i \in 1..Len(raw') : raw'[i] = a
  <2>1. CASE p.month \in watched
    BY <1>0, <1>2, <2>1, Grown
  <2>2. CASE p.month \notin watched
    BY <1>0, <1>2, <2>2, Unchanging
  <2> QED BY <2>1, <2>2
<1>4. MonthsSeen'
  BY <1>1, <1>3, LongerKeeps DEF MonthsSeen
<1>5. RemovalsTrue'
  BY <1>1, <1>2, <1>3 DEF StoreInv, RemovalsTrue, Longer
<1>6. GoneFollow'
  <2>1. ASSUME NEW id \in Ids \ (NoteIds' \cup strayed'), id \in known' \cup fresh'
        PROVE  (\E i \in 1..Len(raw') : RemovalOf(raw'[i], id)) \/ GapRemoved(id)'
    <3>1. CASE id = p.id
      BY <1>1, <1>2, <1>3, <2>1, <3>1 DEF RemovalOf
    <3>2. CASE id # p.id
      <4>1. id \notin NoteIds \cup strayed
        BY <1>1, <2>1, <3>2
      <4> QED BY <1>0, <1>1, <1>3, <2>1, <4>1, LongerKeeps, ChangeKeepsGap DEF StoreInv, GoneFollow
    <3> QED BY <3>1, <3>2
  <2> QED BY <2>1 DEF GoneFollow
<1>7. ASSUME NEW f \in files', f.id \notin strayed', NEW j \in 1..Len(raw'), RemovalOf(raw'[j], f.id)
      PROVE  \E i \in (j + 1)..Len(raw') : Settles(raw'[i], f)
  <2>1. f \in files /\ f.id # p.id
    BY <1>1 DEF StoreInv, OneFile
  <2>2. j \in 1..Len(raw)
    BY <1>2, <1>3, <1>7, <2>1 DEF RemovalOf
  <2>3. raw'[j] = raw[j]
    BY <1>3, <2>2 DEF Longer
  <2> QED BY <1>1, <1>3, <1>7, <2>1, <2>2, <2>3, LongerKeeps
<1>8. ASSUME NEW f \in files', f.id \notin strayed'
      PROVE  WillBeKnown(f)' \/ GapWritten(f)'
  BY <1>0, <1>1, <1>3, <1>8, LongerKeeps, ChangeKeepsGap DEF StoreInv, FilesFollow
<1>9. FilesFollow'
  BY <1>7, <1>8 DEF FilesFollow
<1> QED BY <1>4, <1>5, <1>6, <1>9

LEMMA MonthFollows ==
  ASSUME TypeOK, StoreInv, NEW m \in Months, MakeMonth(m), Running
  PROVE  MonthsSeen' /\ RemovalsTrue' /\ GoneFollow' /\ FilesFollow'
<1> DEFINE a == [op |-> "mkdir", month |-> m]
<1>0. Change /\ raw \in Seq(Notice) /\ Returned
  BY DEF Change, TypeOK, Running
<1>1. /\ months' = months \cup {m} /\ raw' = Append(raw, a) /\ NoteIds' = NoteIds
      /\ UNCHANGED <<files, gone, strayed, watched, pc, known, fresh>> /\ Running'
  BY <1>0 DEF MakeMonth, held, NoteIds, Running, Returned
<1>2. a \in Notice /\ a.op = "mkdir" /\ a.month = m
  BY DEF Notice
<1> HIDE DEF a
<1>3. /\ Longer(raw, raw')
      /\ \A i \in 1..Len(raw') : i \in 1..Len(raw) \/ raw'[i] = a
      /\ \E i \in 1..Len(raw') : raw'[i] = a
  <2>1. /\ Longer(raw, raw')
        /\ Len(raw) + 1 \in 1..Len(raw') /\ raw'[Len(raw) + 1] = a
        /\ \A i \in 1..Len(raw') : i \in 1..Len(raw) \/ raw'[i] = a
    <3>1. raw' = Append(raw, a) /\ a \in Notice /\ raw \in Seq(Notice)
      BY <1>0, <1>1, <1>2
    <3> QED BY <3>1, Grown
  <2> QED BY <2>1
<1>4. MonthsSeen'
  BY <1>1, <1>2, <1>3, LongerKeeps DEF MonthsSeen
<1>5. RemovalsTrue'
  BY <1>1, <1>2, <1>3 DEF StoreInv, RemovalsTrue, Longer
<1>6. GoneFollow'
  <2>1. ASSUME NEW id \in Ids \ (NoteIds' \cup strayed'), id \in known' \cup fresh'
        PROVE  (\E i \in 1..Len(raw') : RemovalOf(raw'[i], id)) \/ GapRemoved(id)'
    BY <1>0, <1>1, <1>3, <2>1, LongerKeeps, ChangeKeepsGap DEF StoreInv, GoneFollow
  <2> QED BY <2>1 DEF GoneFollow
<1>7. ASSUME NEW f \in files, f.id \notin strayed, NEW j \in 1..Len(raw'), RemovalOf(raw'[j], f.id)
      PROVE  \E i \in (j + 1)..Len(raw') : Settles(raw'[i], f)
  <2>1. j \in 1..Len(raw)
    BY <1>2, <1>3, <1>7 DEF RemovalOf
  <2>2. raw'[j] = raw[j]
    BY <1>3, <2>1 DEF Longer
  <2> QED BY <1>1, <1>3, <1>7, <2>1, <2>2, LongerKeeps
<1>8. ASSUME NEW f \in files, f.id \notin strayed
      PROVE  WillBeKnown(f)' \/ GapWritten(f)'
  BY <1>0, <1>1, <1>3, <1>8, LongerKeeps, ChangeKeepsGap DEF StoreInv, FilesFollow
<1>9. FilesFollow'
  BY <1>1, <1>7, <1>8 DEF FilesFollow
<1> QED BY <1>4, <1>5, <1>6, <1>9

LEMMA ChangeFollows ==
  ASSUME TypeOK, StoreInv, Change
  PROVE  StoreInv'
<1>1. OneFile' /\ Existed' /\ Before' /\ NoteIds \subseteq NoteIds' \cup gone'
  BY ChangeKeepsFiles
<1>2. CASE Running
  BY <1>1, <1>2, WriteFollows, MoveFollows, RemoveFollows, MonthFollows DEF Change, StoreInv
<1>3. CASE ~Running
  <2>1. ~Returned /\ raw' = raw /\ ~Running' /\ raw = <<>>
    <3>1. MayChange /\ pc' = pc
      BY DEF Change, WriteNote, MoveNote, RemoveNote, MakeMonth
    <3>2. ~Returned
      BY <1>3, <3>1 DEF MayChange, Running, Returned
    <3> QED BY <1>3, <3>1, <3>2, ChangeBefore DEF Running, Returned, StoreInv, Before
  <2>2. RemovalsTrue'
    BY <2>1, EmptySeq DEF RemovalsTrue
  <2> QED BY <1>1, <2>1, <2>2 DEF StoreInv, MonthsSeen, GoneFollow, FilesFollow
<1> QED BY <1>2, <1>3

-----------------------------------------------------------------------------
(* The watcher's own steps.                                                *)

\* The first notice is taken.
LEMMA Taken ==
  ASSUME TypeOK, NEW ops, Take(ops)
  PROVE  /\ Len(raw) \in Nat /\ Len(raw) > 0 /\ Len(raw') = Len(raw) - 1
         /\ Head(raw) = raw[1]
         /\ \A i \in 1..Len(raw') : raw'[i] = raw[i + 1]
         /\ \A i \in 1..Len(raw) : i = 1 \/ (i - 1 \in 1..Len(raw') /\ raw'[i - 1] = raw[i])
<1>1. raw \in Seq(Notice) /\ raw # <<>> /\ raw' = Tail(raw)
  BY DEF Take, TypeOK
<1>2. /\ Len(raw) \in Nat /\ Len(raw) > 0 /\ Len(raw') = Len(raw) - 1
      /\ Head(raw) = raw[1]
      /\ \A i \in 1..Len(raw') : raw'[i] = raw[i + 1]
  BY <1>1, HeadTailProperties, LenProperties
<1>3. ASSUME NEW i \in 1..Len(raw), i # 1
      PROVE  i - 1 \in 1..Len(raw') /\ raw'[i - 1] = raw[i]
  BY <1>2, <1>3
<1> QED BY <1>2, <1>3

\* The removals that are still to be taken are still followed.
LEMMA TakenKeeps ==
  ASSUME TypeOK, StoreInv, Running, NEW ops, Take(ops),
         NEW p \in files, p.id \notin strayed, NEW j \in 1..Len(raw'), RemovalOf(raw'[j], p.id)
  PROVE  \E i \in (j + 1)..Len(raw') : Settles(raw'[i], p)
<1>1. /\ Len(raw) \in Nat /\ Len(raw) > 0 /\ Len(raw') = Len(raw) - 1
      /\ \A i \in 1..Len(raw') : raw'[i] = raw[i + 1]
      /\ \A i \in 1..Len(raw) : i = 1 \/ (i - 1 \in 1..Len(raw') /\ raw'[i - 1] = raw[i])
  BY Taken
<1>2. j + 1 \in 1..Len(raw) /\ RemovalOf(raw[j + 1], p.id)
  BY <1>1
<1>3. PICK i \in (j + 2)..Len(raw) : Settles(raw[i], p)
  <2>1. \E i \in ((j + 1) + 1)..Len(raw) : Settles(raw[i], p)
    BY <1>2 DEF StoreInv, FilesFollow
  <2> QED BY <1>1, <2>1
<1>4. i \in 1..Len(raw) /\ i # 1 /\ i - 1 \in (j + 1)..Len(raw')
  BY <1>1, <1>3
<1> QED BY <1>1, <1>3, <1>4

\* A notice about a file makes known what is there and forgets what is not, but
\* for a note that was moved and is known again by a later one.
LEMMA NoticeFollows ==
  ASSUME TypeOK, StoreInv, [Next]_vars, IgnoreNotice \/ HandleNotice
  PROVE  StoreInv'
<1> DEFINE h == raw[1]
<1>1. /\ Take({"create", "remove"}) /\ pc = "loop" /\ pc' = "loop" /\ Running /\ Running'
      /\ told' = told /\ reader' = reader
  BY DEF IgnoreNotice, HandleNotice, Take, Running, Returned
<1>2. UNCHANGED <<files, gone, strayed, months, watched, fresh>> /\ NoteIds' = NoteIds
  BY DEF IgnoreNotice, HandleNotice, outside, NoteIds
<1>3. /\ Len(raw) \in Nat /\ Len(raw) > 0 /\ Len(raw') = Len(raw) - 1
      /\ Head(raw) = h
      /\ \A i \in 1..Len(raw') : raw'[i] = raw[i + 1]
      /\ \A i \in 1..Len(raw) : i = 1 \/ (i - 1 \in 1..Len(raw') /\ raw'[i - 1] = raw[i])
  BY <1>1, Taken
<1>4. h.op \in {"create", "remove"} /\ fresh = {}
  BY <1>1, <1>3 DEF Take, StoreInv, OneFile
<1>5. /\ h.op = "remove" => known' = known \ {h.path.id}
      /\ h.op = "create" => known' = IF h.path \in files THEN known \cup {h.path.id} ELSE known
  <2>1. CASE IgnoreNotice
    BY <1>3, <1>4, <2>1 DEF IgnoreNotice, Classify
  <2>2. CASE HandleNotice
    BY <1>3, <1>4, <2>2 DEF HandleNotice, Classify
  <2> QED BY <2>1, <2>2
<1> HIDE DEF h
<1>6. OneFile'
  BY <1>1, <1>2 DEF StoreInv, OneFile
<1>7. Existed'
  <2>1. h.op = "create" /\ h.path \in files => h.path.id \in NoteIds
    BY NoteIdsMember
  <2> QED BY <1>1, <1>2, <1>4, <1>5, <2>1 DEF StoreInv, Existed
<1>8. Before'
  BY <1>1 DEF StoreInv, Before, reader
<1>9. MonthsSeen'
  <2>1. ASSUME NEW m \in months \ watched
        PROVE  \E i \in 1..Len(raw') : raw'[i].op = "mkdir" /\ raw'[i].month = m
    <3>1. PICK i \in 1..Len(raw) : raw[i].op = "mkdir" /\ raw[i].month = m
      BY <1>1 DEF StoreInv, MonthsSeen
    <3>2. i # 1
      BY <1>4, <3>1 DEF h
    <3> QED BY <1>3, <3>1, <3>2
  <2> QED BY <1>2, <2>1 DEF MonthsSeen
<1>10. RemovalsTrue'
  BY <1>2, <1>3 DEF StoreInv, RemovalsTrue
<1>11. GoneFollow'
  <2>1. ASSUME NEW id \in Ids \ (NoteIds \cup strayed), id \in known'
        PROVE  (\E i \in 1..Len(raw') : RemovalOf(raw'[i], id)) \/ GapRemoved(id)'
    <3>1. id \in known
      <4>1. h.op = "create" /\ h.path \in files => h.path.id \in NoteIds
        BY NoteIdsMember
      <4> QED BY <1>4, <1>5, <2>1, <4>1
    <3>2. CASE GapRemoved(id)
      BY <1>1, <2>1, <3>2, GapRemovedKept
    <3>3. CASE \E i \in 1..Len(raw) : RemovalOf(raw[i], id)
      <4>1. PICK i \in 1..Len(raw) : RemovalOf(raw[i], id)
        BY <3>3
      <4>2. i # 1
        BY <1>5, <2>1, <4>1 DEF RemovalOf, h
      <4> QED BY <1>3, <4>1, <4>2
    <3> QED BY <1>1, <2>1, <3>1, <3>2, <3>3 DEF StoreInv, GoneFollow
  <2> QED BY <1>2, <1>4, <2>1 DEF GoneFollow
<1>12. ASSUME NEW p \in files, p.id \notin strayed
       PROVE  WillBeKnown(p)' \/ GapWritten(p)'
  <2>1. CASE GapWritten(p)
    BY <1>1, <1>2, <2>1, GapWrittenKept DEF WillBeKnown
  <2>2. CASE p.id \in known /\ p.id \notin known'
    <3>1. RemovalOf(h, p.id)
      BY <1>4, <1>5, <2>2 DEF RemovalOf
    <3>2. 1 \in 1..Len(raw) /\ RemovalOf(raw[1], p.id)
      BY <1>3, <3>1 DEF h
    <3>3. PICK i \in (1 + 1)..Len(raw) : Settles(raw[i], p)
      BY <1>1, <1>12, <3>2 DEF StoreInv, FilesFollow
    <3>4. i \in 1..Len(raw) /\ i # 1
      BY <1>3, <3>3
    <3> QED BY <1>3, <3>3, <3>4 DEF WillBeKnown
  <2>3. CASE p.id \notin known /\ \E i \in 1..Len(raw) : Settles(raw[i], p)
    <3>1. PICK i \in 1..Len(raw) : Settles(raw[i], p)
      BY <2>3
    <3>2. CASE i = 1
      <4>1. h.op = "create" /\ h.path = p
        BY <1>4, <3>1, <3>2 DEF Settles, CreationOf, h
      <4> QED BY <1>5, <4>1 DEF WillBeKnown
    <3> QED BY <1>3, <3>1, <3>2 DEF WillBeKnown
  <2> QED BY <1>1, <1>4, <1>12, <2>1, <2>2, <2>3 DEF StoreInv, FilesFollow, WillBeKnown
<1>13. FilesFollow'
  BY <1>1, <1>2, <1>12, TakenKeeps DEF FilesFollow
<1> QED BY <1>6, <1>7, <1>8, <1>9, <1>10, <1>11, <1>13 DEF StoreInv

\* A new month is watched from now on, and searched next.
LEMMA NewMonthFollows ==
  ASSUME TypeOK, StoreInv, [Next]_vars, AddCreatedDir
  PROVE  StoreInv'
<1>1. Take({"mkdir"}) /\ pc' = "discover" /\ Running /\ Running' /\ UNCHANGED <<told, reader>>
  BY DEF AddCreatedDir, Take, Running, Returned
<1>2. UNCHANGED <<files, gone, strayed, months, known, fresh>> /\ NoteIds' = NoteIds
  BY DEF AddCreatedDir, outside, held, NoteIds
<1>3. /\ Len(raw) \in Nat /\ Len(raw) > 0 /\ Len(raw') = Len(raw) - 1
      /\ Head(raw) = raw[1]
      /\ \A i \in 1..Len(raw') : raw'[i] = raw[i + 1]
      /\ \A i \in 1..Len(raw) : i = 1 \/ (i - 1 \in 1..Len(raw') /\ raw'[i - 1] = raw[i])
  BY <1>1, Taken
<1>4. raw[1].op = "mkdir" /\ watched' = watched \cup {raw[1].month} /\ fresh = {}
  BY <1>1, <1>3 DEF Take, AddCreatedDir, StoreInv, OneFile
<1>5. OneFile' /\ Existed' /\ Before'
  BY <1>1, <1>2, <1>4 DEF StoreInv, OneFile, Existed, Before, reader
<1>6. MonthsSeen'
  <2>1. ASSUME NEW m \in months \ watched'
        PROVE  \E i \in 1..Len(raw') : raw'[i].op = "mkdir" /\ raw'[i].month = m
    <3>1. PICK i \in 1..Len(raw) : raw[i].op = "mkdir" /\ raw[i].month = m
      BY <1>1, <1>4, <2>1 DEF StoreInv, MonthsSeen
    <3>2. i # 1
      BY <1>4, <2>1, <3>1
    <3> QED BY <1>3, <3>1, <3>2
  <2> QED BY <1>2, <2>1 DEF MonthsSeen
<1>7. RemovalsTrue'
  BY <1>2, <1>3 DEF StoreInv, RemovalsTrue
<1>8. GoneFollow'
  <2>1. ASSUME NEW id \in Ids \ (NoteIds \cup strayed), id \in known
        PROVE  (\E i \in 1..Len(raw') : RemovalOf(raw'[i], id)) \/ GapRemoved(id)'
    <3>1. CASE GapRemoved(id)
      BY <1>1, <1>2, <2>1, <3>1, GapRemovedKept
    <3>2. CASE \E i \in 1..Len(raw) : RemovalOf(raw[i], id)
      <4>1. PICK i \in 1..Len(raw) : RemovalOf(raw[i], id)
        BY <3>2
      <4>2. i # 1
        BY <1>4, <4>1 DEF RemovalOf
      <4> QED BY <1>3, <4>1, <4>2
    <3> QED BY <1>1, <2>1, <3>1, <3>2 DEF StoreInv, GoneFollow
  <2> QED BY <1>2, <1>4, <2>1 DEF GoneFollow
<1>9. FilesFollow'
  BY <1>1, <1>2, TakenKeeps DEF FilesFollow, WillBeKnown
<1> QED BY <1>5, <1>6, <1>7, <1>8, <1>9 DEF StoreInv

\* What is discovered is reported and then known.
LEMMA DiscoveryFollows ==
  ASSUME TypeOK, StoreInv, [Next]_vars, DiscoverWatchCreates \/ Report
  PROVE  StoreInv'
<1>1. /\ UNCHANGED <<files, gone, strayed, months, watched, raw, told, reader>> /\ NoteIds' = NoteIds
      /\ pc' = "report" /\ Running /\ Running'
  BY DEF DiscoverWatchCreates, Report, outside, kernel, NoteIds, Running, Returned
<1>2. known' \cup fresh' \subseteq known \cup fresh \cup NoteIds
  BY DEF DiscoverWatchCreates, Report
<1>3. /\ DiscoverWatchCreates => NoteIds \subseteq known' \cup fresh'
      /\ Report => known \cup fresh \subseteq known' \cup fresh' /\ pc # "discover"
  BY DEF DiscoverWatchCreates, Report
<1>4. OneFile' /\ Existed' /\ Before' /\ MonthsSeen' /\ RemovalsTrue'
  BY <1>1, <1>2 DEF StoreInv, OneFile, Existed, Before, MonthsSeen, RemovalsTrue, reader
<1>5. GoneFollow'
  <2>1. ASSUME NEW id \in Ids \ (NoteIds \cup strayed), id \in known' \cup fresh'
        PROVE  (\E i \in 1..Len(raw) : RemovalOf(raw[i], id)) \/ GapRemoved(id)'
    BY <1>1, <1>2, <2>1, GapRemovedKept DEF StoreInv, GoneFollow
  <2> QED BY <1>1, <2>1 DEF GoneFollow
<1>6. ASSUME NEW p \in files, p.id \notin strayed
      PROVE  WillBeKnown(p)' \/ GapWritten(p)'
  <2>1. CASE DiscoverWatchCreates
    BY <1>3, <2>1, NoteIdsMember DEF WillBeKnown
  <2>2. CASE Report
    <3>1. CASE GapWritten(p)
      BY <1>1, <3>1, GapWrittenKept DEF WillBeKnown
    <3>2. CASE WillBeKnown(p)
      BY <1>1, <1>3, <2>2, <3>2 DEF WillBeKnown
    <3> QED BY <1>1, <1>6, <3>1, <3>2 DEF StoreInv, FilesFollow
  <2> QED BY <2>1, <2>2
<1>7. FilesFollow'
  BY <1>1, <1>6 DEF StoreInv, FilesFollow
<1> QED BY <1>4, <1>5, <1>7 DEF StoreInv

\* When the watches are there, all that the first scan does not tell happened
\* before them, and nothing is listed yet.
LEMMA WatchFollows ==
  ASSUME TypeOK, StoreInv, AddWatchDirs
  PROVE  StoreInv'
<1>1. /\ pc = "arm" /\ watched' = months /\ pc' = "loop"
      /\ UNCHANGED <<files, gone, strayed, months, raw, known, fresh, told, pending, out, reader>>
      /\ NoteIds' = NoteIds
  BY DEF AddWatchDirs, outside, held, NoteIds
<1>2. raw = <<>> /\ Len(raw) = 0 /\ out = <<>> /\ Len(out) = 0 /\ fresh = {} /\ pending = Nothing
      /\ ~listing /\ view = {}
  BY <1>1, EmptySeq DEF StoreInv, OneFile, Before
<1>3. \A id \in Ids : Untold(id)'
  BY <1>1, <1>2 DEF Untold, Unsent, Nothing
<1>4. OneFile' /\ Existed' /\ Before' /\ MonthsSeen' /\ RemovalsTrue'
  BY <1>1, <1>2 DEF StoreInv, OneFile, Existed, Before, MonthsSeen, RemovalsTrue, reader
<1>5. GoneFollow'
  BY <1>1, <1>2, <1>3 DEF GoneFollow, GapRemoved, reader
<1>6. \A p \in files : p.id \in known' \cup fresh' \/ GapWritten(p)'
  BY <1>1, <1>2, <1>3 DEF GapWritten, Read, reader, TypeOK, Path
<1>7. FilesFollow'
  BY <1>1, <1>2, <1>6 DEF FilesFollow, WillBeKnown
<1> QED BY <1>4, <1>5, <1>7 DEF StoreInv

\* The other steps of the watcher, and those of the consumer.
LEMMA OthersFollow ==
  ASSUME IndInv, StoreInv, [Next]_vars,
         \/ UNCHANGED vars \/ Reported \/ TimerExpires \/ Send \/ SkipCancelled \/ Flushed
         \/ Stop \/ List \/ Receive \/ Close
  PROVE  StoreInv'
<1>0. TypeOK /\ \A id \in Ids : Difference(id)
  BY DEF IndInv
<1>1. UNCHANGED <<files, gone, strayed, months, watched, raw, known, fresh>> /\ NoteIds' = NoteIds
  BY DEF vars, Reported, TimerExpires, Send, SkipCancelled, Flushed, Stop, List, ListMonths, ListMonth,
         Receive, Close, outside, kernel, held, NoteIds
<1>2. /\ pc' = pc \/ (pc \notin {"scan", "arm", "discover"} /\ pc' \notin {"scan", "arm", "discover"})
      /\ Running' => Running
      /\ pc' # "report" => pc # "report" \/ fresh = {}
  BY DEF vars, Reported, TimerExpires, Send, SkipCancelled, Flushed, Stop, List, ListMonths, ListMonth,
         Receive, Close, Running, Returned
<1>3. Existed'
  <2>1. CASE Send
    <3>1. /\ told' \subseteq told \cup {order[sent + 1]}
          /\ order[sent + 1] \in told' => order[sent + 1] \in told \/ pending[order[sent + 1]] # "deleted"
      BY <2>1 DEF Send
    <3>2. order[sent + 1] \in told' => order[sent + 1] \in told \cup known
      <4>1. order[sent + 1] \in Ids /\ sent + 1 \in 1..Len(order)
        BY <1>0, <2>1, SendAdds, LenProperties DEF Send, TypeOK
      <4>2. Waiting(order[sent + 1])
        <5>1. \A i \in 1..sent : order[i] # order[sent + 1]
          BY <1>0, <4>1 DEF IndInv, Ordered, TypeOK
        <5> QED BY <2>1, <5>1 DEF Send, Waiting
      <4> QED BY <1>0, <3>1, <4>1, <4>2 DEF Difference, TypeOK, Kinds, Waiting
    <3> QED BY <1>1, <3>1, <3>2 DEF StoreInv, Existed
  <2>2. CASE ~Send
    <3>1. told' = told
      BY <2>2 DEF vars, Reported, TimerExpires, SkipCancelled, Flushed, Stop, List, ListMonths, ListMonth,
             Receive, Close
    <3> QED BY <1>1, <3>1 DEF StoreInv, Existed
  <2> QED BY <2>1, <2>2
<1>4. Before'
  <2>1. CASE pc \in {"scan", "arm"}
    <3>1. /\ out = <<>> /\ pending = Nothing /\ ~listing /\ view = {} /\ unlisted = {} /\ raw = <<>>
          /\ watched = {}
      BY <2>1 DEF StoreInv, Before
    <3>2. ~Reported /\ ~TimerExpires /\ ~Send /\ ~SkipCancelled /\ ~Flushed
      BY <2>1 DEF Reported, TimerExpires, Send, SkipCancelled, Flushed
    <3>3. ~List /\ ~Receive /\ ~Close
      BY <2>1, <3>1 DEF List, ListMonths, ListMonth, Receive, Listed, Close, Returned
    <3>4. UNCHANGED <<out, pending, listing, unlisted, view>>
      BY <3>2, <3>3 DEF vars, Stop, held, reader
    <3> QED BY <1>1, <1>2, <3>1, <3>4 DEF Before
  <2>2. CASE pc \notin {"scan", "arm"}
    <3>1. ~listing' => ~listing /\ view' = view /\ unlisted' = unlisted
      <4>1. CASE List
        BY <4>1 DEF List, ListMonths, ListMonth, StoreInv, Before
      <4>2. CASE Receive
        BY <4>2 DEF Receive, Listed
      <4> QED BY <4>1, <4>2, ReaderSteps DEF reader
    <3> QED BY <1>2, <2>2, <3>1 DEF StoreInv, Before
  <2> QED BY <2>1, <2>2
<1>5. OneFile' /\ MonthsSeen' /\ RemovalsTrue'
  BY <1>1, <1>2 DEF StoreInv, OneFile, MonthsSeen, RemovalsTrue
<1>6. GoneFollow'
  <2>1. ASSUME Running, NEW id \in Ids \ (NoteIds \cup strayed), id \in known \cup fresh
        PROVE  (\E i \in 1..Len(raw) : RemovalOf(raw[i], id)) \/ GapRemoved(id)'
    BY <1>0, <1>1, <2>1, GapRemovedKept DEF StoreInv, GoneFollow
  <2> QED BY <1>1, <1>2, <2>1 DEF GoneFollow
<1>7. ASSUME Running, NEW p \in files, p.id \notin strayed
      PROVE  WillBeKnown(p)' \/ GapWritten(p)'
  <2>1. CASE GapWritten(p)
    BY <1>0, <1>1, <1>7, <2>1, GapWrittenKept DEF WillBeKnown
  <2>2. CASE WillBeKnown(p)
    BY <1>1, <1>2, <2>2 DEF WillBeKnown
  <2> QED BY <1>7, <2>1, <2>2 DEF StoreInv, FilesFollow
<1>8. FilesFollow'
  BY <1>1, <1>2, <1>7 DEF StoreInv, FilesFollow
<1> QED BY <1>3, <1>4, <1>5, <1>6, <1>8 DEF StoreInv

LEMMA StoreKept ==
  ASSUME IndInv, StoreInv, [Next]_vars
  PROVE  StoreInv'
<1>0. TypeOK
  BY DEF IndInv
<1>1. CASE WatchKnownIDs
  <2>1. /\ ~Running' /\ UNCHANGED <<files, gone, months, watched, raw, fresh, pending, out, reader>>
        /\ NoteIds' = NoteIds /\ pc = "scan" /\ known' = NoteIds /\ told' = NoteIds
    BY <1>1 DEF WatchKnownIDs, Running, Returned, outside, kernel, NoteIds
  <2>2. OneFile' /\ Existed' /\ Before'
    BY <2>1 DEF StoreInv, OneFile, Existed, Before, reader
  <2> QED BY <2>1, <2>2 DEF StoreInv, MonthsSeen, RemovalsTrue, GoneFollow, FilesFollow
<1>2. CASE AddWatchDirs
  BY <1>0, <1>2, WatchFollows
<1>3. CASE Change
  BY <1>0, <1>3, ChangeFollows
<1>4. CASE IgnoreNotice \/ HandleNotice \/ AddCreatedDir \/ DiscoverWatchCreates \/ Report
  BY <1>0, <1>4, NoticeFollows, NewMonthFollows, DiscoveryFollows
<1>5. CASE \/ UNCHANGED vars \/ Reported \/ TimerExpires \/ Send \/ SkipCancelled \/ Flushed
           \/ Stop \/ List \/ Receive \/ Close
  BY <1>5, OthersFollow
<1> QED BY <1>1, <1>2, <1>3, <1>4, <1>5 DEF Next, Watch, Loop

-----------------------------------------------------------------------------
(* What the consumer makes of it.                                          *)

LEMMA SentIsBehind ==
  ASSUME TypeOK, Send, NEW id \in Ids, Behind(id)
  PROVE  Behind(id)'
<1> DEFINE it == order[sent + 1]
           e  == [type |-> pending[it], id |-> it]
           n  == Len(out)
<1>1. /\ it \in Ids /\ e.id = it
      /\ n \in Nat /\ Len(out') = n + 1 /\ out'[n + 1] = e
      /\ \A i \in 1..n : i \in 1..(n + 1) /\ out'[i] = out[i]
      /\ \A i \in 1..(n + 1) : i \in 1..n \/ i = n + 1
  BY SendAdds
<1>2. /\ UNCHANGED <<view, unheard>>
      /\ told' = IF e.type = "deleted" THEN told \ {it} ELSE told \cup {it}
  BY DEF Send, reader
<1> HIDE DEF e, it
<1>3. /\ n + 1 \in 1..(n + 1)
      /\ \A i \in 1..n : n + 1 \in (i + 1)..(n + 1)
      /\ \A i \in 1..n : \A j \in (i + 1)..n : j \in (i + 1)..(n + 1) /\ j \in 1..n
  BY <1>1
<1>4. CASE id = it
  <2>1. ~Unsent(id)'
    BY <1>1, <1>3, <1>4 DEF Unsent
  <2>2. ASSUME NEW i \in 1..Len(out'), \A j \in (i + 1)..Len(out') : out'[j].id # id
        PROVE  id \in told' <=> out'[i].type # "deleted"
    <3>1. i = n + 1
      BY <1>1, <1>3, <1>4, <2>2
    <3> QED BY <1>1, <1>2, <1>4, <3>1
  <2> QED BY <2>1, <2>2 DEF Behind
<1>5. CASE id # it
  <2>1. id \in told' <=> id \in told
    BY <1>2, <1>5
  <2>2. Unsent(id)' /\ id \in view' => id \in told' \cup unheard'
    BY <1>1, <1>2, <2>1 DEF Behind, Unsent
  <2>3. ASSUME NEW i \in 1..Len(out'), out'[i].id = id, \A j \in (i + 1)..Len(out') : out'[j].id # id
        PROVE  id \in told' <=> out'[i].type # "deleted"
    <3>1. i \in 1..n /\ out'[i] = out[i]
      BY <1>1, <1>5, <2>3
    <3>2. \A j \in (i + 1)..n : out[j].id # id
      BY <1>1, <1>3, <2>3, <3>1
    <3> QED BY <2>1, <2>3, <3>1, <3>2 DEF Behind
  <2> QED BY <2>2, <2>3 DEF Behind
<1> QED BY <1>4, <1>5

LEMMA ReceivedIsBehind ==
  ASSUME TypeOK, Receive, NEW id \in Ids, Behind(id)
  PROVE  Behind(id)'
<1> DEFINE e == out[1]
           n == Len(out)
<1>1. /\ n \in Nat /\ n > 0 /\ Len(out') = n - 1 /\ Head(out) = e /\ e \in Event
      /\ \A i \in 1..Len(out') : i + 1 \in 1..n /\ out'[i] = out[i + 1]
      /\ \A i \in 1..n : i = 1 \/ (i - 1 \in 1..Len(out') /\ out'[i - 1] = out[i])
  BY ReceiveTakes
<1>2. /\ told' = told
      /\ view' = IF e.type = "deleted" THEN view \ {e.id} ELSE view \cup {e.id}
      /\ unheard' = unheard \ {e.id}
  BY <1>1 DEF Receive
<1>3. Unsent(id)' /\ id \in view' => id \in told' \cup unheard'
  <2> SUFFICES ASSUME Unsent(id)', id \in view' PROVE id \in told \cup unheard'
    BY <1>2
  <2>1. \A i \in 1..n : i = 1 \/ out[i].id # id
    BY <1>1 DEF Unsent
  <2>2. CASE e.id = id
    <3>1. 1 \in 1..n /\ \A j \in (1 + 1)..n : out[j].id # id
      BY <1>1, <2>1
    <3>2. id \in told <=> e.type # "deleted"
      BY <2>2, <3>1 DEF Behind
    <3> QED BY <1>2, <2>2, <3>2
  <2>3. CASE e.id # id
    <3>1. Unsent(id)
      BY <2>1, <2>3 DEF Unsent
    <3> QED BY <1>2, <2>3, <3>1 DEF Behind
  <2> QED BY <2>2, <2>3
<1>4. ASSUME NEW i \in 1..Len(out'), out'[i].id = id, \A j \in (i + 1)..Len(out') : out'[j].id # id
      PROVE  id \in told' <=> out'[i].type # "deleted"
  <2>1. i + 1 \in 1..n /\ out'[i] = out[i + 1]
    BY <1>1
  <2>2. ASSUME NEW j \in ((i + 1) + 1)..n
        PROVE  out[j].id # id
    <3>1. j - 1 \in (i + 1)..Len(out') /\ j \in 1..n /\ j # 1
      BY <1>1
    <3>2. out'[j - 1] = out[j]
      BY <1>1, <3>1
    <3> QED BY <1>4, <3>1, <3>2
  <2> QED BY <1>2, <1>4, <2>1, <2>2 DEF Behind
<1> QED BY <1>3, <1>4 DEF Behind

\* Only these steps change what the events tell.
LEMMA ToldSteps ==
  ASSUME [Next]_vars, ~WatchKnownIDs, ~Send
  PROVE  told' = told
BY DEF Next, vars, Change, WriteNote, MoveNote, RemoveNote, MakeMonth, Watch, AddWatchDirs,
       Loop, IgnoreNotice, HandleNotice, AddCreatedDir, DiscoverWatchCreates, Report, Reported,
       TimerExpires, SkipCancelled, Flushed, Stop, List, ListMonths, ListMonth, Receive, Close

LEMMA BehindKept ==
  ASSUME TypeOK, StoreInv, [Next]_vars, NEW id \in Ids, Behind(id)
  PROVE  Behind(id)'
<1>1. CASE Send
  BY <1>1, SentIsBehind
<1>2. CASE Receive
  BY <1>2, ReceivedIsBehind
<1>3. CASE WatchKnownIDs
  <2>1. out' = <<>> /\ Len(out') = 0 /\ view' = {}
    BY <1>3, EmptySeq DEF WatchKnownIDs, StoreInv, Before, reader
  <2> QED BY <2>1 DEF Behind
<1>4. CASE ~Send /\ ~Receive /\ ~WatchKnownIDs
  <2>1. out' = out /\ told' = told
    BY <1>4, OutSteps, ToldSteps
  <2>2. id \in view' => (id \in view \/ id \in told \cup unheard') /\ unheard \subseteq unheard'
    <3>1. CASE ListMonths
      BY <3>1 DEF ListMonths
    <3>2. ASSUME NEW m \in Months, ListMonth(m)
          PROVE  id \in view' => (id \in view \/ id \in told \cup unheard') /\ unheard \subseteq unheard'
      BY <3>2 DEF ListMonth
    <3>3. CASE UNCHANGED reader
      BY <3>3 DEF reader
    <3> QED BY <1>4, <3>1, <3>2, <3>3, ReaderSteps DEF List
  <2> QED BY <2>1, <2>2 DEF Behind, Unsent
<1> QED BY <1>1, <1>2, <1>3, <1>4

\* An event that is waiting is sent, or replaced by another.
LEMMA WaitingKept ==
  ASSUME IndInv, [Next]_vars, NEW id \in Ids, Waiting(id), id \in told \/ Report,
         Send => order[sent + 1] # id
  PROVE  Waiting(id)'
<1>0. TypeOK /\ Ordered /\ Difference(id)
  BY DEF IndInv
<1>1. CASE HandleNotice
  <2>1. sent = 0 /\ sent' = 0 /\ Classify(Head(raw)) \in Kinds
    BY <1>0, <1>1 DEF HandleNotice, Take, Ordered, Classify, Kinds
  <2>2. id \in told /\ pending[id] \in {"updated", "deleted"}
    BY <1>0, <1>1 DEF HandleNotice, Take, Difference, TypeOK, Kinds, Waiting, Report
  <2>3. pending'[id] # "none"
    BY <1>0, <1>1, <2>1, <2>2 DEF HandleNotice, Hold, Coalesce, TypeOK, Kinds
  <2> QED BY <2>1, <2>3 DEF Waiting
<1>2. CASE Report
  <2>1. sent = 0 /\ sent' = 0
    BY <1>0, <1>2 DEF Report, Ordered
  <2>2. pending'[id] # "none"
    BY <1>0, <1>2 DEF Report, Hold, Coalesce, TypeOK, Waiting
  <2> QED BY <2>1, <2>2 DEF Waiting
<1>3. CASE Flushed
  <2>1. PICK i \in 1..Len(order) : order[i] = id
    BY <1>0 DEF Ordered, Waiting
  <2> QED BY <1>3, <2>1 DEF Flushed, Waiting
<1>4. CASE Send \/ SkipCancelled
  <2>1. /\ pending' = pending /\ order' = order /\ sent' = sent + 1 /\ sent \in Nat
        /\ order[sent + 1] # id
    BY <1>0, <1>4 DEF Send, SkipCancelled, Waiting, TypeOK
  <2> QED BY <2>1 DEF Waiting
<1>5. CASE ~HandleNotice /\ ~Report /\ ~Flushed /\ ~Send /\ ~SkipCancelled
  <2>1. UNCHANGED <<pending, order, sent>>
    BY <1>5 DEF Next, vars, held, Change, WriteNote, MoveNote, RemoveNote, MakeMonth, Watch, WatchKnownIDs,
         AddWatchDirs, Loop, IgnoreNotice, AddCreatedDir, DiscoverWatchCreates, Reported,
         TimerExpires, Stop, List, ListMonths, ListMonth, Receive, Close
  <2> QED BY <2>1 DEF Waiting
<1> QED BY <1>1, <1>2, <1>3, <1>4, <1>5

\* A notice of creation stays, or is taken and its event held back.
LEMMA CreationKept ==
  ASSUME IndInv, [Next]_vars, NEW p \in files, p \in files', p.id \in told,
         NEW i \in 1..Len(raw), CreationOf(raw[i], p)
  PROVE  Waiting(p.id)' \/ \E j \in 1..Len(raw') : CreationOf(raw'[j], p)
<1>0. TypeOK /\ Ordered /\ raw \in Seq(Notice) /\ p.id \in Ids
  BY DEF IndInv, TypeOK, Path
<1>1. CASE Change
  <2>1. Longer(raw, raw')
    <3>1. ASSUME NEW x \in Path, WriteNote(x)
          PROVE  Longer(raw, raw')
      <4>1. [op |-> "create", path |-> x] \in Notice
            /\ (raw' = raw \/ raw' = Append(raw, [op |-> "create", path |-> x]))
        BY <1>0, <3>1, SeenGrown DEF WriteNote
      <4> QED BY <1>0, <4>1, Grown, Unchanging
    <3>2. ASSUME NEW x \in Path, RemoveNote(x)
          PROVE  Longer(raw, raw')
      <4>1. [op |-> "remove", path |-> x] \in Notice
            /\ (raw' = raw \/ raw' = Append(raw, [op |-> "remove", path |-> x]))
        BY <1>0, <3>2, SeenGrown DEF RemoveNote
      <4> QED BY <1>0, <4>1, Grown, Unchanging
    <3>3. ASSUME NEW x \in Path, NEW y \in Path, MoveNote(x, y)
          PROVE  Longer(raw, raw')
      <4> DEFINE r == raw \o Seen("remove", x)
      <4>1. [op |-> "remove", path |-> x] \in Notice
            /\ (r = raw \/ r = Append(raw, [op |-> "remove", path |-> x]))
        BY <1>0, SeenGrown
      <4>2. r \in Seq(Notice) /\ Longer(raw, r)
        BY <1>0, <4>1, Grown, Unchanging
      <4> HIDE DEF r
      <4>3. [op |-> "create", path |-> y] \in Notice
            /\ (raw' = r \/ raw' = Append(r, [op |-> "create", path |-> y]))
        BY <3>3, <4>2, SeenGrown DEF MoveNote, r
      <4>4. Longer(r, raw')
        BY <4>2, <4>3, Grown, Unchanging
      <4> QED BY <4>2, <4>4 DEF Longer
    <3>4. ASSUME NEW m \in Months, MakeMonth(m)
          PROVE  Longer(raw, raw')
      <4>1. [op |-> "mkdir", month |-> m] \in Notice
            /\ (raw' = raw \/ raw' = Append(raw, [op |-> "mkdir", month |-> m]))
        BY <3>4 DEF MakeMonth, Notice
      <4> QED BY <1>0, <4>1, Grown, Unchanging
    <3> QED BY <1>1, <3>1, <3>2, <3>3, <3>4 DEF Change
  <2> QED BY <2>1 DEF Longer
<1>2. ASSUME NEW ops, Take(ops), i # 1
      PROVE  \E j \in 1..Len(raw') : CreationOf(raw'[j], p)
  BY <1>0, <1>2, Taken
<1>3. CASE IgnoreNotice
  <2>1. i # 1
    <3>1. SUFFICES ASSUME i = 1 PROVE FALSE
      OBVIOUS
    <3>2. Head(raw).op = "create" /\ Head(raw).path = p
      BY <1>0, <1>3, <3>1, Taken DEF IgnoreNotice, CreationOf
    <3> QED BY <1>3, <3>2 DEF IgnoreNotice, Classify
  <2> QED BY <1>2, <1>3, <2>1 DEF IgnoreNotice
<1>4. CASE HandleNotice
  <2>1. CASE i = 1
    <3>1. Head(raw).op = "create" /\ Head(raw).path = p /\ pc = "loop" /\ sent = 0 /\ sent' = 0
      BY <1>0, <1>4, <2>1, Taken DEF HandleNotice, CreationOf, Take, Ordered
    <3>2. Classify(Head(raw)) \in {"created", "updated"}
      BY <3>1 DEF Classify
    <3>3. pending'[p.id] # "none"
      BY <1>0, <1>4, <3>1, <3>2 DEF HandleNotice, Hold, Coalesce, TypeOK
    <3> QED BY <3>1, <3>3 DEF Waiting
  <2>2. CASE i # 1
    BY <1>2, <1>4, <2>2 DEF HandleNotice
  <2> QED BY <2>1, <2>2
<1>5. CASE AddCreatedDir
  <2>1. i # 1
    BY <1>0, <1>5, Taken DEF AddCreatedDir, CreationOf, Take
  <2> QED BY <1>2, <1>5, <2>1 DEF AddCreatedDir
<1>6. CASE ~Change /\ ~IgnoreNotice /\ ~HandleNotice /\ ~AddCreatedDir
  <2>1. raw' = raw
    BY <1>6 DEF Next, vars, kernel, Watch, WatchKnownIDs, AddWatchDirs, Loop, DiscoverWatchCreates, Report,
         Reported, TimerExpires, Send, SkipCancelled, Flushed, Stop, List, ListMonths, ListMonth,
         Receive, Close
  <2> QED BY <2>1
<1> QED BY <1>1, <1>3, <1>4, <1>5, <1>6

\* A file is new where it was written or moved to, and then for the first time
\* in the history of its ID or noticed.
LEMMA NewFile ==
  ASSUME TypeOK, StoreInv, [Next]_vars, NEW p \in files', p \notin files, p.id \in told, p.id \notin strayed',
         listing
  PROVE  \E j \in 1..Len(raw') : CreationOf(raw'[j], p)
<1>1. Change
  BY DEF Next, vars, outside, Watch, WatchKnownIDs, AddWatchDirs, Loop, IgnoreNotice, HandleNotice,
     AddCreatedDir, DiscoverWatchCreates, Report, Reported, TimerExpires, Send, SkipCancelled, Flushed, Stop,
     List, ListMonths, ListMonth, Receive, Close
<1>2. Returned
  BY DEF StoreInv, Before, Returned
<1>3. ASSUME NEW x \in Path, WriteNote(x)
      PROVE  FALSE
  <2>1. p = x /\ p.id \notin gone /\ p.id \notin NoteIds
    BY <1>3 DEF WriteNote, NoteIds
  <2> QED BY <2>1 DEF StoreInv, Existed
<1>4. ASSUME NEW x \in Path, RemoveNote(x)
      PROVE  FALSE
  BY <1>4 DEF RemoveNote
<1>5. ASSUME NEW m \in Months, MakeMonth(m)
      PROVE  FALSE
  BY <1>5 DEF MakeMonth
<1>6. ASSUME NEW x \in Path, NEW y \in Path, MoveNote(x, y)
      PROVE  \E j \in 1..Len(raw') : CreationOf(raw'[j], p)
  <2>1. p = y /\ x.id = p.id
    BY <1>6 DEF MoveNote
  <2>2. Longer(raw, raw') /\ Len(raw') > 0 /\ CreationOf(raw'[Len(raw')], p)
    BY <1>2, <1>6, <2>1, MoveNoticed
  <2> QED BY <2>2 DEF Longer
<1> QED BY <1>1, <1>3, <1>4, <1>5, <1>6 DEF Change

LEMMA MissedKept ==
  ASSUME IndInv, StoreInv, ReadInv, [Next]_vars, NEW p \in files'
  PROVE  Missed(p)'
<1>0. TypeOK /\ TypeOK' /\ p.id \in Ids
  BY NextType DEF IndInv, TypeOK, Path
<1> SUFFICES ASSUME Unsent(p.id)', p.id \in told', p.id \notin view', p.id \notin strayed', Read(p.month)'
             PROVE  Waiting(p.id)' \/ \E j \in 1..Len(raw') : CreationOf(raw'[j], p)
  BY DEF Missed
<1>1. p.id \notin strayed
  <2>1. strayed \subseteq strayed'
    BY DEF Next, vars, outside, Change, WriteNote, MoveNote, RemoveNote, MakeMonth, Stray, Watch,
       WatchKnownIDs, AddWatchDirs, Loop, IgnoreNotice, HandleNotice, AddCreatedDir, DiscoverWatchCreates,
       Report, Reported, TimerExpires, Send, SkipCancelled, Flushed, Stop, List, ListMonths, ListMonth,
       Receive, Close
  <2> QED BY <2>1
<1>2. ~WatchKnownIDs
  BY DEF WatchKnownIDs, StoreInv, Before, Read, reader
<1>3. Unsent(p.id) /\ p.id \in told
  <2>1. CASE Send
    <3>1. order[sent + 1] # p.id /\ Unsent(p.id)
      BY <1>0, <2>1, SendAdds DEF Unsent
    <3> QED BY <2>1, <3>1 DEF Send
  <2>2. CASE Receive
    <3>1. told' = told
      BY <2>2 DEF Receive
    <3>2. Unsent(p.id)
      <4>1. \A i \in 1..Len(out) : i = 1 \/ out[i].id # p.id
        BY <1>0, <2>2, ReceiveTakes DEF Unsent
      <4>2. SUFFICES ASSUME out[1].id = p.id PROVE FALSE
        BY <4>1 DEF Unsent
      <4>3. 1 \in 1..Len(out) /\ \A j \in (1 + 1)..Len(out) : out[j].id # p.id
        BY <1>0, <2>2, <4>1, ReceiveTakes
      <4>4. out[1].type # "deleted"
        BY <1>0, <3>1, <4>2, <4>3 DEF ReadInv, Behind
      <4> QED BY <1>0, <2>2, <4>2, <4>4, ReceiveTakes DEF Receive
    <3> QED BY <3>1, <3>2
  <2>3. CASE ~Send /\ ~Receive
    BY <1>2, <2>3, OutSteps, ToldSteps DEF Unsent
  <2> QED BY <2>1, <2>2, <2>3
<1>4. CASE p \notin files
  <2>1. listing
    <3>1. ~List /\ ~Receive
      BY <1>4 DEF List, ListMonths, ListMonth, Receive, outside
    <3> QED BY <3>1, ReaderSteps DEF Read, reader
  <2> QED BY <1>0, <1>3, <1>4, <2>1, NewFile
<1>5. CASE p \in files
  <2>1. ~(Read(p.month) => p.id \in view)
    BY <1>0, <1>3, <1>5, ShownKept
  <2>2. Waiting(p.id) \/ \E i \in 1..Len(raw) : CreationOf(raw[i], p)
    BY <1>1, <1>3, <1>5, <2>1 DEF ReadInv, Missed
  <2>3. Send => order[sent + 1] # p.id
    BY <1>0, SendAdds DEF Unsent
  <2> QED BY <1>0, <1>3, <1>5, <2>2, <2>3, WaitingKept, CreationKept
<1> QED BY <1>4, <1>5

LEMMA ReadKept ==
  ASSUME IndInv, StoreInv, ReadInv, [Next]_vars
  PROVE  ReadInv'
<1>1. \A id \in Ids : Behind(id)'
  BY BehindKept DEF ReadInv, IndInv
<1> QED BY <1>1, MissedKept DEF ReadInv

\* Once everything has been delivered, a consumer that subscribed first and then
\* listed the store has missed no note, and shows none too many but those that it
\* listed before the watcher told of them and that no event followed.
THEOREM ViewIsRight == Spec => []ViewConverges
<1>1. IndInv /\ StoreInv /\ ReadInv => ViewConverges
  <2> SUFFICES ASSUME IndInv, StoreInv, ReadInv, Quiet, NEW id \in Ids \ strayed
               PROVE  (id \in NoteIds => id \in view) /\ (id \in view \ NoteIds => id \in unheard)
    BY DEF ViewConverges
  <2>1. /\ TypeOK /\ pc = "loop" /\ Len(raw) = 0 /\ Len(out) = 0 /\ Listed /\ ~HasPending(pending)
        /\ Running /\ fresh = {}
    BY EmptySeq DEF Quiet, IndInv, Running, Returned, StoreInv, OneFile
  <2>2. Unsent(id) /\ ~Waiting(id) /\ (id \in told <=> id \in known)
    BY <2>1 DEF Unsent, IndInv, Difference, Waiting, HasPending
  <2>3. ASSUME id \in NoteIds PROVE id \in view
    <3>1. PICK p \in files : p.id = id
      BY <2>3, NoteIdsMember
    <3>2. Read(p.month)
      BY <2>1 DEF Listed, Read
    <3>3. WillBeKnown(p) \/ GapWritten(p)
      BY <2>1, <3>1 DEF StoreInv, FilesFollow
    <3>4. CASE GapWritten(p)
      BY <3>1, <3>2, <3>4 DEF GapWritten
    <3>5. CASE WillBeKnown(p)
      <4>1. id \in told
        BY <2>1, <2>2, <3>1, <3>5 DEF WillBeKnown
      <4> QED BY <2>1, <2>2, <3>1, <3>2, <4>1 DEF ReadInv, Missed
    <3> QED BY <3>3, <3>4, <3>5
  <2>4. ASSUME id \in view \ NoteIds PROVE id \in unheard
    <3>1. id \notin known
      BY <2>1, <2>4 DEF StoreInv, GoneFollow, GapRemoved
    <3> QED BY <2>2, <2>4, <3>1 DEF ReadInv, Behind
  <2> QED BY <2>3, <2>4
<1>2. Init => StoreInv /\ ReadInv
  BY InitView
<1>3. IndInv /\ StoreInv /\ ReadInv /\ [Next]_vars => (StoreInv /\ ReadInv)'
  BY StoreKept, ReadKept
<1> QED BY <1>1, <1>2, <1>3, Invariance, PTL DEF Spec
=============================================================================

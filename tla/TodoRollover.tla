---------------------------- MODULE TodoRollover ----------------------------
(***************************************************************************)
(* new-todo: it looks for the todo of today, takes the open tasks over     *)
(* from the newest todo before today, marks them there as moved and writes *)
(* the new todo.  Several of these commands may overlap, and each may die  *)
(* or fail between two of its store calls.                                 *)
(*                                                                         *)
(* Abstractions: Find and Put are one step each (OSStore has them in       *)
(* detail), IDs are the positions in todos (IdAlloc: fresh and             *)
(* increasing), and of a todo's body only its task lines are kept.         *)
(***************************************************************************)
EXTENDS Naturals, Sequences, SequencesExt

CONSTANTS
  Tasks,    \* task texts
  Daily,    \* those with #daily in them
  Procs,    \* processes that run new-todo
  Bodies,   \* the first todo's possible bodies
  LastDay,  \* bound: days are 2..LastDay, the first todo is of day 1
  Runs,     \* bound: how often new-todo is started
  Edits,    \* bound: how often the user edits the newest todo
  Exposed   \* "west": the local time is behind UTC; "overlap": commands
            \* overlap; "crash": they fail or die

Line == [text : Tasks, done : BOOLEAN, moved : BOOLEAN]

ASSUME TodoAssumption ==
  /\ Daily \subseteq Tasks
  /\ Bodies \subseteq Seq(Line)
  /\ LastDay \in Nat \ {0, 1}
  /\ {Runs, Edits} \subseteq Nat
  /\ Exposed \subseteq {"west", "overlap", "crash"}

VARIABLES
  todos,  \* the todos, by ID: the day of the file name and the task lines
  day,    \* the day, local time
  runs,   \* the runs of new-todo still allowed
  edits,  \* the user's edits still allowed
  pc,     \* the next step of each process
  today,  \* the day on which it was started
  prev,   \* the previous todo it has read: its ID, or 0, and its lines
  open,   \* history: the tasks the user still has to do
  cut,    \* history: a run ended between its two Puts
  overlap \* history: a run began its work while another was under way

vars == <<todos, day, runs, edits, pc, today, prev, open, cut, overlap>>

Ids == DOMAIN todos

\* The newest of some todos, by date and then by ID.
Newest(S) ==
  CHOOSE i \in S : \A j \in S \ {i} :
    \/ todos[j].day < todos[i].day
    \/ todos[j].day = todos[i].day /\ j < i

IsOpen(l) == ~l.done /\ ~l.moved

Blank(t) == [text |-> t, done |-> FALSE, moved |-> FALSE]

OpenTexts(body) == {l.text : l \in {k \in ToSet(body) : IsOpen(k)}}

NoPrev == [id |-> 0, lines |-> <<>>]

Init ==
  /\ \E b \in Bodies :
       /\ todos \in {<<>>, <<[day |-> 1, lines |-> b]>>}
       /\ open = IF todos = <<>> THEN {} ELSE OpenTexts(b)
  /\ day = 2
  /\ runs = Runs
  /\ edits = Edits
  /\ pc = [c \in Procs |-> "idle"]
  /\ today = [c \in Procs |-> 0]
  /\ prev = [c \in Procs |-> NoPrev]
  /\ cut = FALSE
  /\ overlap = FALSE

Idle == \A c \in Procs : pc[c] = "idle"

-----------------------------------------------------------------------------
(* Mutants, used only to show that the properties below can fail.          *)

CarryDaily(l) == l.text \in Daily

CarriedRepeating(body) == {i \in DOMAIN body : body[i].text \in Daily \/ IsOpen(body[i])}

UpdatedLinesUntagged(body) == body

ExactDateOfNone(d) == {}

-----------------------------------------------------------------------------
(* RolloverTasks and FormatTodoContent.                                    *)

\* A daily task is carried over whatever its marks.
Carry(l) == l.text \in Daily \/ IsOpen(l)

\* The previous todo, its open tasks tagged as moved.
UpdatedLines(body) ==
  [i \in DOMAIN body |-> IF IsOpen(body[i]) THEN [body[i] EXCEPT !.moved = TRUE] ELSE body[i]]

\* The first line of each text that is carried over.
Carried(body) ==
  {i \in DOMAIN body : /\ Carry(body[i])
                       /\ \A j \in 1..(i-1) : Carry(body[j]) => body[j].text # body[i].text}

\* The new todo: those tasks in their order, neither done nor moved.
NewLines(body) ==
  LET S  == Carried(body)
      at == CHOOSE f \in [1..Cardinality(S) -> S] : \A i, j \in DOMAIN f : i < j => f[i] < f[j]
  IN  [k \in DOMAIN at |-> Blank(body[at[k]].text)]

-----------------------------------------------------------------------------
(* Find.                                                                   *)

\* The date read back from a file name is midnight UTC; this is its day in
\* local time.
LocalDay(d) == IF "west" \in Exposed THEN d - 1 ELSE d

\* WithExactDate and WithBeforeDate: the day in the file name and the day of
\* the entry must both match.
ExactDate(d)  == {i \in Ids : todos[i].day = d /\ LocalDay(todos[i].day) = d}
BeforeDate(d) == {i \in Ids : todos[i].day < d /\ LocalDay(todos[i].day) < d}

-----------------------------------------------------------------------------
(* The command.                                                            *)

\* It prints the path of today's todo, if there is one already.
FindToday(c) ==
  /\ pc[c] = "idle"
  /\ runs > 0
  /\ Idle \/ "overlap" \in Exposed
  /\ runs' = runs - 1
  /\ today' = [today EXCEPT ![c] = day]
  /\ pc' = [pc EXCEPT ![c] = IF ExactDate(day) # {} THEN "idle" ELSE "findprev"]
  /\ overlap' = (overlap \/ (~Idle /\ ExactDate(day) = {}))
  /\ UNCHANGED <<todos, day, edits, prev, open, cut>>

FindPrev(c) ==
  /\ pc[c] = "findprev"
  /\ LET S == BeforeDate(today[c])
     IN  IF S = {}
           THEN /\ prev' = [prev EXCEPT ![c] = NoPrev]
                /\ pc' = [pc EXCEPT ![c] = "putnew"]
           ELSE /\ prev' = [prev EXCEPT ![c] = [id |-> Newest(S), lines |-> todos[Newest(S)].lines]]
                /\ pc' = [pc EXCEPT ![c] = "putprev"]
  /\ UNCHANGED <<todos, day, runs, edits, today, open, cut, overlap>>

PutPrev(c) ==
  /\ pc[c] = "putprev"
  /\ todos' = [todos EXCEPT ![prev[c].id].lines = UpdatedLines(prev[c].lines)]
  /\ pc' = [pc EXCEPT ![c] = "putnew"]
  /\ UNCHANGED <<day, runs, edits, today, prev, open, cut, overlap>>

\* A daily task that was done is to be done again.
PutNew(c) ==
  /\ pc[c] = "putnew"
  /\ todos' = Append(todos, [day |-> today[c], lines |-> NewLines(prev[c].lines)])
  /\ open' = open \cup OpenTexts(NewLines(prev[c].lines))
  /\ pc' = [pc EXCEPT ![c] = "idle"]
  /\ UNCHANGED <<day, runs, edits, today, prev, cut, overlap>>

\* A store call fails, or the process dies.
Stop(c) ==
  /\ "crash" \in Exposed
  /\ pc[c] # "idle"
  /\ pc' = [pc EXCEPT ![c] = "idle"]
  /\ cut' = (cut \/ (pc[c] = "putnew" /\ prev[c].id # 0))
  /\ UNCHANGED <<todos, day, runs, edits, today, prev, open, overlap>>

-----------------------------------------------------------------------------
(* The user, between two commands, works on the newest todo.               *)

Edit(lines) ==
  /\ Idle
  /\ edits > 0
  /\ edits' = edits - 1
  /\ todos' = [todos EXCEPT ![Newest(Ids)].lines = lines]
  /\ UNCHANGED <<day, runs, pc, today, prev, cut, overlap>>

AddTask(t) ==
  /\ Ids # {}
  /\ t \notin open
  /\ Edit(Append(todos[Newest(Ids)].lines, Blank(t)))
  /\ open' = open \cup {t}

FinishTask(t) ==
  /\ Ids # {}
  /\ LET lines == todos[Newest(Ids)].lines
     IN  /\ t \in OpenTexts(lines)
         /\ Edit([i \in DOMAIN lines |->
                    IF IsOpen(lines[i]) /\ lines[i].text = t THEN [lines[i] EXCEPT !.done = TRUE]
                                                             ELSE lines[i]])
  /\ open' = open \ {t}

NextDay ==
  /\ day < LastDay
  /\ day' = day + 1
  /\ UNCHANGED <<todos, runs, edits, pc, today, prev, open, cut, overlap>>

Next ==
  \/ \E c \in Procs : FindToday(c) \/ FindPrev(c) \/ PutPrev(c) \/ PutNew(c) \/ Stop(c)
  \/ \E t \in Tasks : AddTask(t) \/ FinishTask(t)
  \/ NextDay

Spec == Init /\ [][Next]_vars

-----------------------------------------------------------------------------
(* Properties.                                                             *)

TypeOK ==
  /\ todos \in Seq([day : 1..LastDay, lines : Seq(Line)])
  /\ day \in 2..LastDay
  /\ runs \in 0..Runs
  /\ edits \in 0..Edits
  /\ pc \in [Procs -> {"idle", "findprev", "putprev", "putnew"}]
  /\ today \in [Procs -> 0..LastDay]
  /\ prev \in [Procs -> [id : Nat, lines : Seq(Line)]]
  /\ open \subseteq Tasks
  /\ cut \in BOOLEAN
  /\ overlap \in BOOLEAN

\* However often new-todo is run, there is one todo a day, unless runs overlap,
\* since its search and its Put are separate calls.
OneTodoPerDay == ~overlap => \A i, j \in Ids : todos[i].day = todos[j].day => i = j

\* Whenever no command is running, everything the user still has to do is open
\* on the newest todo, where the next new-todo will look for it.
RolloverKeepsTasks == Idle /\ open # {} => open \subseteq OpenTexts(todos[Newest(Ids)].lines)

\* So it is, wherever runs fail or die, unless it is between the two Puts, or
\* runs overlap, when the later one may write a todo without the tasks.
OpenTasksOnNewest == cut \/ overlap \/ RolloverKeepsTasks

\* However runs overlap, and unless one ended between its two Puts, a task the
\* user still has to do is open on some todo, or about to be.
OpenTasksSurvive ==
  ~cut => \A t \in open :
    \/ \E i \in Ids : t \in OpenTexts(todos[i].lines)
    \/ \E c \in Procs : pc[c] = "putnew" /\ Blank(t) \in ToSet(NewLines(prev[c].lines))

\* A task is open on one todo at most, so that finishing it there finishes it,
\* unless runs overlap and each writes it.
OpenOnce ==
  ~overlap => \A i, j \in Ids : i # j => OpenTexts(todos[i].lines) \cap OpenTexts(todos[j].lines) = {}

\* A new todo has each task the user still has to do, and each daily task of the
\* todo before, exactly once, unless a run ended between its two Puts or runs
\* overlap.
NewTodoIsComplete ==
  [][Len(todos') > Len(todos) /\ ~cut /\ ~overlap =>
       LET lines == Last(todos').lines
           daily == IF todos = <<>> THEN {} ELSE {l.text : l \in ToSet(todos[Newest(Ids)].lines)} \cap Daily
       IN  /\ ToSet(lines) = {Blank(t) : t \in open \cup daily}
           /\ IsInjective(lines)]_vars
=============================================================================

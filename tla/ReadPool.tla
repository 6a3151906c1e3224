------------------------------ MODULE ReadPool ------------------------------
(***************************************************************************)
(* readConcurrent, by which All reads the files a scan has found: one      *)
(* goroutine hands out the indexes of the files over an unbuffered         *)
(* channel, Workers others read the files and write the entries into a     *)
(* shared slice without a lock, and an error group ends them all when a    *)
(* read fails.                                                             *)
(*                                                                         *)
(* The group's Go, Wait and context are modelled from how the code uses    *)
(* them: the first error a goroutine returns is kept and cancels the       *)
(* context, in one step.  Any read may fail: the file may be gone by then, *)
(* or its frontmatter may not parse.                                       *)
(***************************************************************************)
EXTENDS Naturals

CONSTANTS
  Files,    \* how many files there are to read
  Workers,  \* the worker goroutines
  None,     \* no entry, no error, no file
  Cancelled \* context.Canceled

Refs == 1..Files

ASSUME ReadPoolAssumption ==
  /\ Files \in Nat \ {0}
  /\ Workers # {}
  /\ {None, Cancelled} \cap Nat = {}
  /\ None # Cancelled
  /\ None \notin {"entries", "error"}

VARIABLES
  producer,  \* "sending", "closed" when jobs is closed but it has still to return, "ended"
  next,      \* the index it hands out next
  worker,    \* "receiving", "reading", "ended"
  job,       \* the file each worker has received
  entries,   \* the entries read so far; a file's entry is its index
  failed,    \* the files whose read failed
  err,       \* the error of the group: the file that could not be read, or Cancelled
  cancelled, \* its context is done
  result     \* what readConcurrent returned: "entries" or "error"

vars == <<producer, next, worker, job, entries, failed, err, cancelled, result>>

Init ==
  /\ producer = "sending"
  /\ next = 1
  /\ worker = [w \in Workers |-> "receiving"]
  /\ job = [w \in Workers |-> None]
  /\ entries = [i \in Refs |-> None]
  /\ failed = {}
  /\ err = None
  /\ cancelled = FALSE
  /\ result = None

-----------------------------------------------------------------------------
(* Mutants, used only to show that the properties below can fail.          *)

HandOutTwice(w) ==
  /\ producer = "sending"
  /\ next \in Refs
  /\ worker[w] = "receiving"
  /\ job' = [job EXCEPT ![w] = next]
  /\ worker' = [worker EXCEPT ![w] = "reading"]
  /\ next' \in {next, next + 1}
  /\ UNCHANGED <<producer, entries, failed, err, cancelled, result>>

CloseWhenAllSent ==
  /\ producer = "sending"
  /\ producer' = IF next > Files THEN "closed" ELSE "sending"
  /\ UNCHANGED <<next, worker, job, entries, failed, err, cancelled, result>>

ReadFailsIgnored(w) ==
  /\ worker[w] = "reading"
  /\ failed' = failed \cup {job[w]}
  /\ worker' = [worker EXCEPT ![w] = "receiving"]
  /\ UNCHANGED <<producer, next, job, entries, err, cancelled, result>>

ReadFailsUnreported(w) ==
  /\ worker[w] = "reading"
  /\ failed' = failed \cup {job[w]}
  /\ cancelled' = TRUE
  /\ worker' = [worker EXCEPT ![w] = "ended"]
  /\ UNCHANGED <<producer, next, job, entries, err, result>>

-----------------------------------------------------------------------------
(* The producer.                                                           *)

\* A send meets a worker that is receiving.
HandOut(w) ==
  /\ producer = "sending"
  /\ next \in Refs
  /\ worker[w] = "receiving"
  /\ job' = [job EXCEPT ![w] = next]
  /\ worker' = [worker EXCEPT ![w] = "reading"]
  /\ next' = next + 1
  /\ UNCHANGED <<producer, entries, failed, err, cancelled, result>>

\* It leaves its loop when every index is sent, or instead of a send when the
\* context is done, and closes jobs.
Close ==
  /\ producer = "sending"
  /\ next > Files \/ cancelled
  /\ producer' = "closed"
  /\ UNCHANGED <<next, worker, job, entries, failed, err, cancelled, result>>

\* Cut short, it returns the context's error; the group keeps the first.
ProducerReturns ==
  /\ producer = "closed"
  /\ producer' = "ended"
  /\ err' = IF next \in Refs /\ err = None THEN Cancelled ELSE err
  /\ cancelled' = (cancelled \/ next \in Refs)
  /\ UNCHANGED <<next, worker, job, entries, failed, result>>

-----------------------------------------------------------------------------
(* A worker.                                                               *)

ReadEntry(w) ==
  /\ worker[w] = "reading"
  /\ entries' = [entries EXCEPT ![job[w]] = job[w]]
  /\ worker' = [worker EXCEPT ![w] = "receiving"]
  /\ UNCHANGED <<producer, next, job, failed, err, cancelled, result>>

ReadFails(w) ==
  /\ worker[w] = "reading"
  /\ failed' = failed \cup {job[w]}
  /\ err' = IF err = None THEN job[w] ELSE err
  /\ cancelled' = TRUE
  /\ worker' = [worker EXCEPT ![w] = "ended"]
  /\ UNCHANGED <<producer, next, job, entries, result>>

JobsClosed(w) ==
  /\ worker[w] = "receiving"
  /\ producer # "sending"
  /\ worker' = [worker EXCEPT ![w] = "ended"]
  /\ UNCHANGED <<producer, next, job, entries, failed, err, cancelled, result>>

-----------------------------------------------------------------------------
Wait ==
  /\ result = None
  /\ producer = "ended"
  /\ \A w \in Workers : worker[w] = "ended"
  /\ result' = IF err = None THEN "entries" ELSE "error"
  /\ UNCHANGED <<producer, next, worker, job, entries, failed, err, cancelled>>

\* The call is over.
Returned == result # None /\ UNCHANGED vars

Step ==
  \/ \E w \in Workers : HandOut(w) \/ ReadEntry(w) \/ ReadFails(w) \/ JobsClosed(w)
  \/ Close \/ ProducerReturns \/ Wait

Next == Step \/ Returned

Spec == Init /\ [][Next]_vars

\* The scheduler runs whoever can run, and every read ends.
FairSpec == Spec /\ WF_vars(Step)

-----------------------------------------------------------------------------
(* Properties.                                                             *)

TypeOK ==
  /\ producer \in {"sending", "closed", "ended"}
  /\ next \in 1..(Files + 1)
  /\ worker \in [Workers -> {"receiving", "reading", "ended"}]
  /\ job \in [Workers -> Refs \cup {None}]
  /\ entries \in [Refs -> Refs \cup {None}]
  /\ failed \subseteq Refs
  /\ err \in Refs \cup {None, Cancelled}
  /\ cancelled \in BOOLEAN
  /\ result \in {None, "entries", "error"}

\* Without a lock around the slice, no two workers ever write to one place of
\* it, no place is written to twice, and none after readConcurrent returned.
WritesAreApart ==
  \A w \in Workers : worker[w] = "reading" =>
    /\ result = None
    /\ entries[job[w]] = None
    /\ \A v \in Workers \ {w} : worker[v] = "reading" => job[v] # job[w]

\* The call succeeds only if every file was read, and then each entry is in the
\* place of its file, so that the order of the scan is kept.
AllRead == result = "entries" => failed = {} /\ entries = [i \in Refs |-> i]

\* The error it returns tells what went wrong: it is that of a read that failed,
\* never the cancellation that followed.
ErrorIsOfARead == result = "error" => err \in failed

\* The call returns, and so no goroutine outlives it: neither a producer that
\* has lost its workers nor a worker that waits for a job.
CallReturns == <>(result # None)
=============================================================================

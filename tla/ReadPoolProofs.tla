--------------------------- MODULE ReadPoolProofs ---------------------------
(***************************************************************************)
(* readConcurrent reads every file once, or reports a read that failed,    *)
(* for any number of files and workers.                                    *)
(***************************************************************************)
EXTENDS ReadPool, TLAPS

-----------------------------------------------------------------------------
(* The inductive invariant: every index handed out so far is with one      *)
(* worker, or read, or failed.                                             *)

With(i, w) == worker[w] = "reading" /\ job[w] = i

Handled(i) == entries[i] = i \/ i \in failed \/ \E w \in Workers : With(i, w)

Untouched(i) == entries[i] = None /\ i \notin failed /\ \A w \in Workers : ~With(i, w)

Exclusive ==
  \A w \in Workers : worker[w] = "reading" =>
    /\ job[w] \in Refs
    /\ entries[job[w]] = None
    /\ job[w] \notin failed
    /\ \A v \in Workers \ {w} : worker[v] = "reading" => job[v] # job[w]

Errors ==
  /\ failed # {} => err # None
  /\ cancelled /\ producer # "ended" => err # None
  /\ err # None => err \in failed
  /\ producer # "sending" /\ next \in Refs => err # None

Places == \A i \in Refs : entries[i] \in {i, None}

Inv ==
  /\ TypeOK
  /\ Exclusive
  /\ Errors
  /\ Places
  /\ \A i \in Refs : IF i < next THEN Handled(i) ELSE Untouched(i)
  /\ result # None => producer = "ended" /\ \A w \in Workers : worker[w] = "ended"
  /\ result = "entries" => err = None
  /\ result = "error" => err # None

-----------------------------------------------------------------------------
LEMMA InitInv == Init => Inv
<1> SUFFICES ASSUME Init PROVE Inv
  OBVIOUS
<1>1. TypeOK
  <2>1. next \in 1..(Files + 1) /\ Files \in Nat
    BY ReadPoolAssumption DEF Init
  <2>2. /\ worker \in [Workers -> {"receiving", "reading", "ended"}]
        /\ job \in [Workers -> Refs \cup {None}]
        /\ entries \in [Refs -> Refs \cup {None}]
    BY DEF Init
  <2> QED BY <2>1, <2>2 DEF Init, TypeOK
<1>2. Exclusive /\ Errors /\ Places
  BY ReadPoolAssumption DEF Init, Exclusive, Errors, Places, Refs
<1>3. \A i \in Refs : ~(i < next) /\ Untouched(i)
  BY DEF Init, Untouched, With, Refs
<1> QED BY <1>1, <1>2, <1>3, ReadPoolAssumption DEF Init, Inv

\* One step of a worker that holds an index, or of the producer.
LEMMA NextInv == Inv /\ [Next]_vars => Inv'
<1> SUFFICES ASSUME Inv, [Next]_vars PROVE Inv'
  OBVIOUS
<1> USE DEF Inv
<1>1. CASE UNCHANGED vars
  BY <1>1 DEF vars, TypeOK, Exclusive, Errors, Places, Handled, Untouched, With
<1>2. ASSUME NEW w \in Workers, HandOut(w) PROVE Inv'
  <2>1. /\ next \in Refs /\ worker[w] = "receiving" /\ next' = next + 1 /\ Untouched(next)
        /\ job' = [job EXCEPT ![w] = next] /\ worker' = [worker EXCEPT ![w] = "reading"]
        /\ UNCHANGED <<producer, entries, failed, err, cancelled, result>>
        /\ producer = "sending" /\ Files \in Nat
    BY <1>2, ReadPoolAssumption DEF HandOut, Refs, TypeOK
  <2>2. TypeOK'
    BY <2>1 DEF TypeOK, Refs
  <2>3. /\ worker'[w] = "reading" /\ job'[w] = next
        /\ \A v \in Workers \ {w} : worker'[v] = worker[v] /\ job'[v] = job[v]
    BY <2>1 DEF TypeOK
  <2>4. \A v \in Workers : worker[v] = "reading" => job[v] # next
    BY <2>1 DEF Untouched, With
  <2>5. Exclusive'
    BY <2>1, <2>3, <2>4 DEF Exclusive, Untouched
  <2>6. Errors' /\ Places'
    BY <2>1 DEF Errors, Places
  <2>7. ASSUME NEW i \in Refs PROVE IF i < next' THEN Handled(i)' ELSE Untouched(i)'
    <3>1. CASE i < next
      BY <2>1, <2>3, <3>1 DEF Handled, With, Refs, TypeOK
    <3>2. CASE i = next
      BY <2>1, <2>3, <3>2 DEF Handled, With, Refs, TypeOK
    <3>3. CASE i > next
      BY <2>1, <2>3, <3>3 DEF Untouched, With, Refs, TypeOK
    <3> QED BY <3>1, <3>2, <3>3 DEF Refs, TypeOK
  <2> QED BY <2>1, <2>2, <2>5, <2>6, <2>7
<1>3. CASE Close
  <2>1. TypeOK' /\ Exclusive' /\ Places'
    BY <1>3 DEF Close, TypeOK, Exclusive, Places
  <2>2. Errors'
    BY <1>3, ReadPoolAssumption DEF Close, Errors, Refs, TypeOK
  <2> QED BY <1>3, <2>1, <2>2 DEF Close, Handled, Untouched, With
<1>4. CASE ProducerReturns
  <2>1. err' = err
    BY <1>4 DEF ProducerReturns, Errors
  <2>2. TypeOK' /\ Exclusive' /\ Places'
    BY <1>4, <2>1 DEF ProducerReturns, TypeOK, Exclusive, Places
  <2>3. Errors'
    BY <1>4, <2>1 DEF ProducerReturns, Errors, TypeOK
  <2> QED BY <1>4, <2>1, <2>2, <2>3 DEF ProducerReturns, Handled, Untouched, With
<1>5. ASSUME NEW w \in Workers, ReadEntry(w) \/ ReadFails(w) PROVE Inv'
  <2>0. PICK i \in Refs : i = job[w] /\ entries[i] = None /\ i \notin failed /\ worker[w] = "reading"
    BY <1>5 DEF ReadEntry, ReadFails, Exclusive
  <2>1. /\ \/ entries' = [entries EXCEPT ![i] = i] /\ UNCHANGED <<failed, err, cancelled>>
           \/ entries' = entries /\ failed' = failed \cup {i} /\ cancelled' = TRUE
              /\ err' = IF err = None THEN i ELSE err
        /\ worker' = [worker EXCEPT ![w] = "receiving"] \/ worker' = [worker EXCEPT ![w] = "ended"]
        /\ UNCHANGED <<producer, next, job, result>>
    BY <1>5, <2>0 DEF ReadEntry, ReadFails
  <2>2. TypeOK'
    BY <2>0, <2>1 DEF TypeOK
  <2>3. worker'[w] # "reading" /\ \A v \in Workers \ {w} : worker'[v] = worker[v]
    BY <2>1 DEF TypeOK
  <2>4. \A v \in Workers \ {w} : worker[v] = "reading" => job[v] # i
    BY <2>0 DEF Exclusive
  <2>5. \A k \in Refs \ {i} : entries'[k] = entries[k] /\ (k \in failed' <=> k \in failed)
    BY <2>1 DEF TypeOK
  <2>6. entries'[i] = i \/ (i \in failed' /\ entries'[i] = None)
    BY <2>0, <2>1 DEF TypeOK
  <2>7. Exclusive'
    BY <2>1, <2>3, <2>4, <2>5 DEF Exclusive
  <2>8. Errors'
    BY <2>0, <2>1, ReadPoolAssumption DEF Errors, Refs
  <2>9. Places'
    BY <2>5, <2>6 DEF Places
  <2>10. i < next /\ i \in Nat /\ next \in Nat
    BY <2>0 DEF Untouched, With, Refs, TypeOK
  <2>11. ASSUME NEW k \in Refs PROVE IF k < next' THEN Handled(k)' ELSE Untouched(k)'
    <3>1. CASE k = i
      BY <2>1, <2>6, <2>10, <3>1 DEF Handled
    <3>2. CASE k # i
      BY <2>0, <2>1, <2>3, <2>5, <3>2 DEF Handled, Untouched, With
    <3> QED BY <3>1, <3>2
  <2>12. result' = None
    BY <2>0, <2>1
  <2> QED BY <2>2, <2>7, <2>8, <2>9, <2>11, <2>12, ReadPoolAssumption
<1>6. ASSUME NEW w \in Workers, JobsClosed(w) PROVE Inv'
  <2>1. /\ worker[w] = "receiving" /\ worker' = [worker EXCEPT ![w] = "ended"]
        /\ UNCHANGED <<producer, next, job, entries, failed, err, cancelled, result>>
    BY <1>6 DEF JobsClosed
  <2>2. worker'[w] = "ended" /\ \A v \in Workers \ {w} : worker'[v] = worker[v]
    BY <2>1 DEF TypeOK
  <2>3. TypeOK' /\ Exclusive' /\ Errors' /\ Places'
    BY <2>1, <2>2 DEF TypeOK, Exclusive, Errors, Places
  <2>4. \A i \in Refs, v \in Workers : With(i, v)' <=> With(i, v)
    BY <2>1, <2>2 DEF With
  <2>5. \A i \in Refs : (Handled(i)' <=> Handled(i)) /\ (Untouched(i)' <=> Untouched(i))
    BY <2>1, <2>4 DEF Handled, Untouched
  <2> QED BY <2>1, <2>2, <2>3, <2>5
<1>7. CASE Wait
  BY <1>7, ReadPoolAssumption DEF Wait, TypeOK, Exclusive, Errors, Places, Handled, Untouched, With
<1> QED BY <1>1, <1>2, <1>3, <1>4, <1>5, <1>6, <1>7 DEF Next, Step, Returned

LEMMA Invariance == Spec => []Inv
  BY InitInv, NextInv, PTL DEF Spec

\* Type correctness.
THEOREM TypeCorrect == Spec => []TypeOK
<1>1. Inv => TypeOK
  BY DEF Inv
<1> QED BY <1>1, Invariance, PTL

\* The workers need no lock: at no time do two of them hold one place of the
\* slice, and none is written to twice.
THEOREM NoSharedWrites == Spec => []WritesAreApart
<1>1. Inv => WritesAreApart
  BY DEF Inv, Exclusive, WritesAreApart, TypeOK
<1> QED BY <1>1, Invariance, PTL

\* A call that succeeds has read every file and put each entry at its place.
THEOREM EveryFileRead == Spec => []AllRead
<1>1. Inv => AllRead
  <2> SUFFICES ASSUME Inv, result = "entries" PROVE failed = {} /\ entries = [i \in Refs |-> i]
    BY DEF AllRead
  <2>1. err = None /\ producer = "ended" /\ \A w \in Workers : worker[w] = "ended"
    BY ReadPoolAssumption DEF Inv
  <2>2. failed = {} /\ next \notin Refs
    BY <2>1 DEF Inv, Errors
  <2>3. next = Files + 1 /\ Files \in Nat
    BY <2>2, ReadPoolAssumption DEF Inv, TypeOK, Refs
  <2>4. \A i \in Refs : entries[i] = i
    BY <2>1, <2>2, <2>3 DEF Inv, Handled, With, Refs
  <2> QED BY <2>2, <2>4 DEF Inv, TypeOK
<1> QED BY <1>1, Invariance, PTL

\* A call that fails returns the error of a read, never the cancellation the
\* error led to.
THEOREM FailsForARead == Spec => []ErrorIsOfARead
<1>1. Inv => ErrorIsOfARead
  BY DEF Inv, Errors, ErrorIsOfARead
<1> QED BY <1>1, Invariance, PTL
=============================================================================

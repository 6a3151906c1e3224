------------------------- MODULE AtomicWriteProofs -------------------------
(***************************************************************************)
(* WriteAtomic with any number of calls, inodes and texts.                 *)
(***************************************************************************)
EXTENDS AtomicWrite, TLAPS

USE AtomicWriteAssumption

-----------------------------------------------------------------------------
(* The inductive invariant: until calls overlap, a call in progress is     *)
(* alone, and the file it fills is not the one that path leads to.         *)

NamesApart == path # None => path # tmp

AloneIsAlone ==
  /\ \A w \in Writers : alone[w] => Busy = {w}
  /\ ~overlap => \A w \in Busy : alone[w]

Inv ==
  /\ TypeOK
  /\ NamesApart
  /\ AloneIsAlone
  /\ LoneCallFindsItsFile
  /\ WholeUnlessOverlapped

\* One more cell of a text that is written in order.
LEMMA OverlayFilled ==
  ASSUME NEW t \in Texts, NEW n \in Nat
  PROVE  Overlay(Filled(t, n), n + 1, t) = Filled(t, n + 1)
<1>1. Len(Filled(t, n)) = n /\ \A i \in 1..n : Filled(t, n)[i] = t
  BY DEF Filled
<1>2. Overlay(Filled(t, n), n + 1, t)
        = [i \in 1..(n + 1) |-> IF i = n + 1 THEN t
                                ELSE IF i <= n THEN Filled(t, n)[i] ELSE Hole]
  BY <1>1 DEF Overlay
<1> QED BY <1>1, <1>2 DEF Filled

LEMMA FilledType ==
  ASSUME NEW t \in Texts, NEW n \in Nat
  PROVE  Filled(t, n) \in Seq(Texts \cup {Hole})
BY DEF Filled

LEMMA OverlayType ==
  ASSUME NEW s \in Seq(Texts \cup {Hole}), NEW n \in Nat, NEW t \in Texts
  PROVE  Overlay(s, n + 1, t) \in Seq(Texts \cup {Hole})
<1> DEFINE m == IF n + 1 > Len(s) THEN n + 1 ELSE Len(s)
<1>1. m \in Nat
  OBVIOUS
<1>2. \A i \in 1..m : (IF i = n + 1 THEN t ELSE IF i <= Len(s) THEN s[i] ELSE Hole) \in Texts \cup {Hole}
  OBVIOUS
<1> QED BY <1>1, <1>2 DEF Overlay

-----------------------------------------------------------------------------
(* Each call of the system keeps the invariant.                            *)

LEMMA InitInv == Init => Inv
<1> SUFFICES ASSUME Init PROVE Inv
  OBVIOUS
<1>1. Length[latest] \in Nat /\ latest \in Texts
  BY DEF Init
<1>2. \A i \in Inodes : content[i] \in Seq(Texts \cup {Hole})
  <2>1. Filled(latest, Length[latest]) \in Seq(Texts \cup {Hole})
    BY <1>1, FilledType
  <2>2. <<>> \in Seq(Texts \cup {Hole})
    OBVIOUS
  <2> QED BY <2>1, <2>2 DEF Init
<1>3. content \in [Inodes -> Seq(Texts \cup {Hole})]
  BY <1>2 DEF Init
<1>4. Busy = {}
  BY DEF Init, Busy
<1> QED BY <1>1, <1>3, <1>4
      DEF Init, Inv, TypeOK, NamesApart, AloneIsAlone, LoneCallFindsItsFile, WholeUnlessOverlapped

LEMMA OpenKeeps ==
  ASSUME Inv, NEW w \in Writers, Open(w)
  PROVE  Inv'
<1> USE DEF Inv, TypeOK
<1>1. PICK i \in IF tmp # None THEN {tmp} ELSE Free, t \in Texts :
        /\ tmp' = i
        /\ content' = [content EXCEPT ![i] = <<>>]
        /\ using' = [using EXCEPT ![w] = i]
        /\ text' = [text EXCEPT ![w] = t]
  BY DEF Open
<1>2. i \in Inodes /\ (path # None => i # path)
  BY DEF Free, NamesApart
<1>3. Busy' = Busy \cup {w} /\ w \notin Busy
  BY DEF Open, Busy
<1>4. TypeOK'
  <2>1. content' \in [Inodes -> Seq(Texts \cup {Hole})]
    BY <1>1, <1>2
  <2>2. \A v \in Busy' : using'[v] \in Inodes /\ text'[v] \in Texts /\ off'[v] <= Length[text'[v]]
    BY <1>1, <1>2, <1>3 DEF Open
  <2> QED BY <1>1, <1>2, <2>1, <2>2 DEF Open
<1>5. NamesApart'
  BY <1>1, <1>2 DEF NamesApart, Open
<1>6. AloneIsAlone'
  BY <1>3 DEF AloneIsAlone, Open
<1>7. LoneCallFindsItsFile'
  <2>1. tmp' = using'[w] /\ content'[tmp'] = <<>> /\ off'[w] = 0
    BY <1>1, <1>2 DEF Open
  <2>2. Filled(text'[w], 0) = <<>>
    BY DEF Filled
  <2> QED BY <2>1, <2>2 DEF LoneCallFindsItsFile, Open
<1>8. WholeUnlessOverlapped'
  BY <1>1, <1>2 DEF WholeUnlessOverlapped, Open
<1> QED BY <1>4, <1>5, <1>6, <1>7, <1>8

LEMMA WriteKeeps ==
  ASSUME Inv, NEW w \in Writers, Write(w)
  PROVE  Inv'
<1> USE DEF Inv, TypeOK
<1>1. w \in Busy /\ Busy' = Busy
  BY DEF Write, Busy
<1>2. using[w] \in Inodes /\ text[w] \in Texts /\ off[w] \in Nat /\ Length[text[w]] \in Nat
  BY <1>1
<1>3. content' = [content EXCEPT ![using[w]] = Overlay(content[using[w]], off[w] + 1, text[w])]
  BY DEF Write
<1>4. TypeOK'
  <2>1. content' \in [Inodes -> Seq(Texts \cup {Hole})]
    BY <1>2, <1>3, OverlayType
  <2>2. \A v \in Busy' : off'[v] <= Length[text'[v]]
    BY <1>1, <1>2 DEF Write
  <2> QED BY <1>1, <1>2, <2>1, <2>2 DEF Write
<1>5. NamesApart' /\ AloneIsAlone'
  BY <1>1 DEF NamesApart, AloneIsAlone, Write
<1>6. LoneCallFindsItsFile'
  <2> SUFFICES ASSUME NEW v \in Writers, alone[v], pc[v] = "write"
               PROVE  tmp = using[v] /\ content'[tmp] = Filled(text[v], off'[v])
    BY DEF LoneCallFindsItsFile, Write
  <2>1. v = w
    BY <1>1 DEF AloneIsAlone
  <2>2. tmp = using[w] /\ content[tmp] = Filled(text[w], off[w])
    BY <2>1 DEF LoneCallFindsItsFile
  <2> QED BY <1>2, <1>3, <2>1, <2>2, OverlayFilled DEF Write
<1>7. WholeUnlessOverlapped'
  <2> SUFFICES ASSUME ~overlap, path # None
               PROVE  content'[path] = content[path]
    BY DEF WholeUnlessOverlapped, Write
  <2>1. tmp = using[w]
    BY <1>1 DEF AloneIsAlone, LoneCallFindsItsFile, Write
  <2> QED BY <1>2, <1>3, <2>1 DEF NamesApart
<1> QED BY <1>4, <1>5, <1>6, <1>7

\* A call that ends: what it was alone with is no longer asked about.
LEMMA EndsKeeps ==
  ASSUME TypeOK, AloneIsAlone, NEW w \in Busy, Ends(w),
         path' \in Inodes \cup {None}, tmp' \in Inodes \cup {None}, latest' \in Texts,
         overlap' = overlap \/ (alone[w] /\ overlap' = FALSE)
  PROVE  /\ TypeOK'
         /\ AloneIsAlone'
         /\ LoneCallFindsItsFile'
         /\ path' # None => content'[path'] = content[path']
<1> USE DEF TypeOK
<1>1. w \in Writers /\ Busy' = Busy \ {w}
  BY DEF Busy, Ends
<1>2. content' \in [Inodes -> Seq(Texts \cup {Hole})]
  BY DEF Ends
<1>3. \A v \in Busy' : using'[v] \in Inodes /\ text'[v] \in Texts /\ off'[v] <= Length[text'[v]]
  BY <1>1 DEF Ends
<1>4. overlap' \in BOOLEAN
  OBVIOUS
<1>5. TypeOK'
  BY <1>1, <1>2, <1>3, <1>4 DEF Ends
<1>6. \A v \in Writers : ~alone'[v] \/ (v # w /\ alone[v])
  BY <1>1 DEF Ends
<1>7. \A v \in Writers : ~alone'[v]
  BY <1>1, <1>6 DEF AloneIsAlone
<1>8. AloneIsAlone'
  <2>1. ASSUME ~overlap' PROVE Busy' = {}
    <3>1. CASE alone[w]
      BY <1>1, <3>1 DEF AloneIsAlone
    <3>2. CASE ~overlap
      BY <1>1, <3>2 DEF AloneIsAlone, Busy
    <3> QED BY <2>1, <3>1, <3>2
  <2> QED BY <1>7, <2>1 DEF AloneIsAlone
<1>9. LoneCallFindsItsFile'
  BY <1>7 DEF LoneCallFindsItsFile
<1>10. path' # None => content'[path'] = content[path']
  BY DEF Ends
<1> QED BY <1>5, <1>8, <1>9, <1>10

LEMMA RenameKeeps ==
  ASSUME Inv, NEW w \in Writers, Rename(w)
  PROVE  Inv'
<1> USE DEF Inv
<1>1. w \in Busy /\ Ends(w) /\ path' = tmp /\ tmp' = None /\ tmp # None /\ latest' = text[w]
  BY DEF Rename, Busy
<1>2. text[w] \in Texts /\ tmp \in Inodes
  BY <1>1 DEF TypeOK
<1>3. overlap' = overlap \/ (alone[w] /\ overlap' = FALSE)
  BY DEF Rename, TypeOK
<1>4. TypeOK' /\ AloneIsAlone' /\ LoneCallFindsItsFile' /\ content'[path'] = content[path']
  BY <1>1, <1>2, <1>3, EndsKeeps
<1>5. NamesApart'
  BY <1>1, <1>2 DEF NamesApart
<1>6. WholeUnlessOverlapped'
  <2> SUFFICES ASSUME ~overlap' PROVE content'[path'] = Filled(text[w], Length[text[w]])
    BY <1>1 DEF WholeUnlessOverlapped
  <2>1. alone[w]
    BY <1>1 DEF Rename, AloneIsAlone
  <2>2. content[tmp] = Filled(text[w], off[w]) /\ off[w] = Length[text[w]]
    BY <2>1 DEF Rename, LoneCallFindsItsFile
  <2> QED BY <1>1, <1>4, <2>2
<1> QED BY <1>4, <1>5, <1>6

LEMMA RenameFailsKeeps ==
  ASSUME Inv, NEW w \in Writers, RenameFails(w)
  PROVE  Inv'
<1>1. Busy' = Busy
  BY DEF Inv, TypeOK, RenameFails, Busy
<1> QED BY <1>1 DEF Inv, TypeOK, NamesApart, AloneIsAlone, LoneCallFindsItsFile, WholeUnlessOverlapped,
                    RenameFails

LEMMA LeaveKeeps ==
  ASSUME Inv, NEW w \in Writers, Remove(w) \/ GivesUp(w)
  PROVE  Inv'
<1> USE DEF Inv
<1>1. w \in Busy /\ Ends(w) /\ UNCHANGED <<path, latest, overlap>> /\ tmp' \in {tmp, None}
  BY DEF Remove, GivesUp, Busy
<1>2. /\ TypeOK' /\ AloneIsAlone' /\ LoneCallFindsItsFile'
      /\ path' # None => content'[path'] = content[path']
  BY <1>1, EndsKeeps DEF TypeOK
<1>3. NamesApart' /\ WholeUnlessOverlapped'
  BY <1>1, <1>2 DEF NamesApart, WholeUnlessOverlapped
<1> QED BY <1>2, <1>3

LEMMA NextInv == Inv /\ [Next]_vars => Inv'
<1> SUFFICES ASSUME Inv, [Next]_vars PROVE Inv'
  OBVIOUS
<1>1. CASE UNCHANGED vars
  BY <1>1 DEF vars, Inv, TypeOK, NamesApart, AloneIsAlone, LoneCallFindsItsFile, WholeUnlessOverlapped, Busy
<1>2. CASE Next
  BY <1>2, OpenKeeps, WriteKeeps, RenameKeeps, RenameFailsKeeps, LeaveKeeps DEF Next
<1> QED BY <1>1, <1>2

-----------------------------------------------------------------------------

\* The variables keep their types, and a call in progress stays within its
\* text, whatever the others do to the file it has open.
THEOREM TypeCorrect == Spec => []TypeOK
<1>1. Inv => TypeOK
  BY DEF Inv
<1> QED BY <1>1, InitInv, NextInv, PTL DEF Spec

\* "so partial writes don't leave a corrupted file behind", of calls that do
\* not overlap, whatever fails or dies and whatever it leaves behind.
THEOREM WholeFiles == Spec => []WholeUnlessOverlapped
<1>1. Inv => WholeUnlessOverlapped
  BY DEF Inv
<1> QED BY <1>1, InitInv, NextInv, PTL DEF Spec

\* A call that is alone renames the file it has written.
THEOREM LoneCalls == Spec => []LoneCallFindsItsFile
<1>1. Inv => LoneCallFindsItsFile
  BY DEF Inv
<1> QED BY <1>1, InitInv, NextInv, PTL DEF Spec
=============================================================================

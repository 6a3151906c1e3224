------------------------------ MODULE IdAlloc ------------------------------
(***************************************************************************)
(* note.NextID: the allocation of note IDs from id.json, which every       *)
(* process that creates a note goes through.                               *)
(*                                                                         *)
(* A caller is one call of NextID, in whatever process it runs.  The       *)
(* calls meet in three shared things: the flock on the store root, id.json *)
(* and the one temporary file id.json.tmp that WriteAtomic writes before   *)
(* renaming it.  Every system call is a step; a process may die between    *)
(* any two of them, and the kernel then drops its flock.                   *)
(***************************************************************************)
EXTENDS Naturals, Sequences

CONSTANTS
  Callers,          \* the calls of NextID
  NoOne,            \* the owner of a free lock
  Absent,           \* a file that does not exist
  Torn,             \* a file whose content is not a whole JSON object
  InitialContents   \* what id.json may hold at first: a number, Absent, Torn

Content == Nat \cup {Absent, Torn}

ASSUME IdAllocAssumption ==
  /\ NoOne \notin Callers
  /\ Absent \notin Nat
  /\ Torn \notin Nat
  /\ Absent # Torn
  /\ InitialContents \subseteq Content

VARIABLES
  idFile,   \* the content of id.json (last_id)
  tmpFile,  \* the content of id.json.tmp
  lock,     \* who holds the exclusive flock on the root
  pc,       \* the next step of each caller
  idf,      \* the caller's local idFile value, last_id already incremented
  issued    \* history: the IDs returned, in order

vars == <<idFile, tmpFile, lock, pc, idf, issued>>

Critical == {"read", "open", "write", "rename", "unlock"}
Final    == {"done", "failed", "crashed"}
Steps    == {"lock"} \cup Critical \cup Final

Init ==
  /\ idFile \in InitialContents
  /\ tmpFile \in InitialContents \* what an earlier crash left there
  /\ lock = NoOne
  /\ pc = [c \in Callers |-> "lock"]
  /\ idf = [c \in Callers |-> 0]
  /\ issued = <<>>

Goto(c, from, to) ==
  /\ pc[c] = from
  /\ pc' = [pc EXCEPT ![c] = to]

-----------------------------------------------------------------------------
(* Mutants, used only to show that the properties below can fail.  The     *)
(* first is lockStoreRoot of the non-Unix build, which locks nothing.      *)

LockStoreRootWithoutFlock(c) ==
  /\ Goto(c, "lock", "read")
  /\ lock' = c
  /\ UNCHANGED <<idFile, tmpFile, idf, issued>>

FailWithoutUnlock(c) ==
  /\ pc' = [pc EXCEPT ![c] = "failed"]
  /\ UNCHANGED lock

ReadIdIncrementingTwice(c) ==
  /\ idFile \in Nat
  /\ Goto(c, "read", "open")
  /\ idf' = [idf EXCEPT ![c] = idFile + 2]
  /\ UNCHANGED <<idFile, tmpFile, lock, issued>>

ReadIdUnparsed(c) ==
  /\ Goto(c, "read", "open")
  /\ idf' = [idf EXCEPT ![c] = idFile]
  /\ UNCHANGED <<idFile, tmpFile, lock, issued>>

CreateTmpInPlace(c) ==
  /\ Goto(c, "open", "write")
  /\ idFile' = Torn
  /\ UNCHANGED <<tmpFile, lock, idf, issued>>

RenameTmpErrorIgnored(c) ==
  /\ Goto(c, "rename", "unlock")
  /\ tmpFile' = Absent
  /\ UNCHANGED <<idFile, lock, idf, issued>>

-----------------------------------------------------------------------------
(* The steps of NextID.                                                    *)

\* The deferred unlock, run on every return once the flock is held.
Unlock(c) == lock' = IF lock = c THEN NoOne ELSE lock

\* A return with an error.
Fail(c) ==
  /\ pc' = [pc EXCEPT ![c] = "failed"]
  /\ Unlock(c)

\* flock(LOCK_EX) blocks until the lock is free.
LockStoreRoot(c) ==
  /\ lock = NoOne
  /\ Goto(c, "lock", "read")
  /\ lock' = c
  /\ UNCHANGED <<idFile, tmpFile, idf, issued>>

\* The root cannot be opened, or flock returns an error.
LockFails(c) ==
  /\ pc[c] = "lock"
  /\ Fail(c)
  /\ UNCHANGED <<idFile, tmpFile, idf, issued>>

\* readID, then idf.LastID++ on the local copy.
ReadId(c) ==
  /\ idFile \in Nat
  /\ Goto(c, "read", "open")
  /\ idf' = [idf EXCEPT ![c] = idFile + 1]
  /\ UNCHANGED <<idFile, tmpFile, lock, issued>>

\* id.json is missing, is not JSON, or cannot be read.
ReadIdFails(c) ==
  /\ pc[c] = "read"
  /\ Fail(c)
  /\ UNCHANGED <<idFile, tmpFile, idf, issued>>

\* os.WriteFile(tmpPath): O_CREATE|O_TRUNC, then the write.
CreateTmp(c) ==
  /\ Goto(c, "open", "write")
  /\ tmpFile' = Torn
  /\ UNCHANGED <<idFile, lock, idf, issued>>

WriteTmp(c) ==
  /\ Goto(c, "write", "rename")
  /\ tmpFile' = idf[c]
  /\ UNCHANGED <<idFile, lock, idf, issued>>

\* Opening or writing fails: WriteAtomic returns and leaves the file there.
WriteTmpFails(c) ==
  /\ pc[c] \in {"open", "write"}
  /\ Fail(c)
  /\ UNCHANGED <<idFile, tmpFile, idf, issued>>

RenameTmp(c) ==
  /\ Goto(c, "rename", "unlock")
  /\ idFile' = tmpFile
  /\ tmpFile' = Absent
  /\ UNCHANGED <<lock, idf, issued>>

\* The rename fails: the temporary file is removed, as far as possible.
RenameTmpFails(c) ==
  /\ pc[c] = "rename"
  /\ tmpFile' \in {Absent, tmpFile}
  /\ Fail(c)
  /\ UNCHANGED <<idFile, idf, issued>>

ReturnId(c) ==
  /\ Goto(c, "unlock", "done")
  /\ issued' = Append(issued, idf[c])
  /\ Unlock(c)
  /\ UNCHANGED <<idFile, tmpFile, idf>>

\* The process dies; closing its descriptors releases the flock.
Crash(c) ==
  /\ pc[c] \notin Final
  /\ pc' = [pc EXCEPT ![c] = "crashed"]
  /\ Unlock(c)
  /\ UNCHANGED <<idFile, tmpFile, idf, issued>>

NextID(c) ==
  \/ LockStoreRoot(c) \/ LockFails(c)
  \/ ReadId(c) \/ ReadIdFails(c)
  \/ CreateTmp(c) \/ WriteTmp(c) \/ WriteTmpFails(c)
  \/ RenameTmp(c) \/ RenameTmpFails(c)
  \/ ReturnId(c)

Next == \E c \in Callers : NextID(c) \/ Crash(c)

Spec == Init /\ [][Next]_vars

\* The kernel grants a flock that stays free to a caller that waits, and the
\* scheduler runs a caller that has it.  Nothing forces a crash, nor an error to
\* a caller that waits for the lock.
Fairness ==
  \A c \in Callers :
    /\ WF_vars(LockStoreRoot(c))
    /\ WF_vars(pc[c] # "lock" /\ NextID(c))

FairSpec == Spec /\ Fairness

-----------------------------------------------------------------------------
(* Properties.                                                             *)

TypeOK ==
  /\ idFile \in Content
  /\ tmpFile \in Content
  /\ lock \in Callers \cup {NoOne}
  /\ pc \in [Callers -> Steps]
  /\ idf \in [Callers -> Nat]
  /\ issued \in Seq(Nat)

\* IDs are returned in strictly increasing order, whatever the callers'
\* interleaving and whoever fails or dies on the way: in particular no two
\* calls ever return the same ID, as NextID's comment promises.
IssuedIncreasing ==
  \A i, j \in DOMAIN issued : i < j => issued[i] < issued[j]

\* An ID is skipped only by a call that died after renaming the new id.json
\* into place.  Without a crash the IDs returned are consecutive, even when
\* other calls fail at any of their steps.
IssuedContiguous ==
  (\A c \in Callers : pc[c] # "crashed") =>
    \A i \in DOMAIN issued : i > 1 => issued[i] = issued[i - 1] + 1

\* The inductive invariant behind the two properties above: only the holder of
\* the flock is between reading id.json and returning, what it has read is
\* still current when it writes, and every ID issued so far is behind
\* id.json and behind the ID that is about to be returned.
MutualExclusion == \A c \in Callers : pc[c] \in Critical <=> lock = c

HolderIsCurrent ==
  \A c \in Callers :
    /\ pc[c] \in {"open", "write", "rename"} => idFile \in Nat /\ idf[c] = idFile + 1
    /\ pc[c] = "rename" => tmpFile = idf[c]
    /\ pc[c] = "unlock" => idFile = idf[c]

IssuedBehind ==
  \A i \in DOMAIN issued :
    /\ idFile \in Nat
    /\ issued[i] <= idFile
    /\ \A c \in Callers : pc[c] = "unlock" => issued[i] < idFile

LastIssuedIsNewest ==
  (\A c \in Callers : pc[c] # "crashed") /\ issued # <<>> =>
    \/ issued[Len(issued)] = idFile
    \/ \E c \in Callers : pc[c] = "unlock" /\ issued[Len(issued)] + 1 = idFile

IndInv ==
  /\ TypeOK
  /\ MutualExclusion
  /\ HolderIsCurrent
  /\ IssuedBehind
  /\ LastIssuedIsNewest
  /\ IssuedIncreasing
  /\ IssuedContiguous

\* No step, a crash in the middle of a write included, leaves id.json torn,
\* deletes it or moves it by anything but one.
IdFileOnlyCounts ==
  [][idFile' # idFile => idFile \in Nat /\ idFile' = idFile + 1]_vars

\* Every call returns or dies: no exit path keeps the flock and blocks the
\* callers behind it.
EveryCallReturns == \A c \in Callers : <>(pc[c] \in Final)

\* The IDs that are in id.json and not yet with their caller.
Taken == {idf[c] : c \in {d \in Callers : pc[d] = "unlock"}}

\* NextID is an atomic counter.  An ID is taken by the rename of id.json.
Counter == INSTANCE IdCounter WITH
  last  <- idFile,
  taken <- Taken

ImplementsCounter == Counter!Spec
=============================================================================

----------------------------- MODULE ConfigStore -----------------------------
(***************************************************************************)
(* config.json and the processes that change it (internal/config/config.go *)
(* and its callers).  Some go through UpdateConfig, which holds the lock   *)
(* file; others (`config set`, `auth add --client`, `auth credentials`,    *)
(* `auth keyring`) call ReadConfig and WriteConfig themselves.             *)
(*                                                                         *)
(* The content of a file is the set of processes whose setting is in it,   *)
(* or Torn: no JSON.  A missing config.json reads as an empty one.  All    *)
(* processes write the same temporary file, and one that has it open keeps *)
(* writing to it after another has renamed it.                             *)
(***************************************************************************)
EXTENDS FiniteSets

CONSTANTS
  Locked, Unlocked,      \* processes that use UpdateConfig, and others
  Free,                  \* no lock file
  Garbage, NoFile,       \* text that is no JSON; no temporary file
  Faults                 \* of "crash", "disk"

Processes == Locked \cup Unlocked

Torn   == {Garbage}
Absent == {NoFile}

ASSUME ConfigAssumption ==
  /\ Locked \cap Unlocked = {} /\ Free \notin Processes
  /\ Garbage \notin Processes /\ NoFile \notin Processes /\ Garbage # NoFile
  /\ Faults \subseteq {"crash", "disk"}

VARIABLES
  lock,        \* the process named in config.lock, or Free
  file, tmp,   \* config.json and config.json.tmp
  fd,          \* what a process has open: "none", "tmp", "file", or an "old" file
  pc,          \* "locking", "reading", "opening", "writing", "renaming",
               \* "unlocking", "done" or "crashed"
  copy,        \* the settings read
  outcome      \* "running", "saved", "failed", "timeout" or "crashed"

vars == <<lock, file, tmp, fd, pc, copy, outcome>>

Goto(p, next) == pc' = [pc EXCEPT ![p] = next]

\* Where an operation goes when it returns: UpdateConfig has a deferred unlock.
Leave(p) == Goto(p, IF p \in Locked THEN "unlocking" ELSE "done")

---------------------------------------------------------------------------
\* Mutant: the lock file is created without O_EXCL.
AnyLock == TRUE

\* O_EXCL: the lock file can be created only when there is none.
LockIsFree == lock = Free

\* acquireConfigLock.
Acquire(p) ==
  /\ pc[p] = "locking" /\ LockIsFree
  /\ lock' = p
  /\ Goto(p, "reading")
  /\ UNCHANGED <<file, tmp, fd, copy, outcome>>

\* The lock file has been there for two seconds.
TimeOut(p) ==
  /\ pc[p] = "locking" /\ lock # Free
  /\ Goto(p, "done")
  /\ outcome' = [outcome EXCEPT ![p] = "timeout"]
  /\ UNCHANGED <<lock, file, tmp, fd, copy>>

\* ReadConfig, and the change to the copy.
Read(p) ==
  /\ pc[p] = "reading"
  /\ IF file = Torn
       THEN /\ Leave(p) /\ outcome' = [outcome EXCEPT ![p] = "failed"]
            /\ UNCHANGED copy
       ELSE /\ Goto(p, "opening") /\ copy' = [copy EXCEPT ![p] = file \cup {p}]
            /\ UNCHANGED outcome
  /\ UNCHANGED <<lock, file, tmp, fd>>

\* Mutant: config.json is written in place.
OpenConfig(p) ==
  /\ pc[p] = "opening"
  /\ file' = Torn
  /\ fd' = [fd EXCEPT ![p] = "file"]
  /\ Goto(p, "writing")
  /\ UNCHANGED <<lock, tmp, copy, outcome>>

\* os.WriteFile opens the temporary file and truncates it, ...
OpenTmp(p) ==
  /\ pc[p] = "opening"
  /\ tmp' = Torn
  /\ fd' = [fd EXCEPT ![p] = "tmp"]
  /\ Goto(p, "writing")
  /\ UNCHANGED <<lock, file, copy, outcome>>

\* What a write makes of a file: over the longer text of another writer, the
\* end of that text is left.
Overwritten(old, p) == {copy[p]} \cup (IF old = Torn THEN {} ELSE {Torn})

\* ... writes, and closes it.
Write(p) ==
  /\ pc[p] = "writing"
  /\ IF fd[p] = "tmp" THEN tmp' \in Overwritten(tmp, p) ELSE UNCHANGED tmp
  /\ IF fd[p] = "file" THEN file' \in Overwritten(file, p) ELSE UNCHANGED file
  /\ fd' = [fd EXCEPT ![p] = "none"]
  /\ Goto(p, "renaming")
  /\ UNCHANGED <<lock, copy, outcome>>

\* Those who have the temporary file open have config.json open after a rename.
AfterRename(f) == CASE f = "tmp" -> "file" [] f = "file" -> "old" [] OTHER -> f

Rename(p) ==
  /\ pc[p] = "renaming"
  /\ IF tmp = Absent
       THEN /\ outcome' = [outcome EXCEPT ![p] = "failed"]
            /\ UNCHANGED <<file, tmp, fd>>
       ELSE /\ file' = tmp /\ tmp' = Absent
            /\ fd' = [q \in Processes |-> AfterRename(fd[q])]
            /\ outcome' = [outcome EXCEPT ![p] = "saved"]
  /\ Leave(p)
  /\ UNCHANGED <<lock, copy>>

\* Mutant: the error of os.WriteFile is not looked at.
WriteUnchecked(p) ==
  /\ "disk" \in Faults
  /\ pc[p] = "writing"
  /\ fd' = [fd EXCEPT ![p] = "none"]
  /\ Goto(p, "renaming")
  /\ UNCHANGED <<lock, file, tmp, copy, outcome>>

\* Mutant: the error is not returned.
WriteFailsSilently(p) ==
  /\ "disk" \in Faults
  /\ pc[p] = "writing"
  /\ fd' = [fd EXCEPT ![p] = "none"]
  /\ Leave(p)
  /\ UNCHANGED <<lock, file, tmp, copy, outcome>>

\* The disk is full: the write fails after the file has been truncated.
WriteFails(p) ==
  /\ "disk" \in Faults
  /\ pc[p] = "writing"
  /\ fd' = [fd EXCEPT ![p] = "none"]
  /\ Leave(p)
  /\ outcome' = [outcome EXCEPT ![p] = "failed"]
  /\ UNCHANGED <<lock, file, tmp, copy>>

Unlock(p) ==
  /\ pc[p] = "unlocking"
  /\ lock' = Free
  /\ Goto(p, "done")
  /\ UNCHANGED <<file, tmp, fd, copy, outcome>>

\* The lock file stays behind.
Crash(p) ==
  /\ "crash" \in Faults
  /\ pc[p] \notin {"done", "crashed"}
  /\ Goto(p, "crashed")
  /\ fd' = [fd EXCEPT ![p] = "none"]
  /\ outcome' = [outcome EXCEPT ![p] = IF outcome[p] = "running" THEN "crashed" ELSE outcome[p]]
  /\ UNCHANGED <<lock, file, tmp, copy>>

---------------------------------------------------------------------------
Init ==
  /\ lock = Free /\ file = {} /\ tmp = Absent
  /\ fd = [p \in Processes |-> "none"]
  /\ pc = [p \in Processes |-> IF p \in Locked THEN "locking" ELSE "reading"]
  /\ copy = [p \in Processes |-> {}]
  /\ outcome = [p \in Processes |-> "running"]

\* Mutant: nobody gives up waiting for the lock.
ProceedPatiently(p) ==
  \/ Acquire(p) \/ Read(p) \/ OpenTmp(p) \/ Write(p) \/ Rename(p) \/ WriteFails(p)
  \/ Unlock(p)

Proceed(p) ==
  \/ Acquire(p) \/ TimeOut(p) \/ Read(p) \/ OpenTmp(p) \/ Write(p) \/ Rename(p)
  \/ WriteFails(p) \/ Unlock(p)

Next == \E p \in Processes : Proceed(p) \/ Crash(p)

Spec == Init /\ [][Next]_vars

\* Every process runs, unless it crashes.
FairSpec == Spec /\ \A p \in Processes : WF_vars(Proceed(p))

---------------------------------------------------------------------------
(* Properties.                                                             *)

Content == {Torn} \cup SUBSET Processes

\* Every variable has its type, and an operation reports a result as soon as it
\* is on its way out, and not before.
TypeOK ==
  /\ lock \in {Free} \cup Processes
  /\ file \in Content /\ tmp \in {Absent} \cup Content
  /\ fd \in [Processes -> {"none", "tmp", "file", "old"}]
  /\ pc \in [Processes -> {"locking", "reading", "opening", "writing", "renaming",
                            "unlocking", "done", "crashed"}]
  /\ copy \in [Processes -> SUBSET Processes]
  /\ outcome \in [Processes -> {"running", "saved", "failed", "timeout", "crashed"}]
  /\ \A p \in Processes :
       outcome[p] = "running" <=> pc[p] \notin {"unlocking", "done", "crashed"}

\* An update that was reported as saved is in the file from then on: it is not
\* undone by another process that read the file before.
NoUpdateLost == \A p \in Processes : outcome[p] = "saved" => file # Torn /\ p \in file

\* config.json can be read at any moment, also by processes that hold no lock,
\* also after a crash or a failed write in the middle of an update.
FileReadable == file # Torn

Register == INSTANCE ConfigRegister WITH settings <- file

\* The lock file, the temporary file and the rename make an update one step.
UpdatesAreAtomic == Register!Spec

\* Every process ends, also behind the lock file of one that has crashed.
EveryUpdateEnds == \A p \in Processes : <>(pc[p] \in {"done", "crashed"})
=============================================================================

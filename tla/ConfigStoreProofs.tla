-------------------------- MODULE ConfigStoreProofs --------------------------
(***************************************************************************)
(* For any number of processes, crashes and failing writes: as long as all *)
(* of them go through UpdateConfig, an update of config.json is one step.  *)
(***************************************************************************)
EXTENDS ConfigStore, TLAPS

---------------------------------------------------------------------------
(* Types, with and without the lock.                                       *)

LEMMA TypeInductive == /\ Init => TypeOK
                       /\ TypeOK /\ [Next]_vars => TypeOK'
<1> USE DEF TypeOK, Content
<1>1. Init => TypeOK
  BY DEF Init, Processes
<1>2. ASSUME TypeOK, NEW p \in Processes, Proceed(p) \/ Crash(p) PROVE TypeOK'
  <2> USE <1>2 DEF Goto, Leave
  <2>1. CASE Acquire(p)
    BY <2>1 DEF Acquire
  <2>2. CASE TimeOut(p)
    BY <2>2 DEF TimeOut
  <2>3. CASE Read(p)
    <3>1. CASE file = Torn
      BY <2>3, <3>1 DEF Read
    <3>2. CASE file # Torn
      BY <2>3, <3>2 DEF Read
    <3> QED
      BY <3>1, <3>2
  <2>4. CASE OpenTmp(p)
    BY <2>4 DEF OpenTmp
  <2>5. CASE Write(p)
    BY <2>5 DEF Write, Overwritten
  <2>6. CASE Rename(p)
    <3>1. CASE tmp = Absent
      BY <2>6, <3>1 DEF Rename
    <3>2. CASE tmp # Absent
      BY <2>6, <3>2 DEF Rename, AfterRename
    <3> QED
      BY <3>1, <3>2
  <2>7. CASE WriteFails(p) \/ Unlock(p)
    BY <2>7 DEF WriteFails, Unlock
  <2>8. CASE Crash(p)
    BY <2>8 DEF Crash
  <2> QED
    BY <2>1, <2>2, <2>3, <2>4, <2>5, <2>6, <2>7, <2>8 DEF Proceed
<1>3. ASSUME TypeOK, UNCHANGED vars PROVE TypeOK'
  BY <1>3 DEF vars
<1> QED
  BY <1>1, <1>2, <1>3 DEF Next

(* Every variable has its type: whatever crashes, whoever ignores the lock.   *)
THEOREM ConfigTypes == Spec => []TypeOK
<1> QED
  BY TypeInductive, PTL DEF Spec

---------------------------------------------------------------------------
(* With the lock.                                                          *)

Critical == {"reading", "opening", "writing", "renaming", "unlocking"}

\* Whoever is between lock and unlock is named in the lock file, and there is
\* only one: what it has read is what is in the file, and what it has written
\* is in the temporary file.
ProcessSound(p) ==
  /\ pc[p] \in Critical => lock = p
  /\ pc[p] \in {"opening", "writing", "renaming"} => copy[p] = file \cup {p}
  /\ fd[p] = IF pc[p] = "writing" THEN "tmp" ELSE "none"
  /\ pc[p] = "writing" => tmp = Torn
  /\ pc[p] = "renaming" => tmp = copy[p]
  /\ pc[p] \in {"locking", "reading", "opening", "writing", "renaming"} => outcome[p] = "running"
  /\ outcome[p] = "saved" => p \in file

LockInvariant ==
  /\ TypeOK
  /\ file # Torn
  /\ \A p \in Processes : ProcessSound(p)

\* A process outside of the lock does not mind what one inside it does, as long
\* as no setting is taken away.
LEMMA Bystander ==
  ASSUME LockInvariant, NEW q \in Processes, pc[q] \notin Critical,
         pc'[q] = pc[q], fd'[q] = fd[q], outcome'[q] = outcome[q], file \subseteq file'
  PROVE  ProcessSound(q)'
<1>1. ProcessSound(q)
  BY DEF LockInvariant
<1> QED
  BY <1>1 DEF ProcessSound, Critical

\* Every step under the lock keeps the invariant, and is a step or a stutter of
\* the register.
LEMMA LockInductive ==
  ASSUME Unlocked = {}, LockInvariant, [Next]_vars
  PROVE  LockInvariant' /\ [Register!Next]_<<file, outcome>>
<1>0. TypeOK' /\ Processes = Locked
  BY TypeInductive DEF LockInvariant, Processes
<1>t. \A s \in SUBSET Processes : s # Torn /\ s # Absent
  BY ConfigAssumption DEF Torn, Absent
<1>u. \A p, q \in Processes : pc[p] \in Critical /\ pc[q] \in Critical => p = q
  BY DEF LockInvariant, ProcessSound
<1>f. lock = Free => \A q \in Processes : pc[q] \notin Critical
  BY ConfigAssumption DEF LockInvariant, ProcessSound
<1>1. ASSUME NEW p \in Processes, Proceed(p) \/ Crash(p)
      PROVE  /\ file' # Torn
             /\ \A q \in Processes : ProcessSound(q)'
             /\ [Register!Next]_<<file, outcome>>
  <2>0. /\ ProcessSound(p) /\ file # Torn /\ file \in SUBSET Processes /\ p \in Locked
        /\ pc \in [Processes -> {"locking", "reading", "opening", "writing", "renaming",
                                 "unlocking", "done", "crashed"}]
        /\ fd \in [Processes -> {"none", "tmp", "file", "old"}]
        /\ copy \in [Processes -> SUBSET Processes]
        /\ outcome \in [Processes -> {"running", "saved", "failed", "timeout", "crashed"}]
    BY <1>0 DEF LockInvariant, TypeOK, Content
  <2>a. \A q \in Processes \ {p} : pc'[q] = pc[q]
    BY <1>1, <2>0 DEF Proceed, Goto, Leave, Acquire, TimeOut, Read, OpenTmp, Write, Rename,
       WriteFails, Unlock, Crash
  <2>b. ASSUME UNCHANGED <<lock, file, tmp>> \/ pc[p] \in Critical \/ lock = Free,
               \A q \in Processes \ {p} : fd'[q] = fd[q] /\ outcome'[q] = outcome[q]
                                          /\ copy'[q] = copy[q],
               file \subseteq file', ProcessSound(p)'
        PROVE  \A q \in Processes : ProcessSound(q)'
    <3>1. ASSUME NEW q \in Processes, q # p PROVE ProcessSound(q)'
      <4>1. CASE pc[q] \notin Critical
        BY <2>a, <2>b, <3>1, <4>1, Bystander
      <4>2. CASE pc[q] \in Critical
        <5>1. UNCHANGED <<lock, file, tmp>> /\ ProcessSound(q)
          BY <1>u, <1>f, <2>b, <3>1, <4>2 DEF LockInvariant
        <5> QED
          BY <2>a, <2>b, <3>1, <5>1 DEF ProcessSound
      <4> QED
        BY <4>1, <4>2
    <3> QED
      BY <2>b, <3>1
  <2> USE DEF Goto, Leave, ProcessSound, Critical
  <2> HIDE <2>a, <2>b
  <2>1. CASE Acquire(p)
    <3>1. ProcessSound(p)'
      BY <2>0, <2>1 DEF Acquire
    <3> QED
      BY <2>0, <2>1, <2>b, <3>1 DEF Acquire, LockIsFree
  <2>2. CASE TimeOut(p)
    <3>1. ProcessSound(p)'
      BY <2>0, <2>2 DEF TimeOut
    <3> QED
      BY <2>0, <2>2, <2>b, <3>1 DEF TimeOut, Register!Next, Register!GiveUp
  <2>3. CASE Read(p)
    <3>1. ProcessSound(p)' /\ UNCHANGED outcome
      BY <2>0, <2>3 DEF Read
    <3> QED
      BY <2>0, <2>3, <2>b, <3>1 DEF Read
  <2>4. CASE OpenTmp(p)
    <3>1. ProcessSound(p)'
      BY <2>0, <2>4 DEF OpenTmp
    <3> QED
      BY <2>0, <2>4, <2>b, <3>1 DEF OpenTmp
  <2>5. CASE Write(p)
    <3>1. tmp' = copy[p] /\ UNCHANGED file
      BY <2>0, <2>5 DEF Write, Overwritten
    <3>2. ProcessSound(p)'
      BY <2>0, <2>5, <3>1 DEF Write
    <3> QED
      BY <2>0, <2>5, <2>b, <3>1, <3>2 DEF Write
  <2>6. CASE Rename(p)
    <3>1. file' = file \cup {p} /\ tmp' = Absent
      BY <2>0, <2>6, <1>t DEF Rename
    <3>2. outcome' = [outcome EXCEPT ![p] = "saved"] /\ outcome[p] = "running"
      BY <2>0, <2>6, <1>t DEF Rename
    <3>3. \A q \in Processes : fd[q] = "none" /\ fd'[q] = "none"
      <4>1. \A q \in Processes : fd[q] = "none"
        BY <2>6, <1>u DEF Rename, LockInvariant
      <4>2. tmp # Absent
        BY <2>0, <2>6, <1>t DEF Rename
      <4> QED
        BY <2>6, <4>1, <4>2 DEF Rename, AfterRename
    <3>4. file' # Torn
      BY <2>0, <3>1, <1>t
    <3>5. Register!Next
      BY <3>1, <3>2 DEF Register!Next, Register!Save
    <3>6. ProcessSound(p)'
      BY <2>0, <2>6, <3>1, <3>2, <3>3 DEF Rename
    <3> QED
      BY <2>0, <2>6, <2>b, <3>1, <3>2, <3>3, <3>4, <3>5, <3>6 DEF Rename
  <2>7. CASE WriteFails(p)
    <3>1. ProcessSound(p)'
      BY <2>0, <2>7 DEF WriteFails
    <3> QED
      BY <2>0, <2>7, <2>b, <3>1 DEF WriteFails, Register!Next, Register!GiveUp
  <2>8. CASE Unlock(p)
    <3>1. ProcessSound(p)'
      BY <2>0, <2>8 DEF Unlock
    <3> QED
      BY <2>0, <2>8, <2>b, <3>1 DEF Unlock
  <2>9. CASE Crash(p)
    <3>1. ProcessSound(p)'
      BY <2>0, <2>9 DEF Crash
    <3>2. CASE outcome[p] = "running"
      BY <2>0, <2>9, <2>b, <3>1, <3>2 DEF Crash, Register!Next, Register!GiveUp
    <3>3. CASE outcome[p] # "running"
      BY <2>0, <2>9, <2>b, <3>1, <3>3 DEF Crash
    <3> QED
      BY <3>2, <3>3
  <2> QED
    BY <1>1, <2>1, <2>2, <2>3, <2>4, <2>5, <2>6, <2>7, <2>8, <2>9 DEF Proceed
<1>2. ASSUME UNCHANGED vars PROVE LockInvariant' /\ [Register!Next]_<<file, outcome>>
  BY <1>0, <1>2 DEF vars, LockInvariant, ProcessSound
<1> QED
  BY <1>0, <1>1, <1>2 DEF Next, LockInvariant

LEMMA LockInit == ASSUME Unlocked = {} PROVE Init => LockInvariant /\ Register!Init
<1>1. {} # Torn
  BY DEF Torn
<1> QED
  BY <1>1, TypeInductive
  DEF Init, LockInvariant, ProcessSound, Critical, Processes, Register!Init

(* Updates through UpdateConfig are not lost, whatever crashes or fails.      *)
THEOREM LockedUpdatesKept == ASSUME Unlocked = {} PROVE Spec => []NoUpdateLost
<1>1. LockInvariant => NoUpdateLost
  BY DEF LockInvariant, ProcessSound, NoUpdateLost
<1> QED
  BY <1>1, LockInit, LockInductive, PTL DEF Spec

(* config.json can be read at any moment, by processes without the lock too.  *)
THEOREM ReadableUnderLock == ASSUME Unlocked = {} PROVE Spec => []FileReadable
<1>1. LockInvariant => FileReadable
  BY DEF LockInvariant, FileReadable
<1> QED
  BY <1>1, LockInit, LockInductive, PTL DEF Spec

(* Updates through UpdateConfig implement the atomic register.                *)
THEOREM LockedUpdatesAtomic == ASSUME Unlocked = {} PROVE Spec => UpdatesAreAtomic
<1> QED
  BY LockInit, LockInductive, PTL DEF Spec, UpdatesAreAtomic, Register!Spec
=============================================================================

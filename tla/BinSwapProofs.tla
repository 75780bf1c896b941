---------------------------- MODULE BinSwapProofs ----------------------------
(***************************************************************************)
(* Proofs about BinSwap.  The inductive invariant follows what is durable: *)
(* as long as no restore was hasty, every state the directory can come     *)
(* back in has a synced, trusted target; no target is the inode fs::copy   *)
(* would truncate next, and the progress of a swap says how much of the    *)
(* backup is on the disk.                                                  *)
(***************************************************************************)
EXTENDS BinSwap, TLAPS

BackedUp == {"install", "rename", "sync_dir"}
BeforeTemp == {"read", "verify", "backup", "copy", "sync_prev", "install"}
Verified == {"backup", "copy", "sync_prev", "install", "rename", "sync_dir"}

(* What the disk can come back with names files, whole and trusted ones    *)
(* unless a restore was hasty.                                             *)
DiskSound ==
    \A d \in onDisk :
        /\ d.prev # d.target
        /\ data[d.target] # None
        /\ d.prev # None => data[d.prev] # None /\ d.prev # temp
        /\ ~hasty => d.target \in synced /\ data[d.target] \in trusted

(* The inode that fs::copy may truncate is nobody's target. *)
PrevApart == dir.prev # None => \A d \in onDisk : d.target # dir.prev

(* Wherever the new binary is the target, the old one is safe in .prev. *)
BackupSound ==
    \A d \in onDisk :
        d.target = temp
            => d.prev # None /\ d.prev \in synced /\ data[d.prev] = original

(* A state with the new binary in place that the disk might still bring    *)
(* back is the present one, or has been restored from.                     *)
OneCommit ==
    dir.target # temp /\ dir.prev # None => \A d \in onDisk : d.target # temp

Progress ==
    /\ ~hasty => original \in trusted
    /\ pc = "verify" => bytes \in Binary
    /\ pc \in Verified => bytes \in trusted
    /\ pc \in BeforeTemp => temp = None
    /\ pc \in BeforeTemp \cup {"rename"} => data[dir.target] = original
    /\ pc \in BackedUp \cup {"copy", "sync_prev"} => dir.prev # None
    /\ pc \in BackedUp \cup {"sync_prev"} => data[dir.prev] = original
    /\ pc \in BackedUp => dir.prev \in synced
    /\ pc = "rename" => temp \in Free /\ temp \in synced /\ data[temp] = bytes
    /\ pc = "sync_dir"
          => dir.target = temp /\ temp \in synced /\ data[temp] = bytes

Reported ==
    report = "ok" => /\ pc = "idle"
                     /\ onDisk = {dir}
                     /\ dir.target = temp /\ temp \in synced
                     /\ data[dir.target] = bytes

Safe ==
    /\ TypeOK /\ DiskSound /\ PrevApart /\ BackupSound /\ OneCommit
    /\ Progress /\ Reported

(* The installation directory at the start satisfies the invariant. *)
LEMMA SafeInit == Init => Safe
<1> SUFFICES ASSUME Init
             PROVE  Safe
  OBVIOUS
<1> USE BinSwapAssumption
<1>1. TypeOK
  <2>1. onDisk \subseteq [target : Inode, prev : Inode \cup {None}]
    BY DEF Init
  <2>2. data \in [Inode -> Binary \cup {Torn, None}]
    BY DEF Init
  <2>3. hasty \in BOOLEAN
    BY DEF Init
  <2> QED
    BY <2>1, <2>2, <2>3 DEF Init, TypeOK, Steps
<1>2. DiskSound /\ PrevApart /\ BackupSound /\ OneCommit
  BY DEF Init, DiskSound, PrevApart, BackupSound, OneCommit
<1>3. Progress /\ Reported
  BY DEF Init, Progress, Reported, Verified, BeforeTemp, BackedUp
<1> QED
  BY <1>1, <1>2, <1>3 DEF Safe

(* Every step of the swap, the caller and the disk keeps the invariant. *)
LEMMA SafeStep == Safe /\ [Next]_vars => Safe'
<1> SUFFICES ASSUME Safe, [Next]_vars
             PROVE  Safe'
  OBVIOUS
<1> USE BinSwapAssumption
<1> USE DEF Safe, TypeOK, DiskSound, PrevApart, BackupSound, OneCommit,
            Progress, Reported, Verified, BeforeTemp, BackedUp, Steps, files,
            locals, Step
<1>1. CASE \E digest \in Binary \cup {None} : StartSwap(digest)
  BY <1>1, SMTT(60) DEF StartSwap
<1>2. CASE ReadNew
  BY <1>2, SMTT(60) DEF ReadNew
<1>3. CASE VerifyDigest
  BY <1>3, SMTT(60) DEF VerifyDigest
<1>4. CASE OpenPrev
  <2> USE <1>4 DEF OpenPrev, Link, Free
  <2>1. TypeOK'
    BY SMTT(30)
  <2>2. DiskSound'
    BY SMTT(30)
  <2>3. PrevApart'
    BY SMTT(30)
  <2>4. BackupSound'
    BY SMTT(30)
  <2>5. OneCommit'
    BY SMTT(30)
  <2>6. Progress'
    BY SMTT(30)
  <2>7. Reported'
    BY SMTT(30)
  <2> QED
    BY <2>1, <2>2, <2>3, <2>4, <2>5, <2>6, <2>7 DEF Safe
<1>5. CASE CopyToPrev
  BY <1>5, SMTT(60) DEF CopyToPrev
<1>6. CASE SyncPrev
  BY <1>6, SMTT(60) DEF SyncPrev
<1>7. CASE WriteTemp
  BY <1>7, SMTT(60) DEF WriteTemp, Free, Installed
<1>8. CASE RenameTemp
  BY <1>8, SMTT(60) DEF RenameTemp, Link, Free
<1>9. CASE SyncDir
  BY <1>9, SMTT(60) DEF SyncDir
<1>10. CASE Fail
  BY <1>10, SMTT(60) DEF Fail
<1>11. CASE Restore
  <2> DEFINE back == [target |-> dir.prev, prev |-> None]
  <2>1. /\ dir \in onDisk /\ dir.prev \in Inode /\ dir.prev # None
        /\ onDisk' = onDisk \cup {back} /\ dir' = back
        /\ back.target = dir.prev /\ back.prev = None
        /\ dir.prev # temp /\ pc = "idle"
        /\ report' = "none" /\ original' = data[dir.prev]
        /\ hasty' = (hasty \/ dir.target # temp)
        /\ UNCHANGED <<data, synced, expected, bytes, temp, incoming, pc,
                       trusted>>
    BY <1>11 DEF Restore, Link
  <2> HIDE DEF back
  <2>2. ~hasty' => /\ ~hasty /\ dir.target = temp /\ dir.prev \in synced
                   /\ data[dir.prev] = original
    BY <2>1
  <2>3. TypeOK'
    BY <2>1, SMTT(30) DEF back
  <2>4. DiskSound'
    BY <2>1, <2>2
  <2>5. PrevApart' /\ OneCommit'
    BY <2>1
  <2>6. dir.target # temp => \A d \in onDisk : d.target # temp
    BY <2>1
  <2>7. BackupSound'
    <3> SUFFICES ASSUME NEW d \in onDisk', d.target = temp
                 PROVE  /\ d.prev # None /\ d.prev \in synced
                        /\ data[d.prev] = original'
      BY <2>1
    <3>1. d \in onDisk
      <4>1. dir.target # dir.prev
        BY <2>1
      <4>2. CASE dir.target = temp
        BY <2>1, <4>1, <4>2
      <4>3. CASE dir.target # temp
        BY <2>1, <2>6, <4>3
      <4> QED
        BY <4>2, <4>3
    <3>2. dir.target = temp
      BY <2>6, <3>1
    <3> QED
      BY <2>1, <3>1, <3>2
  <2>8. Progress'
    BY <2>1, <2>2
  <2>9. Reported'
    BY <2>1
  <2> QED
    BY <2>3, <2>4, <2>5, <2>7, <2>8, <2>9 DEF Safe
<1>12. CASE Rewrite
  BY <1>12, SMTT(60) DEF Rewrite, Free
<1>13. CASE Crash
  BY <1>13, SMTT(60) DEF Crash
<1>14. CASE PowerLoss
  <2> USE <1>14 DEF PowerLoss
  <2>1. TypeOK'
    BY SMTT(30)
  <2>2. DiskSound'
    BY SMTT(30)
  <2>3. PrevApart'
    BY SMTT(30)
  <2>4. BackupSound'
    BY SMTT(30)
  <2>5. OneCommit'
    BY SMTT(30)
  <2>6. Progress'
    BY SMTT(30)
  <2>7. Reported'
    BY SMTT(30)
  <2> QED
    BY <2>1, <2>2, <2>3, <2>4, <2>5, <2>6, <2>7 DEF Safe
<1>15. CASE UNCHANGED vars
  BY <1>15, SMTT(60) DEF vars, Free
<1> QED
  BY <1>1, <1>2, <1>3, <1>4, <1>5, <1>6, <1>7, <1>8, <1>9, <1>10, <1>11,
     <1>12, <1>13, <1>14, <1>15 DEF Next

(* Hence every reachable state is safe. *)
LEMMA SafeInvariant == Spec => []Safe
  BY SafeInit, SafeStep, PTL DEF Spec

(* TypeOK of BinSwap: above all, the target is at every moment a file.     *)
THEOREM TypeCorrect == Spec => []TypeOK
<1>1. Safe => TypeOK
  BY DEF Safe
<1> QED
  BY SafeInvariant, <1>1, PTL

(* As long as every restore undoes a swap that had replaced the target,    *)
(* the installed binary is whole and either the factory's or one whose     *)
(* digest was checked, whatever fails, dies or loses power.                *)
THEOREM TargetAlwaysTrusted == Spec => []TargetTrusted
<1>1. Safe => TargetTrusted
  BY DEF Safe, TypeOK, DiskSound, TargetTrusted
<1> QED
  BY SafeInvariant, <1>1, PTL

(* From the rename of a swap to the start of the next one, the binary it   *)
(* replaced is whole in .prev.                                             *)
THEOREM RollbackAlwaysReady == Spec => []RollbackReady
<1>1. Safe => RollbackReady
  BY DEF Safe, TypeOK, BackupSound, RollbackReady
<1> QED
  BY SafeInvariant, <1>1, PTL

(* A swap that returned Ok survives power loss. *)
THEOREM OkAlwaysDurable == Spec => []OkIsDurable
<1>1. Safe => OkIsDurable
  BY DEF Safe, Reported, OkIsDurable
<1> QED
  BY SafeInvariant, <1>1, PTL
=============================================================================

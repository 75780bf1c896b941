------------------------------- MODULE BinSwap -------------------------------
(***************************************************************************)
(* Binary self-update (src/src/binswap.rs): swap_binary replaces the       *)
(* installed binary and keeps the old one beside it as <target>.prev,      *)
(* restore_prev moves it back.                                             *)
(*                                                                         *)
(* The directory holds two entries, target and prev, that name inodes.     *)
(* fs::copy writes the inode of .prev in place; the install writes a new   *)
(* inode and renames it.  External to the code: an inode that is not       *)
(* fsynced may be torn by a power loss, and the directory comes back from  *)
(* one in any of the states it has had since it was last fsynced.          *)
(***************************************************************************)
CONSTANTS
    Binary,     \* contents of the binaries that can be handed to a swap
    Factory,    \* the binary installed first
    Inode,
    FirstInode, \* the inode it was installed in
    None

Torn == "torn"      \* the contents of a file written in part

ASSUME BinSwapAssumption ==
    /\ Factory \in Binary
    /\ FirstInode \in Inode
    /\ None \notin Inode \cup Binary \cup {Torn}
    /\ Torn \notin Binary

VARIABLES
    dir,        \* the entries of the directory
    onDisk,     \* the states the directory can have after a power loss
    data,       \* the contents of each inode
    synced,     \* inodes whose contents are on the disk
    incoming,   \* the file new_binary, which others may rewrite
    pc,         \* the next step of swap_binary
    expected,   \* opts.expected_digest
    bytes,      \* new_bytes
    temp,       \* the inode of the temporary file
    report,     \* what the last swap returned: "none", "ok" or "error"
    original,   \* history: contents of the target when the swap started
    trusted,    \* history: contents that passed a digest check
    hasty       \* history: a restore undid a swap that had replaced nothing

files == <<dir, onDisk, data, synced>>
locals == <<expected, bytes, temp>>
vars == <<files, locals, incoming, pc, report, original, trusted, hasty>>

Steps == {"idle", "read", "verify", "backup", "copy", "sync_prev", "install",
          "rename", "sync_dir"}

Init ==
    /\ dir = [target |-> FirstInode, prev |-> None]
    /\ onDisk = {dir}
    /\ data = [i \in Inode |-> IF i = FirstInode THEN Factory ELSE None]
    /\ synced = {FirstInode}
    /\ incoming \in Binary
    /\ pc = "idle"
    /\ expected = None
    /\ bytes = None
    /\ temp = None
    /\ report = "none"
    /\ original = Factory
    /\ trusted = {Factory}
    /\ hasty = FALSE

(* Inodes that no entry names, or could name after a power loss. *)
Free == {i \in Inode : \A d \in onDisk : i \notin {d.target, d.prev}}

Link(entries) ==
    /\ dir' = entries
    /\ onDisk' = onDisk \cup {entries}

(* The step of swap_binary at `from`, followed by the one at `to`. *)
Step(from, to) == pc = from /\ pc' = to

----------------------------------------------------------------------------
(* swap_binary. *)

StartSwap(digest) ==
    /\ Step("idle", "read")
    /\ expected' = digest
    /\ bytes' = None
    /\ temp' = None
    /\ report' = "none"
    /\ original' = data[dir.target]
    /\ UNCHANGED <<files, incoming, trusted, hasty>>

(* new_binary is read once, for the digest and for the install. *)
ReadNew ==
    /\ Step("read", "verify")
    /\ bytes' = incoming
    /\ UNCHANGED <<files, expected, temp, incoming, report, original,
                   trusted, hasty>>

(* On a mismatch nothing has been touched, and Fail ends the swap. *)
VerifyDigest ==
    /\ Step("verify", "backup")
    /\ expected \in {None, bytes}
    /\ trusted' = trusted \cup {bytes}
    /\ UNCHANGED <<files, locals, incoming, report, original, hasty>>

(* fs::copy creates .prev, or truncates the one that is there. *)
OpenPrev ==
    /\ Step("backup", "copy")
    /\ \E i \in IF dir.prev = None THEN Free ELSE {dir.prev} :
          /\ Link([dir EXCEPT !.prev = i])
          /\ data' = [data EXCEPT ![i] = Torn]
          /\ synced' = synced \ {i}
    /\ UNCHANGED <<locals, incoming, report, original, trusted, hasty>>

CopyToPrev ==
    /\ Step("copy", "sync_prev")
    /\ data' = [data EXCEPT ![dir.prev] = data[dir.target]]
    /\ UNCHANGED <<dir, onDisk, synced, locals, incoming, report, original,
                   trusted, hasty>>

(* A bug: the backup is not fsynced. *)
SkipSyncPrev ==
    /\ Step("sync_prev", "install")
    /\ UNCHANGED <<files, locals, incoming, report, original, trusted, hasty>>

SyncPrev ==
    /\ Step("sync_prev", "install")
    /\ synced' = synced \cup {dir.prev}
    /\ UNCHANGED <<dir, onDisk, data, locals, incoming, report, original,
                   trusted, hasty>>

(* A bug: new_binary is read again for the install. *)
InstalledAgain == incoming

Installed == bytes

(* The temporary file is written, fsynced and made executable. *)
WriteTemp ==
    /\ Step("install", "rename")
    /\ \E i \in Free :
          /\ temp' = i
          /\ data' = [data EXCEPT ![i] = Installed]
          /\ synced' = synced \cup {i}
    /\ UNCHANGED <<dir, onDisk, expected, bytes, incoming, report, original,
                   trusted, hasty>>

RenameTemp ==
    /\ Step("rename", "sync_dir")
    /\ Link([dir EXCEPT !.target = temp])
    /\ UNCHANGED <<data, synced, locals, incoming, report, original,
                   trusted, hasty>>

(* A bug: the swap returns without fsync_parent. *)
ReturnUnsynced ==
    /\ Step("sync_dir", "idle")
    /\ report' = "ok"
    /\ UNCHANGED <<files, locals, incoming, original, trusted, hasty>>

SyncDir ==
    /\ Step("sync_dir", "idle")
    /\ onDisk' = {dir}
    /\ report' = "ok"
    /\ UNCHANGED <<dir, data, synced, locals, incoming, original,
                   trusted, hasty>>

(* Any step may fail; the swap returns the error and undoes nothing.       *)
Fail ==
    /\ Step(pc, "idle")
    /\ pc # "idle"
    /\ report' = "error"
    /\ UNCHANGED <<files, locals, incoming, original, trusted, hasty>>

----------------------------------------------------------------------------
(* restore_prev asks for nothing but a .prev to be there: it installs what *)
(* a swap that failed or died in fs::copy left there just as well.         *)
Restore ==
    /\ pc = "idle"
    /\ dir.prev # None
    /\ Link([target |-> dir.prev, prev |-> None])
    /\ report' = "none"
    /\ original' = data[dir.prev]
    /\ hasty' = (hasty \/ dir.target # temp)
    /\ UNCHANGED <<data, synced, locals, incoming, pc, trusted>>

----------------------------------------------------------------------------
(* The environment. *)

Rewrite ==
    /\ incoming' \in Binary
    /\ UNCHANGED <<files, locals, pc, report, original, trusted, hasty>>

(* The process dies; what the last swap returned is not known any more.    *)
Crash ==
    /\ pc # "idle"
    /\ pc' = "idle"
    /\ UNCHANGED <<files, locals, incoming, report, original, trusted, hasty>>

(* External: what the disk gives back. *)
PowerLoss ==
    /\ dir' \in onDisk
    /\ onDisk' = {dir'}
    /\ data' = [i \in Inode |-> IF i \in synced THEN data[i] ELSE Torn]
    /\ pc' = "idle"
    /\ UNCHANGED <<synced, locals, incoming, report, original, trusted, hasty>>

Next ==
    \/ \E digest \in Binary \cup {None} : StartSwap(digest)
    \/ ReadNew \/ VerifyDigest
    \/ OpenPrev \/ CopyToPrev \/ SyncPrev
    \/ WriteTemp \/ RenameTemp \/ SyncDir
    \/ Fail \/ Restore
    \/ Rewrite \/ Crash \/ PowerLoss

Spec == Init /\ [][Next]_vars

----------------------------------------------------------------------------
(* Properties. *)

(* The type of every variable. *)
TypeOK ==
    /\ onDisk \subseteq [target : Inode, prev : Inode \cup {None}]
    /\ dir \in onDisk
    /\ data \in [Inode -> Binary \cup {Torn, None}]
    /\ synced \subseteq Inode
    /\ incoming \in Binary
    /\ pc \in Steps
    /\ expected \in Binary \cup {None}
    /\ bytes \in Binary \cup {None}
    /\ temp \in Inode \cup {None}
    /\ report \in {"none", "ok", "error"}
    /\ original \in Binary \cup {Torn}
    /\ trusted \subseteq Binary
    /\ hasty \in BOOLEAN

(* As long as every restore undoes a swap that had replaced the target,    *)
(* the installed binary is whole and is one that was installed first or    *)
(* passed its digest check, across failures, deaths, power losses and a    *)
(* new_binary file that changes under the swap: the rename is the commit   *)
(* point, the bytes installed are the bytes checked, and the backup is     *)
(* whole before them.  Any other restore may install a torn .prev: code    *)
(* and doc disagree there (README, section 6).                             *)
TargetTrusted == ~hasty => data[dir.target] \in trusted

(* Once a swap has replaced the target, and until the next one begins, the *)
(* binary it replaced is whole in .prev ("rollback is safe even on power   *)
(* loss"), whether the swap returned or died.                              *)
RollbackReady ==
    dir.target = temp => dir.prev # None /\ data[dir.prev] = original

(* A swap that returned Ok stays in effect until the next call.            *)
OkIsDurable ==
    report = "ok" => data[dir.target] = bytes

=============================================================================

----------------------------- MODULE ImportStore -----------------------------
(***************************************************************************)
(* The import store of one environment (src/src/staging.rs): the content-  *)
(* addressed blobs under cas/, the import receipt with its signature, and  *)
(* the preflight that decides whether a delta can be imported.             *)
(*                                                                         *)
(* Writers hold the env lock; preflight_digests and read_import_receipt    *)
(* take no lock.  A file is replaced by atomic_write_bytes: a rename, then *)
(* an fsync of the directory, which may fail on its own.  cas/ is made by  *)
(* the first put, in env_dir, which only the write of a receipt fsyncs.    *)
(* External to the code: after a power loss a directory comes back in any  *)
(* of the states it has had since it was last fsynced.  Assumed: the entry *)
(* of env_dir itself, which nothing fsyncs, is on the disk.                *)
(***************************************************************************)
EXTENDS Naturals

CONSTANTS
    Proc,           \* callers
    Digest,         \* digests of the blobs plans refer to
    MaxReceipts,    \* bound: receipts that are written
    None

ASSUME ImportStoreAssumption ==
    /\ MaxReceipts \in Nat
    /\ None \notin Proc
    /\ None \notin Nat
    /\ None \notin Digest

VARIABLES
    cas,            \* the blobs under cas/
    casOnDisk,      \* the states cas/ can have after a power loss
    dir,            \* env_dir: import-receipt.json, its .sig, and cas/
    dirOnDisk,      \* the states they can have after a power loss
    lock,           \* who holds <env>/.lock
    pc,             \* the next step of each caller
    arg,            \* the digest or the receipt of the call that writes
    needed,         \* preflight_digests: digests not looked up yet
    missing,        \* preflight_digests: digests found missing
    written,        \* history: receipts whose write has begun
    settled,        \* history: the receipt written last, if that returned Ok
    held,           \* history: blobs put with an Ok, not removed since, and
                    \* not lost with cas/
    vouched,        \* history: those of them put before a sync of env_dir,
                    \* or into a cas/ that was on the disk
    asked,          \* history: what needed was when the preflight began
    seenIn, seenOut \* history: digests in cas/, and not to be found there, at
                    \* some moment since it began

store == <<cas, casOnDisk, dir, dirOnDisk>>
preflight == <<needed, missing, asked, seenIn, seenOut>>
acknowledged == <<held, vouched>>
vars == <<store, lock, pc, arg, preflight, written, settled, acknowledged>>

(* A receipt is the number of the write it belongs to. *)
Receipt == 1..MaxReceipts
Entries == [receipt : Receipt \cup {None}, sig : Receipt \cup {None},
            cas : BOOLEAN]

Writing == {"write_sig", "sync_sig", "write_receipt", "sync_receipt",
            "put", "sync_cas", "remove"}
Steps == Writing \cup {"idle", "look", "answered", "read_sig"}

Init ==
    /\ cas = {}
    /\ casOnDisk = {{}}
    /\ dir = [receipt |-> None, sig |-> None, cas |-> FALSE]
    /\ dirOnDisk = {dir}
    /\ lock = None
    /\ pc = [p \in Proc |-> "idle"]
    /\ arg = [p \in Proc |-> None]
    /\ needed = [p \in Proc |-> {}]
    /\ missing = [p \in Proc |-> {}]
    /\ asked = [p \in Proc |-> {}]
    /\ seenIn = [p \in Proc |-> {}]
    /\ seenOut = [p \in Proc |-> {}]
    /\ written = 0
    /\ settled = None
    /\ held = {}
    /\ vouched = {}

Goto(p, step) == pc' = [pc EXCEPT ![p] = step]

At(p, from, to) == pc[p] = from /\ Goto(p, to)

(* A bug: the call does not wait for the lock. *)
AcquireUnlocked(p, value, step) ==
    /\ At(p, "idle", step)
    /\ lock' = p
    /\ arg' = [arg EXCEPT ![p] = value]
    /\ UNCHANGED <<store, preflight>>

Acquire(p, value, step) ==
    /\ At(p, "idle", step)
    /\ lock = None
    /\ lock' = p
    /\ arg' = [arg EXCEPT ![p] = value]
    /\ UNCHANGED <<store, preflight>>

Release(p, from) ==
    /\ At(p, from, "idle")
    /\ lock' = None
    /\ arg' = [arg EXCEPT ![p] = None]

----------------------------------------------------------------------------
(* write_import_receipt: the signature first, the receipt second. *)

WriteReceiptCall(p) ==
    /\ written < MaxReceipts
    /\ Acquire(p, written + 1, "write_sig")
    /\ written' = written + 1
    /\ settled' = None
    /\ UNCHANGED acknowledged

(* A bug: the receipt first, the signature second. *)
ReceiptFirst == <<"receipt", "sig">>

WriteOrder == <<"sig", "receipt">>

Rename(p, file) ==
    /\ dir' = [dir EXCEPT ![file] = arg[p]]
    /\ dirOnDisk' = dirOnDisk \cup {dir'}
    /\ UNCHANGED <<cas, casOnDisk, lock, arg, preflight, written, settled,
                   acknowledged>>

(* The fsync of env_dir, which puts cas/ on the disk as well. *)
SyncDir ==
    /\ dirOnDisk' = {dir}
    /\ vouched' = held
    /\ UNCHANGED <<cas, casOnDisk, dir, held>>

WriteSig(p) ==
    /\ At(p, "write_sig", "sync_sig")
    /\ Rename(p, WriteOrder[1])

SyncSig(p) ==
    /\ At(p, "sync_sig", "write_receipt")
    /\ SyncDir
    /\ UNCHANGED <<lock, arg, preflight, written, settled>>

WriteReceipt(p) ==
    /\ At(p, "write_receipt", "sync_receipt")
    /\ Rename(p, WriteOrder[2])

SyncReceipt(p) ==
    /\ Release(p, "sync_receipt")
    /\ SyncDir
    /\ settled' = arg[p]
    /\ UNCHANGED <<preflight, written>>

(* read_import_receipt: the receipt, and None if there is none. *)
ReadReceipt(p) ==
    /\ At(p, "idle", "read_sig")
    /\ dir.receipt # None
    /\ UNCHANGED <<store, lock, arg, preflight, written, settled,
                   acknowledged>>

ReadSig(p) ==
    /\ At(p, "read_sig", "idle")
    /\ dir.sig # None
    /\ UNCHANGED <<store, lock, arg, preflight, written, settled,
                   acknowledged>>

----------------------------------------------------------------------------
(* cas_put, of bytes that hash to d, and cas_remove. *)

PutCall(p, d) ==
    /\ Acquire(p, d, "put")
    /\ UNCHANGED <<written, settled, acknowledged>>

RemoveCall(p, d) ==
    /\ Acquire(p, d, "remove")
    /\ held' = held \ {d}
    /\ vouched' = vouched \ {d}
    /\ UNCHANGED <<written, settled>>

(* cas/ becomes s, under the eyes of every preflight. *)
ChangeCas(s) ==
    /\ cas' = s
    /\ casOnDisk' = casOnDisk \cup {s}
    /\ seenIn' = [p \in Proc |-> seenIn[p] \cup (asked[p] \cap s)]
    /\ seenOut' = [p \in Proc |-> seenOut[p] \cup (asked[p] \ s)]
    /\ UNCHANGED <<needed, missing, asked, written, settled, acknowledged>>

(* A bug: the bytes are not hashed, and the blob is that of no digest. *)
FiledUnchecked(p) == None

Filed(p) == arg[p]

(* The first put makes cas/. *)
Put(p) ==
    /\ At(p, "put", "sync_cas")
    /\ ChangeCas(cas \cup {Filed(p)})
    /\ dir' = [dir EXCEPT !.cas = TRUE]
    /\ dirOnDisk' = dirOnDisk \cup {dir'}
    /\ UNCHANGED <<lock, arg>>

(* The blob of a put that returns Ok, in a cas/ that may be lost itself as *)
(* long as env_dir can come back without it.                               *)
Acknowledge(d) ==
    /\ held' = held \cup {d}
    /\ vouched' = IF \A e \in dirOnDisk : e.cas THEN vouched \cup {d}
                                               ELSE vouched

(* A bug: the put does not fsync the directory. *)
SkipSyncCas(p) ==
    /\ Release(p, "sync_cas")
    /\ Acknowledge(arg[p])
    /\ UNCHANGED <<store, preflight, written, settled>>

(* cas/ is fsynced, and not env_dir. *)
SyncCas(p) ==
    /\ Release(p, "sync_cas")
    /\ casOnDisk' = {cas}
    /\ Acknowledge(arg[p])
    /\ UNCHANGED <<cas, dir, dirOnDisk, preflight, written, settled>>

(* Idempotent: no blob, no change. *)
Remove(p) ==
    /\ Release(p, "remove")
    /\ ChangeCas(cas \ {arg[p]})
    /\ UNCHANGED <<dir, dirOnDisk>>

----------------------------------------------------------------------------
(* preflight_digests: one cas_contains per digest the envelope lacks. *)

BeginPreflight(p, digests) ==
    /\ needed' = [needed EXCEPT ![p] = digests]
    /\ asked' = [asked EXCEPT ![p] = digests]
    /\ missing' = [missing EXCEPT ![p] = {}]
    /\ seenIn' = [seenIn EXCEPT ![p] = digests \cap cas]
    /\ seenOut' = [seenOut EXCEPT ![p] = digests \ cas]

(* For a plan with `digests`, some of them not in the envelope: those that *)
(* it carries are never looked up.                                         *)
PreflightCall(p, digests, envelope) ==
    /\ At(p, "idle", "look")
    /\ ~ digests \subseteq envelope
    /\ BeginPreflight(p, digests \ envelope)
    /\ UNCHANGED <<store, lock, arg, written, settled, acknowledged>>

(* A bug: the preflight stops at the first missing digest. *)
LeftAfterFirst(p, d) == IF d \in cas THEN needed[p] \ {d} ELSE {}

LeftAfter(p, d) == needed[p] \ {d}

(* The lookup of d answers that the digests of `absent` are missing. *)
LookUp(p, d, absent) ==
    /\ d \in needed[p]
    /\ needed' = [needed EXCEPT ![p] = LeftAfter(p, d)]
    /\ missing' = [missing EXCEPT ![p] = @ \cup absent]
    /\ seenOut' = [seenOut EXCEPT ![p] = @ \cup absent]
    /\ At(p, "look", IF LeftAfter(p, d) = {} THEN "answered" ELSE "look")
    /\ UNCHANGED <<store, lock, arg, asked, seenIn, written, settled,
                   acknowledged>>

Look(p, d) == LookUp(p, d, {d} \ cas)

(* An lstat that fails for another reason counts as a missing blob. *)
LookFails(p, d) == LookUp(p, d, {d})

(* Ok, or PreflightMissing with `missing`. *)
Answer(p) ==
    /\ At(p, "answered", "idle")
    /\ BeginPreflight(p, {})
    /\ UNCHANGED <<store, lock, arg, written, settled, acknowledged>>

----------------------------------------------------------------------------
(* Failures. *)

(* The call fails, or its process dies; the lock goes with it. *)
Abort(p) ==
    /\ pc[p] # "idle"
    /\ Goto(p, "idle")
    /\ lock' = IF lock = p THEN None ELSE lock
    /\ arg' = [arg EXCEPT ![p] = None]
    /\ BeginPreflight(p, {})
    /\ UNCHANGED <<store, written, settled, acknowledged>>

(* External: what the disk gives back. *)
PowerLoss ==
    /\ dir' \in dirOnDisk
    /\ dirOnDisk' = {dir'}
    /\ cas' \in IF dir'.cas THEN casOnDisk ELSE {{}}
    /\ casOnDisk' = {cas'}
    /\ held' = IF dir'.cas THEN held ELSE {}
    /\ lock' = None
    /\ pc' = [p \in Proc |-> "idle"]
    /\ arg' = [p \in Proc |-> None]
    /\ needed' = [p \in Proc |-> {}]
    /\ missing' = needed'
    /\ asked' = needed'
    /\ seenIn' = needed'
    /\ seenOut' = needed'
    /\ UNCHANGED <<written, settled, vouched>>

Next ==
    \/ \E p \in Proc :
         \/ WriteReceiptCall(p) \/ WriteSig(p) \/ SyncSig(p)
         \/ WriteReceipt(p) \/ SyncReceipt(p)
         \/ ReadReceipt(p) \/ ReadSig(p)
         \/ \E d \in Digest :
              \/ PutCall(p, d) \/ RemoveCall(p, d)
              \/ Look(p, d) \/ LookFails(p, d)
         \/ Put(p) \/ SyncCas(p) \/ Remove(p)
         \/ \E digests, envelope \in SUBSET Digest :
              PreflightCall(p, digests, envelope)
         \/ Answer(p) \/ Abort(p)
    \/ PowerLoss

Spec == Init /\ [][Next]_vars

----------------------------------------------------------------------------
(* Properties. *)

(* The type of every variable. *)
TypeOK ==
    /\ cas \in SUBSET Digest
    /\ casOnDisk \in SUBSET SUBSET Digest
    /\ dir \in Entries
    /\ dirOnDisk \in SUBSET Entries
    /\ lock \in Proc \cup {None}
    /\ pc \in [Proc -> Steps]
    /\ arg \in [Proc -> Digest \cup Receipt \cup {None}]
    /\ needed \in [Proc -> SUBSET Digest]
    /\ missing \in [Proc -> SUBSET Digest]
    /\ asked \in [Proc -> SUBSET Digest]
    /\ seenIn \in [Proc -> SUBSET Digest]
    /\ seenOut \in [Proc -> SUBSET Digest]
    /\ written \in 0..MaxReceipts
    /\ settled \in Receipt \cup {None}
    /\ held \in SUBSET Digest
    /\ vouched \in SUBSET Digest

(* A reader that has found a receipt finds a signature beside it, through  *)
(* every crash, failed fsync and power loss inside write_import_receipt:   *)
(* "the reverse order would leave receipt-without-sig".                    *)
ReceiptSigned ==
    /\ dir.receipt # None => dir.sig # None
    /\ \A p \in Proc : pc[p] = "read_sig" => dir.sig # None

(* Once write_import_receipt has returned Ok, and until the next one takes *)
(* the lock, the receipt and its signature are those of that one write, so *)
(* the pair verifies, also after a power loss.                             *)
SettledReceiptVerifies ==
    settled # None => dir.receipt = settled /\ dir.sig = settled

(* A blob that cas_put has acknowledged before a receipt is written, or    *)
(* into a cas/ that a receipt's fsync of env_dir has put on the disk,      *)
(* stays across power losses until a caller removes it: what a signed      *)
(* receipt says is held can be used.  Before the first receipt it may be   *)
(* lost with cas/ (README, section 6).                                     *)
HeldBlobsKept == vouched \subseteq cas

(* preflight_digests lists every digest that could not be resolved while   *)
(* it ran ("never first-only") and none that every lookup would have       *)
(* found, with blobs coming and going between its lookups and lookups that *)
(* fail.                                                                   *)
PreflightListsMissing ==
    \A p \in Proc : pc[p] = "answered" =>
        /\ asked[p] \ seenIn[p] \subseteq missing[p]
        /\ missing[p] \subseteq seenOut[p]
=============================================================================

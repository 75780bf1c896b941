-------------------------- MODULE ImportStoreProofs --------------------------
(***************************************************************************)
(* Proofs about ImportStore.  The env lock makes a writer the only one     *)
(* (Mutex); beside it three invariants that do not need each other: how    *)
(* far a receipt's write has come, in every state the directory can come   *)
(* back in (Receipts), the same for cas/ (Blobs), and what a preflight has *)
(* seen so far (Looking).                                                  *)
(***************************************************************************)
EXTENDS ImportStore, TLAPS

ReceiptSteps == {"write_sig", "sync_sig", "write_receipt", "sync_receipt"}

Mutex ==
    /\ TypeOK
    /\ \A p \in Proc :
         /\ pc[p] \in Writing => lock = p
         /\ pc[p] \in ReceiptSteps => arg[p] \in Receipt
         /\ pc[p] \in Writing \ ReceiptSteps => arg[p] \in Digest

(* Every state of the directory has a signature if it has a receipt. *)
Receipts ==
    /\ dir \in dirOnDisk
    /\ \A e \in dirOnDisk : e.receipt # None => e.sig # None
    /\ \A p \in Proc :
         /\ pc[p] = "read_sig" => dir.sig # None
         /\ pc[p] \in ReceiptSteps => settled = None
         /\ pc[p] \in ReceiptSteps \ {"write_sig"} => dir.sig = arg[p]
         /\ pc[p] \in {"write_receipt", "sync_receipt"}
              => \A e \in dirOnDisk : e.sig # None
         /\ pc[p] = "sync_receipt" => dir.receipt = arg[p]
    /\ settled # None
         => \A e \in dirOnDisk : e.receipt = settled /\ e.sig = settled

(* Every state of cas/ has the blobs that are held, and every state of     *)
(* env_dir has cas/ once one of them is vouched for.                       *)
Blobs ==
    /\ dir \in dirOnDisk
    /\ cas \in casOnDisk
    /\ \A s \in casOnDisk : held \subseteq s
    /\ held # {} => dir.cas
    /\ vouched \subseteq held
    /\ vouched # {} => \A e \in dirOnDisk : e.cas
    /\ \A p \in Proc :
         /\ pc[p] = "sync_cas" => arg[p] \in cas /\ dir.cas
         /\ pc[p] = "remove" => arg[p] \notin held

(* A lookup was answered by a moment at which the digest was, or was not   *)
(* to be found, in cas/.                                                   *)
Looking ==
    \A p \in Proc :
        /\ needed[p] \subseteq asked[p]
        /\ asked[p] \cap cas \subseteq seenIn[p]
        /\ asked[p] \ cas \subseteq seenOut[p]
        /\ asked[p] \ (needed[p] \cup seenIn[p]) \subseteq missing[p]
        /\ missing[p] \subseteq seenOut[p]
        /\ pc[p] = "answered" => needed[p] = {}

(* At the start nothing is stored and nobody holds the lock. *)
LEMMA InvariantsInit == Init => Mutex /\ Receipts /\ Blobs /\ Looking
  BY ImportStoreAssumption, SMTT(30)
     DEF Init, Mutex, TypeOK, Receipts, Blobs, Looking, Receipt, Entries,
         Steps, Writing, ReceiptSteps

(* Every step keeps the types and the lock with whoever writes. *)
LEMMA MutexStep ==
    ASSUME Mutex, [Next]_vars PROVE Mutex'
<1>. USE ImportStoreAssumption
        DEF Mutex, ReceiptSteps, TypeOK, Receipt, Entries, Steps, Writing,
            store, preflight, acknowledged
<1>1. ASSUME NEW p \in Proc, WriteReceiptCall(p)
      PROVE  Mutex'
  BY <1>1, SMTT(30) DEF WriteReceiptCall, Acquire, At, Goto
<1>2. ASSUME NEW p \in Proc, WriteSig(p)
      PROVE  Mutex'
  BY <1>2, SMTT(30) DEF WriteSig, Rename, WriteOrder, At, Goto
<1>3. ASSUME NEW p \in Proc, SyncSig(p)
      PROVE  Mutex'
  BY <1>3, SMTT(30) DEF SyncSig, SyncDir, At, Goto
<1>4. ASSUME NEW p \in Proc, WriteReceipt(p)
      PROVE  Mutex'
  BY <1>4, SMTT(30) DEF WriteReceipt, Rename, WriteOrder, At, Goto
<1>5. ASSUME NEW p \in Proc, SyncReceipt(p)
      PROVE  Mutex'
  BY <1>5, SMTT(30) DEF SyncReceipt, SyncDir, Release, At, Goto
<1>6. ASSUME NEW p \in Proc, ReadReceipt(p)
      PROVE  Mutex'
  BY <1>6, SMTT(30) DEF ReadReceipt, At, Goto
<1>7. ASSUME NEW p \in Proc, ReadSig(p)
      PROVE  Mutex'
  BY <1>7, SMTT(30) DEF ReadSig, At, Goto
<1>8. ASSUME NEW p \in Proc, NEW d \in Digest, PutCall(p, d)
      PROVE  Mutex'
  BY <1>8, SMTT(30) DEF PutCall, Acquire, At, Goto
<1>9. ASSUME NEW p \in Proc, NEW d \in Digest, RemoveCall(p, d)
      PROVE  Mutex'
  BY <1>9, SMTT(30) DEF RemoveCall, Acquire, At, Goto
<1>10. ASSUME NEW p \in Proc, NEW d \in Digest, Look(p, d)
      PROVE  Mutex'
  BY <1>10, SMTT(30) DEF Look, LookUp, LeftAfter, At, Goto
<1>11. ASSUME NEW p \in Proc, Put(p)
      PROVE  Mutex'
  <2>1. dir' \in Entries /\ dirOnDisk' \in SUBSET Entries
    <3>1. dir \in Entries /\ dirOnDisk \in SUBSET Entries
      BY DEF Mutex
    <3>2. /\ dir' = [dir EXCEPT !.cas = TRUE]
          /\ dirOnDisk' = dirOnDisk \cup {dir'}
      BY <1>11 DEF Put
    <3>3. dir' \in Entries
      BY <3>1, <3>2
    <3> QED
      BY <3>1, <3>2, <3>3
  <2>2. /\ cas' = cas \cup {arg[p]} /\ casOnDisk' = casOnDisk \cup {cas'}
        /\ pc[p] = "put" /\ pc' = [pc EXCEPT ![p] = "sync_cas"]
        /\ seenIn' = [q \in Proc |-> seenIn[q] \cup (asked[q] \cap cas')]
        /\ seenOut' = [q \in Proc |-> seenOut[q] \cup (asked[q] \ cas')]
        /\ UNCHANGED <<lock, arg, needed, missing, asked, written, settled,
                       held, vouched>>
    BY <1>11 DEF Put, Filed, ChangeCas, At, Goto
  <2>3. arg[p] \in Digest
    BY <2>2
  <2>4. TypeOK'
    BY <2>1, <2>2, <2>3, SMTT(30)
  <2>5. \A q \in Proc :
          /\ pc'[q] \in Writing => lock' = q
          /\ pc'[q] \in ReceiptSteps => arg'[q] \in Receipt
          /\ pc'[q] \in Writing \ ReceiptSteps => arg'[q] \in Digest
    BY <2>2, SMTT(30)
  <2> QED
    BY <2>4, <2>5
<1>12. ASSUME NEW p \in Proc, SyncCas(p)
      PROVE  Mutex'
  BY <1>12, SMTT(30) DEF SyncCas, Acknowledge, Release, At, Goto
<1>13. ASSUME NEW p \in Proc, Remove(p)
      PROVE  Mutex'
  BY <1>13, SMTT(30) DEF Remove, Release, ChangeCas, At, Goto
<1>14. ASSUME NEW p \in Proc, NEW digests \in SUBSET Digest,
              NEW envelope \in SUBSET Digest,
              PreflightCall(p, digests, envelope)
      PROVE  Mutex'
  BY <1>14, SMTT(30) DEF PreflightCall, BeginPreflight, At, Goto
<1>15. ASSUME NEW p \in Proc, Answer(p)
      PROVE  Mutex'
  BY <1>15, SMTT(30) DEF Answer, BeginPreflight, At, Goto
<1>16. ASSUME NEW p \in Proc, Abort(p)
      PROVE  Mutex'
  BY <1>16, SMTT(30) DEF Abort, BeginPreflight, Goto
<1>17. CASE PowerLoss
  BY <1>17, SMTT(30) DEF PowerLoss
<1>18. CASE UNCHANGED vars
  BY <1>18, SMTT(30) DEF vars
<1>19. ASSUME NEW p \in Proc, NEW d \in Digest, LookFails(p, d)
      PROVE  Mutex'
  BY <1>19, SMTT(30) DEF LookFails, LookUp, LeftAfter, At, Goto
<1>. QED
  BY <1>1, <1>2, <1>3, <1>4, <1>5, <1>6, <1>7, <1>8, <1>9, <1>10, <1>11,
     <1>12, <1>13, <1>14, <1>15, <1>16, <1>17, <1>18, <1>19
        DEF Next

(* Every step keeps a receipt beside its signature, on the disk as well. *)
LEMMA ReceiptsStep ==
    ASSUME Mutex, Receipts, [Next]_vars PROVE Receipts'
<1>. USE ImportStoreAssumption
        DEF Mutex, Receipts, ReceiptSteps, TypeOK, Receipt, Entries, Steps,
            Writing, store, preflight, acknowledged
<1>1. ASSUME NEW p \in Proc, WriteReceiptCall(p)
      PROVE  Receipts'
  BY <1>1, SMTT(30) DEF WriteReceiptCall, Acquire, At, Goto
<1>2. ASSUME NEW p \in Proc, WriteSig(p)
      PROVE  Receipts'
  BY <1>2, SMTT(30) DEF WriteSig, Rename, WriteOrder, At, Goto
<1>3. ASSUME NEW p \in Proc, SyncSig(p)
      PROVE  Receipts'
  BY <1>3, SMTT(30) DEF SyncSig, SyncDir, At, Goto
<1>4. ASSUME NEW p \in Proc, WriteReceipt(p)
      PROVE  Receipts'
  BY <1>4, SMTT(30) DEF WriteReceipt, Rename, WriteOrder, At, Goto
<1>5. ASSUME NEW p \in Proc, SyncReceipt(p)
      PROVE  Receipts'
  BY <1>5, SMTT(30) DEF SyncReceipt, SyncDir, Release, At, Goto
<1>6. ASSUME NEW p \in Proc, ReadReceipt(p)
      PROVE  Receipts'
  BY <1>6, SMTT(30) DEF ReadReceipt, At, Goto
<1>7. ASSUME NEW p \in Proc, ReadSig(p)
      PROVE  Receipts'
  BY <1>7, SMTT(30) DEF ReadSig, At, Goto
<1>8. ASSUME NEW p \in Proc, NEW d \in Digest, PutCall(p, d)
      PROVE  Receipts'
  BY <1>8, SMTT(30) DEF PutCall, Acquire, At, Goto
<1>9. ASSUME NEW p \in Proc, NEW d \in Digest, RemoveCall(p, d)
      PROVE  Receipts'
  BY <1>9, SMTT(30) DEF RemoveCall, Acquire, At, Goto
<1>10. ASSUME NEW p \in Proc, NEW d \in Digest, Look(p, d)
      PROVE  Receipts'
  BY <1>10, SMTT(30) DEF Look, LookUp, LeftAfter, At, Goto
<1>11. ASSUME NEW p \in Proc, Put(p)
      PROVE  Receipts'
  BY <1>11, SMTT(30) DEF Put, Filed, ChangeCas, At, Goto
<1>12. ASSUME NEW p \in Proc, SyncCas(p)
      PROVE  Receipts'
  BY <1>12, SMTT(30) DEF SyncCas, Acknowledge, Release, At, Goto
<1>13. ASSUME NEW p \in Proc, Remove(p)
      PROVE  Receipts'
  BY <1>13, SMTT(30) DEF Remove, Release, ChangeCas, At, Goto
<1>14. ASSUME NEW p \in Proc, NEW digests \in SUBSET Digest,
              NEW envelope \in SUBSET Digest,
              PreflightCall(p, digests, envelope)
      PROVE  Receipts'
  BY <1>14, SMTT(30) DEF PreflightCall, BeginPreflight, At, Goto
<1>15. ASSUME NEW p \in Proc, Answer(p)
      PROVE  Receipts'
  BY <1>15, SMTT(30) DEF Answer, BeginPreflight, At, Goto
<1>16. ASSUME NEW p \in Proc, Abort(p)
      PROVE  Receipts'
  BY <1>16, SMTT(30) DEF Abort, BeginPreflight, Goto
<1>17. CASE PowerLoss
  BY <1>17, SMTT(30) DEF PowerLoss
<1>18. CASE UNCHANGED vars
  BY <1>18, SMTT(30) DEF vars
<1>19. ASSUME NEW p \in Proc, NEW d \in Digest, LookFails(p, d)
      PROVE  Receipts'
  BY <1>19, SMTT(30) DEF LookFails, LookUp, LeftAfter, At, Goto
<1>. QED
  BY <1>1, <1>2, <1>3, <1>4, <1>5, <1>6, <1>7, <1>8, <1>9, <1>10, <1>11,
     <1>12, <1>13, <1>14, <1>15, <1>16, <1>17, <1>18, <1>19
        DEF Next

(* Every step keeps the blobs that are held. *)
LEMMA BlobsStep ==
    ASSUME Mutex, Blobs, [Next]_vars PROVE Blobs'
<1>. USE ImportStoreAssumption
        DEF Mutex, ReceiptSteps, Blobs, TypeOK, Receipt, Entries, Steps,
            Writing, store, preflight, acknowledged
<1>1. ASSUME NEW p \in Proc, WriteReceiptCall(p)
      PROVE  Blobs'
  BY <1>1, SMTT(30) DEF WriteReceiptCall, Acquire, At, Goto
<1>2. ASSUME NEW p \in Proc, WriteSig(p)
      PROVE  Blobs'
  BY <1>2, SMTT(30) DEF WriteSig, Rename, WriteOrder, At, Goto
<1>3. ASSUME NEW p \in Proc, SyncSig(p)
      PROVE  Blobs'
  BY <1>3, SMTT(30) DEF SyncSig, SyncDir, At, Goto
<1>4. ASSUME NEW p \in Proc, WriteReceipt(p)
      PROVE  Blobs'
  BY <1>4, SMTT(30) DEF WriteReceipt, Rename, WriteOrder, At, Goto
<1>5. ASSUME NEW p \in Proc, SyncReceipt(p)
      PROVE  Blobs'
  BY <1>5, SMTT(30) DEF SyncReceipt, SyncDir, Release, At, Goto
<1>6. ASSUME NEW p \in Proc, ReadReceipt(p)
      PROVE  Blobs'
  BY <1>6, SMTT(30) DEF ReadReceipt, At, Goto
<1>7. ASSUME NEW p \in Proc, ReadSig(p)
      PROVE  Blobs'
  BY <1>7, SMTT(30) DEF ReadSig, At, Goto
<1>8. ASSUME NEW p \in Proc, NEW d \in Digest, PutCall(p, d)
      PROVE  Blobs'
  BY <1>8, SMTT(30) DEF PutCall, Acquire, At, Goto
<1>9. ASSUME NEW p \in Proc, NEW d \in Digest, RemoveCall(p, d)
      PROVE  Blobs'
  BY <1>9, SMTT(30) DEF RemoveCall, Acquire, At, Goto
<1>10. ASSUME NEW p \in Proc, NEW d \in Digest, Look(p, d)
      PROVE  Blobs'
  BY <1>10, SMTT(30) DEF Look, LookUp, LeftAfter, At, Goto
<1>11. ASSUME NEW p \in Proc, Put(p)
      PROVE  Blobs'
  BY <1>11, SMTT(30) DEF Put, Filed, ChangeCas, At, Goto
<1>12. ASSUME NEW p \in Proc, SyncCas(p)
      PROVE  Blobs'
  BY <1>12, SMTT(30) DEF SyncCas, Acknowledge, Release, At, Goto
<1>13. ASSUME NEW p \in Proc, Remove(p)
      PROVE  Blobs'
  BY <1>13, SMTT(30) DEF Remove, Release, ChangeCas, At, Goto
<1>14. ASSUME NEW p \in Proc, NEW digests \in SUBSET Digest,
              NEW envelope \in SUBSET Digest,
              PreflightCall(p, digests, envelope)
      PROVE  Blobs'
  BY <1>14, SMTT(30) DEF PreflightCall, BeginPreflight, At, Goto
<1>15. ASSUME NEW p \in Proc, Answer(p)
      PROVE  Blobs'
  BY <1>15, SMTT(30) DEF Answer, BeginPreflight, At, Goto
<1>16. ASSUME NEW p \in Proc, Abort(p)
      PROVE  Blobs'
  BY <1>16, SMTT(30) DEF Abort, BeginPreflight, Goto
<1>17. CASE PowerLoss
  BY <1>17, SMTT(30) DEF PowerLoss
<1>18. CASE UNCHANGED vars
  BY <1>18, SMTT(30) DEF vars
<1>19. ASSUME NEW p \in Proc, NEW d \in Digest, LookFails(p, d)
      PROVE  Blobs'
  BY <1>19, SMTT(30) DEF LookFails, LookUp, LeftAfter, At, Goto
<1>. QED
  BY <1>1, <1>2, <1>3, <1>4, <1>5, <1>6, <1>7, <1>8, <1>9, <1>10, <1>11,
     <1>12, <1>13, <1>14, <1>15, <1>16, <1>17, <1>18, <1>19
        DEF Next

(* Every step keeps what the preflights have seen. *)
LEMMA LookingStep ==
    ASSUME Mutex, Looking, [Next]_vars PROVE Looking'
<1>. USE ImportStoreAssumption
        DEF Mutex, ReceiptSteps, Looking, TypeOK, Receipt, Entries, Steps,
            Writing, store, preflight, acknowledged
<1>1. ASSUME NEW p \in Proc, WriteReceiptCall(p)
      PROVE  Looking'
  BY <1>1, SMTT(30) DEF WriteReceiptCall, Acquire, At, Goto
<1>2. ASSUME NEW p \in Proc, WriteSig(p)
      PROVE  Looking'
  BY <1>2, SMTT(30) DEF WriteSig, Rename, WriteOrder, At, Goto
<1>3. ASSUME NEW p \in Proc, SyncSig(p)
      PROVE  Looking'
  BY <1>3, SMTT(30) DEF SyncSig, SyncDir, At, Goto
<1>4. ASSUME NEW p \in Proc, WriteReceipt(p)
      PROVE  Looking'
  BY <1>4, SMTT(30) DEF WriteReceipt, Rename, WriteOrder, At, Goto
<1>5. ASSUME NEW p \in Proc, SyncReceipt(p)
      PROVE  Looking'
  BY <1>5, SMTT(30) DEF SyncReceipt, SyncDir, Release, At, Goto
<1>6. ASSUME NEW p \in Proc, ReadReceipt(p)
      PROVE  Looking'
  BY <1>6, SMTT(30) DEF ReadReceipt, At, Goto
<1>7. ASSUME NEW p \in Proc, ReadSig(p)
      PROVE  Looking'
  BY <1>7, SMTT(30) DEF ReadSig, At, Goto
<1>8. ASSUME NEW p \in Proc, NEW d \in Digest, PutCall(p, d)
      PROVE  Looking'
  BY <1>8, SMTT(30) DEF PutCall, Acquire, At, Goto
<1>9. ASSUME NEW p \in Proc, NEW d \in Digest, RemoveCall(p, d)
      PROVE  Looking'
  BY <1>9, SMTT(30) DEF RemoveCall, Acquire, At, Goto
<1>10. ASSUME NEW p \in Proc, NEW d \in Digest, Look(p, d)
      PROVE  Looking'
  BY <1>10, SMTT(30) DEF Look, LookUp, LeftAfter, At, Goto
<1>11. ASSUME NEW p \in Proc, Put(p)
      PROVE  Looking'
  BY <1>11, SMTT(30) DEF Put, Filed, ChangeCas, At, Goto
<1>12. ASSUME NEW p \in Proc, SyncCas(p)
      PROVE  Looking'
  BY <1>12, SMTT(30) DEF SyncCas, Acknowledge, Release, At, Goto
<1>13. ASSUME NEW p \in Proc, Remove(p)
      PROVE  Looking'
  BY <1>13, SMTT(30) DEF Remove, Release, ChangeCas, At, Goto
<1>14. ASSUME NEW p \in Proc, NEW digests \in SUBSET Digest,
              NEW envelope \in SUBSET Digest,
              PreflightCall(p, digests, envelope)
      PROVE  Looking'
  BY <1>14, SMTT(30) DEF PreflightCall, BeginPreflight, At, Goto
<1>15. ASSUME NEW p \in Proc, Answer(p)
      PROVE  Looking'
  BY <1>15, SMTT(30) DEF Answer, BeginPreflight, At, Goto
<1>16. ASSUME NEW p \in Proc, Abort(p)
      PROVE  Looking'
  BY <1>16, SMTT(30) DEF Abort, BeginPreflight, Goto
<1>17. CASE PowerLoss
  BY <1>17, SMTT(30) DEF PowerLoss
<1>18. CASE UNCHANGED vars
  BY <1>18, SMTT(30) DEF vars
<1>19. ASSUME NEW p \in Proc, NEW d \in Digest, LookFails(p, d)
      PROVE  Looking'
  BY <1>19, SMTT(30) DEF LookFails, LookUp, LeftAfter, At, Goto
<1>. QED
  BY <1>1, <1>2, <1>3, <1>4, <1>5, <1>6, <1>7, <1>8, <1>9, <1>10, <1>11,
     <1>12, <1>13, <1>14, <1>15, <1>16, <1>17, <1>18, <1>19
        DEF Next

(* Hence the lock has one holder in every reachable state. *)
LEMMA MutexInvariant == Spec => []Mutex
<1>1. Mutex /\ [Next]_vars => Mutex'
  BY MutexStep
<1>. QED  BY InvariantsInit, <1>1, PTL DEF Spec

(* TypeOK of ImportStore: above all, a blob file holds what it is named    *)
(* after.                                                                  *)
THEOREM TypeCorrect == Spec => []TypeOK
<1>1. Mutex => TypeOK
  BY DEF Mutex
<1>. QED  BY MutexInvariant, <1>1, PTL

(* At every moment, whatever failed inside write_import_receipt, a receipt *)
(* that a reader finds has a signature beside it.                          *)
THEOREM ReceiptAlwaysSigned == Spec => []ReceiptSigned
<1>1. Mutex /\ Receipts /\ [Next]_vars => Receipts'
  BY ReceiptsStep
<1>2. Receipts => ReceiptSigned
  BY DEF Receipts, ReceiptSigned
<1>. QED  BY InvariantsInit, MutexInvariant, <1>1, <1>2, PTL DEF Spec

(* The receipt that write_import_receipt returned Ok for is there as one   *)
(* verifying pair until the next write, also after a power loss.           *)
THEOREM SettledReceiptAlwaysVerifies == Spec => []SettledReceiptVerifies
<1>1. Mutex /\ Receipts /\ [Next]_vars => Receipts'
  BY ReceiptsStep
<1>2. Mutex /\ Receipts => SettledReceiptVerifies
  BY DEF Mutex, TypeOK, Entries, Receipts, SettledReceiptVerifies
<1>. QED  BY InvariantsInit, MutexInvariant, <1>1, <1>2, PTL DEF Spec

(* A blob that cas_put acknowledged before a receipt's write, or into a    *)
(* cas/ that is on the disk, survives until it is removed.                 *)
THEOREM HeldBlobsAlwaysKept == Spec => []HeldBlobsKept
<1>1. Mutex /\ Blobs /\ [Next]_vars => Blobs'
  BY BlobsStep
<1>2. Blobs => HeldBlobsKept
  BY DEF Blobs, HeldBlobsKept
<1>. QED  BY InvariantsInit, MutexInvariant, <1>1, <1>2, PTL DEF Spec

(* preflight_digests lists exactly what could not be resolved, up to blobs *)
(* that came or went, and lookups that failed, while it ran.               *)
THEOREM PreflightAlwaysComplete == Spec => []PreflightListsMissing
<1>1. Mutex /\ Looking /\ [Next]_vars => Looking'
  BY LookingStep
<1>2. Looking => PreflightListsMissing
  BY DEF Looking, PreflightListsMissing
<1>. QED  BY InvariantsInit, MutexInvariant, <1>1, <1>2, PTL DEF Spec
=============================================================================

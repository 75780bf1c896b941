------------------------------- MODULE Unpack -------------------------------
(***************************************************************************)
(* unpack_release_binary (src/src/binswap.rs 253-433): the entries of an   *)
(* archive are read in order, each is validated, and the first regular     *)
(* file of the binary's name is written to dest.  What comes after it is   *)
(* never looked at, and no digest is checked here.                         *)
(*                                                                         *)
(* Variables and actions of one caller; Rollout composes them.             *)
(***************************************************************************)
EXTENDS PlanGates

CONSTANTS
    Archives,       \* archives the caller may be handed
    Cap             \* MAX_UNPACK_BYTES, in units

ASSUME UnpackAssumption == Cap \in Nat

VARIABLES
    archive,        \* the archive of the call under way, or the last one
    at,             \* the entry it has come to
    total,          \* declared sizes of the entries so far
    step,           \* the next step of the call, or how it ended
    dest            \* the file <dest_dir>/<binary_name>

unpack == <<archive, at, total, step, dest>>

(* safe: no absolute path, no .. component; named: its last component is   *)
(* the name of the binary; declared is what the header says of its size.   *)
Entry ==
    [safe : BOOLEAN, named : BOOLEAN, kind : {"file", "dir", "link"},
     declared : Nat, size : Nat, content : Hex]

(* By the suffix of its file name.  Unreadable archives are UnpackFails.   *)
Archive == [format : {"tgz", "zip", "unsupported"}, entries : Seq(Entry)]

(* The bytes of content that are there and that are not, and mode 0755.    *)
DestFile == [content : Hex, size : 0..(Cap + 1), missing : Nat, exec : BOOLEAN]

Ended == {"idle", "ok", "unsupported", "traversal", "bomb", "lied",
          "not_found", "io"}
UnpackSteps == Ended \cup {"scan", "copy", "chmod"}

UnpackInit ==
    /\ archive = None
    /\ at = 0
    /\ total = 0
    /\ step = "idle"
    /\ dest = None

Min2(m, n) == IF m <= n THEN m ELSE n

(* A bug: links pass as if they were files of no interest. *)
EntryRefusedByPath(a, i) == ~a.entries[i].safe

(* validate_archive_path, and links are refused in tar only. *)
EntryRefused(a, i) ==
    \/ ~a.entries[i].safe
    \/ a.format = "tgz" /\ a.entries[i].kind = "link"

IsTheBinary(a, i) == a.entries[i].named /\ a.entries[i].kind = "file"

UnpackCall(a) ==
    /\ step = "idle"
    /\ archive' = a
    /\ at' = 1
    /\ total' = 0
    /\ step' = IF a.format = "unsupported" THEN "unsupported" ELSE "scan"
    /\ UNCHANGED dest

RefuseEntry ==
    /\ step = "scan"
    /\ at <= Len(archive.entries)
    /\ EntryRefused(archive, at)
    /\ step' = "traversal"
    /\ UNCHANGED <<archive, at, total, dest>>

RefuseDeclaredSize ==
    /\ step = "scan"
    /\ at <= Len(archive.entries)
    /\ ~EntryRefused(archive, at)
    /\ total + archive.entries[at].declared > Cap
    /\ step' = "bomb"
    /\ UNCHANGED <<archive, at, total, dest>>

(* The entry passed; it is skipped, or dest is created or truncated (which *)
(* keeps the mode of a file that was there).                               *)
PassEntry ==
    /\ step = "scan"
    /\ at <= Len(archive.entries)
    /\ ~EntryRefused(archive, at)
    /\ total + archive.entries[at].declared <= Cap
    /\ total' = total + archive.entries[at].declared
    /\ \/ /\ ~IsTheBinary(archive, at)
          /\ at' = at + 1
          /\ UNCHANGED <<step, dest>>
       \/ /\ IsTheBinary(archive, at)
          /\ dest' = [content |-> archive.entries[at].content, size |-> 0,
                      missing |-> archive.entries[at].size,
                      exec |-> IF dest = None THEN FALSE ELSE dest.exec]
          /\ step' = "copy"
          /\ UNCHANGED at
    /\ UNCHANGED archive

EndOfArchive ==
    /\ step = "scan"
    /\ at > Len(archive.entries)
    /\ step' = "not_found"
    /\ UNCHANGED <<archive, at, total, dest>>

(* n more bytes have reached dest. *)
Copied(n) ==
    [dest EXCEPT !.size = @ + n, !.missing = @ - n]

(* A bug: extract_to trusts the declared size. *)
CopyAll ==
    /\ step = "copy"
    /\ dest' = Copied(dest.missing)
    /\ step' = "chmod"
    /\ UNCHANGED <<archive, at, total>>

(* extract_to copies at most Cap + 1 bytes; if there were more than Cap it *)
(* removes dest, and ignores an error of that.                             *)
CopyWithinCap ==
    /\ step = "copy"
    /\ dest.missing <= Cap
    /\ dest' = Copied(dest.missing)
    /\ step' = "chmod"
    /\ UNCHANGED <<archive, at, total>>

CopyBeyondCap ==
    /\ step = "copy"
    /\ dest.missing > Cap
    /\ dest' \in {None, Copied(Cap + 1)}
    /\ step' = "lied"
    /\ UNCHANGED <<archive, at, total>>

MakeExecutable ==
    /\ step = "chmod"
    /\ dest' = [dest EXCEPT !.exec = TRUE]
    /\ step' = "ok"
    /\ UNCHANGED <<archive, at, total>>

(* An I/O or format error; while copying, some bytes are in dest. *)
UnpackFails ==
    /\ step \notin Ended
    /\ \/ step = "copy" /\ \E n \in 0..Min2(dest.missing, Cap + 1) :
              dest' = Copied(n)
       \/ step # "copy" /\ UNCHANGED dest
    /\ step' = "io"
    /\ UNCHANGED <<archive, at, total>>

(* The caller takes the result of a call and may make another. *)
ForgetCall ==
    /\ archive' = None
    /\ at' = 0
    /\ total' = 0
    /\ step' = "idle"
    /\ UNCHANGED dest

UnpackNext ==
    \/ RefuseEntry
    \/ RefuseDeclaredSize
    \/ PassEntry
    \/ EndOfArchive
    \/ CopyWithinCap
    \/ CopyBeyondCap
    \/ MakeExecutable
    \/ UnpackFails

(* verify_digest_bytes over all of dest: the prefix is optional, the case  *)
(* of the hex does not matter.                                             *)
VerifyDigest(file, digest) ==
    file.missing = 0 /\ file.content = digest.hex

UnpackTypeOK ==
    /\ archive \in Archives \cup {None}
    /\ at \in Nat
    /\ total \in Nat
    /\ step \in UnpackSteps
    /\ dest \in DestFile \cup {None}

----------------------------------------------------------------------------
(* The entry a release archive is read for: the first regular file of the  *)
(* binary's name.                                                          *)
FirstBinary(a) ==
    CHOOSE i \in DOMAIN a.entries :
        /\ a.entries[i].named /\ a.entries[i].kind = "file"
        /\ \A j \in 1..(i - 1) :
              ~a.entries[j].named \/ a.entries[j].kind # "file"

(* What unpack_release_binary returned Ok for is exactly the first regular *)
(* entry of that name, whole, executable and within the cap, and neither   *)
(* it nor an entry before it points outside or, in a tar, is a link.       *)
UnpackedIsFirstMatch ==
    step = "ok" =>
        LET i == FirstBinary(archive)
            e == archive.entries[i]
        IN  /\ i \in DOMAIN archive.entries
            /\ dest = [content |-> e.content, size |-> e.size,
                       missing |-> 0, exec |-> TRUE]
            /\ e.size <= Cap
            /\ \A j \in 1..i :
                  /\ archive.entries[j].safe
                  /\ archive.format = "tgz" => archive.entries[j].kind # "link"
=============================================================================

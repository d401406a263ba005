------------------------------ MODULE DiskImage ------------------------------
(***************************************************************************)
(* internal/disk: DecompressFileWithPath writes an image file and, beside  *)
(* it, a file with the image's digest; ValidateFileWithDigest trusts that   *)
(* file as long as it is newer than the image.                              *)
(*                                                                         *)
(* Files hold sequences of blocks, 0 being a block of zeros, and have the   *)
(* time of their last write.  A digest is represented by the contents it    *)
(* is the digest of; a digest file without data is empty or torn, and       *)
(* equals no digest.  Calls may fail at any system call, and the kubelet    *)
(* may crash between any two: only the files stay.                          *)
(***************************************************************************)
EXTENDS Integers, Sequences, FiniteSetsExt

CONSTANTS
  DiskCalls,        \* goroutines that work on the image
  MaxBlocks,    \* the length of the longest image
  SparseBlock,  \* sparseBlockSize, in blocks
  MaxTime,      \* how often the clock of the file system ticks
  Concurrent,   \* may calls overlap?
  ExactSize     \* does the caller know the uncompressed size?

ASSUME DiskSizesAssumption ==
  /\ MaxBlocks \in Nat \ {0}
  /\ SparseBlock \in Nat \ {0}
  /\ MaxTime \in Nat

ASSUME ModesAssumption == {Concurrent, ExactSize} \subseteq BOOLEAN

VARIABLES image, digestFile, now, diskCall

diskVars == <<image, digestFile, now, diskCall>>

Block == {0, 1}
Contents == UNION {[1..n -> Block] : n \in 1..MaxBlocks}

Busy == {"reading", "statted", "cached", "hashing", "digesting", "writing"}
IdleDiskCall == [op |-> "none", pc |-> "idle", digest |-> <<>>, pos |-> 0,
         match |-> TRUE, mtime |-> 0]
NoFile == [exists |-> FALSE, data |-> <<>>, mtime |-> 0]

FileType == [exists : BOOLEAN, data : Contents \cup {<<>>}, mtime : 0..MaxTime]

DiskTypeOK ==
  /\ image \in FileType
  /\ digestFile \in FileType
  /\ now \in 0..MaxTime
  /\ diskCall \in [DiskCalls -> [op : {"none", "decompress", "validate"},
                         pc : Busy \cup {"idle", "ok", "failed"},
                         digest : Contents \cup {<<>>}, pos : 0..MaxBlocks,
                         match : BOOLEAN, mtime : 0..MaxTime]]

DiskInit ==
  /\ image = NoFile /\ digestFile = NoFile /\ now = 0
  /\ diskCall = [p \in DiskCalls |-> IdleDiskCall]

-----------------------------------------------------------------------------
File(data) == [exists |-> TRUE, data |-> data, mtime |-> now]

\* Truncate of the empty file.
Zeros(n) == [i \in 1..n |-> 0]

\* A call may begin when the goroutine is free and, unless calls may overlap,
\* all others are.
MayBegin(p) ==
  /\ diskCall[p].pc \notin Busy
  /\ Concurrent \/ \A q \in DiskCalls : diskCall[q].pc \notin Busy

DiskBegins(p, operation, pc, d) ==
  diskCall' = [diskCall EXCEPT ![p] =
    [IdleDiskCall EXCEPT !.op = operation, !.pc = pc, !.digest = d, !.mtime = image.mtime]]

GoesTo(p, pc) == diskCall' = [diskCall EXCEPT ![p].pc = pc]

\* os.Create empties the output file and Truncate gives it its size; the
\* digest file of earlier contents stays.
DecompressOpens(p, archive, size) ==
  /\ MayBegin(p)
  /\ \/ DiskBegins(p, "decompress", "reading", archive) /\ image' = File(Zeros(size))
     \/ DiskBegins(p, "decompress", "failed", archive) /\ image' \in {image, File(<<>>), File(Zeros(size))}
  /\ UNCHANGED <<digestFile, now>>

\* A plausible slip: a short block at the end of a read is compared with as
\* many zeros, and the comparison looks at its first byte only.
SkippedCarelessly(chunk, j) == chunk[((j - 1) \div SparseBlock) * SparseBlock + 1] = 0

\* Block j of a read belongs to a full sparse block of zeros.
Skipped(chunk, j) ==
  LET first == ((j - 1) \div SparseBlock) * SparseBlock IN
  /\ first + SparseBlock <= Len(chunk)
  /\ \A i \in first + 1 .. first + SparseBlock : chunk[i] = 0

\* The other blocks are written at their offset.
WriteSparse(data, pos, chunk) ==
  LET written == {pos + j : j \in {j \in DOMAIN chunk : ~Skipped(chunk, j)}} IN
  [i \in 1 .. Max({Len(data)} \cup written) |->
    IF i \in written THEN chunk[i - pos] ELSE IF i <= Len(data) THEN data[i] ELSE 0]

\* One round of the loop: Read returns n blocks.
DecompressReads(p, n) ==
  LET pos == diskCall[p].pos
      chunk == SubSeq(diskCall[p].digest, pos + 1, pos + n)
      data == WriteSparse(image.data, pos, chunk)
  IN
  /\ diskCall[p].pc = "reading" /\ pos + n <= Len(diskCall[p].digest)
  /\ diskCall' = [diskCall EXCEPT ![p].pos = pos + n]
  /\ image' = IF \A j \in DOMAIN chunk : Skipped(chunk, j) THEN image ELSE File(data)
  /\ UNCHANGED <<digestFile, now>>

\* End of file, and the digest of what was read.
DecompressEnds(p) ==
  /\ diskCall[p].pc = "reading" /\ diskCall[p].pos = Len(diskCall[p].digest)
  /\ GoesTo(p, "digesting")
  /\ UNCHANGED <<image, digestFile, now>>

\* Any call fails: a system call, the archive, or the context.
DiskFails(p) ==
  /\ diskCall[p].pc \in Busy
  /\ GoesTo(p, "failed")
  /\ UNCHANGED <<image, digestFile, now>>

-----------------------------------------------------------------------------
(* writeDigestFile: create (and empty), write, close.                      *)

DigestCreates(p) ==
  /\ diskCall[p].pc = "digesting"
  /\ GoesTo(p, "writing")
  /\ digestFile' = File(<<>>)
  /\ UNCHANGED <<image, now>>

DigestWrites(p) ==
  /\ diskCall[p].pc = "writing"
  /\ \E pc \in {"ok", "failed"} : GoesTo(p, pc)      \* closing a file may fail
  /\ digestFile' = File(diskCall[p].digest)
  /\ UNCHANGED <<image, now>>

-----------------------------------------------------------------------------
(* ValidateFileWithDigest and ComputeAndVerifyFileDigest.                  *)

ValidateStats(p, expected) ==
  /\ MayBegin(p)
  /\ DiskBegins(p, "validate", IF image.exists THEN "statted" ELSE "failed", expected)
  /\ UNCHANGED <<image, digestFile, now>>

\* A plausible slip: a digest file as old as the image counts as up to date.
UpToDateIfNotOlder(mtime) == digestFile.exists /\ digestFile.mtime >= mtime

UpToDate(mtime) == digestFile.exists /\ digestFile.mtime > mtime

ValidateStatsDigest(p) ==
  /\ diskCall[p].pc = "statted"
  /\ GoesTo(p, IF UpToDate(diskCall[p].mtime) THEN "cached" ELSE "hashing")
  /\ UNCHANGED <<image, digestFile, now>>

ValidateReadsDigest(p) ==
  /\ diskCall[p].pc = "cached"
  /\ GoesTo(p, IF digestFile.data = diskCall[p].digest THEN "ok" ELSE "failed")
  /\ UNCHANGED <<image, digestFile, now>>

\* io.Copy feeds the verifier, block by block.
ComputeReads(p) ==
  LET next == diskCall[p].pos + 1 IN
  /\ diskCall[p].pc = "hashing" /\ next <= Len(image.data)
  /\ diskCall' = [diskCall EXCEPT ![p].pos = next,
       ![p].match = @ /\ next <= Len(diskCall[p].digest) /\ diskCall[p].digest[next] = image.data[next]]
  /\ UNCHANGED <<image, digestFile, now>>

\* A plausible slip: the verifier accepts a prefix of the expected contents.
VerifiedPrefix(c) == c.match

Verified(c) == c.match /\ c.pos = Len(c.digest)

ComputeVerifies(p) ==
  /\ diskCall[p].pc = "hashing" /\ diskCall[p].pos >= Len(image.data)
  /\ GoesTo(p, IF Verified(diskCall[p]) THEN "digesting" ELSE "failed")
  /\ UNCHANGED <<image, digestFile, now>>

-----------------------------------------------------------------------------
Tick ==
  /\ now < MaxTime /\ now' = now + 1
  /\ UNCHANGED <<image, digestFile, diskCall>>

Crash ==
  /\ \E p \in DiskCalls : diskCall[p].pc \in Busy
  /\ diskCall' = [p \in DiskCalls |-> IdleDiskCall]
  /\ UNCHANGED <<image, digestFile, now>>

DiskStep(p) ==
  \/ \E n \in 1..MaxBlocks : DecompressReads(p, n)
  \/ DecompressEnds(p)
  \/ DigestCreates(p) \/ DigestWrites(p)
  \/ ValidateStatsDigest(p) \/ ValidateReadsDigest(p)
  \/ ComputeReads(p) \/ ComputeVerifies(p)
  \/ DiskFails(p)

DiskNext ==
  \/ \E p \in DiskCalls, c \in Contents :
       \/ \E size \in IF ExactSize THEN {Len(c)} ELSE {0, Len(c)} : DecompressOpens(p, c, size)
       \/ ValidateStats(p, c)
  \/ \E p \in DiskCalls : DiskStep(p)
  \/ Tick
  \/ Crash

DiskSpec == DiskInit /\ [][DiskNext]_diskVars

-----------------------------------------------------------------------------
Succeeds(p, operation) ==
  diskCall[p].op = operation /\ diskCall[p].pc \in Busy /\ diskCall'[p].pc = "ok"

\* A digest file that is newer than the image and is not empty (a crash may
\* leave it so) is the digest of the image as it is, whatever crashed and
\* however often the image was replaced, if calls do not overlap.
FreshDigestIsTrue ==
  UpToDate(image.mtime) /\ digestFile.data # <<>> =>
    image.exists /\ image.data = digestFile.data

\* When DecompressFileWithPath returns a digest, the image has exactly the
\* contents of the archive, skipped blocks included, for every way the
\* archive is cut into reads.
DecompressedIsExact ==
  [][\A p \in DiskCalls : Succeeds(p, "decompress") => image.data = diskCall[p].digest]_diskVars

\* When ValidateFileWithDigest returns nil, the image has the contents that
\* were expected: also after crashes, and also if it went by the digest file.
ValidatedIsGenuine ==
  [][\A p \in DiskCalls : Succeeds(p, "validate") => image.data = diskCall[p].digest]_diskVars

=============================================================================

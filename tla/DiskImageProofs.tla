--------------------------- MODULE DiskImageProofs ---------------------------
(***************************************************************************)
(* The integrity of an image and of the digest beside it, for images of any  *)
(* length, any size of a sparse block and any way an archive is cut into    *)
(* reads, with crashes, if calls do not overlap and the size is known.  And  *)
(* what the archive of an image holds, whatever the gzip writer keeps back. *)
(***************************************************************************)
EXTENDS DiskImage, Compression, SequenceTheorems, TLAPS

\* In a module of this size a leaf waits longer than it is worked on.
USE SMTT(30), ZenonT(30), Z3T(30)

CallType ==
  [op : {"none", "decompress", "validate"}, pc : Busy \cup {"idle", "ok", "failed"},
   digest : Contents \cup {<<>>}, pos : 0..MaxBlocks, match : BOOLEAN, mtime : 0..MaxTime]

(* The first n blocks of an image agree with the contents c.                *)
Agree(data, c, n) == \A i \in 1..n : data[i] = c[i]

(* How far a call has come tells what the files hold.                       *)
Local(c, im, df) ==
  /\ c.pc \in Busy => c.digest \in Contents /\ im.exists
  /\ c.pc = "statted" => c.op = "validate" /\ c.mtime = im.mtime /\ c.pos = 0
  /\ c.pc = "cached" => c.op = "validate" /\ df.exists /\ df.mtime > im.mtime
  /\ c.pc = "hashing" =>
       /\ c.pos <= Len(im.data)
       /\ c.match => c.pos <= Len(c.digest) /\ Agree(im.data, c.digest, c.pos)
  /\ c.pc = "reading" =>
       /\ Len(im.data) = Len(c.digest) /\ c.pos <= Len(c.digest)
       /\ Agree(im.data, c.digest, c.pos)
       /\ \A i \in c.pos + 1 .. Len(c.digest) : im.data[i] = 0
  /\ c.pc \in {"digesting", "writing"} => im.data = c.digest

(* FreshDigestIsTrue of an image and a digest file.                         *)
Fresh(im, df) ==
  df.exists /\ df.mtime > im.mtime /\ df.data # <<>> => im.exists /\ im.data = df.data

Inv ==
  /\ DiskTypeOK
  /\ image.mtime <= now /\ digestFile.mtime <= now
  /\ \A p, q \in DiskCalls : diskCall[p].pc \in Busy /\ diskCall[q].pc \in Busy => p = q
  /\ \A p \in DiskCalls : Local(diskCall[p], image, digestFile)
  /\ Fresh(image, digestFile)

-----------------------------------------------------------------------------
(* Facts about sequences of blocks.                                         *)

\* A non-empty sequence of at most MaxBlocks blocks is a possible contents.
LEMMA ContentsAre ==
  ASSUME NEW c
  PROVE  c \in Contents <=> c \in Seq(Block) /\ Len(c) \in 1..MaxBlocks
<1>1. ASSUME c \in Contents PROVE c \in Seq(Block) /\ Len(c) \in 1..MaxBlocks
  <2>1. PICK n \in 1..MaxBlocks : c \in [1..n -> Block]
    BY <1>1 DEF Contents
  <2> QED BY <2>1, DiskSizesAssumption
<1>2. ASSUME c \in Seq(Block), Len(c) \in 1..MaxBlocks PROVE c \in Contents
  <2>1. c \in [1..Len(c) -> Block]
    BY <1>2
  <2> QED BY <1>2, <2>1 DEF Contents
<1> QED BY <1>1, <1>2

\* What Truncate makes of the empty file.
LEMMA ZerosAre ==
  ASSUME NEW n \in Nat
  PROVE  Zeros(n) \in Seq(Block) /\ Len(Zeros(n)) = n /\ \A i \in 1..n : Zeros(n)[i] = 0
BY DEF Zeros, Block

\* Contents that agree in length and block by block are equal.
LEMMA SameContents ==
  ASSUME NEW c \in Seq(Block), NEW d \in Seq(Block), Len(c) = Len(d), Agree(c, d, Len(c))
  PROVE  c = d
BY DEF Agree

\* The length of the file after a write, as a bound.
LEMMA MaxIsBound ==
  ASSUME NEW n \in Nat, NEW S \in SUBSET (1..n)
  PROVE  Max({n} \cup S) = n
<1> DEFINE T == {n} \cup S
<1>1. n \in T /\ \A y \in T : n >= y
  OBVIOUS
<1>2. Max(T) \in T /\ \A y \in T : Max(T) >= y
  <2> HIDE DEF T
  <2> QED BY <1>1, Zenon DEF Max
<1>3. T \subseteq Nat
  OBVIOUS
<1>4. Max(T) = n
  <2> HIDE DEF T
  <2>1. Max(T) \in Nat
    BY <1>2, <1>3, Zenon
  <2> QED BY <1>1, <1>2, <2>1
<1> QED BY <1>4

(* A block that is skipped is a block of zeros.                             *)
LEMMA SkippedIsZero ==
  ASSUME NEW chunk \in Seq(Block), NEW j \in 1..Len(chunk), Skipped(chunk, j)
  PROVE  chunk[j] = 0
<1> DEFINE first == ((j - 1) \div SparseBlock) * SparseBlock
<1>1. first \in Nat /\ first + 1 <= j /\ j <= first + SparseBlock
  BY DiskSizesAssumption
<1>2. \A i \in first + 1 .. first + SparseBlock : chunk[i] = 0
  BY DEF Skipped
<1> HIDE DEF first
<1> QED BY <1>1, <1>2, DiskSizesAssumption

(* What one round of the loop makes of the image: n more blocks agree.      *)
Extended(w, data, c, pos, n) ==
  LET chunk == SubSeq(c, pos + 1, pos + n) IN
  /\ w \in Seq(Block) /\ Len(w) = Len(c)
  /\ Agree(w, c, pos + n)
  /\ \A i \in pos + n + 1 .. Len(c) : w[i] = 0
  /\ (\A j \in DOMAIN chunk : Skipped(chunk, j)) => w = data

(* Writing the blocks that are not skipped extends the part of the image    *)
(* that agrees with the archive, whatever the size of the sparse blocks.    *)
LEMMA WriteSparseIs ==
  ASSUME NEW c \in Seq(Block), NEW data \in Seq(Block), Len(data) = Len(c),
         NEW pos \in Nat, NEW n \in Nat \ {0}, pos + n <= Len(c),
         Agree(data, c, pos), \A i \in pos + 1 .. Len(c) : data[i] = 0
  PROVE  Extended(WriteSparse(data, pos, SubSeq(c, pos + 1, pos + n)), data, c, pos, n)
<1> DEFINE chunk == SubSeq(c, pos + 1, pos + n)
           written == {pos + j : j \in {j \in DOMAIN chunk : ~Skipped(chunk, j)}}
           w == WriteSparse(data, pos, chunk)
<1>1. /\ chunk \in Seq(Block) /\ Len(chunk) = n /\ DOMAIN chunk = 1..n
      /\ \A j \in 1..n : chunk[j] = c[pos + j]
  OBVIOUS
<1> HIDE DEF chunk
<1>2. written \subseteq pos + 1 .. pos + n /\ written \in SUBSET (1..Len(data))
  BY <1>1
<1>3. Max({Len(data)} \cup written) = Len(data)
  <2>1. Len(data) \in Nat
    OBVIOUS
  <2> HIDE DEF written
  <2> QED BY <1>2, <2>1, MaxIsBound, Zenon
<1>4. w = [i \in 1..Len(data) |->
            IF i \in written THEN chunk[i - pos] ELSE IF i <= Len(data) THEN data[i] ELSE 0]
  BY <1>3 DEF WriteSparse
<1>5. ASSUME NEW i \in pos + 1 .. pos + n, i \notin written PROVE c[i] = 0
  <2>1. i - pos \in 1..n /\ i = pos + (i - pos)
    OBVIOUS
  <2>2. Skipped(chunk, i - pos)
    BY <1>1, <1>5, <2>1
  <2>3. chunk[i - pos] = 0
    BY <1>1, <2>1, <2>2, SkippedIsZero
  <2> QED BY <1>1, <2>1, <2>3
<1>6. ASSUME \A j \in DOMAIN chunk : Skipped(chunk, j) PROVE written = {}
  BY <1>6
<1> HIDE DEF written
<1>7. ASSUME NEW i \in 1..Len(data)
      PROVE  w[i] = IF i \in pos + 1 .. pos + n THEN c[i] ELSE data[i]
  <2>1. CASE i \in written
    <3>1. i - pos \in 1..n
      BY <1>2, <2>1
    <3> QED BY <1>1, <1>2, <1>4, <2>1, <3>1
  <2>2. CASE i \notin written
    BY <1>4, <1>5, <2>2
  <2> QED BY <2>1, <2>2
<1>8. DOMAIN w = 1..Len(data)
  BY <1>4
<1>9. \A i \in 1..Len(data) : w[i] \in Block
  BY <1>7
<1>10. w \in Seq(Block) /\ Len(w) = Len(c)
  <2>1. w = [i \in 1..Len(data) |-> w[i]]
    BY <1>4
  <2> HIDE DEF w
  <2> QED BY <1>9, <2>1
<1> HIDE DEF w
<1>11. Agree(w, c, pos + n)
  BY <1>7 DEF Agree
<1>12. \A i \in pos + n + 1 .. Len(c) : w[i] = 0
  BY <1>7
<1>13. ASSUME \A j \in DOMAIN chunk : Skipped(chunk, j) PROVE w = data
  <2>1. \A i \in 1..Len(data) : w[i] = data[i]
    BY <1>4, <1>6, <1>13
  <2>2. w \in Seq(Block) /\ Len(w) = Len(data)
    BY <1>10
  <2> QED BY <2>1, <2>2, SameContents DEF Agree
<1> QED BY <1>10, <1>11, <1>12, <1>13 DEF w, chunk, Extended

-----------------------------------------------------------------------------
(* A step of one call, while no other is under way.                         *)
LEMMA CallFrame ==
  ASSUME DiskTypeOK, NEW p \in DiskCalls, NEW c \in CallType, diskCall' = [diskCall EXCEPT ![p] = c],
         \A q \in DiskCalls \ {p} : diskCall[q].pc \notin Busy,
         image' \in FileType, digestFile' \in FileType, now' \in 0..MaxTime,
         image'.mtime <= now', digestFile'.mtime <= now',
         Local(c, image', digestFile'), Fresh(image', digestFile')
  PROVE  Inv'
<1>1. diskCall \in [DiskCalls -> CallType]
  BY DEF DiskTypeOK, CallType
<1>2. \A q \in DiskCalls : diskCall'[q] = IF q = p THEN c ELSE diskCall[q]
  BY <1>1
<1>3. DiskTypeOK'
  <2>1. diskCall' \in [DiskCalls -> CallType]
    BY <1>1
  <2> QED BY <2>1 DEF DiskTypeOK, CallType
<1>4. \A q, r \in DiskCalls : diskCall'[q].pc \in Busy /\ diskCall'[r].pc \in Busy => q = r
  BY <1>2
<1>5. \A q \in DiskCalls \ {p} : Local(diskCall[q], image', digestFile')
  BY DEF Local, Busy
<1>6. \A q \in DiskCalls : Local(diskCall'[q], image', digestFile')
  BY <1>2, <1>5
<1> QED BY <1>3, <1>4, <1>6 DEF Inv

(* What a call that begins, or that goes on, looks like.                    *)
LEMMA BeginsIs ==
  ASSUME Inv, NEW p \in DiskCalls, NEW o \in {"decompress", "validate"},
         NEW where \in Busy \cup {"failed"}, NEW d \in Contents, DiskBegins(p, o, where, d)
  PROVE  \E c \in CallType :
           /\ diskCall' = [diskCall EXCEPT ![p] = c]
           /\ c.op = o /\ c.pc = where /\ c.digest = d /\ c.mtime = image.mtime
           /\ c.pos = 0
<1> DEFINE c == [IdleDiskCall EXCEPT !.op = o, !.pc = where, !.digest = d, !.mtime = image.mtime]
<1>1. image.mtime \in 0..MaxTime
  BY DEF Inv, DiskTypeOK, FileType
<1>2. IdleDiskCall \in CallType /\ IdleDiskCall.pos = 0
  BY DiskSizesAssumption DEF IdleDiskCall, CallType
<1>3. /\ c \in CallType /\ c.op = o /\ c.pc = where /\ c.digest = d /\ c.mtime = image.mtime
      /\ c.pos = 0
  BY <1>1, <1>2, Zenon DEF CallType
<1>4. diskCall' = [diskCall EXCEPT ![p] = c]
  BY DEF DiskBegins
<1> QED BY <1>3, <1>4, Zenon

\* What moving a call to another place changes.
LEMMA GoesToIs ==
  ASSUME Inv, NEW p \in DiskCalls, NEW where \in Busy \cup {"ok", "failed"}, GoesTo(p, where)
  PROVE  \E c \in CallType :
           /\ diskCall' = [diskCall EXCEPT ![p] = c] /\ c.pc = where
           /\ c.op = diskCall[p].op /\ c.digest = diskCall[p].digest /\ c.mtime = diskCall[p].mtime
           /\ c.pos = diskCall[p].pos /\ c.match = diskCall[p].match
<1> DEFINE c == [diskCall[p] EXCEPT !.pc = where]
<1>1. diskCall[p] \in CallType
  BY DEF Inv, DiskTypeOK, CallType
<1>2. /\ c \in CallType /\ c.pc = where
      /\ c.op = diskCall[p].op /\ c.digest = diskCall[p].digest /\ c.mtime = diskCall[p].mtime
      /\ c.pos = diskCall[p].pos /\ c.match = diskCall[p].match
  BY <1>1 DEF CallType
<1>3. diskCall' = [diskCall EXCEPT ![p] = c]
  BY DEF GoesTo
<1> QED BY <1>2, <1>3, Zenon

\* The types of a call's fields, one by one.
LEMMA Typed ==
  ASSUME Inv
  PROVE  /\ image \in FileType /\ digestFile \in FileType /\ now \in 0..MaxTime
         /\ image.mtime \in 0..MaxTime /\ digestFile.mtime \in 0..MaxTime
         /\ image.mtime <= now /\ digestFile.mtime <= now
         /\ image.data \in Seq(Block) /\ Fresh(image, digestFile) /\ DiskTypeOK
         /\ \A p \in DiskCalls : diskCall[p] \in CallType /\ Local(diskCall[p], image, digestFile)
<1>1. image.data \in Contents \cup {<<>>}
  BY DEF Inv, DiskTypeOK, FileType
<1>2. image.data \in Seq(Block)
  <2>1. <<>> \in Seq(Block)
    OBVIOUS
  <2> QED BY <1>1, <2>1, ContentsAre, Zenon
<1> QED BY <1>2 DEF Inv, DiskTypeOK, FileType, CallType

(* While a call is under way, or may begin, all others are at rest.         *)
LEMMA Alone ==
  ASSUME ~Concurrent, Inv, NEW p \in DiskCalls, diskCall[p].pc \in Busy \/ MayBegin(p)
  PROVE  \A q \in DiskCalls \ {p} : diskCall[q].pc \notin Busy
BY DEF Inv, MayBegin

(* A file that is written now is not older than any other.                  *)
LEMMA FileIs ==
  ASSUME Inv, NEW d \in Contents \cup {<<>>}
  PROVE  /\ File(d) \in FileType /\ File(d).mtime = now /\ File(d).data = d /\ File(d).exists
         /\ Fresh(File(d), digestFile)
<1>1. /\ File(d) \in FileType /\ File(d).mtime = now /\ File(d).data = d /\ File(d).exists
  BY Typed DEF File, FileType
<1>2. Fresh(File(d), digestFile)
  BY <1>1, Typed, DiskSizesAssumption DEF Fresh
<1> QED BY <1>1, <1>2

(* A step that leaves the files alone.                                      *)
LEMMA QuietStep ==
  ASSUME ~Concurrent, Inv, NEW p \in DiskCalls, diskCall[p].pc \in Busy \/ MayBegin(p),
         NEW c \in CallType, diskCall' = [diskCall EXCEPT ![p] = c], UNCHANGED <<image, digestFile, now>>,
         Local(c, image, digestFile)
  PROVE  Inv'
BY CallFrame, Typed, Alone, Zenon

-----------------------------------------------------------------------------
(* DecompressFileWithPath.                                                  *)

\* Creating and truncating the image preserves the invariant: the call is alone,
\* and nothing of the archive has been read.
LEMMA OpensStep ==
  ASSUME ~Concurrent, Inv, NEW p \in DiskCalls, NEW archive \in Contents,
         DecompressOpens(p, archive, Len(archive))
  PROVE  Inv'
<1> DEFINE z == Zeros(Len(archive))
<1>1. archive \in Seq(Block) /\ Len(archive) \in 1..MaxBlocks /\ Len(archive) \in Nat
  BY ContentsAre, DiskSizesAssumption
<1>2. z \in Contents /\ Len(z) = Len(archive) /\ \A i \in 1..Len(archive) : z[i] = 0
  BY <1>1, ZerosAre, ContentsAre
<1>3. MayBegin(p) /\ digestFile' = digestFile /\ now' = now
  BY DEF DecompressOpens
<1>4. CASE DiskBegins(p, "decompress", "reading", archive) /\ image' = File(z)
  <2>1. PICK c \in CallType : /\ diskCall' = [diskCall EXCEPT ![p] = c]
                              /\ c.pc = "reading" /\ c.digest = archive /\ c.pos = 0
    <3>1. "reading" \in Busy \cup {"failed"}
      BY DEF Busy
    <3> QED BY <1>4, <3>1, BeginsIs
  <2> HIDE DEF z
  <2>2. /\ image' \in FileType /\ image'.mtime = now /\ image'.data = z /\ image'.exists
        /\ Fresh(image', digestFile)
    BY <1>2, <1>4, FileIs
  <2>3. Local(c, image', digestFile)
    BY <1>1, <1>2, <2>1, <2>2 DEF Local, Agree
  <2>4. /\ \A q \in DiskCalls \ {p} : diskCall[q].pc \notin Busy
        /\ image'.mtime <= now
    BY <1>3, <2>2, Alone, Typed, DiskSizesAssumption
  <2> QED BY <1>3, <2>1, <2>2, <2>3, <2>4, CallFrame, Typed, Zenon
<1>5. CASE /\ DiskBegins(p, "decompress", "failed", archive)
           /\ image' \in {image, File(<<>>), File(z)}
  <2>1. PICK c \in CallType : diskCall' = [diskCall EXCEPT ![p] = c] /\ c.pc = "failed"
    BY <1>5, BeginsIs
  <2>2. Local(c, image', digestFile)
    BY <2>1 DEF Local, Busy
  <2> HIDE DEF z
  <2>3. image' \in FileType /\ image'.mtime <= now /\ Fresh(image', digestFile)
    BY <1>2, <1>5, FileIs, Typed, DiskSizesAssumption
  <2>4. \A q \in DiskCalls \ {p} : diskCall[q].pc \notin Busy
    BY <1>3, Alone
  <2> QED BY <1>3, <2>1, <2>2, <2>3, <2>4, CallFrame, Typed, Zenon
<1> QED BY <1>4, <1>5 DEF DecompressOpens

\* A round of the loop extends the part of the image that equals the archive.
LEMMA ReadsStep ==
  ASSUME ~Concurrent, Inv, NEW p \in DiskCalls, NEW n \in 1..MaxBlocks, DecompressReads(p, n)
  PROVE  Inv'
<1> DEFINE d == diskCall[p].digest
           pos == diskCall[p].pos
           chunk == SubSeq(d, pos + 1, pos + n)
           w == WriteSparse(image.data, pos, chunk)
           c == [diskCall[p] EXCEPT !.pos = pos + n]
<1>1. /\ diskCall[p].pc = "reading" /\ pos + n <= Len(d) /\ UNCHANGED <<digestFile, now>>
      /\ diskCall' = [diskCall EXCEPT ![p].pos = pos + n]
      /\ image' = IF \A j \in DOMAIN chunk : Skipped(chunk, j) THEN image ELSE File(w)
  BY DEF DecompressReads
<1>2. /\ d \in Contents /\ image.exists /\ Len(image.data) = Len(d)
      /\ Agree(image.data, d, pos) /\ \A i \in pos + 1 .. Len(d) : image.data[i] = 0
  BY <1>1, Typed DEF Local, Busy
<1>3. /\ d \in Seq(Block) /\ Len(d) \in 1..MaxBlocks /\ pos \in Nat /\ n \in Nat \ {0}
      /\ diskCall[p] \in CallType /\ image.data \in Seq(Block)
  BY <1>2, ContentsAre, Typed, DiskSizesAssumption DEF CallType
<1>4. /\ w \in Seq(Block) /\ Len(w) = Len(d) /\ Agree(w, d, pos + n)
      /\ \A i \in pos + n + 1 .. Len(d) : w[i] = 0
      /\ (\A j \in DOMAIN chunk : Skipped(chunk, j)) => w = image.data
  <2>1. pos + n <= Len(d)
    BY <1>1
  <2>2. Extended(w, image.data, d, pos, n)
    <3> HIDE DEF d, pos
    <3> QED BY <1>2, <1>3, <2>1, WriteSparseIs
  <2> HIDE DEF d, pos, w
  <2> QED BY <2>2 DEF Extended
<1>5. /\ c \in CallType /\ c.pc = "reading" /\ c.digest = d /\ c.pos = pos + n
      /\ diskCall' = [diskCall EXCEPT ![p] = c]
  <2>1. pos + n \in 0..MaxBlocks
    BY <1>1, <1>3, DiskSizesAssumption
  <2>2. diskCall' = [diskCall EXCEPT ![p] = c]
    BY <1>1
  <2>3. c \in CallType /\ c.pc = diskCall[p].pc /\ c.digest = d /\ c.pos = pos + n
    BY <1>3, <2>1 DEF CallType
  <2> QED BY <1>1, <2>2, <2>3
<1> HIDE DEF d, pos, chunk, w, c
<1>6. w \in Contents
  BY <1>3, <1>4, ContentsAre
<1>7. /\ image' \in FileType /\ image'.data = w /\ image'.exists /\ image'.mtime <= now
      /\ Fresh(image', digestFile)
  <2>1. CASE \A j \in DOMAIN chunk : Skipped(chunk, j)
    BY <1>1, <1>2, <1>4, <2>1, Typed
  <2>2. CASE ~\A j \in DOMAIN chunk : Skipped(chunk, j)
    BY <1>1, <1>6, <2>2, FileIs, Typed, DiskSizesAssumption
  <2> QED BY <2>1, <2>2
<1>8. Local(c, image', digestFile)
  BY <1>1, <1>2, <1>4, <1>5, <1>7 DEF Local
<1>9. \A q \in DiskCalls \ {p} : diskCall[q].pc \notin Busy
  BY <1>1, Alone DEF Busy
<1> QED BY <1>1, <1>5, <1>7, <1>8, <1>9, CallFrame, Typed, Zenon

\* At the end of the archive the image equals it.
LEMMA EndsStep ==
  ASSUME ~Concurrent, Inv, NEW p \in DiskCalls, DecompressEnds(p)
  PROVE  Inv'
<1>1. /\ diskCall[p].pc = "reading" /\ diskCall[p].pc \in Busy /\ diskCall[p].pos = Len(diskCall[p].digest)
      /\ UNCHANGED <<image, digestFile, now>> /\ GoesTo(p, "digesting")
  BY DEF DecompressEnds, Busy
<1>2. PICK c \in CallType :
        diskCall' = [diskCall EXCEPT ![p] = c] /\ c.pc = "digesting" /\ c.digest = diskCall[p].digest
  BY <1>1, GoesToIs DEF Busy
<1>3. /\ diskCall[p].digest \in Contents /\ image.exists /\ Len(image.data) = Len(diskCall[p].digest)
      /\ Agree(image.data, diskCall[p].digest, Len(diskCall[p].digest)) /\ image.data \in Seq(Block)
  BY <1>1, Typed DEF Local
<1>4. image.data = diskCall[p].digest
  BY <1>3, ContentsAre, SameContents
<1>5. Local(c, image, digestFile)
  BY <1>2, <1>3, <1>4 DEF Local
<1> QED BY <1>1, <1>2, <1>5, QuietStep, Zenon

-----------------------------------------------------------------------------
(* A call fails; writeDigestFile.                                           *)

\* A failing call leaves the files as they are.
LEMMA FailsStep ==
  ASSUME ~Concurrent, Inv, NEW p \in DiskCalls, DiskFails(p)
  PROVE  Inv'
<1>1. PICK c \in CallType : diskCall' = [diskCall EXCEPT ![p] = c] /\ c.pc = "failed"
  BY GoesToIs DEF DiskFails
<1>2. Local(c, image, digestFile)
  BY <1>1 DEF Local, Busy
<1> QED BY <1>1, <1>2, QuietStep, Zenon DEF DiskFails

\* Creating the digest file preserves the invariant: an empty file vouches for
\* nothing.
LEMMA CreatesStep ==
  ASSUME ~Concurrent, Inv, NEW p \in DiskCalls, DigestCreates(p)
  PROVE  Inv'
<1>1. /\ diskCall[p].pc = "digesting" /\ diskCall[p].pc \in Busy /\ GoesTo(p, "writing")
      /\ digestFile' = File(<<>>) /\ image' = image /\ now' = now
  BY DEF DigestCreates, Busy
<1>2. PICK c \in CallType :
        diskCall' = [diskCall EXCEPT ![p] = c] /\ c.pc = "writing" /\ c.digest = diskCall[p].digest
  BY <1>1, GoesToIs DEF Busy
<1>3. /\ digestFile' \in FileType /\ digestFile'.mtime = now /\ digestFile'.data = <<>>
  BY <1>1, FileIs
<1>4. Fresh(image', digestFile')
  BY <1>3 DEF Fresh
<1>5. Local(c, image', digestFile')
  BY <1>1, <1>2, Typed DEF Local
<1>6. \A q \in DiskCalls \ {p} : diskCall[q].pc \notin Busy
  BY <1>1, Alone
<1>7. digestFile'.mtime <= now' /\ image'.mtime <= now'
  BY <1>1, <1>3, Typed, DiskSizesAssumption
<1> QED BY <1>1, <1>2, <1>3, <1>4, <1>5, <1>6, <1>7, CallFrame, Typed, Zenon

\* The digest that is written is that of the image.
LEMMA WritesStep ==
  ASSUME ~Concurrent, Inv, NEW p \in DiskCalls, DigestWrites(p)
  PROVE  Inv'
<1>1. /\ diskCall[p].pc = "writing" /\ diskCall[p].pc \in Busy
      /\ digestFile' = File(diskCall[p].digest) /\ image' = image /\ now' = now
  BY DEF DigestWrites, Busy
<1>2. PICK c \in CallType : diskCall' = [diskCall EXCEPT ![p] = c] /\ c.pc \in {"ok", "failed"}
  <2>1. PICK where \in {"ok", "failed"} : GoesTo(p, where)
    BY DEF DigestWrites
  <2> QED BY <2>1, GoesToIs
<1>3. diskCall[p].digest \in Contents /\ image.exists /\ image.data = diskCall[p].digest
  BY <1>1, Typed DEF Local
<1>4. /\ digestFile' \in FileType /\ digestFile'.mtime = now
      /\ digestFile'.data = diskCall[p].digest
  BY <1>1, <1>3, FileIs
<1>5. Fresh(image', digestFile')
  BY <1>1, <1>3, <1>4 DEF Fresh
<1>6. Local(c, image', digestFile')
  BY <1>2 DEF Local, Busy
<1>7. \A q \in DiskCalls \ {p} : diskCall[q].pc \notin Busy
  BY <1>1, Alone
<1>8. digestFile'.mtime <= now' /\ image'.mtime <= now'
  BY <1>1, <1>4, Typed, DiskSizesAssumption
<1> QED BY <1>1, <1>2, <1>4, <1>5, <1>6, <1>7, <1>8, CallFrame, Typed, Zenon

-----------------------------------------------------------------------------
(* ValidateFileWithDigest.                                                  *)

\* A validation begins with the time of the image as it is.
LEMMA StatsStep ==
  ASSUME ~Concurrent, Inv, NEW p \in DiskCalls, NEW d \in Contents, ValidateStats(p, d)
  PROVE  Inv'
<1>1. MayBegin(p) /\ UNCHANGED <<image, digestFile, now>>
  BY DEF ValidateStats
<1>2. CASE image.exists
  <2>1. DiskBegins(p, "validate", "statted", d) /\ "statted" \in Busy \cup {"failed"}
    BY <1>2 DEF ValidateStats, Busy
  <2>2. PICK c \in CallType :
          /\ diskCall' = [diskCall EXCEPT ![p] = c] /\ c.op = "validate" /\ c.pc = "statted"
          /\ c.digest = d /\ c.mtime = image.mtime /\ c.pos = 0
    BY <2>1, BeginsIs
  <2>3. Local(c, image, digestFile)
    BY <1>2, <2>2 DEF Local
  <2> QED BY <1>1, <2>2, <2>3, QuietStep, Zenon
<1>3. CASE ~image.exists
  <2>1. DiskBegins(p, "validate", "failed", d)
    BY <1>3 DEF ValidateStats
  <2>2. PICK c \in CallType : diskCall' = [diskCall EXCEPT ![p] = c] /\ c.pc = "failed"
    BY <2>1, BeginsIs
  <2>3. Local(c, image, digestFile)
    BY <2>2 DEF Local, Busy
  <2> QED BY <1>1, <2>2, <2>3, QuietStep, Zenon
<1> QED BY <1>2, <1>3

\* A validation relies on the digest file only if that is newer than the image.
LEMMA StatsDigestStep ==
  ASSUME ~Concurrent, Inv, NEW p \in DiskCalls, ValidateStatsDigest(p)
  PROVE  Inv'
<1>1. /\ diskCall[p].pc = "statted" /\ diskCall[p].pc \in Busy /\ UNCHANGED <<image, digestFile, now>>
  BY DEF ValidateStatsDigest, Busy
<1>2. /\ diskCall[p].op = "validate" /\ diskCall[p].mtime = image.mtime /\ diskCall[p].pos = 0
      /\ diskCall[p].digest \in Contents /\ image.exists /\ image.data \in Seq(Block)
  BY <1>1, Typed DEF Local
<1>3. CASE UpToDate(diskCall[p].mtime)
  <2>1. GoesTo(p, "cached")
    BY <1>3 DEF ValidateStatsDigest
  <2>2. PICK c \in CallType : /\ diskCall' = [diskCall EXCEPT ![p] = c] /\ c.pc = "cached"
                              /\ c.op = diskCall[p].op /\ c.digest = diskCall[p].digest
    BY <2>1, GoesToIs DEF Busy
  <2>3. Local(c, image, digestFile)
    BY <1>2, <1>3, <2>2 DEF Local, UpToDate
  <2> QED BY <1>1, <2>2, <2>3, QuietStep, Zenon
<1>4. CASE ~UpToDate(diskCall[p].mtime)
  <2>1. GoesTo(p, "hashing")
    BY <1>4 DEF ValidateStatsDigest
  <2>2. PICK c \in CallType : /\ diskCall' = [diskCall EXCEPT ![p] = c] /\ c.pc = "hashing"
                              /\ c.pos = diskCall[p].pos /\ c.digest = diskCall[p].digest
    BY <2>1, GoesToIs DEF Busy
  <2>3. Len(image.data) \in Nat /\ Len(diskCall[p].digest) \in Nat
    BY <1>2, ContentsAre, DiskSizesAssumption
  <2>4. Local(c, image, digestFile)
    BY <1>2, <2>2, <2>3 DEF Local, Agree
  <2> QED BY <1>1, <2>2, <2>4, QuietStep, Zenon
<1> QED BY <1>3, <1>4

\* Comparing with the digest file changes no file.
LEMMA ReadsDigestStep ==
  ASSUME ~Concurrent, Inv, NEW p \in DiskCalls, ValidateReadsDigest(p)
  PROVE  Inv'
<1>1. diskCall[p].pc \in Busy /\ UNCHANGED <<image, digestFile, now>>
  BY DEF ValidateReadsDigest, Busy
<1>2. PICK where \in {"ok", "failed"} : GoesTo(p, where)
  BY DEF ValidateReadsDigest
<1>3. PICK c \in CallType : diskCall' = [diskCall EXCEPT ![p] = c] /\ c.pc \in {"ok", "failed"}
  BY <1>2, GoesToIs
<1>4. Local(c, image, digestFile)
  BY <1>3 DEF Local, Busy
<1> QED BY <1>1, <1>3, <1>4, QuietStep, Zenon

\* Hashing a block extends the part that was compared.
LEMMA ComputeReadsStep ==
  ASSUME ~Concurrent, Inv, NEW p \in DiskCalls, ComputeReads(p)
  PROVE  Inv'
<1> DEFINE next == diskCall[p].pos + 1
           m == diskCall[p].match /\ next <= Len(diskCall[p].digest)
                  /\ diskCall[p].digest[next] = image.data[next]
           c == [diskCall[p] EXCEPT !.pos = next, !.match = m]
<1>1. /\ diskCall[p].pc = "hashing" /\ diskCall[p].pc \in Busy /\ next <= Len(image.data)
      /\ UNCHANGED <<image, digestFile, now>>
      /\ diskCall' = [diskCall EXCEPT ![p].pos = next, ![p].match = m]
  BY DEF ComputeReads, Busy
<1>2. /\ diskCall[p] \in CallType /\ diskCall[p].digest \in Contents /\ image.exists
      /\ diskCall[p].match => /\ diskCall[p].pos <= Len(diskCall[p].digest)
                          /\ Agree(image.data, diskCall[p].digest, diskCall[p].pos)
  BY <1>1, Typed DEF Local
<1>3. next \in 0..MaxBlocks /\ diskCall[p].pos \in Nat
  <2>1. image.data \in Contents \cup {<<>>} /\ Len(<<>>) = 0
    BY Typed DEF FileType
  <2>2. Len(image.data) <= MaxBlocks /\ Len(image.data) \in Nat
    BY <2>1, ContentsAre, Typed, DiskSizesAssumption
  <2> QED BY <1>1, <1>2, <2>2, DiskSizesAssumption DEF CallType
<1>4. m \in BOOLEAN
  OBVIOUS
<1>5. m => next <= Len(diskCall[p].digest) /\ Agree(image.data, diskCall[p].digest, next)
  BY <1>2, <1>3 DEF Agree
<1> HIDE DEF m
<1>6. /\ c \in CallType /\ c.pc = diskCall[p].pc /\ c.digest = diskCall[p].digest
      /\ c.pos = next /\ c.match = m
  BY <1>2, <1>3, <1>4, Zenon DEF CallType
<1>7. diskCall' = [diskCall EXCEPT ![p] = c]
  BY <1>1, <1>2, Zenon
<1> HIDE DEF c, next
<1>8. Local(c, image, digestFile)
  BY <1>1, <1>2, <1>5, <1>6 DEF Local
<1> QED BY <1>1, <1>6, <1>7, <1>8, QuietStep, Zenon

\* A verified image equals the expected contents.
LEMMA VerifiesStep ==
  ASSUME ~Concurrent, Inv, NEW p \in DiskCalls, ComputeVerifies(p)
  PROVE  Inv'
<1>1. /\ diskCall[p].pc = "hashing" /\ diskCall[p].pc \in Busy /\ diskCall[p].pos >= Len(image.data)
      /\ UNCHANGED <<image, digestFile, now>>
  BY DEF ComputeVerifies, Busy
<1>2. CASE Verified(diskCall[p])
  <2>1. GoesTo(p, "digesting")
    BY <1>2 DEF ComputeVerifies
  <2>2. PICK c \in CallType :
          diskCall' = [diskCall EXCEPT ![p] = c] /\ c.pc = "digesting" /\ c.digest = diskCall[p].digest
    BY <2>1, GoesToIs DEF Busy
  <2>3. /\ diskCall[p].digest \in Contents /\ image.exists /\ diskCall[p].pos = Len(diskCall[p].digest)
        /\ diskCall[p].pos <= Len(image.data) /\ Agree(image.data, diskCall[p].digest, diskCall[p].pos)
        /\ image.data \in Seq(Block)
    BY <1>1, <1>2, Typed DEF Local, Verified
  <2>4. image.data = diskCall[p].digest
    <3>1. diskCall[p].digest \in Seq(Block) /\ Len(image.data) \in Nat /\ Len(diskCall[p].digest) \in Nat
      BY <2>3, ContentsAre, DiskSizesAssumption
    <3>2. Len(image.data) = Len(diskCall[p].digest)
      BY <1>1, <2>3, <3>1
    <3> QED BY <2>3, <3>1, <3>2, SameContents
  <2>5. Local(c, image, digestFile)
    BY <2>2, <2>3, <2>4 DEF Local
  <2> QED BY <1>1, <2>2, <2>5, QuietStep, Zenon
<1>3. CASE ~Verified(diskCall[p])
  <2>1. GoesTo(p, "failed")
    BY <1>3 DEF ComputeVerifies
  <2>2. PICK c \in CallType : diskCall' = [diskCall EXCEPT ![p] = c] /\ c.pc = "failed"
    BY <2>1, GoesToIs
  <2>3. Local(c, image, digestFile)
    BY <2>2 DEF Local, Busy
  <2> QED BY <1>1, <2>2, <2>3, QuietStep, Zenon
<1> QED BY <1>2, <1>3

-----------------------------------------------------------------------------
(* The clock, crashes, and the invariant.                                   *)

\* Time passing makes no file newer.
LEMMA TickStep ==
  ASSUME Inv, Tick
  PROVE  Inv'
<1>1. UNCHANGED <<image, digestFile, diskCall>> /\ now' \in 0..MaxTime /\ now <= now' /\ now \in Nat
  BY Typed, DiskSizesAssumption DEF Tick
<1>2. image'.mtime <= now' /\ digestFile'.mtime <= now'
  BY <1>1, Typed, DiskSizesAssumption
<1> QED BY <1>1, <1>2 DEF Inv, DiskTypeOK

\* A crash ends all calls and leaves the files.
LEMMA CrashStep ==
  ASSUME Inv, Crash
  PROVE  Inv'
<1>1. UNCHANGED <<image, digestFile, now>> /\ diskCall' = [p \in DiskCalls |-> IdleDiskCall]
  BY DEF Crash
<1>2. IdleDiskCall \in CallType /\ IdleDiskCall.pc = "idle"
  BY DiskSizesAssumption DEF IdleDiskCall, CallType
<1>3. DiskTypeOK'
  BY <1>1, <1>2, Typed DEF DiskTypeOK, CallType
<1>4. Local(IdleDiskCall, image, digestFile) /\ IdleDiskCall.pc \notin Busy
  BY <1>2 DEF Local, Busy
<1> QED BY <1>1, <1>3, <1>4 DEF Inv

\* The invariant holds before there are files.
LEMMA InvInit == DiskInit => Inv
<1> SUFFICES ASSUME DiskInit PROVE Inv
  OBVIOUS
<1>1. IdleDiskCall \in CallType /\ IdleDiskCall.pc = "idle"
  BY DiskSizesAssumption DEF IdleDiskCall, CallType
<1>2. /\ NoFile \in FileType /\ ~NoFile.exists /\ NoFile.mtime = 0
  BY DiskSizesAssumption DEF NoFile, FileType
<1>3. DiskTypeOK
  BY <1>1, <1>2, DiskSizesAssumption DEF DiskInit, DiskTypeOK, CallType
<1>4. Local(IdleDiskCall, image, digestFile) /\ IdleDiskCall.pc \notin Busy
  BY <1>1 DEF Local, Busy
<1> QED BY <1>2, <1>3, <1>4 DEF DiskInit, Inv, Fresh

\* Every step preserves the invariant, if calls do not overlap and the size is
\* known.
LEMMA InvStep ==
  ASSUME ~Concurrent, ExactSize, Inv, [DiskNext]_diskVars
  PROVE  Inv'
<1>1. ASSUME NEW p \in DiskCalls, DiskStep(p) PROVE Inv'
  BY <1>1, ReadsStep, EndsStep, FailsStep, CreatesStep, WritesStep, StatsDigestStep,
     ReadsDigestStep, ComputeReadsStep, VerifiesStep DEF DiskStep
<1>2. ASSUME NEW p \in DiskCalls, NEW c \in Contents, ValidateStats(p, c) PROVE Inv'
  BY <1>2, StatsStep
<1>3. ASSUME NEW p \in DiskCalls, NEW c \in Contents, NEW size \in {Len(c)},
             DecompressOpens(p, c, size)
      PROVE  Inv'
  BY <1>3, OpensStep
<1>4. ASSUME UNCHANGED diskVars PROVE Inv'
  BY <1>4 DEF diskVars, Inv, DiskTypeOK
<1> QED BY <1>1, <1>2, <1>3, <1>4, TickStep, CrashStep DEF DiskNext

\* The inductive invariant of the image and its digest file holds in every
\* reachable state, if calls do not overlap and the size is known.
THEOREM Invariance ==
  ASSUME ~Concurrent, ExactSize
  PROVE  DiskSpec => []Inv
<1>1. Inv /\ [DiskNext]_diskVars => Inv'
  BY InvStep
<1> QED BY InvInit, <1>1, PTL DEF DiskSpec

-----------------------------------------------------------------------------
(* A digest file that is newer than the image and not empty is the digest    *)
(* of the image, whatever crashed before.                                   *)
THEOREM FreshDigestIsTrueHolds ==
  ASSUME ~Concurrent, ExactSize
  PROVE  DiskSpec => []FreshDigestIsTrue
<1>1. Inv => FreshDigestIsTrue
  BY DEF Inv, Fresh, FreshDigestIsTrue, UpToDate
<1> QED BY <1>1, Invariance, PTL

(* Only a call that has the digest file to write, or one that has found it   *)
(* up to date, succeeds; the image then has the expected contents.          *)
LEMMA SucceedsIs ==
  ASSUME Inv, DiskNext, NEW p \in DiskCalls, NEW o, Succeeds(p, o)
  PROVE  image.data = diskCall[p].digest
<1>1. diskCall[p].pc \in Busy /\ diskCall'[p].pc = "ok" /\ diskCall[p] \in CallType /\ p \in DOMAIN diskCall
  BY Typed DEF Succeeds, Inv, DiskTypeOK
<1>2. "ok" \notin Busy /\ IdleDiskCall.pc # "ok"
  BY DEF Busy, IdleDiskCall
<1>3. ASSUME NEW q \in DiskCalls, NEW where, GoesTo(q, where) PROVE q = p /\ where = "ok"
  <2>1. ASSUME q # p PROVE diskCall'[p] = diskCall[p]
    BY <1>1, <1>3, <2>1 DEF GoesTo
  <2>2. q = p
    BY <1>1, <1>2, <2>1
  <2> QED BY <1>1, <1>3, <2>2 DEF GoesTo, CallType
<1>4. ASSUME NEW q \in DiskCalls, DiskStep(q) PROVE image.data = diskCall[p].digest
  <2>1. CASE DigestWrites(q)
    <3>1. q = p /\ diskCall[q].pc = "writing"
      BY <1>3, <2>1 DEF DigestWrites
    <3> QED BY <3>1, Typed DEF Local
  <2>2. CASE ValidateReadsDigest(q)
    <3>1. q = p /\ diskCall[p].pc = "cached" /\ digestFile.data = diskCall[p].digest
      BY <1>3, <2>2 DEF ValidateReadsDigest
    <3>2. digestFile.exists /\ digestFile.mtime > image.mtime /\ diskCall[p].digest \in Contents
      BY <1>1, <3>1, Typed DEF Local
    <3>3. diskCall[p].digest # <<>>
      BY <3>2, ContentsAre
    <3> QED BY <3>1, <3>2, <3>3, Typed DEF Fresh
  <2>3. CASE DecompressEnds(q) \/ DiskFails(q) \/ DigestCreates(q) \/ ValidateStatsDigest(q)
               \/ ComputeVerifies(q)
    BY <1>3, <2>3
    DEF DecompressEnds, DiskFails, DigestCreates, ValidateStatsDigest, ComputeVerifies
  <2>4. CASE \E n \in 1..MaxBlocks : DecompressReads(q, n)
    BY <1>1, <1>2, <2>4, Typed DEF DecompressReads, CallType
  <2>5. CASE ComputeReads(q)
    BY <1>1, <1>2, <2>5, Typed DEF ComputeReads, CallType
  <2> QED BY <1>4, <2>1, <2>2, <2>3, <2>4, <2>5 DEF DiskStep
<1>5. ASSUME NEW q \in DiskCalls, NEW c \in Contents, ValidateStats(q, c) PROVE FALSE
  <2>1. q # p
    BY <1>1, <1>5 DEF ValidateStats, MayBegin
  <2> QED BY <1>1, <1>2, <1>5, <2>1 DEF ValidateStats, DiskBegins
<1>6. ASSUME NEW q \in DiskCalls, NEW c \in Contents, NEW size, DecompressOpens(q, c, size) PROVE FALSE
  <2>1. q # p
    BY <1>1, <1>6 DEF DecompressOpens, MayBegin
  <2> QED BY <1>1, <1>2, <1>6, <2>1 DEF DecompressOpens, DiskBegins
<1>7. ~Tick
  BY <1>1, <1>2 DEF Tick
<1>8. ~Crash
  BY <1>1, <1>2 DEF Crash
<1> QED BY <1>4, <1>5, <1>6, <1>7, <1>8 DEF DiskNext

(* When DecompressFileWithPath returns a digest, the image has exactly the   *)
(* contents of the archive.                                                 *)
THEOREM DecompressedIsExactHolds ==
  ASSUME ~Concurrent, ExactSize
  PROVE  DiskSpec => DecompressedIsExact
<1>1. Inv /\ [DiskNext]_diskVars =>
        [\A p \in DiskCalls : Succeeds(p, "decompress") => image.data = diskCall[p].digest]_diskVars
  BY SucceedsIs
<1> QED BY <1>1, Invariance, PTL DEF DiskSpec, DecompressedIsExact

(* When ValidateFileWithDigest returns nil, the image has the contents that  *)
(* were expected, also if it only looked at the digest file.                *)
THEOREM ValidatedIsGenuineHolds ==
  ASSUME ~Concurrent, ExactSize
  PROVE  DiskSpec => ValidatedIsGenuine
<1>1. Inv /\ [DiskNext]_diskVars =>
        [\A p \in DiskCalls : Succeeds(p, "validate") => image.data = diskCall[p].digest]_diskVars
  BY SucceedsIs
<1> QED BY <1>1, Invariance, PTL DEF DiskSpec, ValidatedIsGenuine

-----------------------------------------------------------------------------
(* CompressFileWithPath: what the gzip writer has let go, followed by what   *)
(* it has kept back, is what the tee has digested.                          *)

\* Blocks move from the writer to the file in their order.
LEMMA ConcatOfParts ==
  ASSUME NEW S, NEW a \in Seq(S), NEW k \in Seq(S), NEW n \in 0..Len(k)
  PROVE  (a \o SubSeq(k, 1, n)) \o SubSeq(k, n + 1, Len(k)) = a \o k
<1> DEFINE p == SubSeq(k, 1, n)  q == SubSeq(k, n + 1, Len(k))
<1>1. p \in Seq(S) /\ Len(p) = n /\ \A i \in 1..n : p[i] = k[i]
  OBVIOUS
<1>2. q \in Seq(S) /\ Len(q) = Len(k) - n /\ \A i \in 1..(Len(k) - n) : q[i] = k[n + i]
  OBVIOUS
<1> HIDE DEF p, q
<1>3. p \o q = k
  <2> DEFINE m == 1  last == Len(k)
  <2>1. m \in 1..Len(k) + 1 /\ n \in m - 1 .. Len(k) /\ last \in n..Len(k)
    OBVIOUS
  <2> HIDE DEF m, last
  <2>2. SubSeq(k, m, n) \o SubSeq(k, n + 1, last) = SubSeq(k, m, last)
    BY <2>1, ConcatAdjacentSubSeq
  <2>3. SubSeq(k, 1, Len(k)) = k
    BY SubSeqFull
  <2> QED BY <2>2, <2>3, Zenon DEF p, q, m, last
<1>4. (a \o p) \o q = a \o (p \o q)
  BY <1>1, <1>2, ConcatAssociative
<1> QED BY <1>3, <1>4, Zenon DEF p, q

\* What the archive holds is what was in the image, as long as nobody wrote.
CopiesUnwritten ==
  writes = 0 => \A i \in 1..Len(uncompressedDigester) : uncompressedDigester[i] = inputFile[i]

CompressInv ==
  /\ inputFile \in [1..Blocks -> {0, 1}] /\ writes \in Nat
  /\ uncompressedDigester \in Seq({0, 1}) /\ keptBack \in Seq({0, 1}) /\ outputFile \in Seq({0, 1})
  /\ uncompressedDigester = outputFile \o keptBack
  /\ compressPC = "idle" => uncompressedDigester = <<>>
  /\ compressPC \in {"flushed", "returned"} => keptBack = <<>> /\ Len(uncompressedDigester) = Blocks
  /\ CopiesUnwritten
  /\ ResultDescribesArchive

\* Nothing has been read.
LEMMA CompressInvInit == CompressInit => CompressInv
<1> SUFFICES ASSUME CompressInit PROVE CompressInv
  OBVIOUS
<1>1. <<>> \o <<>> = <<>>
  BY ConcatEmptySeq
<1> QED BY <1>1, CompressAssumption DEF CompressInit, CompressInv, CopiesUnwritten, ResultDescribesArchive

(* The tee adds a block at both ends of the equation, the writer moves some  *)
(* across it, and Close moves the rest.                                     *)
LEMMA CompressInvStep == CompressInv /\ [CompressNext]_compressVars => CompressInv'
<1> SUFFICES ASSUME CompressInv, [CompressNext]_compressVars PROVE CompressInv'
  OBVIOUS
<1> USE CompressAssumption DEF CompressInv, CopiesUnwritten, ResultDescribesArchive
<1>1. ASSUME NEW contents \in [1..Blocks -> {0, 1}], CompressFileWithPath(contents) PROVE CompressInv'
  BY <1>1 DEF CompressFileWithPath
<1>2. ASSUME NEW i \in 1..Blocks, GuestWrites(i) PROVE CompressInv'
  <2>1. inputFile' \in [1..Blocks -> {0, 1}]
    <3>1. 1 - inputFile[i] \in {0, 1}
      OBVIOUS
    <3> QED BY <1>2, <3>1 DEF GuestWrites
  <2>2. writes' \in Nat /\ writes' # 0
    BY <1>2 DEF GuestWrites
  <2> QED BY <1>2, <2>1, <2>2 DEF GuestWrites
<1>3. ASSUME Copies PROVE CompressInv'
  <2> DEFINE next == Len(uncompressedDigester) + 1
  <2>1. next \in 1..Blocks /\ inputFile[next] \in {0, 1} /\ compressPC = "copying"
        /\ uncompressedDigester' = Append(uncompressedDigester, inputFile[next])
        /\ keptBack' = Append(keptBack, inputFile[next])
        /\ UNCHANGED <<inputFile, writes, compressPC, outputFile, compressionResult>>
    BY <1>3 DEF Copies
  <2>2. uncompressedDigester' = outputFile' \o keptBack'
    <3> DEFINE x == inputFile[next]
    <3>1. x \in {0, 1} /\ <<x>> \in Seq({0, 1}) /\ outputFile \o keptBack \in Seq({0, 1})
      BY <2>1
    <3> HIDE DEF x
    <3>2. Append(outputFile \o keptBack, x) = (outputFile \o keptBack) \o <<x>> /\ Append(keptBack, x) = keptBack \o <<x>>
      BY <3>1, AppendIsConcat
    <3>3. (outputFile \o keptBack) \o <<x>> = outputFile \o (keptBack \o <<x>>)
      BY <3>1, ConcatAssociative
    <3> QED BY <2>1, <3>2, <3>3 DEF x
  <2>3. uncompressedDigester' \in Seq({0, 1}) /\ keptBack' \in Seq({0, 1})
    BY <2>1
  <2>4. CopiesUnwritten'
    <3>1. Len(uncompressedDigester') = next /\ uncompressedDigester'[next] = inputFile'[next]
      BY <2>1
    <3>2. \A i \in 1..Len(uncompressedDigester) : uncompressedDigester'[i] = uncompressedDigester[i]
      BY <2>1
    <3>3. \A i \in 1..next : i = next \/ i \in 1..Len(uncompressedDigester)
      BY <2>1
    <3> HIDE DEF next
    <3> QED BY <2>1, <3>1, <3>2, <3>3, Zenon
  <2> QED BY <2>1, <2>2, <2>3, <2>4
<1>4. ASSUME NEW n \in 1..Blocks, WriterEmits(n) PROVE CompressInv'
  <2>1. n \in 0..Len(keptBack) /\ compressPC = "copying"
        /\ outputFile' = outputFile \o SubSeq(keptBack, 1, n)
        /\ keptBack' = SubSeq(keptBack, n + 1, Len(keptBack))
        /\ UNCHANGED <<inputFile, writes, compressPC, uncompressedDigester, compressionResult>>
    BY <1>4 DEF WriterEmits
  <2>2. uncompressedDigester' = outputFile' \o keptBack'
    BY <2>1, ConcatOfParts, ZenonT(30)
  <2>3. outputFile' \in Seq({0, 1}) /\ keptBack' \in Seq({0, 1})
    BY <2>1
  <2> QED BY <2>1, <2>2, <2>3, Zenon
<1>5. ASSUME Closes PROVE CompressInv'
  <2>1. /\ compressPC = "copying" /\ Len(uncompressedDigester) = Blocks /\ compressPC' = "flushed"
        /\ outputFile' = outputFile \o keptBack /\ keptBack' = <<>>
        /\ UNCHANGED <<inputFile, writes, uncompressedDigester, compressionResult>>
    BY <1>5 DEF Closes, CloseFlushes
  <2>2. uncompressedDigester' = outputFile' \o keptBack'
    BY <2>1, ConcatEmptySeq
  <2> QED BY <2>1, <2>2
<1>6. ASSUME CompressReturns PROVE CompressInv'
  <2>1. uncompressedDigester = outputFile
    BY <1>6, ConcatEmptySeq DEF CompressReturns
  <2> QED BY <1>6, <2>1 DEF CompressReturns
<1>7. ASSUME CompressFails PROVE CompressInv'
  BY <1>7 DEF CompressFails
<1>8. ASSUME UNCHANGED compressVars PROVE CompressInv'
  BY <1>8 DEF compressVars
<1> QED BY <1>1, <1>2, <1>3, <1>4, <1>5, <1>6, <1>7, <1>8, Zenon DEF CompressNext

\* The equation of the tee and the writer holds in every reachable state.
THEOREM CompressInvariance == CompressSpec => []CompressInv
BY CompressInvInit, CompressInvStep, PTL DEF CompressSpec

(* The result of CompressFileWithPath describes the archive, whenever the    *)
(* writer lets go of its blocks and whatever is written to the image, for    *)
(* images of any length.                                                    *)
THEOREM ResultDescribesArchiveHolds == CompressSpec => []ResultDescribesArchive
<1>1. CompressInv => ResultDescribesArchive
  BY DEF CompressInv
<1> QED BY <1>1, CompressInvariance, PTL

\* The archive of an image that was not written to holds the image.
ArchiveIsTheImage ==
  compressPC = "returned" /\ writes = 0 => compressionResult.GzDigest = inputFile

(* CompressFileWithPath archives an image that nobody writes to as it is,    *)
(* block by block.                                                          *)
THEOREM ArchiveIsTheImageHolds == CompressSpec => []ArchiveIsTheImage
<1>1. ASSUME CompressInv PROVE ArchiveIsTheImage
  <2> SUFFICES ASSUME compressPC = "returned", writes = 0 PROVE compressionResult.GzDigest = inputFile
    BY DEF ArchiveIsTheImage
  <2>1. compressionResult.GzDigest = uncompressedDigester /\ Len(uncompressedDigester) = Blocks
    BY <1>1, ConcatEmptySeq DEF CompressInv, ResultDescribesArchive
  <2>2. inputFile \in Seq({0, 1}) /\ Len(inputFile) = Blocks
    BY <1>1, CompressAssumption DEF CompressInv
  <2>3. uncompressedDigester = inputFile
    BY <1>1, <2>1, <2>2, SeqEqual DEF CompressInv, CopiesUnwritten
  <2> QED BY <2>1, <2>3
<1> QED BY <1>1, CompressInvariance, PTL

=============================================================================

----------------------------- MODULE Compression -----------------------------
(***************************************************************************)
(* CompressFileWithPath of internal/disk/compression.go: the image is read  *)
(* through a tee that digests it, into a parallel gzip writer that keeps    *)
(* blocks back until they are compressed; what the writer lets go goes to   *)
(* the output file and to the digest of the archive.  The virtual machine   *)
(* may write its image meanwhile.  A digest is represented by its input.    *)
(***************************************************************************)
EXTENDS Integers, Sequences

CONSTANTS
  Blocks,       \* the length of the image
  MaxWrites     \* how often its owner may write to it

ASSUME CompressAssumption == Blocks \in Nat \ {0} /\ MaxWrites \in Nat

VARIABLES
  inputFile,              \* the image, as it is
  writes,                 \* how often it has been written to
  compressPC,
  uncompressedDigester,   \* the blocks the tee has passed on
  keptBack,                \* the blocks the gzip writer has kept back
  outputFile,             \* the blocks it has let go
  compressionResult                  \* the CompressionResult

compressVars == <<inputFile, writes, compressPC, uncompressedDigester, keptBack, outputFile, compressionResult>>

NoResult == [UncompressedSize |-> 0, CompressedSize |-> 0, GzDigest |-> <<>>,
             UncompressedDigest |-> <<>>]
CompressInit ==
  /\ inputFile = [i \in 1..Blocks |-> 0] /\ writes = 0
  /\ compressPC = "idle" /\ uncompressedDigester = <<>> /\ keptBack = <<>>
  /\ outputFile = <<>> /\ compressionResult = NoResult

CompressFileWithPath(contents) ==
  /\ compressPC = "idle" /\ compressPC' = "copying" /\ inputFile' = contents
  /\ UNCHANGED <<writes, uncompressedDigester, keptBack, outputFile, compressionResult>>

GuestWrites(i) ==
  /\ compressPC # "idle" /\ writes < MaxWrites /\ writes' = writes + 1
  /\ inputFile' = [inputFile EXCEPT ![i] = 1 - @]
  /\ UNCHANGED <<compressPC, uncompressedDigester, keptBack, outputFile, compressionResult>>

\* io.Copy reads the next block through the tee and hands it to the writer.
Copies ==
  LET next == Len(uncompressedDigester) + 1 IN
  /\ compressPC = "copying" /\ next <= Blocks
  /\ uncompressedDigester' = Append(uncompressedDigester, inputFile[next])
  /\ keptBack' = Append(keptBack, inputFile[next])
  /\ UNCHANGED <<inputFile, writes, compressPC, outputFile, compressionResult>>

\* The gzip writer has compressed n blocks.
WriterEmits(n) ==
  /\ compressPC = "copying" /\ n <= Len(keptBack)
  /\ outputFile' = outputFile \o SubSeq(keptBack, 1, n)
  /\ keptBack' = SubSeq(keptBack, n + 1, Len(keptBack))
  /\ UNCHANGED <<inputFile, writes, compressPC, uncompressedDigester, compressionResult>>

\* A plausible slip: Close is left to a deferred call, after the result.
ClosesLater == <<>>

\* What Close waits for: every block that was kept back.
CloseFlushes == keptBack

\* The end of the input; Close and Sync.
Closes ==
  /\ compressPC = "copying" /\ Len(uncompressedDigester) = Blocks
  /\ outputFile' = outputFile \o CloseFlushes
  /\ keptBack' = <<>> /\ compressPC' = "flushed"
  /\ UNCHANGED <<inputFile, writes, uncompressedDigester, compressionResult>>

\* Stat, and the result.
CompressReturns ==
  /\ compressPC = "flushed" /\ compressPC' = "returned"
  /\ compressionResult' = [UncompressedSize |-> Len(uncompressedDigester),
                CompressedSize |-> Len(outputFile),
                GzDigest |-> outputFile, UncompressedDigest |-> uncompressedDigester]
  /\ UNCHANGED <<inputFile, writes, uncompressedDigester, keptBack, outputFile>>

\* Reading, writing, Sync or Stat failed: no result, and part of the output.
CompressFails ==
  /\ compressPC \in {"copying", "flushed"} /\ compressPC' = "failed"
  /\ UNCHANGED <<inputFile, writes, uncompressedDigester, keptBack, outputFile, compressionResult>>

CompressNext ==
  \/ \E contents \in [1..Blocks -> {0, 1}] : CompressFileWithPath(contents)
  \/ \E i \in 1..Blocks : GuestWrites(i)
  \/ Copies
  \/ \E n \in 1..Blocks : WriterEmits(n)
  \/ Closes \/ CompressReturns \/ CompressFails

CompressSpec == CompressInit /\ [][CompressNext]_compressVars

-----------------------------------------------------------------------------
\* A result describes the archive: both sizes and both digests are those of
\* what the output file holds, in order and in full, even if the image was
\* written to while it was read.
ResultDescribesArchive ==
  compressPC = "returned" =>
    /\ Len(outputFile) = Blocks
    /\ compressionResult.GzDigest = outputFile /\ compressionResult.CompressedSize = Len(outputFile)
    /\ compressionResult.UncompressedDigest = outputFile /\ compressionResult.UncompressedSize = Len(outputFile)

=============================================================================

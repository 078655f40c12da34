------------------------------ MODULE Chunker ------------------------------
(***************************************************************************)
(* chunk_text (app/rag/chunker.py): a text, its whitespace normalised, is  *)
(* cut into pieces of chunk_size estimated tokens, each of which begins    *)
(* stride characters after the one before.  A text is its length; a piece  *)
(* is the set of the positions it holds.                                   *)
(***************************************************************************)
EXTENDS Integers

CONSTANTS
  ChunkSize,  \* RAG_CHUNK_SIZE
  Overlap     \* RAG_CHUNK_OVERLAP

\* The function raises ValueError unless the size exceeds the overlap.
ASSUME ChunkAssumption == ChunkSize \in Nat /\ Overlap \in Nat /\ ChunkSize > Overlap

CharsPerToken == 4
CharsPerChunk == ChunkSize * CharsPerToken

Stride == CharsPerChunk - Overlap * CharsPerToken

\* Faulty variant: a last piece that is not full is dropped.
ChunkCountFull(length) == length \div Stride

\* "while pos < len(normalized)", pos advancing by stride.  No piece is blank:
\* it has at least two characters or is the last one of a stripped text.
ChunkCount(length) == (length + Stride - 1) \div Stride

\* normalized[pos : pos + chars_per_chunk]
Piece(length, i) == { c \in 0..(length - 1) : i * Stride <= c /\ c < i * Stride + CharsPerChunk }
=============================================================================

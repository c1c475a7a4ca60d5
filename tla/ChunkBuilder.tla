---------------------------- MODULE ChunkBuilder ----------------------------
(***************************************************************************)
(* From the files of an upload to the prompts of its review: what analyze  *)
(* loads, how ChunkBuilderService cuts it into chunks, and which of them   *)
(* PromptBuilderService has room for.                                      *)
(*                                                                         *)
(* A text is a sequence of characters: letters, the two line ends, a       *)
(* secret, two dollars, and the marks redact and numberLines leave.  Sizes *)
(* are scaled down: a number or header is a few characters, and the limits *)
(* are constants.                                                          *)
(***************************************************************************)
EXTENDS Naturals, SequencesExt

CONSTANTS
  Walk,               \* paths of the project, in the order readdir lists them
  Excluded,           \* paths that are excluded, too large or binary
  Readme,             \* README.md in the root
  CharsPerToken,      \* estimateTokens: 4
  MaxTokens,          \* tokens of a chunk: 2500
  Margin,             \* tokens kept free when a file is cut: 8
  MaxChunks,          \* chunks of a project: 100
  HeaderChars,        \* "// FILE: " and the path
  NumberChars,        \* a line number in a chunk
  ArchitectureTokens, \* size of the architecture chunk
  MaxAnalysisFiles,   \* AI_MAX_ANALYSIS_FILES
  InputMaxTokens,     \* AI_INPUT_MAX_TOKENS
  Overhead            \* tokens of a prompt without its chunks

ASSUME ChunkAssumption ==
  /\ {CharsPerToken, MaxTokens, MaxAnalysisFiles, InputMaxTokens} \subseteq Nat \ {0}
  /\ {Margin, MaxChunks, HeaderChars, NumberChars, ArchitectureTokens, Overhead}
       \subseteq Nat
  /\ Margin < MaxTokens
  /\ Walk \in Seq(Range(Walk))
  /\ IsInjective(Walk)

Paths == Range(Walk)

-----------------------------------------------------------------------------
(* Lines of a text, as split(/\r?\n/) and join('\n') see them.             *)

LineEnds == {"LF", "CRLF"}

Lines(text) ==
  FoldLeft(LAMBDA lines, c : IF c \in LineEnds THEN Append(lines, <<>>)
                             ELSE Append(Front(lines), Append(Last(lines), c)),
           << <<>> >>, text)

Joined(lines) ==
  FoldLeft(LAMBDA text, line : text \o <<"LF">> \o line, Head(lines), Tail(lines))

(* A secret becomes a mark.                                                *)
Redact(text) == ReplaceAll(text, "secret", "redacted")

NumberLines(text) ==
  LET lines == Lines(text)
  IN  Joined([k \in 1 .. Len(lines) |-> <<"number">> \o lines[k]])

-----------------------------------------------------------------------------
(* Chunks.  A piece is a part of the content of one file.                  *)

LoadFiles(archive) ==
  FoldLeft(LAMBDA files, p :
             IF p \in DOMAIN archive \ Excluded
             THEN Append(files, [path |-> p, content |-> NumberLines(Redact(archive[p]))])
             ELSE files,
           <<>>, Walk)

EstimateTokens(chars) ==
  Max({1, (chars + CharsPerToken - 1) \div CharsPerToken})

ChunkChars(pieces) ==
  FoldLeft(LAMBDA chars, p : chars + HeaderChars + Len(p.content)
                               + NumberChars * Len(Lines(p.content)),
           2 * (Len(pieces) - 1), pieces)

MakeChunk(pieces) ==
  [pieces |-> pieces, tokens |-> EstimateTokens(ChunkChars(pieces))]

(* flush: the files collected so far become a chunk, if there is room.     *)
Flush(s, limit) ==
  IF s.current = <<>> \/ Len(s.chunks) >= limit THEN s
  ELSE [chunks |-> Append(s.chunks, MakeChunk(s.current)),
        current |-> <<>>, tokens |-> 0]

(* The chunks of a file that is too large for one, as far as there is room.*)
Slices(file, room) ==
  LET size  == Max({1, (MaxTokens - Margin) * CharsPerToken})
      count == Min({room, (Len(file.content) + size - 1) \div size})
  IN  [k \in 1 .. count |->
         MakeChunk(<<[path |-> file.path,
                      content |-> SubSeq(file.content, (k - 1) * size + 1,
                                         Min({k * size, Len(file.content)}))]>>)]

AddFile(s, file, limit) ==
  LET tokens  == EstimateTokens(Len(file.content))
      flushed == IF s.current # <<>> /\ s.tokens + tokens > MaxTokens
                 THEN Flush(s, limit) ELSE s
      room    == Max({limit, Len(flushed.chunks)}) - Len(flushed.chunks)
  IN  IF tokens > MaxTokens
      THEN [flushed EXCEPT !.chunks = @ \o Slices(file, room)]
      ELSE [flushed EXCEPT !.current = Append(@, file), !.tokens = @ + tokens]

AddFiles(files, limit) ==
  FoldLeft(LAMBDA s, file : AddFile(s, file, limit),
           [chunks |-> <<>>, current |-> <<>>, tokens |-> 0], files)

(* Without the flush that follows the last file.                           *)
BuildWithoutFlush(files, limit) == AddFiles(files, limit).chunks

Build(files, limit) == Flush(AddFiles(files, limit), limit).chunks

(* The one chunk that is not cut from files; it names all of them.         *)
Architecture == [pieces |-> <<>>, tokens |-> ArchitectureTokens]

(* A chunk of several files is named after the directory of the first.     *)
ChunkPath(chunk) ==
  LET path == Head(chunk.pieces).path
  IN  IF Len(chunk.pieces) = 1 THEN path
      ELSE IF Len(path) > 1 THEN Front(path) ELSE <<"project">>

PathsOf(chunk) == {chunk.pieces[i].path : i \in 1 .. Len(chunk.pieces)}

ChunkedPaths(chunks) == UNION {PathsOf(chunk) : chunk \in Range(chunks)}

-----------------------------------------------------------------------------
(* Prompts.                                                                *)

(* The chunks that fit, in their order; one that does not is passed over.  *)
BuildPrompt(chunks) ==
  FoldLeft(LAMBDA p, chunk : IF p.tokens + chunk.tokens > InputMaxTokens THEN p
                             ELSE [chunks |-> Append(p.chunks, chunk),
                                   tokens |-> p.tokens + chunk.tokens],
           [chunks |-> <<>>, tokens |-> Overhead], chunks).chunks

(* The first paths of the project that have chunks, in the order of these. *)
TopPaths(chunks) ==
  LET known == SelectSeq(Walk, LAMBDA p : p \in ChunkedPaths(chunks))
  IN  Range(SubSeq(known, 1, Min({MaxAnalysisFiles, Len(known)})))

(* The provider's choice of files; an answer that names no file of the     *)
(* project, or none at all, is replaced by the first ones.  README.md is   *)
(* added.                                                                  *)
SelectedPaths(answer, chunks, files) ==
  LET allowed == answer \cap ChunkedPaths(chunks)
      chosen  == IF allowed = {} THEN TopPaths(chunks) ELSE allowed
  IN  chosen \cup {f.path : f \in {g \in Range(files) : g.path = Readme}}

SelectedChunks(answer, chunks, files) ==
  LET selected == SelectSeq(files, LAMBDA f :
                    f.path \in SelectedPaths(answer, chunks, files))
  IN  Build(selected, Min({MaxAnalysisFiles + 1, Len(selected)}))

(* The paths of which something is in the prompt of a review: the merged   *)
(* one, or the project's and each file's own.  The prompt of the choice of *)
(* files, with every path and the first characters, is none.               *)
SentMerged(answer, chunks, files) ==
  ChunkedPaths(BuildPrompt(SelectedChunks(answer, chunks, files)))

SentSeparately(chunks) ==
  ChunkedPaths(BuildPrompt(<<Architecture>> \o chunks))
    \cup UNION {ChunkedPaths(BuildPrompt(SelectSeq(chunks, LAMBDA c : p \in PathsOf(c)))) :
                  p \in ChunkedPaths(chunks)}
=============================================================================

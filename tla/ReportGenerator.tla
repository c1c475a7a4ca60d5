--------------------------- MODULE ReportGenerator ---------------------------
(***************************************************************************)
(* From the provider's issues to a report, and from a report to what the   *)
(* API makes of it: the findings without duplicates, the list of reviewed  *)
(* files, the fixes that may be offered, and the archive with the fixes.   *)
(***************************************************************************)
EXTENDS ChunkBuilder

(* From the heaviest: findings of a report are ordered by severity.        *)
Severity == <<"CRITICAL", "HIGH", "MEDIUM", "LOW", "INFO">>

Rank(severity) == CHOOSE i \in DOMAIN Severity : Severity[i] = severity

(* An issue as AIResponseValidator lets it through: any file and lines (0  *)
(* stands for none), its words, and at most one patch: two texts, perhaps  *)
(* with lines of their own.                                                *)
WellFormed(issue) ==
  /\ issue.severity \in Range(Severity)
  /\ {issue.start, issue.end} \subseteq Nat
  /\ issue.end >= issue.start
  /\ IsFiniteSet(issue.words)
  /\ \A p, q \in issue.patch : p = q
  /\ \A p \in issue.patch :
       {p.before, p.after} \subseteq Seq(STRING) /\ {p.start, p.end} \subseteq Nat

-----------------------------------------------------------------------------
(* IssueDeduplicatorService.                                               *)

SameBucket(i, j) == i.file = j.file /\ i.category = j.category

(* Common words are at least 0.85 of all words.                            *)
Similar(i, j) ==
  100 * Cardinality(i.words \cap j.words) >= 85 * Cardinality(i.words \cup j.words)

(* Buckets that take the duplicates in, too.                               *)
DeduplicateAll(issues) ==
  LET new == SelectSeq([k \in 1 .. Len(issues) |-> k], LAMBDA k :
               \A i \in 1 .. k - 1 :
                 ~(SameBucket(issues[i], issues[k]) /\ Similar(issues[i], issues[k])))
  IN  [n \in 1 .. Len(new) |-> issues[new[n]]]

Deduplicate(issues) ==
  FoldLeft(LAMBDA kept, issue :
             IF \E i \in Range(kept) : SameBucket(i, issue) /\ Similar(i, issue)
             THEN kept ELSE Append(kept, issue),
           <<>>, issues)

-----------------------------------------------------------------------------
(* ReportsService.                                                         *)

(* One path is the end of the other.                                       *)
PathsMatch(p, q) == IsSuffix(p, q) \/ IsSuffix(q, p)

(* The files a report lists: those of its stored chunks (the architecture  *)
(* chunk names the whole project), the chunks themselves, directories or   *)
(* not, and the files of its findings.                                     *)
Coverage(structure, chunks, findings) ==
  structure
    \cup ChunkedPaths(chunks) \cup {ChunkPath(c) : c \in Range(chunks)}
    \cup {f.file : f \in Range(findings)}

Reviewed(path, findings) == \A f \in Range(findings) : ~PathsMatch(f.file, path)

(* normalizeText                                                           *)
Normalized(text) == ReplaceAll(text, "CRLF", "LF")

(* Lines a to b of a text that has the first of them.                      *)
LinesOf(text, a, b) ==
  LET lines == Lines(text)
  IN  Joined(SubSeq(lines, a, Min({b, Len(lines)})))

(* The stored source of the first file that matches a finding's path.      *)
SourceFile(archive, path) ==
  LET files   == SelectSeq(Walk, LAMBDA p : p \in DOMAIN archive \ Excluded)
      matches == SelectSeq(files, LAMBDA p : PathsMatch(p, path))
  IN  {Redact(archive[p]) : p \in Range(SubSeq(matches, 1, Min({1, Len(matches)})))}

(* The lines of a fix are its finding's, or else those the patch names.    *)
FixStart(finding, patch) == IF finding.start # 0 THEN finding.start ELSE patch.start

FixEnd(finding, patch) ==
  IF finding.end # 0 THEN finding.end
  ELSE IF patch.end # 0 THEN patch.end ELSE FixStart(finding, patch)

(* A patch is offered if it quotes the stored source; an empty quotation   *)
(* is not compared.                                                        *)
SuggestedPatch(archive, finding) ==
  {patch \in finding.patch :
     LET from == FixStart(finding, patch)
         to   == FixEnd(finding, patch)
     IN  \/ patch.before = <<>>
         \/ /\ 1 <= from /\ from <= to
            /\ \E source \in SourceFile(archive, finding.file) :
                 Normalized(patch.before) =
                   IF from > Len(Lines(source)) THEN <<>>
                   ELSE LinesOf(source, from, to)}

(* The offered patches by their findings' paths.  A path has room for one: *)
(* that of its last finding, which is one of the lightest; among findings  *)
(* of one severity the order is open.                                      *)
PatchMaps(archive, findings) ==
  LET offering == {f \in Range(findings) : SuggestedPatch(archive, f) # {}}
      last(p)  == {f \in offering :
                     /\ f.file = p
                     /\ \A g \in offering :
                          g.file = p => Rank(g.severity) <= Rank(f.severity)}
      paths    == {f.file : f \in offering}
  IN  {m \in [paths -> UNION {f.patch : f \in offering}] :
         \A p \in paths : \E f \in last(p) : m[p] \in f.patch}

(* An entry that is always looked up without its top directory.           *)
PatchForStripped(patches, path) ==
  {patches[p] : p \in DOMAIN patches \cap (IF Len(path) > 1 THEN {Tail(path)} ELSE {path})}

(* The entry of an archive takes the patch of its own path, or else that   *)
(* of its path without the top directory.                                  *)
PatchFor(patches, path) ==
  IF path \in DOMAIN patches THEN {patches[path]}
  ELSE {patches[p] : p \in DOMAIN patches \cap (IF Len(path) > 1 THEN {Tail(path)} ELSE {})}

(* The first occurrence of the quotation is replaced.  The replacement is  *)
(* a pattern of String.replace, to which two dollars are one.              *)
Rewritten(text, patches) ==
  IF patches = {} THEN text
  ELSE LET patch == CHOOSE p \in patches : TRUE
       IN  ReplaceFirstSubSeq(ReplaceAll(patch.after, "$$", "$"), patch.before, text)

RewriteZip(archive, patches) ==
  [p \in DOMAIN archive |-> Rewritten(archive[p], PatchFor(patches, p))]
=============================================================================

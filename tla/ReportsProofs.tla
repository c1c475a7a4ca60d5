---------------------------- MODULE ReportsProofs ----------------------------
(***************************************************************************)
(* Reports for any number of uploads, requests and analyses, for archives, *)
(* texts and reviews of any size, and for every limit: chunks lose         *)
(* nothing, findings speak of every issue, and the fix that a report shows *)
(* is the one that is served.                                              *)
(*                                                                         *)
(* What the model computes it computes with folds over sequences, so that  *)
(* the proofs are inductions over data.  Induction is stated about sets,   *)
(* which the provers can instantiate, and derived from the well-founded    *)
(* order of the numbers; a fold is taken apart into the chain of its       *)
(* results, once for each operator that folds.                             *)
(***************************************************************************)
EXTENDS Reports, TLAPS, WellFoundedInduction, FiniteSetTheorems, SequenceTheorems

(* Whatever a text may be made of: letters and line ends as they are       *)
(* uploaded, and the marks that redact and numberLines leave.              *)
Char == STRING \cup {"LF", "number", "redacted", "$"}

Text == Seq(Char)

-----------------------------------------------------------------------------
(* Induction, and folds.                                                   *)

(* Every set of numbers has a least one.                                   *)
LEMMA LeastNat ==
  ASSUME NEW S \in SUBSET Nat, S # {}
  PROVE  \E n \in S : \A m \in S : n <= m
<1>1. IsWellFoundedOn({p \in Nat \X Nat : p[1] < p[2]}, Nat)
  BY NatLessThanWellFounded DEF OpToRel
<1>2. PICK n \in S : \A m \in S : <<m, n>> \notin {p \in Nat \X Nat : p[1] < p[2]}
  BY <1>1, WFMin, Zenon
<1>3. \A m \in S : ~(m < n)
  BY <1>2
<1> QED BY <1>3

(* Induction over the numbers, as a fact about a set: it needs no operator *)
(* as a parameter.                                                         *)
LEMMA Induct ==
  ASSUME NEW S \in SUBSET Nat, 0 \in S, \A n \in S : n + 1 \in S
  PROVE  S = Nat
<1> SUFFICES ASSUME S # Nat PROVE FALSE
  OBVIOUS
<1>1. PICK n \in Nat \ S : \A m \in Nat \ S : n <= m
  <2> DEFINE T == Nat \ S
  <2>1. T \in SUBSET Nat /\ T # {}
    OBVIOUS
  <2> HIDE DEF T
  <2>2. \E n \in T : \A m \in T : n <= m
    BY <2>1, LeastNat
  <2> QED BY <2>2 DEF T
<1>2. n # 0
  BY <1>1
<1>3. n - 1 \in Nat /\ n - 1 \in S
  BY <1>1, <1>2
<1> QED BY <1>1, <1>3

(* Induction as far as n.                                                  *)
LEMMA InductUpTo ==
  ASSUME NEW n \in Nat, NEW S, 0 \in S, \A k \in 1 .. n : k - 1 \in S => k \in S
  PROVE  0 .. n \subseteq S
<1> DEFINE T == {k \in Nat : k <= n => k \in S}
<1>1. T = Nat
  <2>1. T \in SUBSET Nat /\ 0 \in T
    OBVIOUS
  <2>2. \A k \in T : k + 1 \in T
    <3> TAKE k \in T
    <3>1. SUFFICES ASSUME k + 1 <= n PROVE k + 1 \in S
      OBVIOUS
    <3>2. k \in S /\ k + 1 \in 1 .. n /\ (k + 1) - 1 = k
      BY <3>1
    <3> QED BY <3>2
  <2> HIDE DEF T
  <2> QED BY <2>1, <2>2, Induct
<1> QED BY <1>1

(* The largest element of a set of indices that ends with k.               *)
LEMMA MaxOf ==
  ASSUME NEW k \in Nat, NEW s \in SUBSET (1 .. k), k \in s
  PROVE  Max(s) = k
<1>1. \A x \in s : (\A y \in s : x >= y) <=> x = k
  OBVIOUS
<1> QED BY <1>1 DEF Max

(* A fold from the left as SequencesExt defines it: over sets of indices,  *)
(* of which the largest is taken off.                                      *)
IsFold(iter, base, n, step) ==
  /\ iter[{}] = base
  /\ \A s \in (SUBSET (1 .. n)) \ {{}} :
       Max(s) \in s /\ iter[s] = step[<<Max(s), iter[s \ {Max(s)}]>>]

(* The recursive function that a fold chooses exists, for every length.    *)
LEMMA FoldSteps ==
  ASSUME NEW A, NEW base \in A, NEW n \in Nat, NEW step \in [(1 .. n) \X A -> A]
  PROVE  \E iter \in [SUBSET (1 .. n) -> A] : IsFold(iter, base, n, step)
<1> DEFINE Folds(k) == \E iter \in [SUBSET (1 .. k) -> A] : IsFold(iter, base, k, step)
           Done == {k \in Nat : Folds(k)}
<1>1. Folds(0)
  <2> DEFINE iter == [s \in SUBSET (1 .. 0) |-> base]
  <2>1. iter \in [SUBSET (1 .. 0) -> A]
    OBVIOUS
  <2>2. IsFold(iter, base, 0, step)
    <3>1. (SUBSET (1 .. 0)) \ {{}} = {}
      OBVIOUS
    <3> QED BY <3>1 DEF IsFold
  <2> HIDE DEF iter
  <2> QED BY <2>1, <2>2
<1>2. ASSUME NEW k \in 0 .. n - 1, Folds(k) PROVE Folds(k + 1)
  <2>1. PICK f \in [SUBSET (1 .. k) -> A] : IsFold(f, base, k, step)
    BY <1>2
  <2> DEFINE g == [s \in SUBSET (1 .. k + 1) |->
                     IF k + 1 \in s THEN step[<<k + 1, f[s \ {k + 1}]>>] ELSE f[s]]
  <2>2. \A s \in SUBSET (1 .. k + 1) : k + 1 \notin s => s \in SUBSET (1 .. k)
    OBVIOUS
  <2>3. \A s \in SUBSET (1 .. k + 1) : s \ {k + 1} \in SUBSET (1 .. k)
    OBVIOUS
  <2>4. g \in [SUBSET (1 .. k + 1) -> A]
    BY <2>2, <2>3
  <2>5. g[{}] = base
    BY <2>1 DEF IsFold
  <2>6. ASSUME NEW s \in (SUBSET (1 .. k + 1)) \ {{}}
        PROVE  Max(s) \in s /\ g[s] = step[<<Max(s), g[s \ {Max(s)}]>>]
    <3>1. CASE k + 1 \in s
      <4>1. Max(s) = k + 1
        BY <3>1, MaxOf
      <4>2. g[s \ {k + 1}] = f[s \ {k + 1}]
        BY <2>3
      <4> QED BY <3>1, <4>1, <4>2
    <3>2. CASE k + 1 \notin s
      <4>1. s \in (SUBSET (1 .. k)) \ {{}} /\ s \ {Max(s)} \in SUBSET (1 .. k)
        BY <3>2, <2>2
      <4>2. g[s] = f[s] /\ g[s \ {Max(s)}] = f[s \ {Max(s)}]
        BY <3>2, <4>1
      <4> QED BY <2>1, <4>1, <4>2 DEF IsFold
    <3> QED BY <3>1, <3>2
  <2> HIDE DEF g
  <2>7. IsFold(g, base, k + 1, step)
    BY <2>5, <2>6 DEF IsFold
  <2> QED BY <2>4, <2>7
<1> HIDE DEF Folds
<1>3. \A k \in 1 .. n : k - 1 \in Done => k \in Done
  <2> TAKE k \in 1 .. n
  <2> HAVE k - 1 \in Done
  <2>1. k - 1 \in 0 .. n - 1 /\ (k - 1) + 1 = k /\ k \in Nat
    OBVIOUS
  <2> QED BY <2>1, <1>2
<1>4. 0 .. n \subseteq Done
  <2>1. 0 \in Done
    BY <1>1
  <2> HIDE DEF Done
  <2> QED BY <2>1, <1>3, InductUpTo
<1>5. Folds(n)
  BY <1>4
<1> QED BY <1>5 DEF Folds

(* Induction over sequences that grow at their end.                        *)
LEMMA InductOnSeq ==
  ASSUME NEW X, NEW S, <<>> \in S,
         \A s \in Seq(X), e \in X : s \in S => Append(s, e) \in S
  PROVE  Seq(X) \subseteq S
<1> SUFFICES ASSUME NEW seq \in Seq(X) PROVE seq \in S
  OBVIOUS
<1> DEFINE n == Len(seq)
           prefix == [k \in 0 .. n |-> SubSeq(seq, 1, k)]
           K == {k \in 0 .. n : prefix[k] \in S}
<1>1. n \in Nat
  OBVIOUS
<1>2. prefix[0] = <<>> /\ prefix[n] = seq
  BY <1>1, SubSeqFull, SubSeqEmpty
<1>3. ASSUME NEW k \in 1 .. n
      PROVE  prefix[k] = Append(prefix[k - 1], seq[k]) /\ prefix[k - 1] \in Seq(X) /\ seq[k] \in X
  <2>1. SubSeq(seq, 1, k - 1) \in Seq(X) /\ seq[k] \in X /\ 1 \in 1 .. n /\ k - 1 \in 0 .. n
    BY <1>1
  <2>2. SubSeq(seq, 1, k) = SubSeq(seq, 1, k - 1) \o <<seq[k]>>
    BY <2>1, SubSeqRecursiveSecond
  <2>3. prefix[k] = SubSeq(seq, 1, k) /\ prefix[k - 1] = SubSeq(seq, 1, k - 1)
    BY <2>1
  <2> HIDE DEF prefix
  <2> QED BY <2>1, <2>2, <2>3, AppendIsConcat
<1> HIDE DEF prefix
<1>4. 0 \in K
  BY <1>1, <1>2
<1>5. ASSUME NEW k \in 1 .. n, k - 1 \in K PROVE k \in K
  <2>1. prefix[k - 1] \in S /\ k \in 0 .. n
    BY <1>1, <1>5
  <2>2. prefix[k] \in S
    BY <1>3, <2>1
  <2> QED BY <2>1, <2>2
<1>6. 0 .. n \subseteq K
  <2> HIDE DEF K, n
  <2> QED BY <1>1, <1>4, <1>5, InductUpTo
<1>7. n \in K
  BY <1>1, <1>6
<1> QED BY <1>2, <1>7

(* A sequence is its front and its last element.                           *)
LEMMA FrontLast ==
  ASSUME NEW X, NEW seq \in Seq(X), seq # <<>>
  PROVE  /\ Front(seq) \in Seq(X)
         /\ Last(seq) \in X
         /\ Len(Front(seq)) = Len(seq) - 1
         /\ seq = Append(Front(seq), Last(seq))
<1>1. Len(seq) \in Nat /\ Len(seq) > 0
  OBVIOUS
<1>2. Front(seq) \in Seq(X) /\ Last(seq) \in X
  BY <1>1 DEF Front, Last
<1>3. PICK s \in Seq(X), e \in X : seq = Append(s, e)
  BY SequenceEmptyOrAppend
<1>4. Len(seq) = Len(s) + 1 /\ seq[Len(seq)] = e
  BY <1>3
<1>5. SubSeq(seq, 1, Len(s)) = s
  BY <1>3, SeqEqual, <1>4
<1> QED BY <1>1, <1>2, <1>3, <1>4, <1>5 DEF Front, Last

(* What Front and Last return of a sequence that has grown.                *)
LEMMA FrontLastOfAppend ==
  ASSUME NEW X, NEW seq \in Seq(X), NEW e \in X
  PROVE  Front(Append(seq, e)) = seq /\ Last(Append(seq, e)) = e
<1> DEFINE longer == Append(seq, e)
<1>1. longer \in Seq(X) /\ longer # <<>>
  BY AppendProperties
<1> HIDE DEF longer
<1>2. longer = Append(Front(longer), Last(longer)) /\ Front(longer) \in Seq(X) /\ Last(longer) \in X
  BY <1>1, FrontLast
<1>3. Front(longer) = seq /\ Last(longer) = e
  <2>1. Append(Front(longer), Last(longer)) = Append(seq, e)
    BY <1>2 DEF longer
  <2> QED BY <1>2, <2>1, AppendInjective
<1> QED BY <1>3 DEF longer

(* A character behind the last line makes no line less.                    *)
LEMMA LineAdded ==
  ASSUME NEW lines \in Seq(Text) \ {<<>>}, NEW c \in Char
  PROVE  Append(Front(lines), Append(Last(lines), c)) \in Seq(Text) \ {<<>>}
<1>1. Front(lines) \in Seq(Text) /\ Last(lines) \in Text
  BY FrontLast
<1>2. Append(Last(lines), c) \in Text
  BY <1>1 DEF Text
<1> QED BY <1>1, <1>2, AppendProperties

-----------------------------------------------------------------------------
(* The folds of the model, step by step.                                   *)

(* Deduplicate issue by issue: what it has kept after each.                *)
LEMMA DeduplicateSteps ==
  ASSUME NEW Issues, NEW issues \in Seq(Issues)
  PROVE  \E acc :
           /\ acc[0] = <<>>
           /\ acc[Len(issues)] = Deduplicate(issues)
           /\ \A k \in 1 .. Len(issues) :
                acc[k] = IF \E i \in Range(acc[k - 1]) :
                              SameBucket(i, issues[k]) /\ Similar(i, issues[k])
                         THEN acc[k - 1] ELSE Append(acc[k - 1], issues[k])
<1> DEFINE n == Len(issues)
           A == Seq(Issues)
           op(kept, issue) == IF \E i \in Range(kept) : SameBucket(i, issue) /\ Similar(i, issue)
                                THEN kept ELSE Append(kept, issue)
           step == [p \in (1 .. n) \X A |-> op(p[2], issues[p[1]])]
           fold == CHOOSE f : f = [s \in SUBSET DOMAIN issues |->
                     IF s = {} THEN <<>> ELSE op(f[s \ {Max(s)}], issues[Max(s)])]
           acc == [k \in 0 .. n |-> fold[1 .. k]]
<1>1. n \in Nat /\ DOMAIN issues = 1 .. n /\ \A k \in 1 .. n : issues[k] \in Issues
  OBVIOUS
<1>2. step \in [(1 .. n) \X A -> A]
  <2>1. ASSUME NEW kept \in A, NEW issue \in Issues
        PROVE  op(kept, issue) \in A
    OBVIOUS
  <2> HIDE DEF op, A
  <2> QED BY <1>1, <2>1
<1>3. <<>> \in A
  OBVIOUS
<1>4. PICK iter \in [SUBSET (1 .. n) -> A] : IsFold(iter, <<>>, n, step)
  <2>1. n \in Nat
    BY <1>1
  <2> HIDE DEF step, A, n
  <2> QED BY <2>1, <1>2, <1>3, FoldSteps
<1> HIDE DEF op, A
<1>5. iter = [s \in SUBSET DOMAIN issues |->
                IF s = {} THEN <<>> ELSE op(iter[s \ {Max(s)}], issues[Max(s)])]
  <2>1. ASSUME NEW s \in (SUBSET (1 .. n)) \ {{}}
        PROVE  iter[s] = op(iter[s \ {Max(s)}], issues[Max(s)])
    <3>1. <<Max(s), iter[s \ {Max(s)}]>> \in (1 .. n) \X A
      BY <1>4 DEF IsFold
    <3> QED BY <3>1, <1>4 DEF IsFold
  <2> QED BY <1>1, <1>4, <2>1 DEF IsFold
<1>6. fold = [s \in SUBSET DOMAIN issues |->
                IF s = {} THEN <<>> ELSE op(fold[s \ {Max(s)}], issues[Max(s)])]
  BY <1>5
<1>7. Deduplicate(issues) = fold[DOMAIN issues]
  BY DEF Deduplicate, FoldLeft, MapThenFoldSet, op
<1> HIDE DEF fold
<1>8. acc[0] = <<>> /\ acc[n] = Deduplicate(issues)
  BY <1>1, <1>6, <1>7
<1>9. ASSUME NEW k \in 1 .. n
      PROVE  acc[k] = op(acc[k - 1], issues[k])
  <2>1. (1 .. k) \ {k} = 1 .. (k - 1) /\ k - 1 \in 0 .. n
    OBVIOUS
  <2>2. 1 .. k \in (SUBSET DOMAIN issues) \ {{}} /\ Max(1 .. k) = k
    BY <1>1, MaxOf
  <2>3. acc[k] = fold[1 .. k] /\ acc[k - 1] = fold[1 .. (k - 1)]
    BY <2>1
  <2>4. fold[1 .. k] = op(fold[(1 .. k) \ {k}], issues[k])
    BY <1>6, <2>2
  <2> HIDE DEF acc
  <2> QED BY <2>1, <2>3, <2>4
<1> HIDE DEF acc
<1> QED BY <1>8, <1>9 DEF op

(* Lines character by character.                                           *)
LEMMA LinesSteps ==
  ASSUME NEW text \in Text
  PROVE  \E acc :
           /\ acc[0] = << <<>> >>
           /\ acc[Len(text)] = Lines(text)
           /\ \A k \in 1 .. Len(text) :
                acc[k] = IF text[k] \in LineEnds THEN Append(acc[k - 1], <<>>)
                         ELSE Append(Front(acc[k - 1]), Append(Last(acc[k - 1]), text[k]))
<1> DEFINE n == Len(text)
           A == Seq(Text) \ {<<>>}
           op(lines, c) == IF c \in LineEnds THEN Append(lines, <<>>)
                                   ELSE Append(Front(lines), Append(Last(lines), c))
           step == [p \in (1 .. n) \X A |-> op(p[2], text[p[1]])]
           fold == CHOOSE f : f = [s \in SUBSET DOMAIN text |->
                     IF s = {} THEN << <<>> >> ELSE op(f[s \ {Max(s)}], text[Max(s)])]
           acc == [k \in 0 .. n |-> fold[1 .. k]]
<1>1. n \in Nat /\ DOMAIN text = 1 .. n /\ \A k \in 1 .. n : text[k] \in Char
  BY DEF Text
<1>2. step \in [(1 .. n) \X A -> A]
  <2>1. ASSUME NEW lines \in A, NEW c \in Char
        PROVE  op(lines, c) \in A
    <3>1. <<>> \in Text /\ lines \in Seq(Text)
      BY EmptySeq DEF Text
    <3>2. Append(lines, <<>>) \in A
      BY <3>1, AppendProperties
    <3> QED BY <3>2, LineAdded
  <2> HIDE DEF op, A
  <2> QED BY <1>1, <2>1
<1>3. << <<>> >> \in A
  BY DEF Text
<1>4. PICK iter \in [SUBSET (1 .. n) -> A] : IsFold(iter, << <<>> >>, n, step)
  <2>1. n \in Nat
    BY <1>1
  <2> HIDE DEF step, A, n
  <2> QED BY <2>1, <1>2, <1>3, FoldSteps
<1> HIDE DEF op, A
<1>5. iter = [s \in SUBSET DOMAIN text |->
                IF s = {} THEN << <<>> >> ELSE op(iter[s \ {Max(s)}], text[Max(s)])]
  <2>1. ASSUME NEW s \in (SUBSET (1 .. n)) \ {{}}
        PROVE  iter[s] = op(iter[s \ {Max(s)}], text[Max(s)])
    <3>1. <<Max(s), iter[s \ {Max(s)}]>> \in (1 .. n) \X A
      BY <1>4 DEF IsFold
    <3> QED BY <3>1, <1>4 DEF IsFold
  <2> QED BY <1>1, <1>4, <2>1 DEF IsFold
<1>6. fold = [s \in SUBSET DOMAIN text |->
                IF s = {} THEN << <<>> >> ELSE op(fold[s \ {Max(s)}], text[Max(s)])]
  BY <1>5
<1>7. Lines(text) = fold[DOMAIN text]
  BY DEF Lines, FoldLeft, MapThenFoldSet, op
<1> HIDE DEF fold
<1>8. acc[0] = << <<>> >> /\ acc[n] = Lines(text)
  BY <1>1, <1>6, <1>7
<1>9. ASSUME NEW k \in 1 .. n
      PROVE  acc[k] = op(acc[k - 1], text[k])
  <2>1. (1 .. k) \ {k} = 1 .. (k - 1) /\ k - 1 \in 0 .. n
    OBVIOUS
  <2>2. 1 .. k \in (SUBSET DOMAIN text) \ {{}} /\ Max(1 .. k) = k
    BY <1>1, MaxOf
  <2>3. acc[k] = fold[1 .. k] /\ acc[k - 1] = fold[1 .. (k - 1)]
    BY <2>1
  <2>4. fold[1 .. k] = op(fold[(1 .. k) \ {k}], text[k])
    BY <1>6, <2>2
  <2> HIDE DEF acc
  <2> QED BY <2>1, <2>3, <2>4
<1> HIDE DEF acc
<1> QED BY <1>8, <1>9 DEF op

(* Joined line by line.                                                    *)
LEMMA JoinedSteps ==
  ASSUME NEW lines \in Seq(Text), lines # <<>>
  PROVE  \E acc :
           /\ acc[0] = Head(lines)
           /\ acc[Len(Tail(lines))] = Joined(lines)
           /\ \A k \in 1 .. Len(Tail(lines)) :
                acc[k] = acc[k - 1] \o <<"LF">> \o Tail(lines)[k]
<1> DEFINE n == Len(Tail(lines))
           A == Text
           op(text, line) == text \o <<"LF">> \o line
           step == [p \in (1 .. n) \X A |-> op(p[2], Tail(lines)[p[1]])]
           fold == CHOOSE f : f = [s \in SUBSET DOMAIN Tail(lines) |->
                     IF s = {} THEN Head(lines) ELSE op(f[s \ {Max(s)}], Tail(lines)[Max(s)])]
           acc == [k \in 0 .. n |-> fold[1 .. k]]
<1>1. n \in Nat /\ DOMAIN Tail(lines) = 1 .. n /\ \A k \in 1 .. n : Tail(lines)[k] \in Text
  OBVIOUS
<1>2. step \in [(1 .. n) \X A -> A]
  <2>1. ASSUME NEW text \in A, NEW line \in Text
        PROVE  op(text, line) \in A
    BY DEF Text, Char
  <2> HIDE DEF op, A
  <2> QED BY <1>1, <2>1
<1>3. Head(lines) \in A
  OBVIOUS
<1>4. PICK iter \in [SUBSET (1 .. n) -> A] : IsFold(iter, Head(lines), n, step)
  <2>1. n \in Nat
    BY <1>1
  <2> HIDE DEF step, A, n
  <2> QED BY <2>1, <1>2, <1>3, FoldSteps
<1> HIDE DEF op, A
<1>5. iter = [s \in SUBSET DOMAIN Tail(lines) |->
                IF s = {} THEN Head(lines) ELSE op(iter[s \ {Max(s)}], Tail(lines)[Max(s)])]
  <2>1. ASSUME NEW s \in (SUBSET (1 .. n)) \ {{}}
        PROVE  iter[s] = op(iter[s \ {Max(s)}], Tail(lines)[Max(s)])
    <3>1. <<Max(s), iter[s \ {Max(s)}]>> \in (1 .. n) \X A
      BY <1>4 DEF IsFold
    <3> QED BY <3>1, <1>4 DEF IsFold
  <2> QED BY <1>1, <1>4, <2>1 DEF IsFold
<1>6. fold = [s \in SUBSET DOMAIN Tail(lines) |->
                IF s = {} THEN Head(lines) ELSE op(fold[s \ {Max(s)}], Tail(lines)[Max(s)])]
  BY <1>5
<1>7. Joined(lines) = fold[DOMAIN Tail(lines)]
  BY DEF Joined, FoldLeft, MapThenFoldSet, op
<1> HIDE DEF fold
<1>8. acc[0] = Head(lines) /\ acc[n] = Joined(lines)
  <2>1. acc[0] = fold[{}] /\ acc[n] = fold[DOMAIN Tail(lines)]
    BY <1>1
  <2>2. fold[{}] = Head(lines)
    <3> HIDE DEF acc, n
    <3> QED BY <1>6
  <2> HIDE DEF acc, n
  <2> QED BY <2>1, <2>2, <1>7
<1>9. ASSUME NEW k \in 1 .. n
      PROVE  acc[k] = op(acc[k - 1], Tail(lines)[k])
  <2>1. (1 .. k) \ {k} = 1 .. (k - 1) /\ k - 1 \in 0 .. n
    OBVIOUS
  <2>2. 1 .. k \in (SUBSET DOMAIN Tail(lines)) \ {{}} /\ Max(1 .. k) = k
    BY <1>1, MaxOf
  <2>3. acc[k] = fold[1 .. k] /\ acc[k - 1] = fold[1 .. (k - 1)]
    BY <2>1
  <2>4. fold[1 .. k] = op(fold[(1 .. k) \ {k}], Tail(lines)[k])
    BY <1>6, <2>2
  <2> HIDE DEF acc
  <2> QED BY <2>1, <2>3, <2>4
<1> HIDE DEF acc
<1> QED BY <1>8, <1>9 DEF op

(* Two chains that begin and go on alike end alike.                        *)
LEMMA ChainsAgree ==
  ASSUME NEW n \in Nat, NEW f, NEW g, f[0] = g[0],
         \A k \in 1 .. n : f[k - 1] = g[k - 1] => f[k] = g[k]
  PROVE  f[n] = g[n]
<1> DEFINE S == {k \in 0 .. n : f[k] = g[k]}
<1>1. 0 \in S
  OBVIOUS
<1>2. ASSUME NEW k \in 1 .. n, k - 1 \in S PROVE k \in S
  BY <1>2
<1>3. 0 .. n \subseteq S
  <2> HIDE DEF S
  <2> QED BY <1>1, <1>2, InductUpTo
<1> QED BY <1>3

(* The empty text is one empty line.                                       *)
LEMMA LinesEmpty ==
  Lines(<<>>) = << <<>> >>
<1> SUFFICES ASSUME NEW empty \in Text, empty = <<>>
             PROVE  Lines(empty) = << <<>> >>
  BY EmptySeq DEF Text
<1>1. PICK f : f[0] = << <<>> >> /\ f[Len(empty)] = Lines(empty)
  BY LinesSteps
<1> QED BY <1>1

(* A line end begins a line, any other character ends in the last one.     *)
LEMMA LinesAppend ==
  ASSUME NEW text \in Text, NEW c \in Char
  PROVE  Lines(Append(text, c)) =
           IF c \in LineEnds THEN Append(Lines(text), <<>>)
                           ELSE Append(Front(Lines(text)), Append(Last(Lines(text)), c))
<1> DEFINE longer == Append(text, c)
           n == Len(text)
<1>1. /\ n \in Nat /\ longer \in Text /\ Len(longer) = n + 1
      /\ longer[n + 1] = c /\ \A k \in 1 .. n : longer[k] = text[k]
  BY AppendProperties DEF Text
<1> HIDE DEF longer
<1>2. PICK f : /\ f[0] = << <<>> >> /\ f[n] = Lines(text)
               /\ \A k \in 1 .. n :
                    f[k] = IF text[k] \in LineEnds THEN Append(f[k - 1], <<>>)
                           ELSE Append(Front(f[k - 1]), Append(Last(f[k - 1]), text[k]))
  BY LinesSteps
<1>3. PICK g : /\ g[0] = << <<>> >> /\ g[Len(longer)] = Lines(longer)
               /\ \A k \in 1 .. Len(longer) :
                    g[k] = IF longer[k] \in LineEnds THEN Append(g[k - 1], <<>>)
                           ELSE Append(Front(g[k - 1]), Append(Last(g[k - 1]), longer[k]))
  BY <1>1, LinesSteps
<1> HIDE DEF n
<1>4. g[n] = f[n]
  <2>1. ASSUME NEW k \in 1 .. n, g[k - 1] = f[k - 1] PROVE g[k] = f[k]
    <3>1. k \in 1 .. Len(longer) /\ longer[k] = text[k]
      BY <1>1
    <3> QED BY <2>1, <3>1, <1>2, <1>3
  <2>2. g[0] = f[0] /\ n \in Nat
    BY <1>1, <1>2, <1>3
  <2> QED BY <2>1, <2>2, ChainsAgree
<1>5. n + 1 \in 1 .. n + 1 /\ (n + 1) - 1 = n
  BY <1>1
<1>6. g[n + 1] = IF c \in LineEnds THEN Append(g[n], <<>>)
                           ELSE Append(Front(g[n]), Append(Last(g[n]), c))
  BY <1>1, <1>3, <1>5
<1>7. g[n + 1] = Lines(longer)
  BY <1>1, <1>3
<1> QED BY <1>2, <1>4, <1>6, <1>7 DEF longer

(* Nothing is kept of no issues.                                           *)
LEMMA DeduplicateEmpty ==
  Deduplicate(<<>>) = <<>>
<1> SUFFICES ASSUME NEW empty \in Seq({0}), empty = <<>>
             PROVE  Deduplicate(empty) = <<>>
  BY EmptySeq
<1>1. PICK f : f[0] = <<>> /\ f[Len(empty)] = Deduplicate(empty)
  BY DeduplicateSteps
<1> QED BY <1>1

(* One more issue is kept or left out; what was kept stays                 *)
(* (IssueDeduplicatorService).                                             *)
LEMMA DeduplicateAppend ==
  ASSUME NEW Issues, NEW issues \in Seq(Issues), NEW issue \in Issues
  PROVE  Deduplicate(Append(issues, issue)) =
           IF \E i \in Range(Deduplicate(issues)) : SameBucket(i, issue) /\ Similar(i, issue)
                           THEN Deduplicate(issues) ELSE Append(Deduplicate(issues), issue)
<1> DEFINE longer == Append(issues, issue)
           n == Len(issues)
<1>1. /\ n \in Nat /\ longer \in Seq(Issues) /\ Len(longer) = n + 1
      /\ longer[n + 1] = issue /\ \A k \in 1 .. n : longer[k] = issues[k]
  BY AppendProperties
<1> HIDE DEF longer
<1>2. PICK f : /\ f[0] = <<>> /\ f[n] = Deduplicate(issues)
               /\ \A k \in 1 .. n :
                    f[k] = IF \E i \in Range(f[k - 1]) : SameBucket(i, issues[k]) /\ Similar(i, issues[k])
                           THEN f[k - 1] ELSE Append(f[k - 1], issues[k])
  BY DeduplicateSteps
<1>3. PICK g : /\ g[0] = <<>> /\ g[Len(longer)] = Deduplicate(longer)
               /\ \A k \in 1 .. Len(longer) :
                    g[k] = IF \E i \in Range(g[k - 1]) : SameBucket(i, longer[k]) /\ Similar(i, longer[k])
                           THEN g[k - 1] ELSE Append(g[k - 1], longer[k])
  BY <1>1, DeduplicateSteps
<1> HIDE DEF n
<1>4. g[n] = f[n]
  <2>1. ASSUME NEW k \in 1 .. n, g[k - 1] = f[k - 1] PROVE g[k] = f[k]
    <3>1. k \in 1 .. Len(longer) /\ longer[k] = issues[k]
      BY <1>1
    <3> QED BY <2>1, <3>1, <1>2, <1>3
  <2>2. g[0] = f[0] /\ n \in Nat
    BY <1>1, <1>2, <1>3
  <2> QED BY <2>1, <2>2, ChainsAgree
<1>5. n + 1 \in 1 .. n + 1 /\ (n + 1) - 1 = n
  BY <1>1
<1>6. g[n + 1] = IF \E i \in Range(g[n]) : SameBucket(i, issue) /\ Similar(i, issue)
                           THEN g[n] ELSE Append(g[n], issue)
  BY <1>1, <1>3, <1>5
<1>7. g[n + 1] = Deduplicate(longer)
  BY <1>1, <1>3
<1> QED BY <1>2, <1>4, <1>6, <1>7 DEF longer

(* Lines are joined by line feeds.                                         *)
LEMMA JoinedAppend ==
  ASSUME NEW lines \in Seq(Text), NEW line \in Text
  PROVE  /\ Joined(<<line>>) = line
         /\ lines # <<>> => Joined(Append(lines, line)) = Joined(lines) \o <<"LF">> \o line
<1>1. Joined(<<line>>) = line
  <2>1. <<line>> \in Seq(Text) /\ <<line>> # <<>> /\ Len(Tail(<<line>>)) = 0 /\ Head(<<line>>) = line
    OBVIOUS
  <2> QED BY <2>1, JoinedSteps
<1> SUFFICES ASSUME lines # <<>>
             PROVE  Joined(Append(lines, line)) = Joined(lines) \o <<"LF">> \o line
  BY <1>1
<1> DEFINE longer == Append(lines, line)
           n == Len(lines) - 1
<1>2. /\ n \in Nat /\ longer \in Seq(Text) /\ longer # <<>>
      /\ Len(Tail(lines)) = n /\ Len(Tail(longer)) = n + 1
      /\ Head(longer) = Head(lines)
      /\ Tail(longer)[n + 1] = line /\ \A k \in 1 .. n : Tail(longer)[k] = Tail(lines)[k]
  <2>1. Tail(longer) = Append(Tail(lines), line) /\ Head(longer) = Head(lines)
    BY HeadTailAppend
  <2>2. Tail(lines) \in Seq(Text) /\ Len(Tail(lines)) = n /\ n \in Nat
    BY HeadTailProperties
  <2>3. longer \in Seq(Text) /\ longer # <<>>
    BY AppendProperties
  <2> DEFINE rest == Tail(lines)
  <2>4. /\ Len(Append(rest, line)) = n + 1 /\ Append(rest, line)[n + 1] = line
        /\ \A k \in 1 .. n : Append(rest, line)[k] = rest[k]
    <3> HIDE DEF rest, n
    <3>1. rest \in Seq(Text) /\ Len(rest) = n
      BY <2>2 DEF rest
    <3> QED BY <3>1, AppendProperties
  <2> HIDE DEF longer, n
  <2> QED BY <2>1, <2>2, <2>3, <2>4
<1> HIDE DEF longer, n
<1>3. PICK f : /\ f[0] = Head(lines) /\ f[n] = Joined(lines)
               /\ \A k \in 1 .. n : f[k] = f[k - 1] \o <<"LF">> \o Tail(lines)[k]
  BY <1>2, JoinedSteps
<1>4. PICK g : /\ g[0] = Head(lines) /\ g[Len(Tail(longer))] = Joined(longer)
               /\ \A k \in 1 .. Len(Tail(longer)) : g[k] = g[k - 1] \o <<"LF">> \o Tail(longer)[k]
  BY <1>2, JoinedSteps
<1>5. g[n] = f[n]
  <2>1. ASSUME NEW k \in 1 .. n, g[k - 1] = f[k - 1] PROVE g[k] = f[k]
    <3>1. Tail(longer)[k] = Tail(lines)[k]
      BY <1>2
    <3>2. k \in 1 .. Len(Tail(longer))
      <4>1. k \in 1 .. n + 1 /\ Len(Tail(longer)) = n + 1
        BY <1>2
      <4> QED BY <4>1
    <3> QED BY <2>1, <3>1, <3>2, <1>3, <1>4
  <2>2. g[0] = f[0] /\ n \in Nat
    BY <1>2, <1>3, <1>4
  <2> QED BY <2>1, <2>2, ChainsAgree
<1>6. n + 1 \in 1 .. n + 1 /\ (n + 1) - 1 = n
  BY <1>2
<1>7. g[n + 1] = g[n] \o <<"LF">> \o line
  BY <1>2, <1>4, <1>6
<1>8. g[n + 1] = Joined(longer)
  BY <1>2, <1>4
<1> QED BY <1>3, <1>5, <1>7, <1>8 DEF longer

-----------------------------------------------------------------------------
(* Findings.                                                               *)

(* The elements of a sequence that has grown.                              *)
LEMMA RangeOfAppend ==
  ASSUME NEW X, NEW seq \in Seq(X), NEW e \in X
  PROVE  Range(Append(seq, e)) = Range(seq) \cup {e}
<1>1. /\ Append(seq, e) \in Seq(X) /\ Len(Append(seq, e)) = Len(seq) + 1
      /\ \A i \in 1 .. Len(seq) : Append(seq, e)[i] = seq[i]
      /\ Append(seq, e)[Len(seq) + 1] = e
  BY AppendProperties
<1>2. Range(Append(seq, e)) = {Append(seq, e)[i] : i \in 1 .. Len(seq) + 1}
  BY <1>1, RangeEquality
<1>3. Range(seq) = {seq[i] : i \in 1 .. Len(seq)}
  BY RangeEquality
<1>4. Len(seq) \in Nat
  OBVIOUS
<1> HIDE DEF Range
<1> QED BY <1>1, <1>2, <1>3, <1>4

(* Two issues that IssueDeduplicatorService takes for one.                 *)
Alike(f, issue) == SameBucket(f, issue) /\ Similar(f, issue)

(* An issue resembles itself: 100 words of a hundred are at least 85.      *)
LEMMA AlikeItself ==
  ASSUME NEW issue, IsFiniteSet(issue.words)
  PROVE  Alike(issue, issue)
<1>1. Cardinality(issue.words) \in Nat
  BY FS_CardinalityType
<1>2. issue.words \cap issue.words = issue.words /\ issue.words \cup issue.words = issue.words
  OBVIOUS
<1>3. 100 * Cardinality(issue.words) >= 85 * Cardinality(issue.words)
  BY <1>1
<1>4. Similar(issue, issue)
  BY <1>2, <1>3, Zenon DEF Similar
<1> QED BY <1>4 DEF Alike, SameBucket

(* Resembling is mutual.                                                   *)
LEMMA AlikeBothWays ==
  ASSUME NEW i, NEW j, Alike(i, j)
  PROVE  Alike(j, i)
<1>1. i.words \cap j.words = j.words \cap i.words /\ i.words \cup j.words = j.words \cup i.words
  OBVIOUS
<1> QED BY <1>1 DEF Alike, SameBucket, Similar

(* Every issue resembles a finding.                                        *)
Covered(findings, issues) ==
  \A issue \in Range(issues) : \E f \in Range(findings) : Alike(f, issue)

(* No two findings resemble each other.                                    *)
Distinct(findings) ==
  \A i, j \in DOMAIN findings : i # j => ~Alike(findings[i], findings[j])

(* What Deduplicate keeps are issues it was given; each that it leaves out *)
(* resembles one that stays, and no two that stay are alike.  Resembling   *)
(* is not transitive, and nothing of this needs it to be.                  *)
LEMMA DeduplicateKeeps ==
  ASSUME NEW Issues, \A issue \in Issues : IsFiniteSet(issue.words),
         NEW issues \in Seq(Issues)
  PROVE  /\ Deduplicate(issues) \in Seq(Issues)
         /\ Covered(Deduplicate(issues), issues)
         /\ Distinct(Deduplicate(issues))
<1> DEFINE Fine(s) == /\ Deduplicate(s) \in Seq(Issues)
                      /\ Covered(Deduplicate(s), s)
                      /\ Distinct(Deduplicate(s))
           S == {s \in Seq(Issues) : Fine(s)}
<1>1. Fine(<<>>)
  <2>1. Deduplicate(<<>>) = <<>>
    BY DeduplicateEmpty
  <2>2. Range(<<>>) = {} /\ DOMAIN <<>> = {} /\ <<>> \in Seq(Issues)
    BY DEF Range
  <2> QED BY <2>1, <2>2 DEF Covered, Distinct
<1>2. ASSUME NEW s \in Seq(Issues), NEW e \in Issues, Fine(s)
      PROVE  Fine(Append(s, e))
  <2> DEFINE d == Deduplicate(s)
  <2>1. d \in Seq(Issues) /\ Covered(d, s) /\ Distinct(d)
    BY <1>2
  <2>2. Range(Append(s, e)) = Range(s) \cup {e}
    BY RangeOfAppend
  <2>3. CASE \E i \in Range(d) : Alike(i, e)
    <3>1. Deduplicate(Append(s, e)) = d
      BY <2>3, DeduplicateAppend DEF Alike
    <3> HIDE DEF d
    <3> QED BY <2>1, <2>2, <2>3, <3>1 DEF Covered
  <2>4. CASE ~\E i \in Range(d) : Alike(i, e)
    <3>1. Deduplicate(Append(s, e)) = Append(d, e)
      BY <2>4, DeduplicateAppend DEF Alike
    <3> HIDE DEF d
    <3>2. Append(d, e) \in Seq(Issues) /\ Range(Append(d, e)) = Range(d) \cup {e}
      BY <2>1, RangeOfAppend
    <3>3. Covered(Append(d, e), Append(s, e))
      <4>1. Alike(e, e)
        BY AlikeItself
      <4> QED BY <2>1, <2>2, <3>2, <4>1 DEF Covered
    <3>4. Distinct(Append(d, e))
      <4>1. ASSUME NEW i \in DOMAIN d
            PROVE  ~Alike(d[i], e) /\ ~Alike(e, d[i])
        <5>1. d[i] \in Range(d)
          BY DEF Range
        <5> QED BY <5>1, <2>4, AlikeBothWays
      <4>2. /\ DOMAIN d = 1 .. Len(d) /\ Len(d) \in Nat
            /\ DOMAIN Append(d, e) = 1 .. Len(d) + 1
            /\ \A i \in 1 .. Len(d) : Append(d, e)[i] = d[i]
            /\ Append(d, e)[Len(d) + 1] = e
        BY <2>1, AppendProperties
      <4> QED BY <2>1, <4>1, <4>2 DEF Distinct
    <3> QED BY <3>1, <3>2, <3>3, <3>4
  <2> QED BY <2>3, <2>4
<1>3. Seq(Issues) \subseteq S
  <2>1. <<>> \in S /\ \A s \in Seq(Issues), e \in Issues : s \in S => Append(s, e) \in S
    <3> HIDE DEF Fine
    <3> QED BY <1>1, <1>2, AppendProperties
  <2> HIDE DEF S
  <2> QED BY <2>1, InductOnSeq
<1> QED BY <1>3

-----------------------------------------------------------------------------
(* Texts.                                                                  *)

(* A text has a line, and its lines are texts.                             *)
LEMMA LinesType ==
  ASSUME NEW text \in Text
  PROVE  Lines(text) \in Seq(Text) /\ Lines(text) # <<>>
<1> DEFINE S == {t \in Text : Lines(t) \in Seq(Text) \ {<<>>}}
<1>1. <<>> \in S
  <2>1. <<>> \in Text /\ << <<>> >> \in Seq(Text) \ {<<>>} /\ "LF" \in Char
    BY DEF Text, Char
  <2> QED BY <2>1, LinesEmpty
<1>2. ASSUME NEW t \in Text, NEW c \in Char, t \in S
      PROVE  Append(t, c) \in S
  <2> DEFINE lines == Lines(t)
  <2>1. lines \in Seq(Text) \ {<<>>}
    BY <1>2
  <2>2. Append(t, c) \in Text /\ <<>> \in Text
    BY AppendProperties DEF Text
  <2>3. Lines(Append(t, c)) \in {Append(lines, <<>>), Append(Front(lines), Append(Last(lines), c))}
    BY LinesAppend
  <2> HIDE DEF lines
  <2>4. Append(lines, <<>>) \in Seq(Text) \ {<<>>}
    BY <2>1, <2>2, AppendProperties
  <2>5. Append(Front(lines), Append(Last(lines), c)) \in Seq(Text) \ {<<>>}
    BY <2>1, LineAdded
  <2> QED BY <2>2, <2>3, <2>4, <2>5
<1>3. Text \subseteq S
  <2> HIDE DEF S
  <2> QED BY <1>1, <1>2, InductOnSeq DEF Text
<1> QED BY <1>3

(* Joined lines are a text.                                                *)
LEMMA JoinedType ==
  ASSUME NEW lines \in Seq(Text), lines # <<>>
  PROVE  Joined(lines) \in Text
<1> DEFINE S == {ls \in Seq(Text) : ls = <<>> \/ Joined(ls) \in Text}
<1>1. <<>> \in S
  OBVIOUS
<1>2. ASSUME NEW ls \in Seq(Text), NEW line \in Text, ls \in S
      PROVE  Append(ls, line) \in S
  <2>1. Append(ls, line) \in Seq(Text)
    BY AppendProperties
  <2>2. CASE ls = <<>>
    <3>1. Append(ls, line) = <<line>>
      BY <2>2
    <3> QED BY <2>1, <3>1, JoinedAppend
  <2>3. CASE ls # <<>>
    <3>1. Joined(ls) \in Text /\ Joined(Append(ls, line)) = Joined(ls) \o <<"LF">> \o line
      BY <1>2, <2>3, JoinedAppend
    <3>2. <<"LF">> \in Text
      BY DEF Text, Char
    <3>3. Joined(ls) \o <<"LF">> \o line \in Text
      BY <3>1, <3>2, ConcatProperties DEF Text
    <3> QED BY <2>1, <3>1, <3>3
  <2> QED BY <2>2, <2>3
<1>3. Seq(Text) \subseteq S
  <2> HIDE DEF S
  <2> QED BY <1>1, <1>2, InductOnSeq
<1> QED BY <1>3

(* Numbered lines are a text.                                              *)
LEMMA NumberLinesType ==
  ASSUME NEW text \in Text
  PROVE  NumberLines(text) \in Text
<1> DEFINE lines == Lines(text)
           numbered == [k \in 1 .. Len(lines) |-> <<"number">> \o lines[k]]
<1>1. lines \in Seq(Text) /\ lines # <<>>
  BY LinesType
<1> HIDE DEF lines
<1>2. \A k \in 1 .. Len(lines) : <<"number">> \o lines[k] \in Text
  <2>1. <<"number">> \in Seq(Char)
    BY DEF Char
  <2> QED BY <1>1, <2>1, ConcatProperties DEF Text
<1>3. numbered \in Seq(Text) /\ numbered # <<>>
  <2>1. Len(lines) \in Nat \ {0}
    BY <1>1
  <2> QED BY <1>2, <2>1
<1>4. NumberLines(text) = Joined(numbered)
  BY DEF NumberLines, lines
<1> HIDE DEF numbered
<1> QED BY <1>3, <1>4, JoinedType

(* Replacing characters leaves a text.                                     *)
LEMMA ReplaceAllType ==
  ASSUME NEW text \in Text, NEW old, NEW new \in Char
  PROVE  ReplaceAll(text, old, new) \in Text
<1>1. Len(text) \in Nat /\ \A i \in 1 .. Len(text) : text[i] \in Char
  BY DEF Text
<1> QED BY <1>1 DEF ReplaceAll, Text

(* A file as it is loaded, or a part of one.                               *)
Piece == [path : Paths, content : Text]

-----------------------------------------------------------------------------
(* Chunks.                                                                 *)

(* The larger of two numbers.                                              *)
LEMMA MaxOfTwo ==
  ASSUME NEW a \in Int, NEW b \in Int
  PROVE  Max({a, b}) = IF a >= b THEN a ELSE b
<1>1. \A x \in {a, b} : (\A y \in {a, b} : x >= y) <=> x = IF a >= b THEN a ELSE b
  OBVIOUS
<1> QED BY <1>1 DEF Max

(* The smaller of two numbers.                                             *)
LEMMA MinOfTwo ==
  ASSUME NEW a \in Int, NEW b \in Int
  PROVE  Min({a, b}) = IF a <= b THEN a ELSE b
<1>1. \A x \in {a, b} : (\A y \in {a, b} : x <= y) <=> x = IF a <= b THEN a ELSE b
  OBVIOUS
<1> QED BY <1>1 DEF Min

(* The number of slices of a size that a length needs: all but the last    *)
(* are full, and the last is not empty.                                    *)
LEMMA Quotient ==
  ASSUME NEW a \in Nat, NEW b \in Nat \ {0}
  PROVE  /\ (a + b - 1) \div b \in Nat
         /\ ((a + b - 1) \div b) * b >= a
         /\ \A k \in 1 .. (a + b - 1) \div b : (k - 1) * b < a
  OBVIOUS

(* A number of tokens is a number.                                         *)
LEMMA EstimateTokensType ==
  ASSUME NEW chars \in Nat
  PROVE  EstimateTokens(chars) \in Nat
<1>1. CharsPerToken \in Nat \ {0}
  BY ChunkAssumption
<1>2. (chars + CharsPerToken - 1) \div CharsPerToken \in Nat
  BY <1>1, Quotient
<1> QED BY <1>2, MaxOfTwo DEF EstimateTokens

(* A chunk that was made of pieces.                                        *)
Chunk == {MakeChunk(pieces) : pieces \in Seq(Piece)}

(* A list of files under construction: the chunks so far, and the files    *)
(* that are collected for the next one.                                    *)
Building == [chunks : Seq(Chunk), current : Seq(Piece), tokens : Nat]

(* LoadFiles path by path.                                                 *)
LEMMA LoadFilesSteps ==
  ASSUME NEW archive, \A p \in DOMAIN archive : archive[p] \in Text
  PROVE  \E acc :
           /\ acc[0] = <<>>
           /\ acc[Len(Walk)] = LoadFiles(archive)
           /\ \A k \in 1 .. Len(Walk) :
                acc[k] = IF Walk[k] \in DOMAIN archive \ Excluded
                         THEN Append(acc[k - 1], [path |-> Walk[k], content |-> NumberLines(Redact(archive[Walk[k]]))])
                         ELSE acc[k - 1]
<1> DEFINE n == Len(Walk)
           A == Seq(Piece)
           op(files, p) == IF p \in DOMAIN archive \ Excluded
                         THEN Append(files, [path |-> p, content |-> NumberLines(Redact(archive[p]))])
                         ELSE files
           step == [p \in (1 .. n) \X A |-> op(p[2], Walk[p[1]])]
           fold == CHOOSE f : f = [s \in SUBSET DOMAIN Walk |->
                     IF s = {} THEN <<>> ELSE op(f[s \ {Max(s)}], Walk[Max(s)])]
           acc == [k \in 0 .. n |-> fold[1 .. k]]
<1>1. n \in Nat /\ DOMAIN Walk = 1 .. n /\ \A k \in 1 .. n : Walk[k] \in Paths
  BY ChunkAssumption DEF Paths
<1>2. step \in [(1 .. n) \X A -> A]
  <2>1. ASSUME NEW files \in A, NEW p \in Paths
        PROVE  op(files, p) \in A
    <3>1. CASE p \in DOMAIN archive \ Excluded
      <4>1. Redact(archive[p]) \in Text
        BY <3>1, ReplaceAllType DEF Redact, Char
      <4>2. [path |-> p, content |-> NumberLines(Redact(archive[p]))] \in Piece
        BY <4>1, NumberLinesType DEF Piece
      <4> QED BY <3>1, <4>2, AppendProperties
    <3>2. CASE p \notin DOMAIN archive \ Excluded
      BY <3>2
    <3> QED BY <3>1, <3>2
  <2> HIDE DEF op, A
  <2> QED BY <1>1, <2>1
<1>3. <<>> \in A
  OBVIOUS
<1>4. PICK iter \in [SUBSET (1 .. n) -> A] : IsFold(iter, <<>>, n, step)
  <2>1. n \in Nat
    BY <1>1
  <2> HIDE DEF step, A, n
  <2> QED BY <2>1, <1>2, <1>3, FoldSteps
<1> HIDE DEF op, A
<1>5. iter = [s \in SUBSET DOMAIN Walk |->
                IF s = {} THEN <<>> ELSE op(iter[s \ {Max(s)}], Walk[Max(s)])]
  <2>1. ASSUME NEW s \in (SUBSET (1 .. n)) \ {{}}
        PROVE  iter[s] = op(iter[s \ {Max(s)}], Walk[Max(s)])
    <3>1. <<Max(s), iter[s \ {Max(s)}]>> \in (1 .. n) \X A
      BY <1>4 DEF IsFold
    <3> QED BY <3>1, <1>4 DEF IsFold
  <2> QED BY <1>1, <1>4, <2>1 DEF IsFold
<1>6. fold = [s \in SUBSET DOMAIN Walk |->
                IF s = {} THEN <<>> ELSE op(fold[s \ {Max(s)}], Walk[Max(s)])]
  BY <1>5
<1>7. LoadFiles(archive) = fold[DOMAIN Walk]
  BY DEF LoadFiles, FoldLeft, MapThenFoldSet, op
<1> HIDE DEF fold
<1>8. acc[0] = <<>> /\ acc[n] = LoadFiles(archive)
  BY <1>1, <1>6, <1>7
<1>9. ASSUME NEW k \in 1 .. n
      PROVE  acc[k] = op(acc[k - 1], Walk[k])
  <2>1. (1 .. k) \ {k} = 1 .. (k - 1) /\ k - 1 \in 0 .. n
    OBVIOUS
  <2>2. 1 .. k \in (SUBSET DOMAIN Walk) \ {{}} /\ Max(1 .. k) = k
    BY <1>1, MaxOf
  <2>3. acc[k] = fold[1 .. k] /\ acc[k - 1] = fold[1 .. (k - 1)]
    BY <2>1
  <2>4. fold[1 .. k] = op(fold[(1 .. k) \ {k}], Walk[k])
    BY <1>6, <2>2
  <2> HIDE DEF acc
  <2> QED BY <2>1, <2>3, <2>4
<1> HIDE DEF acc
<1> QED BY <1>8, <1>9 DEF op

(* ContentOf piece by piece.                                               *)
LEMMA ContentOfSteps ==
  ASSUME NEW path, NEW pieces \in Seq(Piece)
  PROVE  \E acc :
           /\ acc[0] = <<>>
           /\ acc[Len(pieces)] = ContentOf(pieces, path)
           /\ \A k \in 1 .. Len(pieces) :
                acc[k] = IF pieces[k].path = path THEN acc[k - 1] \o pieces[k].content ELSE acc[k - 1]
<1> DEFINE n == Len(pieces)
           A == Text
           op(text, piece) == IF piece.path = path THEN text \o piece.content ELSE text
           step == [p \in (1 .. n) \X A |-> op(p[2], pieces[p[1]])]
           fold == CHOOSE f : f = [s \in SUBSET DOMAIN pieces |->
                     IF s = {} THEN <<>> ELSE op(f[s \ {Max(s)}], pieces[Max(s)])]
           acc == [k \in 0 .. n |-> fold[1 .. k]]
<1>1. n \in Nat /\ DOMAIN pieces = 1 .. n /\ \A k \in 1 .. n : pieces[k] \in Piece
  OBVIOUS
<1>2. step \in [(1 .. n) \X A -> A]
  <2>1. ASSUME NEW text \in A, NEW piece \in Piece
        PROVE  op(text, piece) \in A
    BY ConcatProperties DEF Text, Piece
  <2> HIDE DEF op, A
  <2> QED BY <1>1, <2>1
<1>3. <<>> \in A
  BY DEF Text
<1>4. PICK iter \in [SUBSET (1 .. n) -> A] : IsFold(iter, <<>>, n, step)
  <2>1. n \in Nat
    BY <1>1
  <2> HIDE DEF step, A, n
  <2> QED BY <2>1, <1>2, <1>3, FoldSteps
<1> HIDE DEF op, A
<1>5. iter = [s \in SUBSET DOMAIN pieces |->
                IF s = {} THEN <<>> ELSE op(iter[s \ {Max(s)}], pieces[Max(s)])]
  <2>1. ASSUME NEW s \in (SUBSET (1 .. n)) \ {{}}
        PROVE  iter[s] = op(iter[s \ {Max(s)}], pieces[Max(s)])
    <3>1. <<Max(s), iter[s \ {Max(s)}]>> \in (1 .. n) \X A
      BY <1>4 DEF IsFold
    <3> QED BY <3>1, <1>4 DEF IsFold
  <2> QED BY <1>1, <1>4, <2>1 DEF IsFold
<1>6. fold = [s \in SUBSET DOMAIN pieces |->
                IF s = {} THEN <<>> ELSE op(fold[s \ {Max(s)}], pieces[Max(s)])]
  BY <1>5
<1>7. ContentOf(pieces, path) = fold[DOMAIN pieces]
  BY DEF ContentOf, FoldLeft, MapThenFoldSet, op
<1> HIDE DEF fold
<1>8. acc[0] = <<>> /\ acc[n] = ContentOf(pieces, path)
  BY <1>1, <1>6, <1>7
<1>9. ASSUME NEW k \in 1 .. n
      PROVE  acc[k] = op(acc[k - 1], pieces[k])
  <2>1. (1 .. k) \ {k} = 1 .. (k - 1) /\ k - 1 \in 0 .. n
    OBVIOUS
  <2>2. 1 .. k \in (SUBSET DOMAIN pieces) \ {{}} /\ Max(1 .. k) = k
    BY <1>1, MaxOf
  <2>3. acc[k] = fold[1 .. k] /\ acc[k - 1] = fold[1 .. (k - 1)]
    BY <2>1
  <2>4. fold[1 .. k] = op(fold[(1 .. k) \ {k}], pieces[k])
    BY <1>6, <2>2
  <2> HIDE DEF acc
  <2> QED BY <2>1, <2>3, <2>4
<1> HIDE DEF acc
<1> QED BY <1>8, <1>9 DEF op

(* No pieces contain nothing.                                              *)
LEMMA ContentOfEmpty ==
  ASSUME NEW path
  PROVE  ContentOf(<<>>, path) = <<>>
<1> SUFFICES ASSUME NEW empty \in Seq(Piece), empty = <<>>
             PROVE  ContentOf(empty, path) = <<>>
  BY EmptySeq
<1>1. PICK f : f[0] = <<>> /\ f[Len(empty)] = ContentOf(empty, path)
  BY ContentOfSteps
<1> QED BY <1>1

(* One more piece adds its content to that of its own path.                *)
LEMMA ContentOfAppend ==
  ASSUME NEW path, NEW pieces \in Seq(Piece), NEW piece \in Piece
  PROVE  ContentOf(Append(pieces, piece), path) =
           IF piece.path = path THEN ContentOf(pieces, path) \o piece.content ELSE ContentOf(pieces, path)
<1> DEFINE longer == Append(pieces, piece)
           n == Len(pieces)
<1>1. /\ n \in Nat /\ longer \in Seq(Piece) /\ Len(longer) = n + 1
      /\ longer[n + 1] = piece /\ \A k \in 1 .. n : longer[k] = pieces[k]
  BY AppendProperties
<1> HIDE DEF longer
<1>2. PICK f : /\ f[0] = <<>> /\ f[n] = ContentOf(pieces, path)
               /\ \A k \in 1 .. n :
                    f[k] = IF pieces[k].path = path THEN f[k - 1] \o pieces[k].content ELSE f[k - 1]
  BY ContentOfSteps
<1>3. PICK g : /\ g[0] = <<>> /\ g[Len(longer)] = ContentOf(longer, path)
               /\ \A k \in 1 .. Len(longer) :
                    g[k] = IF longer[k].path = path THEN g[k - 1] \o longer[k].content ELSE g[k - 1]
  BY <1>1, ContentOfSteps
<1> HIDE DEF n
<1>4. g[n] = f[n]
  <2>1. ASSUME NEW k \in 1 .. n, g[k - 1] = f[k - 1] PROVE g[k] = f[k]
    <3>1. k \in 1 .. Len(longer) /\ longer[k] = pieces[k]
      BY <1>1
    <3> QED BY <2>1, <3>1, <1>2, <1>3
  <2>2. g[0] = f[0] /\ n \in Nat
    BY <1>1, <1>2, <1>3
  <2> QED BY <2>1, <2>2, ChainsAgree
<1>5. n + 1 \in 1 .. n + 1 /\ (n + 1) - 1 = n
  BY <1>1
<1>6. g[n + 1] = IF piece.path = path THEN g[n] \o piece.content ELSE g[n]
  BY <1>1, <1>3, <1>5
<1>7. g[n + 1] = ContentOf(longer, path)
  BY <1>1, <1>3
<1> QED BY <1>2, <1>4, <1>6, <1>7 DEF longer

(* What pieces contain is a text.                                          *)
LEMMA ContentOfType ==
  ASSUME NEW path, NEW pieces \in Seq(Piece)
  PROVE  ContentOf(pieces, path) \in Text
<1> DEFINE S == {s \in Seq(Piece) : ContentOf(s, path) \in Text}
<1>1. <<>> \in S
  <2>1. <<>> \in Text /\ <<>> \in Seq(Piece)
    BY DEF Text
  <2> QED BY <2>1, ContentOfEmpty
<1>2. ASSUME NEW s \in Seq(Piece), NEW piece \in Piece, s \in S
      PROVE  Append(s, piece) \in S
  <2>1. Append(s, piece) \in Seq(Piece) /\ piece.content \in Text
    BY AppendProperties DEF Piece
  <2>2. ContentOf(s, path) \in Text /\ ContentOf(s, path) \o piece.content \in Text
    BY <1>2, <2>1, ConcatProperties DEF Text
  <2>3. ContentOf(Append(s, piece), path) \in {ContentOf(s, path), ContentOf(s, path) \o piece.content}
    BY ContentOfAppend
  <2> QED BY <2>1, <2>2, <2>3
<1>3. Seq(Piece) \subseteq S
  <2> HIDE DEF S
  <2> QED BY <1>1, <1>2, InductOnSeq
<1> QED BY <1>3

(* A chunk has the pieces it was made of.                                  *)
LEMMA ChunkPieces ==
  ASSUME NEW pieces \in Seq(Piece)
  PROVE  MakeChunk(pieces) \in Chunk /\ MakeChunk(pieces).pieces = pieces
  BY DEF Chunk, MakeChunk

(* Assembled chunk by chunk.                                               *)
LEMMA AssembledSteps ==
  ASSUME NEW path, NEW chunks \in Seq(Chunk)
  PROVE  \E acc :
           /\ acc[0] = <<>>
           /\ acc[Len(chunks)] = Assembled(chunks, path)
           /\ \A k \in 1 .. Len(chunks) :
                acc[k] = acc[k - 1] \o ContentOf(chunks[k].pieces, path)
<1> DEFINE n == Len(chunks)
           A == Text
           op(text, chunk) == text \o ContentOf(chunk.pieces, path)
           step == [p \in (1 .. n) \X A |-> op(p[2], chunks[p[1]])]
           fold == CHOOSE f : f = [s \in SUBSET DOMAIN chunks |->
                     IF s = {} THEN <<>> ELSE op(f[s \ {Max(s)}], chunks[Max(s)])]
           acc == [k \in 0 .. n |-> fold[1 .. k]]
<1>1. n \in Nat /\ DOMAIN chunks = 1 .. n /\ \A k \in 1 .. n : chunks[k] \in Chunk
  OBVIOUS
<1>2. step \in [(1 .. n) \X A -> A]
  <2>1. ASSUME NEW text \in A, NEW chunk \in Chunk
        PROVE  op(text, chunk) \in A
    <3>1. ContentOf(chunk.pieces, path) \in Text
      BY ContentOfType DEF Chunk, MakeChunk
    <3> QED BY <3>1, ConcatProperties DEF Text
  <2> HIDE DEF op, A
  <2> QED BY <1>1, <2>1
<1>3. <<>> \in A
  BY DEF Text
<1>4. PICK iter \in [SUBSET (1 .. n) -> A] : IsFold(iter, <<>>, n, step)
  <2>1. n \in Nat
    BY <1>1
  <2> HIDE DEF step, A, n
  <2> QED BY <2>1, <1>2, <1>3, FoldSteps
<1> HIDE DEF op, A
<1>5. iter = [s \in SUBSET DOMAIN chunks |->
                IF s = {} THEN <<>> ELSE op(iter[s \ {Max(s)}], chunks[Max(s)])]
  <2>1. ASSUME NEW s \in (SUBSET (1 .. n)) \ {{}}
        PROVE  iter[s] = op(iter[s \ {Max(s)}], chunks[Max(s)])
    <3>1. <<Max(s), iter[s \ {Max(s)}]>> \in (1 .. n) \X A
      BY <1>4 DEF IsFold
    <3> QED BY <3>1, <1>4 DEF IsFold
  <2> QED BY <1>1, <1>4, <2>1 DEF IsFold
<1>6. fold = [s \in SUBSET DOMAIN chunks |->
                IF s = {} THEN <<>> ELSE op(fold[s \ {Max(s)}], chunks[Max(s)])]
  BY <1>5
<1>7. Assembled(chunks, path) = fold[DOMAIN chunks]
  BY DEF Assembled, FoldLeft, MapThenFoldSet, op
<1> HIDE DEF fold
<1>8. acc[0] = <<>> /\ acc[n] = Assembled(chunks, path)
  BY <1>1, <1>6, <1>7
<1>9. ASSUME NEW k \in 1 .. n
      PROVE  acc[k] = op(acc[k - 1], chunks[k])
  <2>1. (1 .. k) \ {k} = 1 .. (k - 1) /\ k - 1 \in 0 .. n
    OBVIOUS
  <2>2. 1 .. k \in (SUBSET DOMAIN chunks) \ {{}} /\ Max(1 .. k) = k
    BY <1>1, MaxOf
  <2>3. acc[k] = fold[1 .. k] /\ acc[k - 1] = fold[1 .. (k - 1)]
    BY <2>1
  <2>4. fold[1 .. k] = op(fold[(1 .. k) \ {k}], chunks[k])
    BY <1>6, <2>2
  <2> HIDE DEF acc
  <2> QED BY <2>1, <2>3, <2>4
<1> HIDE DEF acc
<1> QED BY <1>8, <1>9 DEF op

(* No chunks contain nothing.                                              *)
LEMMA AssembledEmpty ==
  ASSUME NEW path
  PROVE  Assembled(<<>>, path) = <<>>
<1> SUFFICES ASSUME NEW empty \in Seq(Chunk), empty = <<>>
             PROVE  Assembled(empty, path) = <<>>
  BY EmptySeq
<1>1. PICK f : f[0] = <<>> /\ f[Len(empty)] = Assembled(empty, path)
  BY AssembledSteps
<1> QED BY <1>1

(* One more chunk adds what its pieces contain.                            *)
LEMMA AssembledAppend ==
  ASSUME NEW path, NEW chunks \in Seq(Chunk), NEW chunk \in Chunk
  PROVE  Assembled(Append(chunks, chunk), path) =
           Assembled(chunks, path) \o ContentOf(chunk.pieces, path)
<1> DEFINE longer == Append(chunks, chunk)
           n == Len(chunks)
<1>1. /\ n \in Nat /\ longer \in Seq(Chunk) /\ Len(longer) = n + 1
      /\ longer[n + 1] = chunk /\ \A k \in 1 .. n : longer[k] = chunks[k]
  BY AppendProperties
<1> HIDE DEF longer
<1>2. PICK f : /\ f[0] = <<>> /\ f[n] = Assembled(chunks, path)
               /\ \A k \in 1 .. n :
                    f[k] = f[k - 1] \o ContentOf(chunks[k].pieces, path)
  BY AssembledSteps
<1>3. PICK g : /\ g[0] = <<>> /\ g[Len(longer)] = Assembled(longer, path)
               /\ \A k \in 1 .. Len(longer) :
                    g[k] = g[k - 1] \o ContentOf(longer[k].pieces, path)
  BY <1>1, AssembledSteps
<1> HIDE DEF n
<1>4. g[n] = f[n]
  <2>1. ASSUME NEW k \in 1 .. n, g[k - 1] = f[k - 1] PROVE g[k] = f[k]
    <3>1. k \in 1 .. Len(longer) /\ longer[k] = chunks[k]
      BY <1>1
    <3> QED BY <2>1, <3>1, <1>2, <1>3
  <2>2. g[0] = f[0] /\ n \in Nat
    BY <1>1, <1>2, <1>3
  <2> QED BY <2>1, <2>2, ChainsAgree
<1>5. n + 1 \in 1 .. n + 1 /\ (n + 1) - 1 = n
  BY <1>1
<1>6. g[n + 1] = g[n] \o ContentOf(chunk.pieces, path)
  BY <1>1, <1>3, <1>5
<1>7. g[n + 1] = Assembled(longer, path)
  BY <1>1, <1>3
<1> QED BY <1>2, <1>4, <1>6, <1>7 DEF longer

(* flush leaves a list under construction.                                 *)
LEMMA FlushType ==
  ASSUME NEW s \in Building, NEW limit \in Nat
  PROVE  Flush(s, limit) \in Building
<1>1. CASE s.current = <<>> \/ Len(s.chunks) >= limit
  BY <1>1 DEF Flush
<1>2. CASE ~(s.current = <<>> \/ Len(s.chunks) >= limit)
  <2>1. Append(s.chunks, MakeChunk(s.current)) \in Seq(Chunk)
    BY ChunkPieces, AppendProperties DEF Building
  <2>2. Flush(s, limit) = [chunks |-> Append(s.chunks, MakeChunk(s.current)), current |-> <<>>, tokens |-> 0]
    BY <1>2, Zenon DEF Flush
  <2>3. <<>> \in Seq(Piece)
    BY EmptySeq
  <2> QED BY <2>1, <2>2, <2>3 DEF Building
<1> QED BY <1>1, <1>2

(* The characters of a slice of a file that is too large for a chunk.      *)
SliceSize == Max({1, (MaxTokens - Margin) * CharsPerToken})

(* The slices such a file needs.                                           *)
SlicesNeeded(file) == (Len(file.content) + SliceSize - 1) \div SliceSize

(* One of them.                                                            *)
Slice(file, k) ==
  [path |-> file.path,
   content |-> SubSeq(file.content, (k - 1) * SliceSize + 1,
                      Min({k * SliceSize, Len(file.content)}))]

(* What a file is cut into, as far as there is room.                       *)
LEMMA SlicesAre ==
  ASSUME NEW file \in Piece, NEW room \in Nat
  PROVE  /\ SliceSize \in Nat \ {0}
         /\ Min({room, SlicesNeeded(file)}) \in Nat
         /\ Slices(file, room) = [k \in 1 .. Min({room, SlicesNeeded(file)}) |->
                                    MakeChunk(<<Slice(file, k)>>)]
         /\ \A k \in 1 .. SlicesNeeded(file) : Slice(file, k) \in Piece
         /\ Slices(file, room) \in Seq(Chunk)
         /\ Len(Slices(file, room)) = Min({room, SlicesNeeded(file)})
<1> DEFINE count == Min({room, SlicesNeeded(file)})
<1>1. SliceSize \in Nat \ {0}
  <2>1. (MaxTokens - Margin) * CharsPerToken \in Nat
    <3>1. MaxTokens \in Nat /\ Margin \in Nat /\ Margin < MaxTokens /\ CharsPerToken \in Nat
      BY ChunkAssumption
    <3>2. MaxTokens - Margin \in Nat
      BY <3>1
    <3> QED BY <3>1, <3>2
  <2> QED BY <2>1, MaxOfTwo DEF SliceSize
<1>2. SlicesNeeded(file) \in Nat /\ Len(file.content) \in Nat /\ file.path \in Paths
  BY <1>1, Quotient DEF SlicesNeeded, Piece, Text
<1>3. count \in Nat /\ count <= SlicesNeeded(file)
  BY <1>2, MinOfTwo
<1>4. ASSUME NEW k \in 1 .. SlicesNeeded(file)
      PROVE  Slice(file, k) \in Piece
  <2> DEFINE from == (k - 1) * SliceSize + 1
             to   == Min({k * SliceSize, Len(file.content)})
  <2>1. from \in Nat \ {0}
    <3>1. k - 1 \in Nat
      OBVIOUS
    <3> QED BY <1>1, <3>1
  <2>2. to \in Int /\ to <= Len(file.content)
    <3>1. k * SliceSize \in Int
      BY <1>1
    <3> QED BY <1>2, <3>1, MinOfTwo
  <2> HIDE DEF from, to
  <2>3. \A i \in from .. to : file.content[i] \in Char
    BY <2>1, <2>2 DEF Piece, Text
  <2>4. SubSeq(file.content, from, to) \in Seq(Char)
    BY <2>1, <2>2, <2>3, SubSeqProperties
  <2> QED BY <1>2, <2>4 DEF Slice, Piece, Text, from, to
<1>5. Slices(file, room) = [k \in 1 .. count |-> MakeChunk(<<Slice(file, k)>>)]
  BY DEF Slices, Slice, SlicesNeeded, SliceSize
<1> HIDE DEF count
<1>6. \A k \in 1 .. count : MakeChunk(<<Slice(file, k)>>) \in Chunk
  <2> TAKE k \in 1 .. count
  <2>1. Slice(file, k) \in Piece
    BY <1>2, <1>3, <1>4
  <2>2. <<Slice(file, k)>> \in Seq(Piece)
    BY <2>1
  <2> QED BY <2>2, ChunkPieces
<1>7. Slices(file, room) \in Seq(Chunk) /\ Len(Slices(file, room)) = count
  BY <1>3, <1>5, <1>6
<1> QED BY <1>1, <1>3, <1>4, <1>5, <1>7 DEF count

(* One more file leaves a list under construction.                         *)
LEMMA AddFileType ==
  ASSUME NEW s \in Building, NEW file \in Piece, NEW limit \in Nat
  PROVE  AddFile(s, file, limit) \in Building
<1> DEFINE tokens  == EstimateTokens(Len(file.content))
           flushed == IF s.current # <<>> /\ s.tokens + tokens > MaxTokens
                      THEN Flush(s, limit) ELSE s
           room    == Max({limit, Len(flushed.chunks)}) - Len(flushed.chunks)
<1>1. tokens \in Nat
  BY EstimateTokensType DEF Piece, Text
<1>2. flushed \in Building
  BY FlushType
<1>3. AddFile(s, file, limit) =
        IF tokens > MaxTokens
        THEN [flushed EXCEPT !.chunks = @ \o Slices(file, room)]
        ELSE [flushed EXCEPT !.current = Append(@, file), !.tokens = @ + tokens]
  BY DEF AddFile
<1>4. room \in Nat
  <2>1. Len(flushed.chunks) \in Nat
    BY <1>2 DEF Building
  <2> HIDE DEF flushed
  <2> QED BY <2>1, MaxOfTwo
<1> HIDE DEF tokens, flushed, room
<1>5. flushed.chunks \o Slices(file, room) \in Seq(Chunk)
  BY <1>2, <1>4, SlicesAre, ConcatProperties DEF Building
<1>6. Append(flushed.current, file) \in Seq(Piece) /\ flushed.tokens + tokens \in Nat
  BY <1>1, <1>2, AppendProperties DEF Building
<1> QED BY <1>2, <1>3, <1>5, <1>6 DEF Building

(* AddFiles file by file.                                                  *)
LEMMA AddFilesSteps ==
  ASSUME NEW files \in Seq(Piece), NEW limit \in Nat
  PROVE  \E acc :
           /\ acc[0] = [chunks |-> <<>>, current |-> <<>>, tokens |-> 0]
           /\ acc[Len(files)] = AddFiles(files, limit)
           /\ \A k \in 1 .. Len(files) :
                acc[k] = AddFile(acc[k - 1], files[k], limit)
<1> DEFINE n == Len(files)
           A == Building
           op(s, file) == AddFile(s, file, limit)
           step == [p \in (1 .. n) \X A |-> op(p[2], files[p[1]])]
           fold == CHOOSE f : f = [s \in SUBSET DOMAIN files |->
                     IF s = {} THEN [chunks |-> <<>>, current |-> <<>>, tokens |-> 0] ELSE op(f[s \ {Max(s)}], files[Max(s)])]
           acc == [k \in 0 .. n |-> fold[1 .. k]]
<1>1. n \in Nat /\ DOMAIN files = 1 .. n /\ \A k \in 1 .. n : files[k] \in Piece
  OBVIOUS
<1>2. step \in [(1 .. n) \X A -> A]
  <2>1. ASSUME NEW s \in A, NEW file \in Piece
        PROVE  op(s, file) \in A
    BY AddFileType
  <2> HIDE DEF op, A
  <2> QED BY <1>1, <2>1
<1>3. [chunks |-> <<>>, current |-> <<>>, tokens |-> 0] \in A
  <2>1. <<>> \in Seq(Chunk) /\ <<>> \in Seq(Piece)
    BY EmptySeq
  <2> QED BY <2>1 DEF Building
<1>4. PICK iter \in [SUBSET (1 .. n) -> A] : IsFold(iter, [chunks |-> <<>>, current |-> <<>>, tokens |-> 0], n, step)
  <2>1. n \in Nat
    BY <1>1
  <2> HIDE DEF step, A, n
  <2> QED BY <2>1, <1>2, <1>3, FoldSteps
<1> HIDE DEF op, A
<1>5. iter = [s \in SUBSET DOMAIN files |->
                IF s = {} THEN [chunks |-> <<>>, current |-> <<>>, tokens |-> 0] ELSE op(iter[s \ {Max(s)}], files[Max(s)])]
  <2>1. ASSUME NEW s \in (SUBSET (1 .. n)) \ {{}}
        PROVE  iter[s] = op(iter[s \ {Max(s)}], files[Max(s)])
    <3>1. <<Max(s), iter[s \ {Max(s)}]>> \in (1 .. n) \X A
      BY <1>4 DEF IsFold
    <3> QED BY <3>1, <1>4 DEF IsFold
  <2> QED BY <1>1, <1>4, <2>1 DEF IsFold
<1>6. fold = [s \in SUBSET DOMAIN files |->
                IF s = {} THEN [chunks |-> <<>>, current |-> <<>>, tokens |-> 0] ELSE op(fold[s \ {Max(s)}], files[Max(s)])]
  BY <1>5
<1>7. AddFiles(files, limit) = fold[DOMAIN files]
  BY DEF AddFiles, FoldLeft, MapThenFoldSet, op
<1> HIDE DEF fold
<1>8. acc[0] = [chunks |-> <<>>, current |-> <<>>, tokens |-> 0] /\ acc[n] = AddFiles(files, limit)
  BY <1>1, <1>6, <1>7
<1>9. ASSUME NEW k \in 1 .. n
      PROVE  acc[k] = op(acc[k - 1], files[k])
  <2>1. (1 .. k) \ {k} = 1 .. (k - 1) /\ k - 1 \in 0 .. n
    OBVIOUS
  <2>2. 1 .. k \in (SUBSET DOMAIN files) \ {{}} /\ Max(1 .. k) = k
    BY <1>1, MaxOf
  <2>3. acc[k] = fold[1 .. k] /\ acc[k - 1] = fold[1 .. (k - 1)]
    BY <2>1
  <2>4. fold[1 .. k] = op(fold[(1 .. k) \ {k}], files[k])
    BY <1>6, <2>2
  <2> HIDE DEF acc
  <2> QED BY <2>1, <2>3, <2>4
<1> HIDE DEF acc
<1> QED BY <1>8, <1>9 DEF op

-----------------------------------------------------------------------------
(* What a list of chunks holds.                                            *)

(* What a list of files under construction holds of one path.              *)
Held(s, path) == Assembled(s.chunks, path) \o ContentOf(s.current, path)

(* Concatenation of texts is associative.                                  *)
LEMMA Associative ==
  ASSUME NEW a \in Text, NEW b \in Text, NEW c \in Text
  PROVE  (a \o b) \o c = a \o (b \o c)
BY ConcatAssociative DEF Text

(* The empty text adds nothing to a text.                                  *)
LEMMA Neutral ==
  ASSUME NEW a \in Text, NEW e, e = <<>>
  PROVE  a \o e = a /\ e \o a = a
BY ConcatEmptySeq DEF Text

(* What chunks contain is a text.                                          *)
LEMMA AssembledType ==
  ASSUME NEW path, NEW chunks \in Seq(Chunk)
  PROVE  Assembled(chunks, path) \in Text
<1> DEFINE S == {s \in Seq(Chunk) : Assembled(s, path) \in Text}
<1>1. <<>> \in S
  <2>1. <<>> \in Text /\ <<>> \in Seq(Chunk)
    BY EmptySeq DEF Text
  <2> QED BY <2>1, AssembledEmpty
<1>2. ASSUME NEW s \in Seq(Chunk), NEW chunk \in Chunk, s \in S
      PROVE  Append(s, chunk) \in S
  <2>1. Append(s, chunk) \in Seq(Chunk)
    BY AppendProperties
  <2>2. ContentOf(chunk.pieces, path) \in Text
    BY ContentOfType DEF Chunk, MakeChunk
  <2>3. Assembled(s, path) \o ContentOf(chunk.pieces, path) \in Text
    BY <1>2, <2>2, ConcatProperties DEF Text
  <2> QED BY <2>1, <2>3, AssembledAppend
<1>3. Seq(Chunk) \subseteq S
  <2> HIDE DEF S
  <2> QED BY <1>1, <1>2, InductOnSeq
<1> QED BY <1>3

(* What a list holds is a text.                                            *)
LEMMA HeldType ==
  ASSUME NEW s \in Building, NEW path
  PROVE  /\ Assembled(s.chunks, path) \in Text
         /\ ContentOf(s.current, path) \in Text
         /\ Held(s, path) \in Text
<1>1. Assembled(s.chunks, path) \in Text /\ ContentOf(s.current, path) \in Text
  BY AssembledType, ContentOfType DEF Building
<1> QED BY <1>1, ConcatProperties DEF Held, Text

(* flush below the limit loses nothing: the files that were collected are  *)
(* in the chunks.                                                          *)
LEMMA FlushHolds ==
  ASSUME NEW s \in Building, NEW limit \in Nat, Len(s.chunks) < limit, NEW path
  PROVE  /\ Flush(s, limit).current = <<>>
         /\ Held(Flush(s, limit), path) = Held(s, path)
         /\ Assembled(Flush(s, limit).chunks, path) = Held(s, path)
         /\ Len(s.chunks) <= Len(Flush(s, limit).chunks)
<1>1. s.chunks \in Seq(Chunk) /\ s.current \in Seq(Piece) /\ Len(s.chunks) \in Nat
  BY DEF Building
<1>2. Assembled(s.chunks, path) \in Seq(Char) /\ Held(s, path) \in Seq(Char)
  BY HeldType DEF Text
<1>3. CASE s.current = <<>>
  <2>1. Flush(s, limit) = s
    BY <1>3 DEF Flush
  <2>2. Held(s, path) = Assembled(s.chunks, path)
    BY <1>2, <1>3, ContentOfEmpty, ConcatEmptySeq DEF Held
  <2> QED BY <1>1, <1>3, <2>1, <2>2
<1>4. CASE s.current # <<>>
  <2>1. Flush(s, limit) = [chunks |-> Append(s.chunks, MakeChunk(s.current)), current |-> <<>>, tokens |-> 0]
    BY <1>1, <1>4 DEF Flush
  <2>2. MakeChunk(s.current) \in Chunk /\ MakeChunk(s.current).pieces = s.current
    BY <1>1, ChunkPieces
  <2>3. Assembled(Append(s.chunks, MakeChunk(s.current)), path) = Held(s, path)
    BY <1>1, <2>2, AssembledAppend DEF Held
  <2>4. Held(Flush(s, limit), path) = Held(s, path)
    BY <1>2, <2>1, <2>3, ContentOfEmpty, ConcatEmptySeq DEF Held
  <2>5. Len(s.chunks) <= Len(Append(s.chunks, MakeChunk(s.current)))
    BY <1>1, <2>2, AppendProperties
  <2> QED BY <2>1, <2>3, <2>4, <2>5
<1> QED BY <1>3, <1>4

(* flush takes no chunk away.                                              *)
LEMMA FlushGrows ==
  ASSUME NEW s \in Building, NEW limit \in Nat
  PROVE  Len(s.chunks) <= Len(Flush(s, limit).chunks)
<1>1. Len(s.chunks) \in Nat
  BY DEF Building
<1>2. CASE Len(s.chunks) < limit
  BY <1>2, FlushHolds
<1>3. CASE ~(Len(s.chunks) < limit)
  <2>1. Flush(s, limit) = s
    BY <1>1, <1>3 DEF Flush
  <2> QED BY <1>1, <2>1
<1> QED BY <1>2, <1>3

(* The places where a text is cut: they begin at its begin, end at its     *)
(* end, and never go back.                                                 *)
LEMMA Cuts ==
  ASSUME NEW len \in Nat, NEW size \in Nat \ {0}, NEW n, n = (len + size - 1) \div size
  PROVE  /\ n \in Nat
         /\ Min({0 * size, len}) = 0
         /\ Min({n * size, len}) = len
         /\ \A k \in 1 .. n :
              /\ (k - 1) * size \in 0 .. len
              /\ Min({(k - 1) * size, len}) = (k - 1) * size
              /\ Min({k * size, len}) \in (k - 1) * size .. len
<1>1. n \in Nat /\ n * size >= len /\ \A k \in 1 .. n : (k - 1) * size < len
  BY Quotient
<1>2. Min({0 * size, len}) = 0
  BY MinOfTwo
<1>3. Min({n * size, len}) = len
  <2>1. n * size \in Nat
    BY <1>1
  <2> QED BY <1>1, <2>1, MinOfTwo
<1>4. ASSUME NEW k \in 1 .. n
      PROVE  /\ (k - 1) * size \in 0 .. len
             /\ Min({(k - 1) * size, len}) = (k - 1) * size
             /\ Min({k * size, len}) \in (k - 1) * size .. len
  <2> DEFINE a == (k - 1) * size
             b == k * size
  <2>1. a \in Nat /\ b = a + size
    BY <1>1
  <2>2. a < len
    BY <1>1
  <2> HIDE DEF a, b
  <2>3. Min({a, len}) = a /\ Min({b, len}) \in a .. len /\ a \in 0 .. len
    BY <2>1, <2>2, MinOfTwo
  <2> QED BY <2>3 DEF a, b
<1> QED BY <1>1, <1>2, <1>3, <1>4

(* What a single piece contains.                                           *)
LEMMA OnePiece ==
  ASSUME NEW piece \in Piece, NEW path
  PROVE  ContentOf(<<piece>>, path) = IF piece.path = path THEN piece.content ELSE <<>>
<1>1. <<piece>> = Append(<<>>, piece) /\ <<>> \in Seq(Piece)
  OBVIOUS
<1>2. piece.content \in Seq(Char)
  BY DEF Piece, Text
<1>3. ContentOf(Append(<<>>, piece), path) =
        IF piece.path = path THEN ContentOf(<<>>, path) \o piece.content ELSE ContentOf(<<>>, path)
  BY <1>1, ContentOfAppend
<1> QED BY <1>1, <1>2, <1>3, ContentOfEmpty, ConcatEmptySeq

(* Slices for which there is room contain the whole file, once and in its  *)
(* order.                                                                  *)
LEMMA SlicesHold ==
  ASSUME NEW file \in Piece, NEW room \in Nat, SlicesNeeded(file) <= room,
         NEW chunks \in Seq(Chunk), NEW path
  PROVE  Assembled(chunks \o Slices(file, room), path) =
           IF path = file.path THEN Assembled(chunks, path) \o file.content
           ELSE Assembled(chunks, path)
<1> DEFINE n == SlicesNeeded(file)
           slices == Slices(file, room)
           text == file.content
           cut(k) == Min({k * SliceSize, Len(text)})
           part(k) == SubSeq(text, 1, cut(k))
           after(k) == chunks \o SubSeq(slices, 1, k)
           Right(k) == Assembled(after(k), path) =
                         IF path = file.path THEN Assembled(chunks, path) \o part(k)
                         ELSE Assembled(chunks, path)
           S == {k \in 0 .. n : Right(k)}
<1>1. SliceSize \in Nat \ {0} /\ Len(text) \in Nat /\ text \in Seq(Char)
  <2>1. SliceSize \in Nat \ {0}
    BY SlicesAre
  <2>2. text \in Seq(Char)
    BY DEF Piece, Text
  <2> QED BY <2>1, <2>2
<1> DEFINE len == Len(text)
<1>2. /\ n \in Nat
      /\ cut(0) = 0
      /\ cut(n) = Len(text)
      /\ \A k \in 1 .. n : /\ cut(k - 1) \in 0 .. Len(text) /\ cut(k) \in cut(k - 1) .. Len(text)
                          /\ cut(k - 1) = (k - 1) * SliceSize
  <2>1. n = (len + SliceSize - 1) \div SliceSize
    BY DEF SlicesNeeded
  <2>2. len \in Nat
    BY <1>1
  <2> HIDE DEF n, len
  <2>3. /\ n \in Nat
        /\ Min({0 * SliceSize, len}) = 0
        /\ Min({n * SliceSize, len}) = len
        /\ \A k \in 1 .. n :
             /\ (k - 1) * SliceSize \in 0 .. len
             /\ Min({(k - 1) * SliceSize, len}) = (k - 1) * SliceSize
             /\ Min({k * SliceSize, len}) \in (k - 1) * SliceSize .. len
    BY <1>1, <2>1, <2>2, Cuts, Zenon
  <2>4. /\ Min({0 * SliceSize, Len(text)}) = 0
        /\ Min({n * SliceSize, Len(text)}) = Len(text)
    BY <2>3, Zenon DEF len
  <2>5. ASSUME NEW k \in 1 .. n
        PROVE  /\ cut(k - 1) \in 0 .. Len(text) /\ cut(k) \in cut(k - 1) .. Len(text)
               /\ cut(k - 1) = (k - 1) * SliceSize
    BY <2>3, Zenon DEF len
  <2> HIDE DEF text
  <2> QED BY <2>3, <2>4, <2>5, Zenon
<1>3. /\ slices \in Seq(Chunk) /\ Len(slices) = n
      /\ \A k \in 1 .. n : slices[k] = MakeChunk(<<Slice(file, k)>>) /\ Slice(file, k) \in Piece
  <2>1. Min({room, n}) = n
    BY <1>2, MinOfTwo
  <2> QED BY <2>1, SlicesAre
<1>4. \A k \in 1 .. n : /\ Slice(file, k).path = file.path
                        /\ Slice(file, k).content = SubSeq(text, cut(k - 1) + 1, cut(k))
  <2> TAKE k \in 1 .. n
  <2>1. cut(k - 1) = (k - 1) * SliceSize
    BY <1>2
  <2> QED BY <2>1 DEF Slice
<1> HIDE DEF n, slices, cut, text
<1>5. Assembled(chunks, path) \in Seq(Char)
  BY AssembledType DEF Text
<1>6. part(0) = <<>> /\ part(n) = text
  BY <1>1, <1>2, SubSeqEmpty, SubSeqFull
<1>7. ASSUME NEW k \in 1 .. n
      PROVE  /\ part(k) = part(k - 1) \o Slice(file, k).content
             /\ part(k - 1) \in Seq(Char) /\ Slice(file, k).content \in Seq(Char)
  <2>1. cut(k - 1) \in 0 .. Len(text) /\ cut(k) \in cut(k - 1) .. Len(text)
    BY <1>2
  <2>2. SubSeq(text, 1, cut(k - 1)) \o SubSeq(text, cut(k - 1) + 1, cut(k)) = SubSeq(text, 1, cut(k))
    <3>1. 1 \in 1 .. Len(text) + 1 /\ cut(k - 1) \in 1 - 1 .. Len(text)
      BY <1>1, <2>1
    <3> QED BY <1>1, <2>1, <3>1, ConcatAdjacentSubSeq
  <2>3. part(k - 1) \in Seq(Char) /\ Slice(file, k).content \in Seq(Char)
    <3>1. part(k - 1) \in Seq(Char)
      BY <1>1, <2>1
    <3> QED BY <1>3, <3>1 DEF Piece, Text
  <2> QED BY <1>4, <2>2, <2>3
<1>8. Right(0)
  <2>1. after(0) = chunks
    BY SubSeqEmpty, ConcatEmptySeq
  <2>2. Assembled(chunks, path) \o part(0) = Assembled(chunks, path)
    BY <1>5, <1>6, ConcatEmptySeq
  <2> HIDE DEF after, part
  <2> QED BY <2>1, <2>2
<1>9. ASSUME NEW k \in 1 .. n
      PROVE  Assembled(after(k), path) =
               Assembled(after(k - 1), path)
                 \o IF path = file.path THEN Slice(file, k).content ELSE <<>>
  <2>1. SubSeq(slices, 1, k - 1) \in Seq(Chunk) /\ slices[k] \in Chunk
    BY <1>2, <1>3
  <2>2. after(k) = Append(after(k - 1), slices[k]) /\ after(k - 1) \in Seq(Chunk)
    <3>1. SubSeq(slices, 1, k) = SubSeq(slices, 1, k - 1) \o <<slices[k]>>
      <4>1. 1 \in 1 .. Len(slices) /\ k \in 1 .. Len(slices)
        BY <1>2, <1>3
      <4> QED BY <1>3, <4>1, SubSeqRecursiveSecond
    <3>2. <<slices[k]>> \in Seq(Chunk)
      BY <2>1
    <3>3. chunks \o (SubSeq(slices, 1, k - 1) \o <<slices[k]>>) = (chunks \o SubSeq(slices, 1, k - 1)) \o <<slices[k]>>
      BY <2>1, <3>2, ConcatAssociative
    <3>4. chunks \o SubSeq(slices, 1, k - 1) \in Seq(Chunk)
      BY <2>1, ConcatProperties
    <3> QED BY <2>1, <3>1, <3>3, <3>4, AppendIsConcat
  <2>3. slices[k].pieces = <<Slice(file, k)>>
    <3>1. <<Slice(file, k)>> \in Seq(Piece)
      <4>1. Slice(file, k) \in Piece
        BY <1>3
      <4> QED BY <4>1
    <3> QED BY <1>3, <3>1, ChunkPieces
  <2>4. ContentOf(<<Slice(file, k)>>, path) = IF path = file.path THEN Slice(file, k).content ELSE <<>>
    <3>1. Slice(file, k) \in Piece /\ Slice(file, k).path = file.path
      BY <1>3, <1>4
    <3> QED BY <3>1, OnePiece
  <2> HIDE DEF after
  <2> QED BY <2>1, <2>2, <2>3, <2>4, AssembledAppend
<1>10. ASSUME NEW k \in 1 .. n, Right(k - 1)
       PROVE  Right(k)
  <2> HIDE DEF after, part
  <2>1. CASE path = file.path
    <3>1. Assembled(after(k), path) = (Assembled(chunks, path) \o part(k - 1)) \o Slice(file, k).content
      BY <1>9, <1>10, <2>1
    <3>2. (Assembled(chunks, path) \o part(k - 1)) \o Slice(file, k).content
            = Assembled(chunks, path) \o (part(k - 1) \o Slice(file, k).content)
      <4>1. Assembled(chunks, path) \in Text /\ part(k - 1) \in Text /\ Slice(file, k).content \in Text
        BY <1>5, <1>7 DEF Text
      <4> QED BY <4>1, Associative, Zenon
    <3>3. Assembled(after(k), path) = Assembled(chunks, path) \o part(k)
      BY <1>7, <3>1, <3>2, Zenon
    <3> QED BY <2>1, <3>3
  <2>2. CASE path # file.path
    <3>1. Assembled(after(k), path) = Assembled(chunks, path) \o <<>>
      BY <1>9, <1>10, <2>2
    <3> QED BY <1>5, <2>2, <3>1, ConcatEmptySeq
  <2> QED BY <2>1, <2>2
<1>11. Right(n)
  <2> HIDE DEF Right
  <2>1. 0 \in S
    BY <1>2, <1>8
  <2>2. ASSUME NEW k \in 1 .. n, k - 1 \in S PROVE k \in S
    <3>1. Right(k - 1) /\ k \in 0 .. n
      BY <1>2, <2>2
    <3> QED BY <1>10, <3>1
  <2>3. 0 .. n \subseteq S
    <3> HIDE DEF S
    <3>1. n \in Nat
      BY <1>2
    <3> QED BY <2>1, <2>2, <3>1, InductUpTo
  <2> QED BY <1>2, <2>3
<1>12. after(n) = chunks \o slices
  BY <1>3, SubSeqFull
<1> HIDE DEF after, part
<1> QED BY <1>6, <1>11, <1>12 DEF slices, text

(* A file that leaves room is held whole, behind what was held of its      *)
(* path; that there is room afterwards means that there was room before.   *)
(* A file that is too large for a chunk always finds the collected files   *)
(* flushed, so that it comes behind them.                                  *)
LEMMA AddFileHolds ==
  ASSUME NEW s \in Building, NEW file \in Piece, NEW limit \in Nat, NEW path,
         Len(AddFile(s, file, limit).chunks) < limit
  PROVE  /\ Len(s.chunks) < limit
         /\ Held(AddFile(s, file, limit), path) =
              IF path = file.path THEN Held(s, path) \o file.content ELSE Held(s, path)
<1> DEFINE tokens  == EstimateTokens(Len(file.content))
           full    == s.current # <<>> /\ s.tokens + tokens > MaxTokens
           flushed == IF full THEN Flush(s, limit) ELSE s
           room    == Max({limit, Len(flushed.chunks)}) - Len(flushed.chunks)
           added   == AddFile(s, file, limit)
<1>1. tokens \in Nat /\ MaxTokens \in Nat /\ s.tokens \in Nat
  BY EstimateTokensType, ChunkAssumption DEF Piece, Text, Building
<1>2. flushed \in Building /\ Len(s.chunks) \in Nat /\ Len(flushed.chunks) \in Nat
  <2>1. flushed \in Building
    BY FlushType
  <2> HIDE DEF flushed
  <2> QED BY <2>1 DEF Building
<1>3. added = IF tokens > MaxTokens
              THEN [flushed EXCEPT !.chunks = @ \o Slices(file, room)]
              ELSE [flushed EXCEPT !.current = Append(@, file), !.tokens = @ + tokens]
  BY DEF AddFile
<1>4. room = (IF limit >= Len(flushed.chunks) THEN limit ELSE Len(flushed.chunks)) - Len(flushed.chunks)
  <2> DEFINE filled == Len(flushed.chunks)
  <2>1. filled \in Int /\ limit \in Int
    BY <1>2
  <2> HIDE DEF filled
  <2>2. Max({limit, filled}) = IF limit >= filled THEN limit ELSE filled
    BY <2>1, MaxOfTwo, Zenon
  <2> QED BY <2>2 DEF filled
<1>5. Len(s.chunks) <= Len(flushed.chunks)
  BY <1>2, FlushGrows
<1>6. Len(s.chunks) < limit => Held(flushed, path) = Held(s, path)
  BY FlushHolds
<1>7. file.content \in Text /\ file.path \in Paths
  BY DEF Piece
<1>8. tokens > MaxTokens /\ Len(s.chunks) < limit =>
        flushed.current = <<>> /\ Assembled(flushed.chunks, path) = Held(s, path)
  <2> SUFFICES ASSUME tokens > MaxTokens, Len(s.chunks) < limit
               PROVE  flushed.current = <<>> /\ Assembled(flushed.chunks, path) = Held(s, path)
    OBVIOUS
  <2>1. CASE full
    BY <2>1, FlushHolds
  <2>2. CASE s.current = <<>>
    <3>1. flushed = s
      BY <2>2
    <3>2. Assembled(s.chunks, path) \in Text
      BY HeldType
    <3>3. Held(s, path) = Assembled(s.chunks, path)
      <4>1. ContentOf(s.current, path) = <<>>
        BY <2>2, ContentOfEmpty
      <4>2. Assembled(s.chunks, path) \o ContentOf(s.current, path) = Assembled(s.chunks, path)
        BY <3>2, <4>1, Neutral, Zenon
      <4> QED BY <4>2 DEF Held
    <3> QED BY <2>2, <3>1, <3>3
  <2>3. s.tokens + tokens > MaxTokens
    BY <1>1
  <2> QED BY <2>1, <2>2, <2>3
<1> HIDE DEF tokens, full, flushed, room
<1>9. CASE tokens > MaxTokens
  <2> DEFINE slices == Slices(file, room)
  <2>1. added.chunks = flushed.chunks \o slices /\ added.current = flushed.current
    BY <1>2, <1>3, <1>9 DEF Building
  <2>2. room \in Nat
    BY <1>2, <1>4
  <2>3. /\ SlicesNeeded(file) \in Int /\ slices \in Seq(Chunk)
        /\ Len(slices) = Min({room, SlicesNeeded(file)})
    <3>1. Len(file.content) \in Nat
      BY <1>7 DEF Text
    <3>2. SliceSize \in Nat \ {0} /\ slices \in Seq(Chunk) /\ Len(slices) = Min({room, SlicesNeeded(file)})
      BY <2>2, SlicesAre, Zenon
    <3>3. (Len(file.content) + SliceSize - 1) \div SliceSize \in Nat
      BY <3>1, <3>2, Quotient, Zenon
    <3> QED BY <3>2, <3>3 DEF SlicesNeeded
  <2>4. Len(added.chunks) = Len(flushed.chunks) + Len(slices)
    BY <1>2, <2>1, <2>3, ConcatProperties DEF Building
  <2>5. Len(slices) = IF room <= SlicesNeeded(file) THEN room ELSE SlicesNeeded(file)
    BY <2>2, <2>3, MinOfTwo
  <2>6. /\ Len(s.chunks) < limit /\ SlicesNeeded(file) <= room
    <3>1. Len(flushed.chunks) + Len(slices) < limit /\ Len(slices) \in Nat
      BY <2>3, <2>4
    <3>2. /\ SlicesNeeded(file) \in Int /\ room \in Nat /\ Len(s.chunks) \in Nat
          /\ Len(flushed.chunks) \in Nat /\ limit \in Nat
      BY <1>2, <2>2, <2>3
    <3> DEFINE before == Len(s.chunks)
               filled == Len(flushed.chunks)
               cuts   == Len(slices)
               needed == SlicesNeeded(file)
    <3>3. /\ before \in Nat /\ filled \in Nat /\ cuts \in Nat /\ limit \in Nat /\ needed \in Int /\ room \in Nat
          /\ before <= filled /\ filled + cuts < limit
          /\ room = (IF limit >= filled THEN limit ELSE filled) - filled
          /\ cuts = IF room <= needed THEN room ELSE needed
      BY <1>4, <1>5, <2>5, <3>1, <3>2
    <3> HIDE DEF before, filled, cuts, needed
    <3>4. before < limit /\ needed <= room
      BY <3>3
    <3> QED BY <3>4 DEF before, needed
  <2>7. Assembled(added.chunks, path) =
          IF path = file.path THEN Held(s, path) \o file.content ELSE Held(s, path)
    <3>1. flushed.chunks \in Seq(Chunk)
      BY <1>2 DEF Building
    <3>2. Assembled(flushed.chunks \o slices, path) =
            IF path = file.path THEN Assembled(flushed.chunks, path) \o file.content
            ELSE Assembled(flushed.chunks, path)
      BY <2>2, <2>6, <3>1, SlicesHold
    <3> QED BY <1>8, <1>9, <2>1, <2>6, <3>2
  <2>8. Held(added, path) = Assembled(added.chunks, path)
    <3>1. added.current = <<>>
      BY <1>8, <1>9, <2>1, <2>6
    <3>2. Assembled(added.chunks, path) \in Text
      BY AddFileType, HeldType
    <3> HIDE DEF added
    <3>3. ContentOf(added.current, path) = <<>>
      BY <3>1, ContentOfEmpty
    <3>4. Assembled(added.chunks, path) \o ContentOf(added.current, path) = Assembled(added.chunks, path)
      BY <3>2, <3>3, Neutral, Zenon
    <3> QED BY <3>4 DEF Held
  <2> QED BY <2>6, <2>7, <2>8
<1>10. CASE ~(tokens > MaxTokens)
  <2>1. added.chunks = flushed.chunks /\ added.current = Append(flushed.current, file)
    BY <1>2, <1>3, <1>10 DEF Building
  <2>2. Len(s.chunks) < limit
    BY <1>2, <1>5, <2>1
  <2>3. flushed.current \in Seq(Piece)
    BY <1>2 DEF Building
  <2>4. ContentOf(added.current, path) =
          IF file.path = path THEN ContentOf(flushed.current, path) \o file.content
          ELSE ContentOf(flushed.current, path)
    BY <2>1, <2>3, ContentOfAppend
  <2>5. /\ Assembled(flushed.chunks, path) \in Text
        /\ ContentOf(flushed.current, path) \in Text
    BY <1>2, HeldType
  <2>6. Held(added, path) =
          IF path = file.path THEN Held(flushed, path) \o file.content ELSE Held(flushed, path)
    <3>1. Assembled(flushed.chunks, path) \o (ContentOf(flushed.current, path) \o file.content)
            = (Assembled(flushed.chunks, path) \o ContentOf(flushed.current, path)) \o file.content
      BY <1>7, <2>5, Associative, Zenon
    <3> HIDE DEF added
    <3> QED BY <2>1, <2>4, <3>1, Zenon DEF Held
  <2> QED BY <1>6, <2>2, <2>6
<1> QED BY <1>9, <1>10

(* No path is loaded twice.                                                *)
DistinctPaths(files) ==
  \A i, j \in 1 .. Len(files) : i # j => files[i].path # files[j].path

(* All files are held whole, if there is room in the end.                  *)
LEMMA AddFilesHold ==
  ASSUME NEW files \in Seq(Piece), NEW limit \in Nat, DistinctPaths(files), NEW i \in 1 .. Len(files)
  PROVE  /\ AddFiles(files, limit) \in Building
         /\ Len(AddFiles(files, limit).chunks) < limit =>
              Held(AddFiles(files, limit), files[i].path) = files[i].content
<1> DEFINE n == Len(files)
           path == files[i].path
           content == files[i].content
<1>1. n \in Nat /\ i \in 1 .. n /\ files[i] \in Piece /\ content \in Text
  <2>1. n \in Nat /\ i \in 1 .. n /\ files[i] \in Piece
    OBVIOUS
  <2> QED BY <2>1 DEF Piece
<1>2. PICK acc : /\ acc[0] = [chunks |-> <<>>, current |-> <<>>, tokens |-> 0]
                 /\ acc[n] = AddFiles(files, limit)
                 /\ \A k \in 1 .. n : acc[k] = AddFile(acc[k - 1], files[k], limit)
  BY AddFilesSteps
<1> DEFINE Right(k) == Len(acc[k].chunks) < limit =>
                         Held(acc[k], path) = IF i <= k THEN content ELSE <<>>
           S == {k \in 0 .. n : acc[k] \in Building /\ Right(k)}
<1> HIDE DEF n, path, content
<1>3. 0 \in S
  <2>1. <<>> \in Seq(Chunk) /\ <<>> \in Seq(Piece) /\ <<>> \in Text
    BY EmptySeq DEF Text
  <2>2. acc[0] \in Building
    BY <1>2, <2>1 DEF Building
  <2>3. Assembled(acc[0].chunks, path) = <<>> /\ ContentOf(acc[0].current, path) = <<>>
    BY <1>2, AssembledEmpty, ContentOfEmpty
  <2>4. Held(acc[0], path) = <<>>
    BY <2>1, <2>3, Neutral, Zenon DEF Held
  <2>5. ~(i <= 0) /\ 0 \in 0 .. n
    BY <1>1
  <2> QED BY <2>2, <2>4, <2>5
<1>4. ASSUME NEW k \in 1 .. n, k - 1 \in S
      PROVE  k \in S
  <2>1. acc[k - 1] \in Building /\ Right(k - 1) /\ files[k] \in Piece /\ k \in 0 .. n
    BY <1>1, <1>4 DEF n
  <2>2. acc[k] = AddFile(acc[k - 1], files[k], limit)
    BY <1>2
  <2>3. acc[k] \in Building
    BY <2>1, <2>2, AddFileType
  <2>4. ASSUME Len(acc[k].chunks) < limit
        PROVE  Held(acc[k], path) = IF i <= k THEN content ELSE <<>>
    <3>1. /\ Len(acc[k - 1].chunks) < limit
          /\ Held(acc[k], path) = IF path = files[k].path THEN Held(acc[k - 1], path) \o files[k].content
                                  ELSE Held(acc[k - 1], path)
      <4>1. Len(AddFile(acc[k - 1], files[k], limit).chunks) < limit
        BY <2>2, <2>4
      <4>2. acc[k - 1] \in Building /\ files[k] \in Piece
        BY <2>1
      <4> HIDE DEF Right, S
      <4>3. /\ Len(acc[k - 1].chunks) < limit
            /\ Held(AddFile(acc[k - 1], files[k], limit), path) =
                 IF path = files[k].path THEN Held(acc[k - 1], path) \o files[k].content
                 ELSE Held(acc[k - 1], path)
        BY <4>1, <4>2, AddFileHolds, Zenon
      <4> QED BY <2>2, <4>3
    <3>2. Held(acc[k - 1], path) = IF i <= k - 1 THEN content ELSE <<>>
      BY <2>1, <3>1
    <3>3. path = files[k].path <=> i = k
      BY <1>1 DEF DistinctPaths, path, n
    <3>4. CASE i = k
      <4>1. Held(acc[k - 1], path) = <<>> /\ files[k].content = content
        BY <1>1, <3>2, <3>4 DEF content
      <4>2. Held(acc[k - 1], path) \o content = content
        BY <1>1, <4>1, Neutral, Zenon
      <4> QED BY <3>1, <3>3, <3>4, <4>1, <4>2
    <3>5. CASE i # k
      <4>1. i <= k <=> i <= k - 1
        BY <1>1, <3>5
      <4> QED BY <3>1, <3>2, <3>3, <3>5, <4>1
    <3> QED BY <3>4, <3>5
  <2> QED BY <2>1, <2>3, <2>4
<1>5. n \in S
  <2> HIDE DEF S
  <2>1. 0 .. n \subseteq S
    BY <1>1, <1>3, <1>4, InductUpTo
  <2> QED BY <1>1, <2>1
<1>6. i <= n
  BY <1>1
<1> QED BY <1>2, <1>5, <1>6 DEF path, content

(* Chunks below their limit contain every file whole.                      *)
LEMMA BuildKeeps ==
  ASSUME NEW files \in Seq(Piece), NEW limit \in Nat, DistinctPaths(files),
         Len(Build(files, limit)) < limit, NEW i \in 1 .. Len(files)
  PROVE  Assembled(Build(files, limit), files[i].path) = files[i].content
<1> DEFINE s == AddFiles(files, limit)
           last == Flush(s, limit)
           path == files[i].path
<1>1. s \in Building /\ Build(files, limit) = last.chunks
  BY AddFilesHold DEF Build
<1> HIDE DEF s
<1>2. last \in Building /\ Len(s.chunks) \in Nat /\ Len(last.chunks) \in Nat
  <2>1. last \in Building
    BY <1>1, FlushType
  <2> HIDE DEF last
  <2> QED BY <1>1, <2>1 DEF Building
<1>3. Len(s.chunks) < limit
  <2>1. Len(s.chunks) <= Len(last.chunks)
    BY <1>1, FlushGrows
  <2>2. Len(last.chunks) < limit
    BY <1>1
  <2> HIDE DEF last
  <2> QED BY <1>2, <2>1, <2>2
<1>4. Assembled(last.chunks, path) = Held(s, path)
  BY <1>1, <1>3, FlushHolds
<1>5. Held(s, path) = files[i].content
  BY <1>3, AddFilesHold DEF s
<1> HIDE DEF last
<1> QED BY <1>1, <1>4, <1>5

(* What analyze loads of an archive: files with different paths, as        *)
(* readdir lists each path once.                                           *)
LEMMA LoadedFiles ==
  ASSUME NEW archive, \A p \in DOMAIN archive : archive[p] \in Text
  PROVE  /\ LoadFiles(archive) \in Seq(Piece)
         /\ DistinctPaths(LoadFiles(archive))
<1> DEFINE n == Len(Walk)
           file(p) == [path |-> p, content |-> NumberLines(Redact(archive[p]))]
<1>1. /\ n \in Nat /\ \A k \in 1 .. n : Walk[k] \in Paths
      /\ \A j, k \in 1 .. n : Walk[j] = Walk[k] => j = k
  BY ChunkAssumption DEF Paths, IsInjective
<1>2. PICK acc : /\ acc[0] = <<>>
                 /\ acc[n] = LoadFiles(archive)
                 /\ \A k \in 1 .. n :
                      acc[k] = IF Walk[k] \in DOMAIN archive \ Excluded
                               THEN Append(acc[k - 1], file(Walk[k])) ELSE acc[k - 1]
  BY LoadFilesSteps
<1> DEFINE Known(files, k) == \A i \in 1 .. Len(files) : \E w \in 1 .. k : files[i].path = Walk[w]
           S == {k \in 0 .. n : /\ acc[k] \in Seq(Piece)
                                /\ DistinctPaths(acc[k])
                                /\ Known(acc[k], k)}
<1> HIDE DEF n
<1>3. 0 \in S
  <2>1. acc[0] = <<>> /\ 0 \in 0 .. n
    BY <1>1, <1>2
  <2>2. <<>> \in Seq(Piece) /\ DistinctPaths(<<>>) /\ Known(<<>>, 0)
    BY DEF DistinctPaths
  <2> HIDE DEF Known
  <2> QED BY <2>1, <2>2
<1>4. ASSUME NEW k \in 1 .. n, k - 1 \in S
      PROVE  k \in S
  <2>1. /\ acc[k - 1] \in Seq(Piece) /\ DistinctPaths(acc[k - 1]) /\ Known(acc[k - 1], k - 1)
        /\ k \in 0 .. n
    BY <1>1, <1>4
  <2>2. Known(acc[k - 1], k)
    BY <1>1, <2>1
  <2>3. CASE Walk[k] \in DOMAIN archive \ Excluded
    <3> DEFINE new == file(Walk[k])
               m == Len(acc[k - 1])
    <3>1. new \in Piece /\ new.path = Walk[k]
      <4>1. Redact(archive[Walk[k]]) \in Text
        BY <2>3, ReplaceAllType DEF Redact, Char
      <4> QED BY <1>1, <4>1, NumberLinesType DEF Piece
    <3> HIDE DEF file
    <3>2. acc[k] = Append(acc[k - 1], new)
      BY <1>2, <2>3
    <3> HIDE DEF new
    <3>3. /\ m \in Nat /\ Len(acc[k]) = m + 1 /\ acc[k] \in Seq(Piece)
          /\ \A i \in 1 .. m : acc[k][i] = acc[k - 1][i]
          /\ acc[k][m + 1] = new
      BY <2>1, <3>1, <3>2, AppendProperties
    <3> HIDE DEF m
    <3>4. \A i \in 1 .. m : acc[k][i].path # Walk[k]
      <4> TAKE i \in 1 .. m
      <4>1. PICK w \in 1 .. k - 1 : acc[k - 1][i].path = Walk[w]
        BY <2>1 DEF m
      <4> QED BY <1>1, <3>3, <4>1
    <3>5. \A i, j \in 1 .. m : i # j => acc[k][i].path # acc[k][j].path
      BY <2>1, <3>3 DEF DistinctPaths, m
    <3>6. DistinctPaths(acc[k])
      <4> SUFFICES ASSUME NEW i \in 1 .. m + 1, NEW j \in 1 .. m + 1, i # j
                   PROVE  acc[k][i].path # acc[k][j].path
        BY <3>3 DEF DistinctPaths
      <4> QED BY <3>1, <3>3, <3>4, <3>5
    <3>7. Known(acc[k], k)
      <4> SUFFICES ASSUME NEW i \in 1 .. m + 1
                   PROVE  \E w \in 1 .. k : acc[k][i].path = Walk[w]
        BY <3>3
      <4>1. CASE i = m + 1
        BY <3>1, <3>3, <4>1
      <4>2. CASE i \in 1 .. m
        BY <2>2, <3>3, <4>2 DEF m
      <4> QED BY <3>3, <4>1, <4>2
    <3> QED BY <2>1, <3>3, <3>6, <3>7
  <2>4. CASE Walk[k] \notin DOMAIN archive \ Excluded
    <3>1. acc[k] = acc[k - 1]
      BY <1>2, <2>4
    <3> QED BY <2>1, <2>2, <3>1
  <2> QED BY <2>3, <2>4
<1>5. n \in S
  <2> HIDE DEF S
  <2>1. 0 .. n \subseteq S
    BY <1>1, <1>3, <1>4, InductUpTo
  <2> QED BY <1>1, <2>1
<1> QED BY <1>2, <1>5

-----------------------------------------------------------------------------
(* The state.                                                              *)

(* An upload.                                                              *)
UploadRow == [files : Archives, row : BOOLEAN, object : BOOLEAN]

(* The issues an upload may have, those of no review included.             *)
SomeIssues == Reviews \cup {<<>>}

(* The findings a report may have.                                         *)
SomeFindings == {Deduplicate(issues) : issues \in SomeIssues}

(* The patches a request may hold.                                         *)
SomePatches ==
  {<<>>} \cup UNION {PatchMaps(a, findings) : a \in Archives, findings \in SomeFindings}

(* The archive a request may serve.                                        *)
SomeZips == {RewriteZip(a, patches) : a \in Archives, patches \in SomePatches} \cup {<<>>}

(* The inductive invariant: the uploads;                                   *)
UploadsRecorded ==
  /\ version \in Seq(UploadRow)
  /\ Len(version) <= MaxVersions

(* stored chunks are those of the upload's own files;                      *)
ChunksCurrent ==
  /\ DOMAIN context = Versions
  /\ \A v \in Versions :
       context[v].chunks # <<>> =>
         /\ v \in Uploads
         /\ context[v].chunks = Build(LoadFiles(version[v].files), MaxChunks)

(* a report that is listed belongs to an upload, and the findings of one   *)
(* that is ready are what is left of the provider's issues, unless newer   *)
(* issues await the next report;                                           *)
FindingsCurrent ==
  /\ results \in [Versions -> [issues : SomeIssues, pending : BOOLEAN]]
  /\ report \in [Versions -> [state : {"none", "READY", "FAILED", "removed"},
                              created : Nat, findings : SomeFindings]]
  /\ Listed \subseteq Uploads
  /\ \A v \in Versions :
       report[v].state = "READY" /\ ~results[v].pending =>
         report[v].findings = Deduplicate(results[v].issues)

(* and a request holds the patches of the report it began with, and serves *)
(* the archive of the upload it found latest, rewritten with them.         *)
ExportsCurrent ==
  /\ export \in [Exports -> [pc : ExportPoint, of : Nat, findings : SomeFindings,
                             patches : SomePatches, latest : Nat, zip : SomeZips]]
  /\ \A x \in Exports :
       /\ export[x].pc \in {"upload", "latest", "row", "download", "served"} =>
            /\ export[x].of \in Uploads
            /\ export[x].patches \in PatchMaps(version[export[x].of].files, export[x].findings)
       /\ export[x].pc \in {"row", "download", "served"} => export[x].latest \in Uploads
       /\ export[x].pc = "served" =>
            export[x].zip = RewriteZip(version[export[x].latest].files, export[x].patches)

Recorded ==
  /\ UploadsRecorded
  /\ ChunksCurrent
  /\ FindingsCurrent
  /\ ExportsCurrent

(* It holds in the beginning.                                              *)
LEMMA RecordedFirst ==
  Init => Recorded
<1> SUFFICES ASSUME Init PROVE Recorded
  OBVIOUS
<1>1. MaxVersions \in Nat
  BY ReportsAssumption
<1>2. UploadsRecorded
  BY <1>1 DEF Init, UploadsRecorded
<1>3. ChunksCurrent
  BY DEF Init, ChunksCurrent, NoContext
<1>4. FindingsCurrent
  <2>1. <<>> \in SomeFindings /\ <<>> \in SomeIssues
    BY DeduplicateEmpty DEF SomeFindings, SomeIssues
  <2> QED BY <2>1 DEF Init, FindingsCurrent, NoResults, NoReport, Listed
<1>5. ExportsCurrent
  <2>1. <<>> \in SomeFindings
    BY DeduplicateEmpty DEF SomeFindings, SomeIssues
  <2>2. <<>> \in SomePatches /\ <<>> \in SomeZips
    BY DEF SomePatches, SomeZips
  <2>3. NewExport \in [pc : ExportPoint, of : Nat, findings : SomeFindings,
                       patches : SomePatches, latest : Nat, zip : SomeZips]
    BY <2>1, <2>2 DEF NewExport, ExportPoint
  <2> QED BY <2>3 DEF Init, ExportsCurrent, NewExport
<1> QED BY <1>2, <1>3, <1>4, <1>5 DEF Recorded

(* Uploads are numbered, and have files.                                   *)
LEMMA UploadsKnown ==
  ASSUME UploadsRecorded
  PROVE  /\ Uploads \subseteq Versions /\ Uploads \subseteq Nat
         /\ \A v \in Uploads : version[v] \in UploadRow /\ version[v].files \in Archives
<1>1. MaxVersions \in Nat
  BY ReportsAssumption
<1>2. Uploads \subseteq Versions /\ Uploads \subseteq Nat
  BY <1>1 DEF UploadsRecorded, Uploads, Versions
<1>3. \A v \in Uploads : version[v] \in UploadRow
  BY DEF UploadsRecorded, Uploads
<1> QED BY <1>2, <1>3 DEF UploadRow

(* No step takes an upload away or changes its files.                      *)
LEMMA UploadsKept ==
  ASSUME UploadsRecorded, Next
  PROVE  /\ UploadsRecorded'
         /\ Uploads \subseteq Uploads'
         /\ \A v \in Uploads : version'[v].files = version[v].files
<1> USE DEF UploadsRecorded, Uploads
<1>1. ASSUME NEW files \in Archives, Upload(files)
      PROVE  /\ UploadsRecorded'
             /\ Uploads \subseteq Uploads'
             /\ \A v \in Uploads : version'[v].files = version[v].files
  <2> DEFINE new == [files |-> files, row |-> TRUE, object |-> TRUE]
  <2>1. new \in UploadRow
    BY DEF UploadRow
  <2>2. version' = Append(version, new) /\ Len(version) < MaxVersions
    BY <1>1 DEF Upload
  <2> HIDE DEF new
  <2>3. /\ version' \in Seq(UploadRow) /\ Len(version') = Len(version) + 1
        /\ \A v \in 1 .. Len(version) : version'[v] = version[v]
    BY <2>1, <2>2, AppendProperties
  <2>4. Len(version) \in Nat /\ MaxVersions \in Nat
    BY ReportsAssumption
  <2> QED BY <2>2, <2>3, <2>4
<1>2. ASSUME NEW v \in Uploads, RemoveObject(v) \/ RemoveRow(v)
      PROVE  /\ UploadsRecorded'
             /\ Uploads \subseteq Uploads'
             /\ \A w \in Uploads : version'[w].files = version[w].files
  <2>1. version[v] \in UploadRow
    OBVIOUS
  <2>2. \/ version' = [version EXCEPT ![v] = [version[v] EXCEPT !.object = FALSE]]
        \/ version' = [version EXCEPT ![v] = [version[v] EXCEPT !.row = FALSE]]
    BY <1>2 DEF RemoveObject, RemoveRow
  <2>3. /\ [version[v] EXCEPT !.object = FALSE] \in UploadRow
        /\ [version[v] EXCEPT !.object = FALSE].files = version[v].files
        /\ [version[v] EXCEPT !.row = FALSE] \in UploadRow
        /\ [version[v] EXCEPT !.row = FALSE].files = version[v].files
    BY <2>1 DEF UploadRow
  <2>4. PICK row \in UploadRow : row.files = version[v].files /\ version' = [version EXCEPT ![v] = row]
    BY <2>2, <2>3
  <2>5. /\ version' \in Seq(UploadRow) /\ Len(version') = Len(version)
        /\ \A w \in 1 .. Len(version) : version'[w] = IF w = v THEN row ELSE version[w]
    BY <2>4, ExceptSeq
  <2> QED BY <2>4, <2>5
<1>3. CASE UNCHANGED version
  BY <1>3
<1>4. \/ \E files \in Archives : Upload(files)
      \/ \E v \in Uploads : RemoveObject(v) \/ RemoveRow(v)
      \/ UNCHANGED version
  BY DEF Next, saveReport, failReport, removeReport, analyze, exportPatchedZip, ExportReport, ExportUpload,
         ExportLatest, ExportRow, ExportDownload, Refuse, Goto
<1> QED BY <1>1, <1>2, <1>3, <1>4

(* No step leaves chunks of other files.                                   *)
LEMMA ChunksKept ==
  ASSUME Recorded, Next
  PROVE  ChunksCurrent'
<1>1. /\ Uploads \subseteq Uploads' /\ \A v \in Uploads : version'[v].files = version[v].files
      /\ Uploads \subseteq Versions
  <2>1. Uploads \subseteq Versions
    BY UploadsKnown DEF Recorded
  <2> QED BY <2>1, UploadsKept DEF Recorded
<1>2. CASE UNCHANGED context
  BY <1>1, <1>2 DEF ChunksCurrent, Recorded
<1>3. ASSUME NEW v \in Uploads, NEW merge \in Merging, NEW answer \in Selections, NEW issues \in Reviews,
             analyze(v, merge, answer, issues)
      PROVE  ChunksCurrent'
  <2> DEFINE chunks == Build(LoadFiles(version[v].files), MaxChunks)
             new == [chunks |-> chunks,
                     sent |-> IF merge THEN SentMerged(answer, chunks, LoadFiles(version[v].files))
                              ELSE SentSeparately(chunks)]
  <2>1. context' = [context EXCEPT ![v] = new] /\ UNCHANGED version
    BY <1>3 DEF analyze
  <2>2. new.chunks = chunks
    OBVIOUS
  <2> HIDE DEF new
  <2>3. Uploads' = Uploads
    BY <2>1 DEF Uploads
  <2>4. \A w \in Versions : context'[w] = IF w = v THEN new ELSE context[w]
    BY <2>1 DEF Recorded, ChunksCurrent
  <2>5. DOMAIN context' = Versions
    BY <2>1 DEF Recorded, ChunksCurrent
  <2> QED BY <2>1, <2>2, <2>3, <2>4, <2>5 DEF Recorded, ChunksCurrent
<1>4. \/ UNCHANGED context
      \/ \E v \in Uploads, merge \in Merging, answer \in Selections, issues \in Reviews :
           analyze(v, merge, answer, issues)
  BY DEF Next, Upload, RemoveObject, RemoveRow, saveReport, failReport, removeReport, exportPatchedZip, ExportReport,
         ExportUpload, ExportLatest, ExportRow, ExportDownload, Refuse, Goto
<1> QED BY <1>2, <1>3, <1>4

(* Reports can be counted.                                                 *)
LEMMA ReportedFinite ==
  Cardinality(Reported) \in Nat
<1>1. IsFiniteSet(Versions)
  BY ReportsAssumption, FS_Interval DEF Versions
<1>2. IsFiniteSet(Reported)
  BY <1>1, FS_Subset DEF Reported
<1> QED BY <1>2, FS_CardinalityType

(* No step leaves findings of other issues.                                *)
LEMMA FindingsKept ==
  ASSUME Recorded, Next
  PROVE  FindingsCurrent'
<1>1. Uploads \subseteq Uploads' /\ Uploads \subseteq Versions
  <2>1. Uploads \subseteq Versions
    BY UploadsKnown DEF Recorded
  <2> QED BY <2>1, UploadsKept DEF Recorded
<1>2. CASE UNCHANGED <<results, report>>
  BY <1>1, <1>2 DEF Recorded, FindingsCurrent, Listed
<1>3. ASSUME NEW v \in Uploads, NEW merge \in Merging, NEW answer \in Selections, NEW issues \in Reviews,
             analyze(v, merge, answer, issues)
      PROVE  FindingsCurrent'
  <2>1. results' = [results EXCEPT ![v] = [issues |-> issues, pending |-> TRUE]] /\ UNCHANGED report
    BY <1>3 DEF analyze
  <2>2. issues \in SomeIssues
    BY DEF SomeIssues
  <2> QED BY <1>1, <2>1, <2>2 DEF Recorded, FindingsCurrent, Listed
<1>4. ASSUME NEW v \in Uploads, saveReport(v)
      PROVE  FindingsCurrent'
  <2> DEFINE created == IF report[v].created > 0 THEN report[v].created ELSE Cardinality(Reported) + 1
             findings == Deduplicate(results[v].issues)
  <2>1. /\ results' = [results EXCEPT ![v] = [results[v] EXCEPT !.pending = FALSE]]
        /\ report' = [report EXCEPT ![v] = [state |-> "READY", created |-> created, findings |-> findings]]
    BY <1>4 DEF saveReport
  <2>2. created \in Nat
    BY <1>1, ReportedFinite DEF Recorded, FindingsCurrent
  <2>3. findings \in SomeFindings
    BY <1>1 DEF Recorded, FindingsCurrent, SomeFindings
  <2>4. /\ [results[v] EXCEPT !.pending = FALSE] \in [issues : SomeIssues, pending : BOOLEAN]
        /\ [results[v] EXCEPT !.pending = FALSE].issues = results[v].issues
    BY <1>1 DEF Recorded, FindingsCurrent
  <2>5. ASSUME NEW w \in Versions
        PROVE  /\ results'[w].issues = results[w].issues
               /\ w # v => results'[w] = results[w] /\ report'[w] = report[w]
               /\ w = v => report'[w].findings = findings
    BY <1>1, <2>1, <2>4 DEF Recorded, FindingsCurrent
  <2>6. /\ results' \in [Versions -> [issues : SomeIssues, pending : BOOLEAN]]
        /\ report' \in [Versions -> [state : {"none", "READY", "FAILED", "removed"},
                                     created : Nat, findings : SomeFindings]]
    <3> HIDE DEF created, findings
    <3> QED BY <2>1, <2>2, <2>3, <2>4 DEF Recorded, FindingsCurrent
  <2> HIDE DEF created
  <2>7. Listed' \subseteq Uploads'
    BY <1>1, <2>5 DEF Recorded, FindingsCurrent, Listed
  <2> QED BY <2>5, <2>6, <2>7 DEF Recorded, FindingsCurrent
<1>5. ASSUME NEW v \in Uploads, removeReport(v)
      PROVE  FindingsCurrent'
  <2>1. report' = [report EXCEPT ![v] = [report[v] EXCEPT !.state = "removed"]] /\ UNCHANGED results
    BY <1>5 DEF removeReport
  <2> QED BY <1>1, <2>1 DEF Recorded, FindingsCurrent, Listed
<1>6. ASSUME NEW v \in Uploads, failReport(v)
      PROVE  FindingsCurrent'
  <2> DEFINE state == IF report[v].state = "removed" THEN "removed" ELSE "FAILED"
             created == IF report[v].created > 0 THEN report[v].created ELSE Cardinality(Reported) + 1
             failed == [report[v] EXCEPT !.state = state, !.created = created]
  <2>1. /\ results' = [results EXCEPT ![v] = [results[v] EXCEPT !.pending = FALSE]]
        /\ report' = [report EXCEPT ![v] = failed]
    BY <1>6 DEF failReport
  <2>2. created \in Nat
    BY <1>1, ReportedFinite DEF Recorded, FindingsCurrent
  <2>3. /\ [results[v] EXCEPT !.pending = FALSE] \in [issues : SomeIssues, pending : BOOLEAN]
        /\ failed \in [state : {"none", "READY", "FAILED", "removed"},
                       created : Nat, findings : SomeFindings]
        /\ failed.state # "READY"
    <3> HIDE DEF created
    <3> QED BY <1>1, <2>2 DEF Recorded, FindingsCurrent
  <2> HIDE DEF failed
  <2>4. ASSUME NEW w \in Versions
        PROVE  /\ w # v => results'[w] = results[w] /\ report'[w] = report[w]
               /\ w = v => report'[w] = failed
    BY <2>1 DEF Recorded, FindingsCurrent
  <2>5. /\ results' \in [Versions -> [issues : SomeIssues, pending : BOOLEAN]]
        /\ report' \in [Versions -> [state : {"none", "READY", "FAILED", "removed"},
                                     created : Nat, findings : SomeFindings]]
    BY <2>1, <2>3 DEF Recorded, FindingsCurrent
  <2>6. Listed' \subseteq Uploads'
    BY <1>1, <2>4 DEF Recorded, FindingsCurrent, Listed
  <2> QED BY <2>3, <2>4, <2>5, <2>6 DEF Recorded, FindingsCurrent
<1>7. \/ UNCHANGED <<results, report>>
      \/ \E v \in Uploads, merge \in Merging, answer \in Selections, issues \in Reviews :
           analyze(v, merge, answer, issues)
      \/ \E v \in Uploads : saveReport(v) \/ failReport(v) \/ removeReport(v)
  BY DEF Next, Upload, RemoveObject, RemoveRow, exportPatchedZip, ExportReport,
         ExportUpload, ExportLatest, ExportRow, ExportDownload, Refuse, Goto
<1> QED BY <1>2, <1>3, <1>4, <1>5, <1>6, <1>7

(* No step leaves a request with patches of another report, or another     *)
(* archive.                                                                *)
LEMMA ExportsKept ==
  ASSUME Recorded, Next
  PROVE  ExportsCurrent'
<1> DEFINE Request == [pc : ExportPoint, of : Nat, findings : SomeFindings,
                          patches : SomePatches, latest : Nat, zip : SomeZips]
           Right(e) ==
             /\ e.pc \in {"upload", "latest", "row", "download", "served"} =>
                  /\ e.of \in Uploads
                  /\ e.patches \in PatchMaps(version[e.of].files, e.findings)
             /\ e.pc \in {"row", "download", "served"} => e.latest \in Uploads
             /\ e.pc = "served" => e.zip = RewriteZip(version[e.latest].files, e.patches)
<1>1. /\ Uploads \subseteq Uploads' /\ \A v \in Uploads : version'[v].files = version[v].files
  BY UploadsKept DEF Recorded
<1>2. /\ Uploads \subseteq Versions /\ Uploads \subseteq Nat
      /\ \A v \in Uploads : version[v].files \in Archives
  BY UploadsKnown DEF Recorded
<1>3. export \in [Exports -> Request] /\ \A x \in Exports : Right(export[x])
  BY DEF Recorded, ExportsCurrent
<1>4. CASE UNCHANGED export
  BY <1>1, <1>3, <1>4 DEF ExportsCurrent
<1>5. ASSUME NEW x \in Exports, NEW e \in Request, Right(e), Goto(x, e)
      PROVE  ExportsCurrent'
  <2>1. export' = [export EXCEPT ![x] = e] /\ UNCHANGED version
    BY <1>5 DEF Goto
  <2>2. Uploads' = Uploads
    BY <2>1 DEF Uploads
  <2>3. export' \in [Exports -> Request] /\ \A y \in Exports : Right(export'[y])
    <3> HIDE DEF Request, Right
    <3> QED BY <1>3, <1>5, <2>1
  <2> QED BY <2>1, <2>2, <2>3 DEF ExportsCurrent
<1> HIDE DEF Request, Right
<1>6. ASSUME NEW x \in Exports, exportPatchedZip(x)
      PROVE  \E e \in Request : Right(e) /\ Goto(x, e)
  <2> DEFINE old == export[x]
  <2>1. old \in Request /\ Right(old)
    BY <1>3
  <2> HIDE DEF old
  <2> USE DEF Request, Right
  <2>2. CASE ExportReport(x)
    <3>1. PICK v \in Uploads : \E patches \in PatchMaps(version[v].files, report[v].findings) :
            Goto(x, [old EXCEPT !.pc = "upload", !.of = v, !.patches = patches,
                                !.findings = report[v].findings])
      BY <2>2 DEF ExportReport, old, Recorded, FindingsCurrent
    <3>5. PICK patches \in PatchMaps(version[v].files, report[v].findings) :
            Goto(x, [old EXCEPT !.pc = "upload", !.of = v, !.patches = patches,
                                !.findings = report[v].findings])
      BY <3>1
    <3>2. report[v].findings \in SomeFindings
      BY <1>2 DEF Recorded, FindingsCurrent
    <3>3. patches \in SomePatches
      BY <1>2, <3>2 DEF SomePatches
    <3> DEFINE e == [old EXCEPT !.pc = "upload", !.of = v, !.patches = patches,
                                !.findings = report[v].findings]
    <3>4. e \in Request /\ Right(e)
      BY <1>2, <2>1, <3>2, <3>3 DEF ExportPoint
    <3> QED BY <3>5, <3>4
  <2>3. CASE Refuse(x)
    <3> DEFINE e == [old EXCEPT !.pc = "refused"]
    <3>1. e \in Request /\ Right(e)
      BY <2>1 DEF ExportPoint
    <3> QED BY <2>3, <3>1 DEF Refuse, old
  <2>4. CASE ExportUpload(x) /\ ~Refuse(x)
    <3> DEFINE e == [old EXCEPT !.pc = "latest"]
    <3>1. e \in Request /\ Right(e)
      BY <2>1, <2>4 DEF ExportPoint, ExportUpload, old
    <3> QED BY <2>4, <3>1 DEF ExportUpload, old
  <2>5. CASE ExportLatest(x) /\ ~Refuse(x)
    <3>1. PICK v \in Latest : Goto(x, [old EXCEPT !.pc = "row", !.latest = v])
      BY <2>5 DEF ExportLatest, old
    <3>2. v \in Uploads
      BY DEF Latest, Recorded, FindingsCurrent
    <3> DEFINE e == [old EXCEPT !.pc = "row", !.latest = v]
    <3>3. e \in Request /\ Right(e)
      BY <1>2, <2>1, <2>5, <3>2 DEF ExportPoint, ExportLatest, old
    <3> QED BY <3>1, <3>3
  <2>6. CASE ExportRow(x) /\ ~Refuse(x)
    <3> DEFINE e == [old EXCEPT !.pc = "download"]
    <3>1. e \in Request /\ Right(e)
      BY <2>1, <2>6 DEF ExportPoint, ExportRow, old
    <3> QED BY <2>6, <3>1 DEF ExportRow, old
  <2>7. CASE ExportDownload(x) /\ ~Refuse(x)
    <3> DEFINE zip == RewriteZip(version[old.latest].files, old.patches)
               e == [old EXCEPT !.pc = "served", !.zip = zip]
    <3>1. Goto(x, e) /\ old.pc = "download"
      BY <2>7 DEF ExportDownload, old
    <3>2. zip \in SomeZips
      BY <1>2, <2>1, <3>1 DEF SomeZips
    <3>3. e \in Request /\ Right(e)
      BY <2>1, <3>1, <3>2 DEF ExportPoint
    <3> QED BY <3>1, <3>3
  <2> QED BY <1>6, <2>2, <2>3, <2>4, <2>5, <2>6, <2>7 DEF exportPatchedZip
<1>7. UNCHANGED export \/ \E x \in Exports : exportPatchedZip(x)
  BY DEF Next, Upload, RemoveObject, RemoveRow, analyze, saveReport, failReport, removeReport
<1> QED BY <1>4, <1>5, <1>6, <1>7

(* The invariant holds in every state.                                     *)
THEOREM ReportsRecorded ==
  Spec => []Recorded
<1>1. ASSUME Recorded, [Next]_vars
      PROVE  Recorded'
  <2>1. CASE UNCHANGED vars
    BY <2>1, <1>1 DEF vars, Recorded, UploadsRecorded, ChunksCurrent, FindingsCurrent, ExportsCurrent, Uploads, Listed
  <2>2. CASE Next
    BY <2>2, <1>1, UploadsKept, ChunksKept, FindingsKept, ExportsKept DEF Recorded
  <2> QED BY <1>1, <2>1, <2>2
<1> QED BY <1>1, RecordedFirst, PTL DEF Spec

(* The files of an upload are texts.                                       *)
LEMMA ArchiveTexts ==
  ASSUME NEW files \in Archives
  PROVE  \A p \in DOMAIN files : files[p] \in Text
<1> SUFFICES ASSUME NEW p \in DOMAIN files PROVE files[p] \in Text
  OBVIOUS
<1>1. files \in [DOMAIN files -> Seq(STRING)]
  BY ReportsAssumption
<1>2. files[p] \in Seq(STRING) /\ STRING \subseteq Char
  BY <1>1 DEF Char
<1> QED BY <1>2, SeqMonotonic DEF Text

(* Chunks that leave room under their limit contain every loaded file      *)
(* whole and once (ChunkBuilderService.build, analyze).                    *)
THEOREM ReportsNothingLost ==
  Spec => []NothingLost
<1>1. ASSUME Recorded
      PROVE  NothingLost
  <2> SUFFICES ASSUME NEW v \in Uploads, context[v].chunks # <<>>, Len(context[v].chunks) < MaxChunks,
                      NEW file \in Range(LoadFiles(version[v].files))
               PROVE  Assembled(context[v].chunks, file.path) = file.content
    BY DEF NothingLost
  <2> DEFINE files == LoadFiles(version[v].files)
  <2>1. v \in Versions /\ version[v].files \in Archives
    BY <1>1, UploadsKnown DEF Recorded
  <2>2. context[v].chunks = Build(files, MaxChunks)
    BY <1>1, <2>1 DEF Recorded, ChunksCurrent
  <2>3. files \in Seq(Piece) /\ DistinctPaths(files)
    BY <2>1, ArchiveTexts, LoadedFiles
  <2>4. MaxChunks \in Nat
    BY ChunkAssumption
  <2>5. file \in Range(files)
    OBVIOUS
  <2> HIDE DEF files
  <2>6. PICK i \in 1 .. Len(files) : file = files[i]
    BY <2>3, <2>5, RangeEquality
  <2> QED BY <2>2, <2>3, <2>4, <2>6, BuildKeeps
<1> QED BY <1>1, ReportsRecorded, PTL

(* The findings of a report speak of everything the provider reported, and *)
(* of nothing twice (IssueDeduplicatorService.deduplicate, saveReport).    *)
THEOREM ReportsProblemsKept ==
  Spec => []ProblemsKept
<1>1. ASSUME Recorded
      PROVE  ProblemsKept
  <2> SUFFICES ASSUME NEW v \in Uploads, report[v].state = "READY", ~results[v].pending
               PROVE  Covered(report[v].findings, results[v].issues) /\ Distinct(report[v].findings)
    BY DEF ProblemsKept, Covered, Distinct, Alike
  <2>1. v \in Versions
    BY <1>1, UploadsKnown DEF Recorded
  <2> DEFINE issues == results[v].issues
  <2>2. issues \in SomeIssues /\ report[v].findings = Deduplicate(issues)
    BY <1>1, <2>1 DEF Recorded, FindingsCurrent
  <2> HIDE DEF issues
  <2>3. issues \in Seq(Range(issues)) /\ \A issue \in Range(issues) : IsFiniteSet(issue.words)
    <3>1. CASE issues \in Reviews
      BY <3>1, ReportsAssumption DEF WellFormed
    <3>2. CASE issues = <<>>
      BY <3>2 DEF Range
    <3> QED BY <2>2, <3>1, <3>2 DEF SomeIssues
  <2>4. Covered(Deduplicate(issues), issues) /\ Distinct(Deduplicate(issues))
    <3> DEFINE Issues == Range(issues)
    <3>1. issues \in Seq(Issues) /\ \A issue \in Issues : IsFiniteSet(issue.words)
      BY <2>3
    <3> HIDE DEF Issues
    <3> QED BY <3>1, DeduplicateKeeps
  <2> QED BY <2>2, <2>4 DEF issues
<1> QED BY <1>1, ReportsRecorded, PTL

-----------------------------------------------------------------------------
(* Lines of a text that is changed.                                        *)

(* A character behind the last line changes no other line.                 *)
LEMMA LineGrows ==
  ASSUME NEW lines \in Seq(Text), lines # <<>>, NEW c \in Char
  PROVE  LET longer == Append(Front(lines), Append(Last(lines), c))
         IN  /\ longer \in Seq(Text)
             /\ Len(longer) = Len(lines)
             /\ \A i \in 1 .. Len(lines) :
                  longer[i] = IF i = Len(lines) THEN Append(lines[i], c) ELSE lines[i]
<1> DEFINE front == Front(lines)
           last == Last(lines)
           new == Append(last, c)
           n == Len(lines)
<1>1. front \in Seq(Text) /\ last \in Text /\ Len(front) = n - 1 /\ lines = Append(front, last)
  BY FrontLast
<1>2. new \in Text
  BY <1>1, AppendProperties DEF Text
<1>3. n \in Nat \ {0}
  BY EmptySeq
<1> HIDE DEF front, last, new
<1>4. /\ lines[n] = last
      /\ \A i \in 1 .. n - 1 : lines[i] = front[i]
  <2>1. \A i \in 1 .. Len(front) : Append(front, last)[i] = front[i]
    BY <1>1, AppendProperties
  <2>2. Append(front, last)[Len(front) + 1] = last
    BY <1>1, AppendProperties
  <2>3. Len(front) = n - 1 /\ lines = Append(front, last)
    BY <1>1
  <2> HIDE DEF n
  <2> QED BY <1>3, <2>1, <2>2, <2>3
<1>5. /\ Append(front, new) \in Seq(Text)
      /\ Len(Append(front, new)) = n
      /\ \A i \in 1 .. n - 1 : Append(front, new)[i] = front[i]
      /\ Append(front, new)[n] = new
  <2>1. /\ Append(front, new) \in Seq(Text)
        /\ Len(Append(front, new)) = Len(front) + 1
        /\ \A i \in 1 .. Len(front) : Append(front, new)[i] = front[i]
        /\ Append(front, new)[Len(front) + 1] = new
    BY <1>1, <1>2, AppendProperties
  <2>2. Len(front) = n - 1
    BY <1>1
  <2> HIDE DEF n
  <2> QED BY <1>3, <2>1, <2>2
<1>6. ASSUME NEW i \in 1 .. n
      PROVE  Append(front, new)[i] = IF i = n THEN Append(lines[i], c) ELSE lines[i]
  BY <1>3, <1>4, <1>5 DEF new
<1> QED BY <1>5, <1>6 DEF front, last, new

(* A character behind a concatenation is one behind its second part.       *)
LEMMA AppendedBehind ==
  ASSUME NEW text \in Text, NEW more \in Text, NEW c \in Char
  PROVE  Append(text \o more, c) = text \o Append(more, c)
<1> DEFINE one == <<c>>
<1>1. one \in Text /\ text \o more \in Text
  BY ConcatProperties DEF Text
<1>2. Append(more, c) = more \o one /\ Append(text \o more, c) = (text \o more) \o one
  BY <1>1, AppendIsConcat DEF Text
<1> HIDE DEF one
<1>3. (text \o more) \o one = text \o (more \o one)
  BY <1>1, Associative
<1> QED BY <1>2, <1>3

(* The lines of a text and of what is put behind it.                       *)
Continued(lines, more, all) ==
  /\ Len(all) = Len(lines) + Len(more) - 1
  /\ \A i \in 1 .. Len(lines) - 1 : all[i] = lines[i]
  /\ all[Len(lines)] = lines[Len(lines)] \o more[1]
  /\ \A i \in 2 .. Len(more) : all[Len(lines) + i - 1] = more[i]

(* The last line of a text and the first of what is put behind it become   *)
(* one; all others stay.                                                   *)
LEMMA LinesConcat ==
  ASSUME NEW text \in Text, NEW more \in Text
  PROVE  Continued(Lines(text), Lines(more), Lines(text \o more))
<1> DEFINE L == Lines(text)
           a == Len(L)
           S == {t \in Text : Continued(L, Lines(t), Lines(text \o t))}
<1>1. L \in Seq(Text) /\ L # <<>> /\ a \in Nat \ {0} /\ L[a] \in Text
  <2>1. L \in Seq(Text) /\ L # <<>>
    BY LinesType
  <2>2. a \in Nat \ {0}
    BY <2>1, EmptySeq
  <2> HIDE DEF L
  <2> QED BY <2>1, <2>2
<1> HIDE DEF L
<1>2. <<>> \in S
  <2>1. Lines(<<>>) = << <<>> >> /\ text \o <<>> = text /\ <<>> \in Text
    BY LinesEmpty, ConcatEmptySeq, EmptySeq DEF Text
  <2>2. L[a] \o <<>> = L[a]
    BY <1>1, <2>1, Neutral
  <2> DEFINE one == << <<>> >>
             none == <<>>
  <2>3. one[1] = none /\ Len(one) = 1 /\ L[a] \o none = L[a]
    BY <2>2
  <2> HIDE DEF one, none
  <2>4. Continued(L, one, L)
    <3>1. L[a] = L[a] \o one[1]
      BY <2>3
    <3>2. Len(L) = Len(L) + Len(one) - 1
      BY <1>1, <2>3
    <3>3. \A i \in 2 .. Len(one) : L[Len(L) + i - 1] = one[i]
      BY <2>3
    <3> QED BY <3>1, <3>2, <3>3 DEF Continued
  <2> QED BY <2>1, <2>4 DEF L, one
<1>3. ASSUME NEW t \in Text, NEW c \in Char, t \in S
      PROVE  Append(t, c) \in S
  <2> DEFINE M == Lines(t)
             X == Lines(text \o t)
             M2 == Lines(Append(t, c))
             X2 == Lines(text \o Append(t, c))
             b == Len(M)
  <2>1. Append(t, c) \in Text /\ text \o t \in Text
    BY AppendProperties, ConcatProperties DEF Text
  <2>2. text \o Append(t, c) = Append(text \o t, c)
    BY AppendedBehind
  <2>3. /\ M \in Seq(Text) /\ M # <<>> /\ b \in Nat \ {0}
        /\ X \in Seq(Text) /\ X # <<>> /\ Len(X) \in Nat \ {0}
    <3>1. M \in Seq(Text) /\ M # <<>> /\ X \in Seq(Text) /\ X # <<>>
      BY <2>1, LinesType
    <3> HIDE DEF M, X
    <3> QED BY <3>1, EmptySeq
  <2>4. Continued(L, M, X)
    BY <1>3
  <2>5. /\ M2 = IF c \in LineEnds THEN Append(M, <<>>) ELSE Append(Front(M), Append(Last(M), c))
        /\ X2 = IF c \in LineEnds THEN Append(X, <<>>) ELSE Append(Front(X), Append(Last(X), c))
    BY <2>1, <2>2, LinesAppend
  <2> HIDE DEF M, X, M2, X2
  <2>6. /\ Len(X) = a + b - 1
        /\ \A i \in 1 .. a - 1 : X[i] = L[i]
        /\ X[a] = L[a] \o M[1]
        /\ \A i \in 2 .. b : X[a + i - 1] = M[i]
    BY <2>4 DEF Continued
  <2>7. M[1] \in Text
    BY <2>3
  <2>8. CASE c \in LineEnds
    <3>1. <<>> \in Text
      BY EmptySeq DEF Text
    <3>2. /\ Len(M2) = b + 1 /\ M2[b + 1] = <<>> /\ \A i \in 1 .. b : M2[i] = M[i]
      BY <2>3, <2>5, <2>8, <3>1, AppendProperties
    <3>3. /\ Len(X2) = Len(X) + 1 /\ X2[Len(X) + 1] = <<>> /\ \A i \in 1 .. Len(X) : X2[i] = X[i]
      BY <2>3, <2>5, <2>8, <3>1, AppendProperties
    <3> HIDE DEF a, b
    <3>4. Len(X2) = a + Len(M2) - 1
      BY <1>1, <2>3, <2>6, <3>2, <3>3
    <3>5. \A i \in 1 .. a - 1 : X2[i] = L[i]
      BY <1>1, <2>3, <2>6, <3>3
    <3>6. X2[a] = L[a] \o M2[1]
      <4>1. a \in 1 .. Len(X) /\ 1 \in 1 .. b
        BY <1>1, <2>3, <2>6
      <4>2. X2[a] = X[a] /\ M2[1] = M[1]
        BY <3>2, <3>3, <4>1
      <4> QED BY <2>6, <4>2
    <3>7. ASSUME NEW i \in 2 .. Len(M2) PROVE X2[a + i - 1] = M2[i]
      <4>1. CASE i = b + 1
        <5>1. a + i - 1 = Len(X) + 1
          BY <1>1, <2>3, <2>6, <4>1
        <5> QED BY <3>2, <3>3, <4>1, <5>1
      <4>2. CASE i \in 2 .. b
        <5>1. a + i - 1 \in 1 .. Len(X)
          BY <1>1, <2>3, <2>6, <4>2
        <5> QED BY <2>3, <2>6, <3>2, <3>3, <4>2, <5>1
      <4> QED BY <2>3, <3>2, <4>1, <4>2
    <3>8. Continued(L, M2, X2)
      BY <3>4, <3>5, <3>6, <3>7 DEF Continued, a
    <3> QED BY <2>1, <3>8 DEF M2, X2
  <2>9. CASE c \notin LineEnds
    <3>1. /\ Len(M2) = b
          /\ \A i \in 1 .. b : M2[i] = IF i = b THEN Append(M[i], c) ELSE M[i]
      BY <2>3, <2>5, <2>9, LineGrows
    <3>2. /\ Len(X2) = Len(X)
          /\ \A i \in 1 .. Len(X) : X2[i] = IF i = Len(X) THEN Append(X[i], c) ELSE X[i]
      BY <2>3, <2>5, <2>9, LineGrows
    <3> HIDE DEF a, b
    <3>3. Len(X2) = a + Len(M2) - 1
      BY <1>1, <2>3, <2>6, <3>1, <3>2
    <3>4. \A i \in 1 .. a - 1 : X2[i] = L[i]
      BY <1>1, <2>3, <2>6, <3>2
    <3>5. X2[a] = L[a] \o M2[1]
      <4>1. CASE b = 1
        <5>1. a = Len(X) /\ a \in 1 .. Len(X) /\ 1 \in 1 .. b
          BY <1>1, <2>3, <2>6, <4>1
        <5>2. X2[a] = Append(X[a], c) /\ M2[1] = Append(M[1], c)
          BY <3>1, <3>2, <4>1, <5>1
        <5>3. Append(L[a] \o M[1], c) = L[a] \o Append(M[1], c)
          BY <1>1, <2>7, AppendedBehind, Zenon
        <5> QED BY <2>6, <5>2, <5>3
      <4>2. CASE b # 1
        <5>1. a \in 1 .. Len(X) /\ a # Len(X) /\ 1 \in 1 .. b
          BY <1>1, <2>3, <2>6, <4>2
        <5> QED BY <2>6, <3>1, <3>2, <4>2, <5>1
      <4> QED BY <4>1, <4>2
    <3>6. ASSUME NEW i \in 2 .. Len(M2) PROVE X2[a + i - 1] = M2[i]
      <4> DEFINE j == a + i - 1
      <4>1. j \in 1 .. Len(X) /\ (j = Len(X) <=> i = b) /\ i \in 2 .. b /\ i \in 1 .. b
        BY <1>1, <2>3, <2>6, <3>1
      <4>2. X[j] = M[i]
        BY <2>6, <4>1
      <4> HIDE DEF j
      <4>3. X2[j] = IF i = b THEN Append(X[j], c) ELSE X[j]
        BY <3>2, <4>1
      <4>4. M2[i] = IF i = b THEN Append(M[i], c) ELSE M[i]
        BY <3>1, <4>1
      <4>5. X2[j] = M2[i]
        BY <4>2, <4>3, <4>4
      <4> QED BY <4>5 DEF j
    <3>7. Continued(L, M2, X2)
      BY <3>3, <3>4, <3>5, <3>6 DEF Continued, a
    <3> QED BY <2>1, <3>7 DEF M2, X2
  <2> QED BY <2>8, <2>9
<1>4. Text \subseteq S
  <2> HIDE DEF S
  <2>1. Seq(Char) \subseteq S
    BY <1>2, <1>3, InductOnSeq DEF Text
  <2> QED BY <2>1 DEF Text
<1> QED BY <1>4 DEF L

(* A line has no line end.                                                 *)
EndFree(line) == \A i \in 1 .. Len(line) : line[i] \notin LineEnds

(* The lines of a text have no line ends.                                  *)
LEMMA LinesEndFree ==
  ASSUME NEW text \in Text
  PROVE  \A i \in 1 .. Len(Lines(text)) : EndFree(Lines(text)[i])
<1> DEFINE Free(lines) == \A i \in 1 .. Len(lines) : EndFree(lines[i])
           S == {t \in Text : Free(Lines(t))}
<1>1. <<>> \in S
  <2>1. Lines(<<>>) = << <<>> >> /\ <<>> \in Text
    BY LinesEmpty, EmptySeq DEF Text
  <2>2. Free(<< <<>> >>)
    BY DEF EndFree
  <2> HIDE DEF Free
  <2> QED BY <2>1, <2>2
<1>2. ASSUME NEW t \in Text, NEW c \in Char, t \in S
      PROVE  Append(t, c) \in S
  <2> DEFINE M == Lines(t)
             M2 == Lines(Append(t, c))
  <2>1. M \in Seq(Text) /\ M # <<>> /\ Free(M)
    BY <1>2, LinesType
  <2>2. M2 = IF c \in LineEnds THEN Append(M, <<>>) ELSE Append(Front(M), Append(Last(M), c))
    BY LinesAppend
  <2> HIDE DEF M, M2
  <2>3. ASSUME c \in LineEnds PROVE Free(M2)
    <3>1. <<>> \in Text /\ EndFree(<<>>)
      BY EmptySeq DEF Text, EndFree
    <3>2. Len(M2) = Len(M) + 1 /\ M2[Len(M) + 1] = <<>> /\ \A i \in 1 .. Len(M) : M2[i] = M[i]
      BY <2>1, <2>2, <2>3, <3>1, AppendProperties
    <3>3. Len(M) \in Nat
      BY <2>1
    <3> QED BY <2>1, <3>1, <3>2, <3>3
  <2>4. ASSUME c \notin LineEnds PROVE Free(M2)
    <3>1. /\ Len(M2) = Len(M)
          /\ \A i \in 1 .. Len(M) : M2[i] = IF i = Len(M) THEN Append(M[i], c) ELSE M[i]
      BY <2>1, <2>2, <2>4, LineGrows
    <3>2. ASSUME NEW i \in 1 .. Len(M)
          PROVE  EndFree(Append(M[i], c))
      <4> DEFINE line == M[i]
      <4>1. line \in Text /\ EndFree(line)
        BY <2>1
      <4> HIDE DEF line
      <4>2. /\ Len(Append(line, c)) = Len(line) + 1 /\ Append(line, c)[Len(line) + 1] = c
            /\ \A j \in 1 .. Len(line) : Append(line, c)[j] = line[j]
        BY <4>1, AppendProperties DEF Text
      <4>3. Len(line) \in Nat
        BY <4>1 DEF Text
      <4>4. EndFree(Append(line, c))
        BY <2>4, <4>1, <4>2, <4>3 DEF EndFree
      <4> QED BY <4>4 DEF line
    <3>3. \A i \in 1 .. Len(M2) : EndFree(M2[i])
      <4> TAKE i \in 1 .. Len(M2)
      <4>1. i \in 1 .. Len(M) /\ EndFree(M[i]) /\ EndFree(Append(M[i], c))
        BY <2>1, <3>1, <3>2
      <4>2. M2[i] = Append(M[i], c) \/ M2[i] = M[i]
        BY <3>1, <4>1
      <4> QED BY <4>1, <4>2
    <3> QED BY <3>3
  <2>5. Append(t, c) \in Text
    BY AppendProperties DEF Text
  <2>6. Free(M2)
    BY <2>3, <2>4
  <2> HIDE DEF Free
  <2> QED BY <2>5, <2>6 DEF M2
<1>3. Text \subseteq S
  <2> HIDE DEF S
  <2>1. Seq(Char) \subseteq S
    BY <1>1, <1>2, InductOnSeq DEF Text
  <2> QED BY <2>1 DEF Text
<1> QED BY <1>3

(* A text without line ends is its only line.                              *)
LEMMA OneLine ==
  ASSUME NEW line \in Text, EndFree(line)
  PROVE  Lines(line) = <<line>>
<1> DEFINE S == {t \in Text : EndFree(t) => Lines(t) = <<t>>}
<1>1. <<>> \in S
  BY LinesEmpty, EmptySeq DEF Text
<1>2. ASSUME NEW t \in Text, NEW c \in Char, t \in S
      PROVE  Append(t, c) \in S
  <2>1. Append(t, c) \in Text
    BY AppendProperties DEF Text
  <2>2. ASSUME EndFree(Append(t, c))
        PROVE  Lines(Append(t, c)) = <<Append(t, c)>>
    <3>1. /\ Len(Append(t, c)) = Len(t) + 1 /\ Append(t, c)[Len(t) + 1] = c
          /\ \A j \in 1 .. Len(t) : Append(t, c)[j] = t[j]
      BY AppendProperties DEF Text
    <3>2. Len(t) \in Nat
      BY DEF Text
    <3>3. EndFree(t) /\ c \notin LineEnds
      BY <2>2, <3>1, <3>2 DEF EndFree
    <3>4. Lines(t) = <<t>>
      BY <1>2, <3>3
    <3>5. Lines(Append(t, c)) = Append(Front(<<t>>), Append(Last(<<t>>), c))
      BY <3>3, <3>4, LinesAppend
    <3>6. Front(<<t>>) = <<>> /\ Last(<<t>>) = t
      BY DEF Front, Last
    <3>7. Append(<<>>, Append(t, c)) = <<Append(t, c)>>
      OBVIOUS
    <3> QED BY <3>5, <3>6, <3>7
  <2> QED BY <2>1, <2>2
<1>3. Text \subseteq S
  <2> HIDE DEF S
  <2>1. Seq(Char) \subseteq S
    BY <1>1, <1>2, InductOnSeq DEF Text
  <2> QED BY <2>1 DEF Text
<1> QED BY <1>3

(* Lines that are joined can be split again.  It is not so the other way   *)
(* round: a text with CRLF is not what its joined lines are.               *)
LEMMA LinesJoined ==
  ASSUME NEW lines \in Seq(Text), lines # <<>>, \A i \in 1 .. Len(lines) : EndFree(lines[i])
  PROVE  Lines(Joined(lines)) = lines
<1> DEFINE Free(ls) == \A i \in 1 .. Len(ls) : EndFree(ls[i])
           S == {ls \in Seq(Text) : ls # <<>> /\ Free(ls) => Lines(Joined(ls)) = ls}
<1>1. <<>> \in S
  BY EmptySeq
<1>2. ASSUME NEW ls \in Seq(Text), NEW line \in Text, ls \in S
      PROVE  Append(ls, line) \in S
  <2> DEFINE n == Len(ls)
             more == Append(ls, line)
  <2>1. /\ more \in Seq(Text) /\ Len(more) = n + 1 /\ more[n + 1] = line
        /\ \A i \in 1 .. n : more[i] = ls[i]
    BY AppendProperties
  <2>2. n \in Nat
    OBVIOUS
  <2>3. ASSUME Free(more)
        PROVE  Lines(Joined(more)) = more
    <3>1. Free(ls) /\ EndFree(line)
      <4>1. EndFree(line)
        BY <2>1, <2>2, <2>3
      <4>2. \A i \in 1 .. n : EndFree(ls[i])
        BY <2>1, <2>2, <2>3
      <4> QED BY <4>1, <4>2
    <3>2. Lines(line) = <<line>>
      BY <3>1, OneLine
    <3>3. CASE ls = <<>>
      <4>1. more = <<line>>
        BY <3>3
      <4>2. Joined(<<line>>) = line
        BY JoinedAppend
      <4> QED BY <3>2, <4>1, <4>2
    <3>4. CASE ls # <<>>
      <4> DEFINE J == Joined(ls)
                 J2 == Append(J, "LF")
                 X == Lines(J2 \o line)
      <4>1. J \in Text /\ Lines(J) = ls /\ "LF" \in Char /\ "LF" \in LineEnds /\ <<>> \in Text
        <5>1. J \in Text /\ Lines(J) = ls
          BY <1>2, <3>1, <3>4, JoinedType
        <5> QED BY <5>1, EmptySeq DEF Char, LineEnds, Text
      <4> HIDE DEF J
      <4>2. J2 \in Text /\ J2 = J \o <<"LF">>
        BY <4>1, AppendProperties, AppendIsConcat DEF Text
      <4>3. Joined(more) = J2 \o line
        <5>1. Joined(more) = J \o <<"LF">> \o line
          BY <3>4, JoinedAppend DEF J
        <5> QED BY <4>2, <5>1
      <4>4. Lines(J2) = Append(ls, <<>>)
        BY <4>1, LinesAppend
      <4> DEFINE L == Append(ls, <<>>)
      <4>5. Len(L) = n + 1 /\ L[n + 1] = <<>> /\ \A i \in 1 .. n : L[i] = ls[i]
        BY <4>1, AppendProperties
      <4>6. Continued(L, <<line>>, X)
        BY <3>2, <4>2, <4>4, LinesConcat
      <4>7. X \in Seq(Text)
        BY <4>2, LinesType, ConcatProperties DEF Text
      <4> HIDE DEF L, X, more, n
      <4>8. <<line>>[1] = line /\ Len(<<line>>) = 1
        OBVIOUS
      <4>9. <<>> \o line = line
        BY Neutral
      <4>10. Len(X) = n + 1 /\ (\A i \in 1 .. n : X[i] = ls[i]) /\ X[n + 1] = line
        <5> DEFINE one == <<line>>
        <5>1. one[1] = line /\ Len(one) = 1 /\ Continued(L, one, X)
          BY <4>6, <4>8
        <5> HIDE DEF one
        <5>2. Len(X) = n + 1
          BY <2>2, <4>5, <5>1 DEF Continued
        <5>3. X[n + 1] = <<>> \o line
          BY <4>5, <5>1 DEF Continued
        <5>4. \A i \in 1 .. n : X[i] = L[i]
          BY <2>2, <4>5, <5>1 DEF Continued
        <5>5. \A i \in 1 .. n : X[i] = ls[i]
          BY <4>5, <5>4
        <5> QED BY <4>9, <5>2, <5>3, <5>5
      <4>11. Len(X) = Len(more) /\ \A i \in 1 .. Len(X) : X[i] = more[i]
        BY <2>1, <2>2, <4>10
      <4>12. X = more
        BY <2>1, <4>7, <4>11, SeqEqual
      <4> QED BY <4>3, <4>12 DEF X
    <3> QED BY <3>3, <3>4
  <2> HIDE DEF Free
  <2> QED BY <2>1, <2>3
<1>3. Seq(Text) \subseteq S
  <2> HIDE DEF S
  <2> QED BY <1>1, <1>2, InductOnSeq
<1> QED BY <1>3

(* The parts of a concatenation.                                           *)
LEMMA PrefixOfConcat ==
  ASSUME NEW X, NEW s \in Seq(X), NEW t \in Seq(X)
  PROVE  /\ SubSeq(s \o t, 1, Len(s)) = s
         /\ SubSeq(s \o t, Len(s) + 1, Len(s \o t)) = t
<1> DEFINE u == s \o t
           a == Len(s)
           b == Len(t)
<1>1. /\ u \in Seq(X) /\ Len(u) = a + b /\ a \in Nat /\ b \in Nat
      /\ \A i \in 1 .. a + b : u[i] = IF i <= a THEN s[i] ELSE t[i - a]
  BY ConcatProperties
<1> HIDE DEF u
<1>2. SubSeq(u, 1, a) = s
  <2>1. \A i \in 1 .. a : u[i] \in X
    BY <1>1
  <2>2. /\ SubSeq(u, 1, a) \in Seq(X)
        /\ Len(SubSeq(u, 1, a)) = a
        /\ \A i \in 1 .. a : SubSeq(u, 1, a)[i] = u[i]
    BY <1>1, <2>1, SubSeqProperties
  <2>3. \A i \in 1 .. a : SubSeq(u, 1, a)[i] = s[i]
    BY <1>1, <2>2
  <2> QED BY <2>2, <2>3, SeqEqual
<1>3. SubSeq(u, a + 1, Len(u)) = t
  <2> DEFINE v == SubSeq(u, a + 1, a + b)
  <2>1. \A i \in a + 1 .. a + b : u[i] \in X
    BY <1>1
  <2>2. /\ v \in Seq(X)
        /\ Len(v) = b
        /\ \A i \in 1 .. b : v[i] = u[a + 1 + i - 1]
    <3>1. /\ v \in Seq(X)
          /\ Len(v) = IF a + 1 <= a + b THEN (a + b) - (a + 1) + 1 ELSE 0
          /\ \A i \in 1 .. (a + b) - (a + 1) + 1 : v[i] = u[(a + 1) + i - 1]
      BY <1>1, <2>1, SubSeqProperties
    <3> HIDE DEF v
    <3> QED BY <1>1, <3>1
  <2>3. \A i \in 1 .. b : v[i] = t[i]
    <3> HIDE DEF v, a, b
    <3> TAKE i \in 1 .. b
    <3>1. u[a + i] = t[(a + i) - a]
      BY <1>1
    <3>2. (a + i) - a = i /\ a + 1 + i - 1 = a + i
      BY <1>1
    <3> QED BY <2>2, <3>1, <3>2
  <2> HIDE DEF v
  <2>4. v = t
    BY <2>2, <2>3, SeqEqual
  <2> QED BY <1>1, <2>4 DEF v
<1> QED BY <1>2, <1>3 DEF u

(* What is put behind a line end has lines of its own.                     *)
LEMMA LinesBehindEnd ==
  ASSUME NEW text \in Text, NEW more \in Text, Last(Lines(text)) = <<>>
  PROVE  Lines(text \o more) = Front(Lines(text)) \o Lines(more)
<1> DEFINE L == Lines(text)
           M == Lines(more)
           X == Lines(text \o more)
           F == Front(L)
           a == Len(F)
           b == Len(M)
<1>1. /\ L \in Seq(Text) /\ L # <<>> /\ M \in Seq(Text) /\ X \in Seq(Text) /\ M # <<>>
  BY LinesType, ConcatProperties DEF Text
<1>2. Continued(L, M, X) /\ Last(L) = <<>>
  BY LinesConcat
<1> HIDE DEF L, M, X
<1>3. /\ F \in Seq(Text) /\ Len(L) = a + 1 /\ a \in Nat /\ b \in Nat \ {0}
      /\ L[a + 1] = <<>> /\ \A i \in 1 .. a : L[i] = F[i]
  <2> DEFINE e == Last(L)
  <2>1. F \in Seq(Text) /\ e \in Text /\ L = Append(F, e)
    BY <1>1, FrontLast
  <2> HIDE DEF F, e
  <2>2. Len(L) = a + 1 /\ L[a + 1] = e /\ \A i \in 1 .. a : L[i] = F[i]
    BY <2>1, AppendProperties
  <2>3. b \in Nat \ {0}
    BY <1>1, EmptySeq
  <2> QED BY <1>2, <2>1, <2>2, <2>3 DEF e
<1> HIDE DEF F
<1>4. /\ F \o M \in Seq(Text) /\ Len(F \o M) = a + b
      /\ \A i \in 1 .. a + b : (F \o M)[i] = IF i <= a THEN F[i] ELSE M[i - a]
  BY <1>1, <1>3, ConcatProperties
<1>5. <<>> \o M[1] = M[1]
  <2>1. M[1] \in Text
    BY <1>1, <1>3
  <2> QED BY <2>1, Neutral
<1>6. Len(X) = a + b
  BY <1>2, <1>3 DEF Continued
<1>7. ASSUME NEW i \in 1 .. a + b
      PROVE  X[i] = (F \o M)[i]
  <2>1. (F \o M)[i] = IF i <= a THEN F[i] ELSE M[i - a]
    BY <1>4
  <2>2. CASE i <= a
    <3>1. i \in 1 .. Len(L) - 1
      BY <1>3, <2>2
    <3>2. X[i] = L[i]
      BY <1>2, <3>1 DEF Continued
    <3> QED BY <1>3, <2>1, <2>2, <3>2
  <2>3. CASE i = a + 1
    <3>1. X[i] = M[1]
      BY <1>2, <1>3, <1>5, <2>3 DEF Continued
    <3>2. ~(i <= a) /\ i - a = 1
      BY <1>3, <2>3
    <3> QED BY <2>1, <3>1, <3>2
  <2>4. CASE i > a + 1
    <3> DEFINE j == i - a
    <3>1. j \in 2 .. b /\ Len(L) + j - 1 = i /\ ~(i <= a)
      BY <1>3, <2>4
    <3>2. X[Len(L) + j - 1] = M[j]
      BY <1>2, <3>1 DEF Continued
    <3> QED BY <2>1, <3>1, <3>2
  <2> QED BY <1>3, <2>2, <2>3, <2>4
<1>8. X = F \o M
  <2> HIDE DEF a, b
  <2> QED BY <1>1, <1>4, <1>6, <1>7, SeqEqual
<1> QED BY <1>8 DEF X, F, L, M

(* What is put in front of a line end has lines of its own.                *)
LEMMA LinesBeforeEnd ==
  ASSUME NEW text \in Text, NEW more \in Text, Head(Lines(more)) = <<>>
  PROVE  /\ Lines(text \o more) = Lines(text) \o Tail(Lines(more))
         /\ Tail(Lines(more)) \in Seq(Text)
<1> DEFINE L == Lines(text)
           M == Lines(more)
           X == Lines(text \o more)
           T == Tail(M)
           a == Len(L)
           b == Len(T)
<1>1. /\ L \in Seq(Text) /\ L # <<>> /\ M \in Seq(Text) /\ M # <<>> /\ X \in Seq(Text)
  BY LinesType, ConcatProperties DEF Text
<1>2. Continued(L, M, X) /\ Head(M) = <<>>
  BY LinesConcat
<1> HIDE DEF L, M, X
<1>3. /\ T \in Seq(Text) /\ Len(M) = b + 1 /\ b \in Nat /\ a \in Nat \ {0}
      /\ M[1] = <<>> /\ \A i \in 1 .. b : T[i] = M[i + 1]
  <2>1. T \in Seq(Text) /\ b = Len(M) - 1 /\ \A i \in 1 .. b : T[i] = M[i + 1]
    BY <1>1, HeadTailProperties
  <2>2. a \in Nat \ {0} /\ Len(M) \in Nat \ {0} /\ M[1] = Head(M)
    BY <1>1, EmptySeq
  <2> HIDE DEF T
  <2> QED BY <1>2, <2>1, <2>2
<1> HIDE DEF T
<1>4. /\ L \o T \in Seq(Text) /\ Len(L \o T) = a + b
      /\ \A i \in 1 .. a + b : (L \o T)[i] = IF i <= a THEN L[i] ELSE T[i - a]
  BY <1>1, <1>3, ConcatProperties
<1>5. L[a] \o <<>> = L[a]
  <2>1. L[a] \in Text
    BY <1>1, <1>3
  <2> QED BY <2>1, Neutral
<1>6. Len(X) = a + b
  BY <1>2, <1>3 DEF Continued
<1>7. ASSUME NEW i \in 1 .. a + b
      PROVE  X[i] = (L \o T)[i]
  <2>1. (L \o T)[i] = IF i <= a THEN L[i] ELSE T[i - a]
    BY <1>4
  <2>2. CASE i < a
    <3>1. i \in 1 .. a - 1
      BY <1>3, <2>2
    <3>2. X[i] = L[i]
      BY <1>2, <3>1 DEF Continued
    <3> QED BY <1>3, <2>1, <2>2, <3>2
  <2>3. CASE i = a
    <3>1. X[i] = L[a]
      BY <1>2, <1>3, <1>5, <2>3 DEF Continued
    <3> QED BY <1>3, <2>1, <2>3, <3>1
  <2>4. CASE i > a
    <3> DEFINE j == i - a
    <3>1. j \in 1 .. b /\ j + 1 \in 2 .. Len(M) /\ a + (j + 1) - 1 = i /\ ~(i <= a)
      BY <1>3, <2>4
    <3>2. X[a + (j + 1) - 1] = M[j + 1]
      BY <1>2, <3>1 DEF Continued
    <3>3. T[j] = M[j + 1]
      BY <1>3, <3>1
    <3> QED BY <2>1, <3>1, <3>2, <3>3
  <2> QED BY <1>3, <2>2, <2>3, <2>4
<1>8. X = L \o T
  <2> HIDE DEF a, b
  <2> QED BY <1>1, <1>4, <1>6, <1>7, SeqEqual
<1> QED BY <1>3, <1>8 DEF X, L, M, T

(* Behind a line end the last line is empty.                               *)
LEMMA EndsLine ==
  ASSUME NEW text \in Text, text = <<>> \/ Last(text) \in LineEnds
  PROVE  Last(Lines(text)) = <<>>
<1>1. CASE text = <<>>
  <2>1. Lines(text) = << <<>> >>
    BY <1>1, LinesEmpty
  <2> QED BY <2>1 DEF Last
<1>2. CASE text # <<>>
  <2>1. Front(text) \in Text /\ Last(text) \in Char /\ text = Append(Front(text), Last(text))
    BY <1>2, FrontLast DEF Text
  <2>2. Lines(text) = Append(Lines(Front(text)), <<>>)
    <3> DEFINE f == Front(text)
               c == Last(text)
    <3>1. f \in Text /\ c \in Char /\ text = Append(f, c) /\ c \in LineEnds
      BY <1>2, <2>1
    <3> HIDE DEF f, c
    <3>2. Lines(Append(f, c)) = Append(Lines(f), <<>>)
      BY <3>1, LinesAppend
    <3> QED BY <3>1, <3>2 DEF f
  <2>3. Lines(Front(text)) \in Seq(Text) /\ <<>> \in Text
    BY <2>1, LinesType, EmptySeq DEF Text
  <2>4. Last(Append(Lines(Front(text)), <<>>)) = <<>>
    BY <2>3, FrontLastOfAppend
  <2> QED BY <2>2, <2>4
<1> QED BY <1>1, <1>2

(* Concatenation of sequences of lines is associative.                     *)
LEMMA LinesAssociate ==
  ASSUME NEW a \in Seq(Text), NEW b \in Seq(Text), NEW c \in Seq(Text)
  PROVE  (a \o b) \o c = a \o (b \o c)
BY ConcatAssociative

(* A text that stays the same with something behind it had nothing put     *)
(* behind it.                                                              *)
LEMMA NothingAdded ==
  ASSUME NEW text \in Text, NEW more \in Text, text = text \o more
  PROVE  more = <<>>
BY ConcatEqualIffEmpty DEF Text

(* The lines from one to another are a stretch of a text of their own.     *)
Stretch(text, before, old, behind, from, to) ==
  /\ before \in Text /\ old \in Text /\ behind \in Text
  /\ text = (before \o old) \o behind
  /\ before = <<>> \/ Last(before) \in LineEnds
  /\ from \in Nat \ {0} /\ to \in Nat /\ from <= to
  /\ Len(Lines(before)) = from
  /\ to <= Len(Lines(text))
  /\ old = Joined(SubSeq(Lines(text), from, to))

(* They become the lines of another text, and the others stay.             *)
BecomeLines(text, from, to, new, all) ==
  Lines(all) = SubSeq(Lines(text), 1, from - 1)
                 \o Lines(new)
                 \o SubSeq(Lines(text), to + 1, Len(Lines(text)))

(* If they are replaced, only they change: that the stretch is what these  *)
(* lines are when they are joined implies that a line end follows it, or   *)
(* nothing.                                                                *)
LEMMA LinesReplaced ==
  ASSUME NEW text, NEW before, NEW old, NEW behind, NEW from \in Nat, NEW to \in Nat,
         Stretch(text, before, old, behind, from, to), NEW new \in Text
  PROVE  BecomeLines(text, from, to, new, (before \o new) \o behind)
<1>0. /\ before \in Text /\ old \in Text /\ behind \in Text
      /\ text = (before \o old) \o behind
      /\ before = <<>> \/ Last(before) \in LineEnds
      /\ from \in Nat \ {0} /\ to \in Nat /\ from <= to
      /\ Len(Lines(before)) = from
      /\ to <= Len(Lines(text))
      /\ old = Joined(SubSeq(Lines(text), from, to))
  BY DEF Stretch
<1> USE <1>0
<1> DEFINE L == Lines(text)
           M == Lines(old \o behind)
           N == Lines(behind)
           F == Front(Lines(before))
           K == SubSeq(L, from, to)
           n == to - from + 1
<1>1. /\ (before \o old) \o behind = before \o (old \o behind)
      /\ (before \o new) \o behind = before \o (new \o behind)
      /\ old \o behind \in Text /\ new \o behind \in Text
  <2>1. old \o behind \in Text /\ new \o behind \in Text
    BY ConcatProperties DEF Text
  <2>2. (before \o old) \o behind = before \o (old \o behind)
    BY Associative
  <2>3. (before \o new) \o behind = before \o (new \o behind)
    BY Associative
  <2> QED BY <2>1, <2>2, <2>3
<1>2. L = F \o M /\ M \in Seq(Text) /\ M # <<>> /\ F \in Seq(Text) /\ Len(F) = from - 1
  <2>1. Lines(before) \in Seq(Text) /\ Lines(before) # <<>>
    BY LinesType
  <2>2. F \in Seq(Text) /\ Len(F) = from - 1
    BY <2>1, FrontLast
  <2>3. Last(Lines(before)) = <<>>
    BY EndsLine
  <2>4. M \in Seq(Text) /\ M # <<>>
    BY <1>1, LinesType
  <2>5. L = F \o M
    <3>1. Lines(before \o (old \o behind)) = F \o M
      BY <1>1, <2>3, LinesBehindEnd, Zenon
    <3> QED BY <1>1, <3>1
  <2> QED BY <2>2, <2>4, <2>5
<1>3. Lines((before \o new) \o behind) = F \o Lines(new \o behind)
  <2>1. Last(Lines(before)) = <<>>
    BY EndsLine
  <2>2. Lines(before \o (new \o behind)) = F \o Lines(new \o behind)
    BY <1>1, <2>1, LinesBehindEnd, Zenon
  <2> QED BY <1>1, <2>2
<1>4. L \in Seq(Text) /\ \A i \in 1 .. Len(L) : EndFree(L[i])
  <2>1. (before \o old) \o behind \in Text
    BY <1>1, ConcatProperties DEF Text
  <2>2. L \in Seq(Text)
    BY <2>1, LinesType
  <2>3. \A i \in 1 .. Len(L) : EndFree(L[i])
    BY <2>1, LinesEndFree
  <2> QED BY <2>2, <2>3
<1>5. to <= Len(L) /\ old = Joined(K)
  OBVIOUS
<1> HIDE DEF F, L, M
<1>6. n \in Nat \ {0} /\ Len(L) \in Nat /\ \A i \in 1 .. n : from + i - 1 \in 1 .. Len(L)
  BY <1>4, <1>5
<1>7. K \in Seq(Text) /\ Len(K) = n /\ \A i \in 1 .. n : K[i] = L[from + i - 1]
  <2>1. \A i \in from .. to : L[i] \in Text
    BY <1>4, <1>5
  <2>2. /\ K \in Seq(Text)
        /\ Len(K) = IF from <= to THEN to - from + 1 ELSE 0
        /\ \A i \in 1 .. to - from + 1 : K[i] = L[from + i - 1]
    BY <2>1, SubSeqProperties
  <2> QED BY <2>2
<1> HIDE DEF K
<1>8. Lines(old) = K
  <2>1. K # <<>>
    BY <1>6, <1>7
  <2>2. \A i \in 1 .. Len(K) : EndFree(K[i])
    BY <1>4, <1>6, <1>7
  <2>3. Lines(Joined(K)) = K
    BY <1>7, <2>1, <2>2, LinesJoined
  <2> QED BY <1>5, <2>3
<1>9. \A i \in 1 .. n : i \in 1 .. Len(M) /\ K[i] = M[i]
  <2> DEFINE a == from - 1
  <2>1. /\ Len(L) = a + Len(M) /\ Len(M) \in Nat /\ a \in Nat
        /\ \A i \in 1 .. a + Len(M) : L[i] = IF i <= a THEN F[i] ELSE M[i - a]
    <3>1. /\ Len(F \o M) = Len(F) + Len(M)
          /\ \A i \in 1 .. Len(F) + Len(M) : (F \o M)[i] = IF i <= Len(F) THEN F[i] ELSE M[i - Len(F)]
      BY <1>2, ConcatProperties
    <3>2. Len(F) = a /\ L = F \o M
      BY <1>2
    <3>3. Len(M) \in Nat
      BY <1>2
    <3> QED BY <3>1, <3>2, <3>3
  <2> TAKE i \in 1 .. n
  <2>2. i \in 1 .. Len(M) /\ from + i - 1 \in 1 .. a + Len(M) /\ ~(from + i - 1 <= a) /\ (from + i - 1) - a = i
    BY <1>5, <2>1
  <2>3. L[from + i - 1] = M[(from + i - 1) - a]
    BY <2>1, <2>2
  <2> QED BY <1>7, <2>2, <2>3
<1>10. Head(N) = <<>> /\ N \in Seq(Text) /\ N # <<>>
  <2>1. N \in Seq(Text) /\ N # <<>>
    BY LinesType
  <2>2. Continued(K, N, M)
    BY <1>8, LinesConcat DEF M
  <2> HIDE DEF N, n
  <2>3. M[n] = K[n] \o N[1] /\ K[n] = M[n]
    <3>1. Len(K) = n /\ n \in 1 .. n
      BY <1>6, <1>7
    <3>2. K[n] = M[n]
      BY <1>9, <3>1
    <3>3. M[n] = K[n] \o N[1]
      BY <2>2, <3>1 DEF Continued
    <3> QED BY <3>2, <3>3
  <2>4. K[n] \in Text /\ N[1] \in Text
    <3>1. 1 \in 1 .. Len(N)
      BY <2>1, EmptySeq
    <3> QED BY <1>6, <1>7, <2>1, <3>1
  <2>5. N[1] = <<>>
    <3> DEFINE first == N[1]
               last == K[n]
    <3>1. first \in Text /\ last \in Text /\ last = last \o first
      BY <2>3, <2>4
    <3> HIDE DEF first, last
    <3>2. first = <<>>
      BY <3>1, NothingAdded
    <3> QED BY <3>2 DEF first
  <2> QED BY <2>1, <2>5
<1> DEFINE T == Tail(N)
<1>11. M = K \o T /\ Lines(new \o behind) = Lines(new) \o T /\ T \in Seq(Text)
  BY <1>8, <1>10, LinesBeforeEnd DEF M
<1> HIDE DEF T, N
<1>12. L = (F \o K) \o T
  <2>1. (F \o K) \o T = F \o (K \o T)
    <3>1. F \in Seq(Text) /\ K \in Seq(Text) /\ T \in Seq(Text)
      BY <1>2, <1>7, <1>11
    <3> QED BY <3>1, LinesAssociate
  <2> QED BY <1>2, <1>11, <2>1
<1>13. SubSeq(L, to + 1, Len(L)) = T
  <2> DEFINE FK == F \o K
  <2>1. FK \in Seq(Text) /\ Len(FK) = to /\ L = FK \o T
    <3>1. FK \in Seq(Text) /\ Len(FK) = Len(F) + Len(K)
      <4>1. F \in Seq(Text) /\ K \in Seq(Text)
        BY <1>2, <1>7
      <4> QED BY <4>1, ConcatProperties
    <3>2. Len(F) = from - 1 /\ Len(K) = to - from + 1
      BY <1>2, <1>7
    <3> HIDE DEF FK
    <3>3. Len(FK) = to
      BY <3>1, <3>2
    <3> QED BY <1>12, <3>1, <3>3 DEF FK
  <2> HIDE DEF FK
  <2>2. SubSeq(FK \o T, Len(FK) + 1, Len(FK \o T)) = T
    BY <1>11, <2>1, PrefixOfConcat
  <2> QED BY <2>1, <2>2
<1>14. SubSeq(L, 1, from - 1) = F
  <2>1. SubSeq(F \o M, 1, Len(F)) = F
    BY <1>2, PrefixOfConcat
  <2> QED BY <1>2, <2>1
<1>15. F \o (Lines(new) \o T) = (F \o Lines(new)) \o T
  <2>1. Lines(new) \in Seq(Text)
    BY LinesType
  <2>2. F \in Seq(Text) /\ T \in Seq(Text)
    BY <1>2, <1>11
  <2> DEFINE O == Lines(new)
  <2>3. O \in Seq(Text)
    BY <2>1
  <2> HIDE DEF O
  <2>4. F \o (O \o T) = (F \o O) \o T
    BY <2>2, <2>3, LinesAssociate
  <2> QED BY <2>4 DEF O
<1>16. Lines((before \o new) \o behind) = (F \o Lines(new)) \o T
  BY <1>3, <1>11, <1>15
<1>17. Lines((before \o new) \o behind) =
         (SubSeq(L, 1, from - 1) \o Lines(new)) \o SubSeq(L, to + 1, Len(L))
  BY <1>13, <1>14, <1>16
<1> QED BY <1>17 DEF L, BecomeLines

(* The stretches of a sequence.                                            *)
LEMMA InSubSeqs ==
  ASSUME NEW seq, NEW part
  PROVE  part \in SubSeqs(seq) <=>
           \E p \in 0 .. Len(seq), q \in 0 .. Len(seq) : part = SubSeq(seq, p + 1, q)
BY DEF SubSeqs

(* A text that occurs once is replaced where it occurs.                    *)
LEMMA ReplacedOnce ==
  ASSUME NEW text \in Text, NEW old \in Text, old # <<>>, NEW new, NEW i,
         {k \in 1 .. Len(text) - Len(old) + 1 : SubSeq(text, k, k + Len(old) - 1) = old} = {i}
  PROVE  ReplaceFirstSubSeq(new, old, text) =
           (SubSeq(text, 1, i - 1) \o new) \o SubSeq(text, i + Len(old), Len(text))
<1> DEFINE n == Len(text)
           m == Len(old)
           e == i + m - 1
           Ends(j) == /\ old \in SubSeqs(SubSeq(text, 1, j))
                      /\ \A k \in 0 .. j - 1 : old \notin SubSeqs(SubSeq(text, 1, k))
<1>1. n \in Nat /\ m \in Nat \ {0} /\ text \in Seq(Char)
  BY EmptySeq DEF Text
<1>2. i \in 1 .. n - m + 1 /\ SubSeq(text, i, e) = old
  OBVIOUS
<1>3. \A k \in 1 .. n - m + 1 : SubSeq(text, k, k + m - 1) = old => k = i
  OBVIOUS
<1>4. e \in 0 .. n /\ i \in 1 .. e /\ i \in Int
  BY <1>1, <1>2
<1> HIDE DEF n, m, e
<1>5. ASSUME NEW j \in 0 .. n
      PROVE  /\ SubSeq(text, 1, j) \in Seq(Char) /\ Len(SubSeq(text, 1, j)) = j
             /\ \A p, q \in 0 .. j : SubSeq(SubSeq(text, 1, j), p + 1, q) = SubSeq(text, p + 1, q)
  <2> DEFINE t == SubSeq(text, 1, j)
  <2>1. t \in Seq(Char) /\ Len(t) = j /\ \A k \in 1 .. j : t[k] = text[k]
    <3>1. \A k \in 1 .. j : text[k] \in Char
      BY <1>1 DEF n
    <3>2. /\ t \in Seq(Char)
          /\ Len(t) = IF 1 <= j THEN j - 1 + 1 ELSE 0
          /\ \A k \in 1 .. j - 1 + 1 : t[k] = text[1 + k - 1]
      BY <1>1, <3>1, SubSeqProperties
    <3> HIDE DEF t
    <3> QED BY <1>1, <3>2
  <2> HIDE DEF t
  <2>2. ASSUME NEW p \in 0 .. j, NEW q \in 0 .. j
        PROVE  SubSeq(t, p + 1, q) = SubSeq(text, p + 1, q)
    <3>1. \A k \in p + 1 .. q : t[k] \in Char /\ text[k] \in Char /\ t[k] = text[k]
      BY <1>1, <2>1 DEF n
    <3>2. /\ SubSeq(t, p + 1, q) \in Seq(Char) /\ SubSeq(text, p + 1, q) \in Seq(Char)
          /\ Len(SubSeq(t, p + 1, q)) = IF p + 1 <= q THEN q - (p + 1) + 1 ELSE 0
          /\ Len(SubSeq(text, p + 1, q)) = IF p + 1 <= q THEN q - (p + 1) + 1 ELSE 0
          /\ \A k \in 1 .. q - (p + 1) + 1 : /\ SubSeq(t, p + 1, q)[k] = t[p + 1 + k - 1]
                                             /\ SubSeq(text, p + 1, q)[k] = text[p + 1 + k - 1]
      BY <3>1, SubSeqProperties
    <3> DEFINE u == SubSeq(t, p + 1, q)
               v == SubSeq(text, p + 1, q)
    <3>3. /\ u \in Seq(Char) /\ v \in Seq(Char) /\ Len(u) = Len(v)
          /\ \A k \in 1 .. Len(u) : u[k] = v[k]
      <4> HIDE DEF u, v
      <4>1. \A k \in 1 .. Len(u) : p + 1 + k - 1 \in p + 1 .. q /\ k \in 1 .. q - (p + 1) + 1
        BY <3>2 DEF u
      <4> QED BY <3>1, <3>2, <4>1 DEF u, v
    <3> HIDE DEF u, v
    <3>4. u = v
      BY <3>3, SeqEqual
    <3> QED BY <3>4 DEF u, v
  <2> QED BY <2>1, <2>2 DEF t
<1>6. ASSUME NEW j \in 0 .. n, old \in SubSeqs(SubSeq(text, 1, j))
      PROVE  e <= j
  <2>1. PICK p \in 0 .. j, q \in 0 .. j : old = SubSeq(text, p + 1, q)
    <3>1. PICK p \in 0 .. j, q \in 0 .. j : old = SubSeq(SubSeq(text, 1, j), p + 1, q)
      <4> DEFINE t == SubSeq(text, 1, j)
      <4>1. Len(t) = j /\ old \in SubSeqs(t)
        BY <1>5, <1>6
      <4> HIDE DEF t
      <4>2. \E p \in 0 .. j, q \in 0 .. j : old = SubSeq(t, p + 1, q)
        BY <4>1, InSubSeqs
      <4> QED BY <4>2 DEF t
    <3> QED BY <1>5, <3>1
  <2>2. m = q - p /\ p < q
    <3>1. \A k \in p + 1 .. q : text[k] \in Char
      BY <1>1 DEF n
    <3>2. Len(SubSeq(text, p + 1, q)) = IF p + 1 <= q THEN q - (p + 1) + 1 ELSE 0
      BY <3>1, SubSeqProperties
    <3>3. Len(SubSeq(text, p + 1, q)) = m
      BY <2>1 DEF m
    <3> QED BY <1>1, <3>2, <3>3
  <2>3. p + 1 \in 1 .. n - m + 1 /\ (p + 1) + m - 1 = q
    BY <1>1, <2>2
  <2>4. p + 1 = i
    BY <1>3, <2>1, <2>3
  <2> QED BY <1>4, <2>2, <2>4 DEF e
<1>7. old \in SubSeqs(SubSeq(text, 1, e)) /\ old \in SubSeqs(text)
  <2>1. i - 1 \in 0 .. e /\ e \in 0 .. e /\ (i - 1) + 1 = i
    BY <1>4
  <2>2. old = SubSeq(text, (i - 1) + 1, e)
    BY <1>2, <2>1
  <2>3. old = SubSeq(SubSeq(text, 1, e), (i - 1) + 1, e)
    BY <1>4, <1>5, <2>1, <2>2
  <2>4. Len(SubSeq(text, 1, e)) = e
    BY <1>4, <1>5
  <2>5. old \in SubSeqs(SubSeq(text, 1, e))
    <3> DEFINE t == SubSeq(text, 1, e)
               p == i - 1
    <3>1. Len(t) = e /\ p \in 0 .. e /\ e \in 0 .. e /\ old = SubSeq(t, p + 1, e)
      BY <2>1, <2>3, <2>4
    <3> HIDE DEF t, p
    <3>2. old \in SubSeqs(t)
      BY <3>1, InSubSeqs
    <3> QED BY <3>2 DEF t
  <2>6. i - 1 \in 0 .. n /\ e \in 0 .. n
    BY <1>1, <1>4
  <2>7. old \in SubSeqs(text)
    <3> DEFINE p == i - 1
    <3>1. Len(text) = n /\ p \in 0 .. n /\ e \in 0 .. n /\ old = SubSeq(text, p + 1, e)
      BY <2>2, <2>6 DEF n
    <3> HIDE DEF p
    <3> QED BY <3>1, InSubSeqs
  <2> QED BY <2>5, <2>7
<1>8. Ends(e)
  <2>1. ASSUME NEW k \in 0 .. e - 1 PROVE old \notin SubSeqs(SubSeq(text, 1, k))
    <3>1. k \in 0 .. n /\ ~(e <= k)
      BY <1>1, <1>4
    <3> QED BY <1>6, <3>1
  <2> QED BY <1>7, <2>1
<1>9. ASSUME NEW j \in 0 .. n, Ends(j)
      PROVE  j = e
  <2>1. e <= j
    BY <1>6, <1>9
  <2>2. CASE e < j
    <3>1. e \in 0 .. j - 1
      BY <1>4, <2>2
    <3> QED BY <1>7, <1>9, <3>1
  <2> QED BY <1>4, <2>1, <2>2
<1>10. (CHOOSE j \in 0 .. n : Ends(j)) = e
  <2> HIDE DEF Ends
  <2> QED BY <1>4, <1>8, <1>9
<1>11. IndexFirstSubSeq(old, text) = i
  <2>1. IndexFirstSubSeq(old, text) = e - (m - 1)
    BY <1>10 DEF IndexFirstSubSeq, n, m
  <2> QED BY <1>1, <1>4, <2>1 DEF e
<1> QED BY <1>7, <1>11 DEF ReplaceFirstSubSeq, ReplaceSubSeqAt

(* A text without a character has none replaced.                           *)
LEMMA NothingReplaced ==
  ASSUME NEW X, NEW text \in Seq(X), NEW old, old \notin Range(text), NEW new
  PROVE  ReplaceAll(text, old, new) = text
<1>1. \A i \in 1 .. Len(text) : text[i] # old
  BY RangeEquality
<1>2. ReplaceAll(text, old, new) = [i \in 1 .. Len(text) |-> text[i]]
  BY <1>1 DEF ReplaceAll
<1> QED BY <1>2

-----------------------------------------------------------------------------
(* The fix that is served.                                                 *)

(* Findings are issues that the validator let through.                     *)
LEMMA FindingsWellFormed ==
  ASSUME NEW findings \in SomeFindings
  PROVE  \A f \in Range(findings) : WellFormed(f)
<1>1. PICK issues \in SomeIssues : findings = Deduplicate(issues)
  BY DEF SomeFindings
<1>2. issues \in Seq(Range(issues)) /\ \A issue \in Range(issues) : WellFormed(issue)
  <2>1. CASE issues \in Reviews
    BY <2>1, ReportsAssumption
  <2>2. CASE issues = <<>>
    BY <2>2 DEF Range
  <2> QED BY <2>1, <2>2 DEF SomeIssues
<1> DEFINE Issues == Range(issues)
<1>3. issues \in Seq(Issues) /\ \A issue \in Issues : WellFormed(issue) /\ IsFiniteSet(issue.words)
  BY <1>2 DEF WellFormed
<1> HIDE DEF Issues
<1>4. findings \in Seq(Issues)
  BY <1>1, <1>3, DeduplicateKeeps
<1>5. Range(findings) \subseteq Issues
  BY <1>4, RangeOfSeq
<1> QED BY <1>3, <1>5

(* A path that one finding alone has a patch for keeps that patch in the   *)
(* map of a report (ReportsService, patches by path).                      *)
LEMMA OfferedPatch ==
  ASSUME NEW files, NEW findings, NEW patches \in PatchMaps(files, findings),
         NEW f \in Range(findings), NEW patch \in SuggestedPatch(files, f),
         {g \in Range(findings) : g.file = f.file /\ g.patch # {}} = {f},
         \A p, q \in f.patch : p = q
  PROVE  f.file \in DOMAIN patches /\ patches[f.file] = patch
<1> DEFINE offering == {g \in Range(findings) : SuggestedPatch(files, g) # {}}
           last(p)  == {g \in offering :
                          /\ g.file = p
                          /\ \A h \in offering :
                               h.file = p => Rank(h.severity) <= Rank(g.severity)}
           paths    == {g.file : g \in offering}
<1>1. /\ DOMAIN patches = paths
      /\ \A p \in paths : \E g \in last(p) : patches[p] \in g.patch
  BY Zenon DEF PatchMaps
<1>2. f \in offering /\ f.file \in paths
  OBVIOUS
<1>3. PICK g \in last(f.file) : patches[f.file] \in g.patch
  BY <1>1, <1>2
<1>4. g \in Range(findings) /\ g.file = f.file /\ g.patch # {}
  BY <1>3
<1>5. g = f
  BY <1>4
<1>6. patch \in f.patch
  BY DEF SuggestedPatch
<1> QED BY <1>1, <1>2, <1>3, <1>5, <1>6

(* The patch of an unambiguous finding replaces the finding's lines and no *)
(* others.                                                                 *)
LEMMA RewrittenOnce ==
  ASSUME NEW text \in Text, NEW patch, NEW from \in Nat \ {0}, NEW to \in Nat \ {0}, from <= to,
         patch.before \in Text, patch.after \in Text, patch.before # <<>>,
         to <= Len(Lines(text)),
         LinesOf(text, from, to) = patch.before,
         NEW i, BeginsLine(text, i, from),
         {k \in 1 .. Len(text) - Len(patch.before) + 1 :
            SubSeq(text, k, k + Len(patch.before) - 1) = patch.before} = {i},
         "$$" \notin Range(patch.after)
  PROVE  BecomeLines(text, from, to, patch.after, Rewritten(text, {patch}))
<1> DEFINE old == patch.before
           new == patch.after
           n == Len(text)
           m == Len(old)
           before == SubSeq(text, 1, i - 1)
           behind == SubSeq(text, i + m, n)
<1>1. /\ n \in Nat /\ m \in Nat \ {0} /\ text \in Seq(Char) /\ old \in Text /\ new \in Text
      /\ from \in Nat \ {0} /\ to \in Nat \ {0} /\ from <= to
  BY EmptySeq DEF Text
<1>2. i \in 1 .. n - m + 1 /\ SubSeq(text, i, i + m - 1) = old
  OBVIOUS
<1>3. ReplaceAll(new, "$$", "$") = new
  BY <1>1, NothingReplaced DEF Text
<1>4. Rewritten(text, {patch}) = ReplaceFirstSubSeq(new, old, text)
  BY <1>3 DEF Rewritten
<1>5. ReplaceFirstSubSeq(new, old, text) = (before \o new) \o behind
  BY ReplacedOnce
<1>6. LinesOf(text, from, to) = old /\ to <= Len(Lines(text))
  OBVIOUS
<1> HIDE DEF old, new, n, m
<1>7. before \in Text /\ behind \in Text
  <2>1. \A k \in 1 .. i - 1 : text[k] \in Char
    BY <1>1, <1>2 DEF n
  <2>2. \A k \in i + m .. n : text[k] \in Char
    BY <1>1, <1>2 DEF n
  <2>3. SubSeq(text, 1, i - 1) \in Seq(Char)
    BY <1>1, <1>2, <2>1, SubSeqProperties
  <2>4. SubSeq(text, i + m, n) \in Seq(Char)
    BY <1>1, <1>2, <2>2, SubSeqProperties
  <2> QED BY <2>3, <2>4 DEF Text
<1>8. (before \o old) \o behind = text
  <2> DEFINE e == i + m - 1
  <2>1. e \in i .. n /\ e + 1 = i + m /\ i - 1 \in 0 .. e /\ (i - 1) + 1 = i
    BY <1>1, <1>2
  <2> HIDE DEF e
  <2>2. SubSeq(text, 1, i - 1) \o SubSeq(text, (i - 1) + 1, e) = SubSeq(text, 1, e)
    <3>1. 1 \in 1 .. Len(text) + 1 /\ i - 1 \in 1 - 1 .. Len(text) /\ e \in i - 1 .. Len(text)
      BY <1>1, <1>2, <2>1 DEF n
    <3> QED BY <1>1, <3>1, ConcatAdjacentSubSeq
  <2>3. SubSeq(text, 1, e) \o SubSeq(text, e + 1, n) = SubSeq(text, 1, n)
    <3>1. 1 \in 1 .. Len(text) + 1 /\ e \in 1 - 1 .. Len(text) /\ n \in e .. Len(text)
      BY <1>1, <1>2, <2>1 DEF n
    <3> QED BY <1>1, <3>1, ConcatAdjacentSubSeq
  <2>4. SubSeq(text, 1, n) = text
    BY <1>1, SubSeqFull DEF n
  <2>5. SubSeq(text, i, e) = old
    BY <1>2 DEF e
  <2> QED BY <2>1, <2>2, <2>3, <2>4, <2>5
<1>9. Len(Lines(before)) = from /\ (before = <<>> \/ Last(before) \in LineEnds)
  <2>1. Len(Lines(before)) = from /\ (i = 1 \/ text[i - 1] \in LineEnds)
    BY DEF BeginsLine
  <2>2. CASE i = 1
    <3>1. before = <<>>
      BY <2>2, SubSeqEmpty
    <3> QED BY <2>1, <3>1
  <2>3. CASE i # 1
    <3>1. \A k \in 1 .. i - 1 : text[k] \in Char
      BY <1>1, <1>2 DEF n
    <3>2. /\ Len(before) = IF 1 <= i - 1 THEN (i - 1) - 1 + 1 ELSE 0
          /\ \A k \in 1 .. (i - 1) - 1 + 1 : before[k] = text[1 + k - 1]
      BY <1>1, <1>2, <3>1, SubSeqProperties
    <3> HIDE DEF before
    <3>3. Len(before) = i - 1
      BY <1>1, <1>2, <2>3, <3>2
    <3>4. before[i - 1] = text[i - 1]
      <4>1. i - 1 \in 1 .. (i - 1) - 1 + 1 /\ 1 + (i - 1) - 1 = i - 1
        BY <1>1, <1>2, <2>3
      <4> QED BY <3>2, <4>1
    <3> QED BY <2>1, <2>3, <3>3, <3>4 DEF Last
  <2> QED BY <2>2, <2>3
<1>10. old = Joined(SubSeq(Lines(text), from, to))
  <2> DEFINE len == Len(Lines(text))
  <2>1. len \in Int
    <3>1. Lines(text) \in Seq(Text)
      BY LinesType
    <3> QED BY <3>1
  <2>2. to <= len /\ to \in Int
    BY <1>1, <1>6
  <2> HIDE DEF len
  <2>3. Min({to, len}) = to
    BY <2>1, <2>2, MinOfTwo
  <2> QED BY <1>6, <2>3 DEF LinesOf, len
<1> HIDE DEF before, behind
<1>11. BecomeLines(text, from, to, new, (before \o new) \o behind)
  <2>1. to <= Len(Lines(text)) /\ text = (before \o old) \o behind /\ to \in Nat
    BY <1>1, <1>6, <1>8
  <2>2. before \in Text /\ old \in Text /\ new \in Text /\ behind \in Text
    BY <1>1, <1>7
  <2>3. from \in Nat \ {0} /\ from <= to /\ Len(Lines(before)) = from
    BY <1>1, <1>9
  <2>4. Stretch(text, before, old, behind, from, to)
    BY <1>9, <1>10, <2>1, <2>2, <2>3 DEF Stretch
  <2>5. from \in Nat /\ to \in Nat
    BY <2>1, <2>3
  <2> QED BY <2>2, <2>4, <2>5, LinesReplaced
<1>12. BecomeLines(text, from, to, new, Rewritten(text, {patch}))
  BY <1>4, <1>5, <1>11
<1> QED BY <1>12 DEF new

(* A fix that the report shows is the fix that is downloaded               *)
(* (ReportsService.exportPatchedZip), for every archive, review and        *)
(* interleaving of uploads, analyses, removals and requests.               *)
THEOREM ReportsShownFixIsServed ==
  Spec => []ShownFixIsServed
<1>1. ASSUME Recorded
      PROVE  ShownFixIsServed
  <2> SUFFICES ASSUME NEW x \in Exports, export[x].pc = "served", export[x].latest = export[x].of,
                      NEW f \in Range(export[x].findings),
                      NEW patch \in SuggestedPatch(version[export[x].of].files, f),
                      f.file \in DOMAIN version[export[x].of].files,
                      Unambiguous(version[export[x].of].files, export[x].findings, f, patch)
               PROVE  BecomeLines(version[export[x].of].files[f.file], FixStart(f, patch),
                                  FixEnd(f, patch), patch.after, export[x].zip[f.file])
    BY DEF ShownFixIsServed, BecomeLines
  <2> DEFINE files == version[export[x].of].files
             findings == export[x].findings
             patches == export[x].patches
             text == files[f.file]
  <2>1. /\ export[x].of \in Uploads /\ patches \in PatchMaps(files, findings)
        /\ export[x].zip = RewriteZip(files, patches) /\ findings \in SomeFindings
    BY <1>1 DEF Recorded, ExportsCurrent
  <2>2. files \in Archives
    BY <1>1, <2>1, UploadsKnown DEF Recorded
  <2>3. f.file \in DOMAIN files /\ f \in Range(findings) /\ patch \in SuggestedPatch(files, f)
    OBVIOUS
  <2>4. Unambiguous(files, findings, f, patch)
    OBVIOUS
  <2> HIDE DEF files, findings, patches
  <2>5. WellFormed(f)
    BY <2>1, <2>3, FindingsWellFormed
  <2>6. patch \in f.patch
    BY <2>3 DEF SuggestedPatch
  <2>7. {g \in Range(findings) : g.file = f.file /\ g.patch # {}} = {f}
    BY <2>4 DEF Unambiguous
  <2>8. f.file \in DOMAIN patches /\ patches[f.file] = patch
    <3>1. \A p, q \in f.patch : p = q
      BY <2>5 DEF WellFormed
    <3> QED BY <2>1, <2>3, <2>7, <3>1, OfferedPatch
  <2>9. export[x].zip[f.file] = Rewritten(text, {patch})
    <3>1. PatchFor(patches, f.file) = {patch}
      BY <2>8 DEF PatchFor
    <3> QED BY <2>1, <2>3, <3>1 DEF RewriteZip
  <2>10. text \in Text
    BY <2>2, <2>3, ArchiveTexts
  <2>11. patch.before \in Text /\ patch.after \in Text
    <3>1. patch.before \in Seq(STRING) /\ patch.after \in Seq(STRING) /\ STRING \subseteq Char
      BY <2>5, <2>6 DEF WellFormed, Char
    <3> QED BY <3>1, SeqMonotonic DEF Text
  <2> DEFINE from == FixStart(f, patch)
             to == FixEnd(f, patch)
  <2>12. from \in Nat \ {0} /\ to \in Nat \ {0} /\ from <= to
    <3>1. from \in Nat /\ to \in Nat
      BY <2>5, <2>6 DEF WellFormed, FixStart, FixEnd
    <3>2. 1 <= from /\ from <= to
      BY <2>3, <2>4 DEF SuggestedPatch, Unambiguous
    <3> QED BY <3>1, <3>2
  <2> HIDE DEF text, from, to
  <2>13. /\ patch.before # <<>> /\ to <= Len(Lines(text))
         /\ LinesOf(text, from, to) = patch.before /\ "$$" \notin Range(patch.after)
    BY <2>4 DEF Unambiguous, text, from, to
  <2>14. PICK i : /\ BeginsLine(text, i, from)
                  /\ {k \in 1 .. Len(text) - Len(patch.before) + 1 :
                        SubSeq(text, k, k + Len(patch.before) - 1) = patch.before} = {i}
    BY <2>4 DEF Unambiguous, text, from
  <2>15. BecomeLines(text, from, to, patch.after, Rewritten(text, {patch}))
    BY <2>10, <2>11, <2>12, <2>13, <2>14, RewrittenOnce
  <2> QED BY <2>9, <2>15 DEF text, files, from, to
<1> QED BY <1>1, ReportsRecorded, PTL
==============================================================================

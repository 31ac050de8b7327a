--------------------------- MODULE StartupProofs ---------------------------
(* Theorems about Startup, for any flags and for files of any length. *)
EXTENDS Startup, SequenceTheorems, WellFoundedInduction, TLAPS

\* The effective lines of a kind before line k, and whether there is a pair between
\* the last section line at the margin and line k.
Before(kind, k) == {j \in Effective(kind) : j < k}
PairSince(k) == \E j \in Anchor(k) + 1..k - 1 : file[j].kind = "pair"

\* What ini_parse_file remembers of the lines behind it: the section and the name
\* in force for the next line.
Reader ==
  /\ file \in Seq(Line)
  /\ section = SectionAt(lineno)
  /\ PairSince(lineno) <=> prev_name # ""
  /\ prev_name # "" => prev_name = file[Max(Before("pair", lineno))].word
  /\ error \in Nat
  /\ configuration \in [{"port", "device", "speed"} -> Nat]

\* The inductive invariant of the parser.
IInv == Reader /\ FirstError /\ ParsedAsWritten

-----------------------------------------------------------------------------
(* Least and greatest numbers of a set. *)

\* A set of numbers has a least one.
LEMMA MinIn ==
  ASSUME NEW S, S \subseteq Nat, S # {}
  PROVE  Min(S) \in S /\ \A y \in S : Min(S) <= y
<1>1. \E x \in S : \A y \in S : x <= y
  <2> DEFINE R == OpToRel(<, Nat)
  <2>1. \E x \in S : \A y \in S : ~ (<<y, x>> \in R)
    <3> HIDE DEF R
    <3>1. IsWellFoundedOn(R, Nat)
      BY NatLessThanWellFounded DEF R
    <3> QED
      BY <3>1, WFMin
  <2>2. \A x, y \in Nat : y < x => <<y, x>> \in R
    BY DEF OpToRel
  <2> HIDE DEF R
  <2>3. PICK x \in S : \A y \in S : ~ (<<y, x>> \in R)
    BY <2>1
  <2>4. \A y \in S : x \in Nat /\ y \in Nat /\ ~ (y < x)
    BY <2>2, <2>3
  <2>5. \A y \in S : x <= y
    BY <2>4
  <2> QED
    BY <2>5
<1> QED
  BY <1>1 DEF Min

\* Min is that one.
LEMMA MinIs ==
  ASSUME NEW S, S \subseteq Nat, NEW m \in S, \A y \in S : m <= y
  PROVE  Min(S) = m
<1>1. Min(S) \in S /\ \A y \in S : Min(S) <= y
  BY MinIn
<1>2. Min(S) <= m /\ m <= Min(S) /\ m \in Nat /\ Min(S) \in Nat
  BY <1>1
<1> QED
  BY <1>2

\* A bounded set of numbers has a greatest one.
LEMMA MaxIn ==
  ASSUME NEW n \in Nat, NEW S, S \subseteq 0..n, S # {}
  PROVE  Max(S) \in S /\ \A y \in S : Max(S) >= y
<1> DEFINE T == {n - x : x \in S}
<1>1. Min(T) \in T /\ \A y \in T : Min(T) <= y
  <2>1. T \subseteq Nat
    OBVIOUS
  <2>2. T # {}
    <3>1. PICK x \in S : TRUE
      OBVIOUS
    <3>2. n - x \in T
      BY <3>1
    <3> QED
      BY <3>2
  <2> HIDE DEF T
  <2> QED
    BY <2>1, <2>2, MinIn
<1>2. PICK m \in S : Min(T) = n - m
  BY <1>1
<1>3. \A y \in S : n - y \in T
  OBVIOUS
<1>4. \A y \in S : n - m <= n - y
  BY <1>1, <1>2, <1>3
<1>5. \A y \in S : m >= y
  BY <1>4
<1> QED
  BY <1>2, <1>5 DEF Max

\* Max is that one.
LEMMA MaxIs ==
  ASSUME NEW S, S \subseteq Nat, NEW m \in S, \A y \in S : m >= y
  PROVE  Max(S) = m
<1>1. S \subseteq 0..m
  OBVIOUS
<1>2. Max(S) \in S /\ \A y \in S : Max(S) >= y
  BY <1>1, MaxIn
<1>3. Max(S) >= m /\ m >= Max(S) /\ Max(S) \in Nat
  BY <1>2
<1> QED
  BY <1>3

\* The last of some lines is one of them, or 0 if there are none.
LEMMA LastIn ==
  ASSUME NEW n \in Nat, NEW S, S \subseteq 1..n
  PROVE  /\ LastOf(S) \in 0..n
         /\ S = {} <=> LastOf(S) = 0
         /\ S # {} => LastOf(S) \in S
         /\ \A y \in S : y <= LastOf(S)
<1>1. CASE S = {}
  BY <1>1 DEF LastOf
<1>2. CASE S # {}
  <2>1. S \subseteq 0..n
    OBVIOUS
  <2>2. Max(S) \in S /\ \A y \in S : Max(S) >= y
    BY <1>2, <2>1, MaxIn
  <2>3. LastOf(S) = Max(S)
    BY <1>2 DEF LastOf
  <2>4. LastOf(S) \in 1..n
    BY <2>2, <2>3
  <2>5. \A y \in S : y \in Nat /\ y <= LastOf(S)
    BY <2>2, <2>3, <2>4
  <2> QED
    BY <1>2, <2>2, <2>3, <2>4, <2>5
<1> QED
  BY <1>1, <1>2

\* A line behind all the others is the last.
LEMMA LastNew ==
  ASSUME NEW n \in Nat, NEW S, S \subseteq 1..n
  PROVE  Max(S \cup {n + 1}) = n + 1 /\ LastOf(S \cup {n + 1}) = n + 1
<1>1. Max(S \cup {n + 1}) = n + 1
  <2> DEFINE T == S \cup {n + 1}
  <2>1. T \subseteq Nat /\ n + 1 \in T /\ \A y \in T : n + 1 >= y
    OBVIOUS
  <2> HIDE DEF T
  <2>2. Max(T) = n + 1
    BY <2>1, MaxIs
  <2> QED
    BY <2>2 DEF T
<1> QED
  BY <1>1 DEF LastOf

-----------------------------------------------------------------------------
(* One more line changes nothing about those before it. *)

\* What a line can be.
LEMMA Lines ==
  ASSUME NEW line \in Line
  PROVE  /\ line.indent \in BOOLEAN
         /\ line.kind \in {"nothing", "header", "pair", "open header", "number"}
         /\ line.kind = "nothing" => ~line.indent
         /\ line.kind = "pair" => line.word \in {"port", "device", "speed"}
BY DEF Line, Kind

\* The lines after one more has been read.
LEMMA Extend ==
  ASSUME file \in Seq(Line), NEW line \in Line, file' = Append(file, line), NEW n, n = Len(file)
  PROVE  /\ n \in Nat /\ Len(file') = n + 1 /\ file' \in Seq(Line)
         /\ \A j \in 1..n : file'[j] = file[j]
         /\ file'[n + 1] = line
BY AppendProperties, LenProperties

\* Anchor looks at the lines before k only, and finds one of them or 0.
LEMMA AnchorStable ==
  ASSUME file \in Seq(Line), NEW line \in Line, file' = Append(file, line), NEW n, n = Len(file),
         NEW k \in 1..n + 1
  PROVE  Anchor(k)' = Anchor(k) /\ Anchor(k) \in 0..k - 1
<1> DEFINE A == {j \in 1..k - 1 : file[j].kind = "header" /\ ~file[j].indent}
<1>1. n \in Nat /\ \A j \in 1..k - 1 : file'[j] = file[j]
  BY Extend
<1>2. A' = A
  BY <1>1
<1>3. LastOf(A) \in 0..k - 1
  <2>1. k - 1 \in Nat /\ A \subseteq 1..k - 1
    BY <1>1
  <2> HIDE DEF A
  <2> QED
    BY <2>1, LastIn
<1>4. Anchor(k) = LastOf(A) /\ Anchor(k)' = LastOf(A')
  BY DEF Anchor
<1> HIDE DEF A
<1> QED
  BY <1>2, <1>3, <1>4

\* So does the search for a pair, and whether a line is a continuation.
LEMMA PairStable ==
  ASSUME file \in Seq(Line), NEW line \in Line, file' = Append(file, line), NEW n, n = Len(file),
         NEW k \in 1..n + 1
  PROVE  /\ PairSince(k)' <=> PairSince(k)
         /\ k <= n => (Swallowed(k)' <=> Swallowed(k))
         /\ k = n + 1 => (Swallowed(k)' <=> line.indent /\ PairSince(k))
<1>1. Anchor(k)' = Anchor(k) /\ Anchor(k) \in 0..k - 1
  BY AnchorStable
<1>2. /\ n \in Nat /\ \A j \in 1..k - 1 : file'[j] = file[j]
      /\ k <= n => file'[k] = file[k]
      /\ k = n + 1 => file'[k] = line
  BY Extend
<1>3. \A j \in Anchor(k) + 1..k - 1 : file'[j] = file[j]
  BY <1>1, <1>2
<1>4. PairSince(k)' <=> PairSince(k)
  BY <1>1, <1>3 DEF PairSince
<1>5. Swallowed(k) <=> file[k].indent /\ PairSince(k)
  BY DEF Swallowed, PairSince
<1>6. Swallowed(k)' <=> file'[k].indent /\ PairSince(k)'
  BY DEF Swallowed, PairSince
<1> QED
  BY <1>2, <1>4, <1>5, <1>6

-----------------------------------------------------------------------------
(* What an effective line is, and that it stays one. *)

\* The anchor of line k is before it; it is 0 or a section line at the margin, and
\* the last of them.
LEMMA AnchorIs ==
  ASSUME NEW k \in Nat \ {0}
  PROVE  /\ Anchor(k) \in 0..k - 1
         /\ Anchor(k) # 0 => file[Anchor(k)].kind = "header" /\ ~file[Anchor(k)].indent
         /\ \A j \in 1..k - 1 : file[j].kind = "header" /\ ~file[j].indent => j <= Anchor(k)
<1> DEFINE A == {j \in 1..k - 1 : file[j].kind = "header" /\ ~file[j].indent}
<1>1. Anchor(k) = LastOf(A)
  BY DEF Anchor
<1>2. k - 1 \in Nat /\ A \subseteq 1..k - 1
  OBVIOUS
<1>3. \A j \in A : j \in 1..k - 1 /\ file[j].kind = "header" /\ ~file[j].indent
  OBVIOUS
<1>4. \A j \in 1..k - 1 : file[j].kind = "header" /\ ~file[j].indent => j \in A
  OBVIOUS
<1> HIDE DEF A
<1>5. /\ LastOf(A) \in 0..k - 1
      /\ A = {} <=> LastOf(A) = 0
      /\ A # {} => LastOf(A) \in A
      /\ \A y \in A : y <= LastOf(A)
  BY <1>2, LastIn
<1> QED
  BY <1>1, <1>3, <1>4, <1>5

\* The first pair after a section line at the margin is effective, so a
\* continuation has a name to continue.
LEMMA PairEffective ==
  ASSUME file \in Seq(Line), NEW n, n = Len(file), NEW k \in 1..n + 1, PairSince(k)
  PROVE  Before("pair", k) # {}
<1> DEFINE P == {j \in Anchor(k) + 1..k - 1 : file[j].kind = "pair"}
<1>1. n \in Nat /\ k \in Nat \ {0}
  BY LenProperties
<1>2. Anchor(k) \in 0..k - 1
  BY <1>1, AnchorIs
<1>3. P \subseteq Nat /\ P # {}
  BY <1>1, <1>2 DEF PairSince
<1>4. PICK p \in P : \A j \in P : p <= j
  <2> HIDE DEF P
  <2> QED
    BY <1>3, MinIn
<1>5. p \in 1..n /\ p < k /\ Anchor(k) < p /\ file[p].kind = "pair"
  BY <1>1, <1>2
<1>6. /\ Anchor(p) \in 0..p - 1
      /\ \A j \in 1..p - 1 : file[j].kind = "header" /\ ~file[j].indent => j <= Anchor(p)
  BY <1>5, AnchorIs
<1>7. Anchor(k) # 0 => file[Anchor(k)].kind = "header" /\ ~file[Anchor(k)].indent
  BY <1>1, AnchorIs
<1>8. Anchor(k) <= Anchor(p)
  BY <1>2, <1>5, <1>6, <1>7
<1>9. ~Swallowed(p)
  <2>1. ASSUME NEW j \in Anchor(p) + 1..p - 1, file[j].kind = "pair"
        PROVE  FALSE
    <3>1. j \in Anchor(k) + 1..k - 1 /\ j < p
      BY <1>1, <1>2, <1>5, <1>6, <1>8
    <3>2. j \in P
      BY <3>1, <2>1
    <3> QED
      BY <1>4, <1>5, <3>1, <3>2
  <2> QED
    BY <2>1 DEF Swallowed
<1> QED
  BY <1>1, <1>5, <1>9 DEF Before, Effective

\* The effective lines before k are lines, and stay.
LEMMA BeforeStable ==
  ASSUME file \in Seq(Line), NEW line \in Line, file' = Append(file, line), NEW n, n = Len(file),
         NEW k \in 1..n + 1, NEW kind
  PROVE  Before(kind, k)' = Before(kind, k) /\ Before(kind, k) \subseteq 1..k - 1
<1>1. n \in Nat /\ Len(file') = n + 1 /\ \A j \in 1..n : file'[j] = file[j]
  BY Extend
<1>2. \A j \in 1..n : Swallowed(j)' <=> Swallowed(j)
  <2> TAKE j \in 1..n
  <2>1. j \in 1..n + 1 /\ j <= n
    BY <1>1
  <2> QED
    BY <2>1, PairStable
<1>3. Before(kind, k) = {j \in 1..k - 1 : file[j].kind = kind /\ ~Swallowed(j)}
  BY <1>1 DEF Before, Effective
<1>4. Before(kind, k)' = {j \in 1..k - 1 : file'[j].kind = kind /\ ~Swallowed(j)'}
  BY <1>1 DEF Before, Effective
<1> QED
  BY <1>1, <1>2, <1>3, <1>4

\* So does the section of a line,
LEMMA SectionStable ==
  ASSUME file \in Seq(Line), NEW line \in Line, file' = Append(file, line), NEW n, n = Len(file),
         NEW k \in 1..n + 1
  PROVE  SectionAt(k)' = SectionAt(k)
<1>1. n \in Nat /\ \A j \in 1..n : file'[j] = file[j]
  BY Extend
<1>2. Before("header", k)' = Before("header", k) /\ Before("header", k) \subseteq 1..k - 1
  BY BeforeStable
<1>3. LastOf(Before("header", k)) \in 0..k - 1
  BY <1>1, <1>2, LastIn
<1>4. PICK h \in 0..k - 1 : h = LastOf(Before("header", k))
  BY <1>3
<1>5. SectionAt(k) = IF h = 0 THEN "" ELSE file[h].word
  BY <1>4 DEF SectionAt, Before
<1>6. h = LastOf(Before("header", k)')
  BY <1>2, <1>4
<1>7. SectionAt(k)' = IF h = 0 THEN "" ELSE file'[h].word
  BY <1>6 DEF SectionAt, Before
<1>8. h # 0 => file'[h] = file[h]
  BY <1>1, <1>4
<1>9. CASE h = 0
  BY <1>5, <1>7, <1>9
<1>10. CASE h # 0
  BY <1>5, <1>7, <1>8, <1>10
<1> QED
  BY <1>9, <1>10

\* the name it gives a value to, and whether it is bad.
LEMMA NameStable ==
  ASSUME file \in Seq(Line), NEW line \in Line, file' = Append(file, line), NEW n, n = Len(file),
         NEW k \in 1..n
  PROVE  NameAt(k)' = NameAt(k) /\ (Bad(k)' <=> Bad(k))
<1>1. n \in Nat /\ (\A j \in 1..n : file'[j] = file[j]) /\ k \in 1..n + 1
  BY Extend
<1>2. Swallowed(k)' <=> Swallowed(k)
  BY <1>1, PairStable
<1>3. Before("pair", k)' = Before("pair", k) /\ Before("pair", k) \subseteq 1..k - 1
  BY <1>1, BeforeStable
<1>4. Swallowed(k) => file'[Max(Before("pair", k))] = file[Max(Before("pair", k))]
  <2>1. SUFFICES ASSUME Swallowed(k)
                 PROVE  file'[Max(Before("pair", k))] = file[Max(Before("pair", k))]
    OBVIOUS
  <2>2. PairSince(k)
    BY <2>1 DEF Swallowed, PairSince
  <2>3. Before("pair", k) # {}
    BY <1>1, <2>2, PairEffective
  <2>4. Before("pair", k) \subseteq 0..n
    BY <1>1, <1>3
  <2>5. Max(Before("pair", k)) \in Before("pair", k)
    BY <1>1, <2>3, <2>4, MaxIn
  <2> QED
    BY <1>1, <1>3, <2>5
<1>5. NameAt(k) = IF Swallowed(k) THEN file[Max(Before("pair", k))].word
                  ELSE IF file[k].kind = "pair" THEN file[k].word ELSE ""
  BY DEF NameAt, Before
<1>6. NameAt(k)' = IF Swallowed(k)' THEN file'[Max(Before("pair", k)')].word
                   ELSE IF file'[k].kind = "pair" THEN file'[k].word ELSE ""
  BY DEF NameAt, Before
<1>7. file'[k] = file[k]
  BY <1>1
<1>8. NameAt(k)' = NameAt(k)
  <2>1. CASE Swallowed(k)
    BY <1>2, <1>3, <1>4, <1>5, <1>6, <2>1
  <2>2. CASE ~Swallowed(k)
    BY <1>2, <1>5, <1>6, <1>7, <2>2
  <2> QED
    BY <2>1, <2>2
<1>9. SectionAt(k)' = SectionAt(k)
  BY <1>1, SectionStable
<1> QED
  BY <1>7, <1>8, <1>9 DEF Bad, Assigns, Known

-----------------------------------------------------------------------------
(* What the new line is and does, in terms of what the parser remembers. *)

\* Whether the new line is a continuation, and the name it gives a value to.
Continues(line) == line.indent /\ prev_name # ""
NewName(line) ==
  IF Continues(line) THEN prev_name ELSE IF line.kind = "pair" THEN line.word ELSE ""

\* The parser takes the new line for what it is.
LEMMA NewLine ==
  ASSUME Reader, NEW line \in Line, file' = Append(file, line), NEW n, n = Len(file)
  PROVE  /\ Swallowed(n + 1)' <=> Continues(line)
         /\ SectionAt(n + 1)' = section
         /\ NameAt(n + 1)' = NewName(line)
<1>1. /\ n \in Nat /\ (\A j \in 1..n : file'[j] = file[j])
      /\ file'[n + 1] = line /\ n + 1 \in 1..n + 1 /\ file \in Seq(Line)
  <2>1. file \in Seq(Line)
    BY DEF Reader
  <2> QED
    BY <2>1, Extend
<1>2. lineno = n + 1
  BY DEF lineno
<1>3. Swallowed(n + 1)' <=> line.indent /\ PairSince(n + 1)
  BY <1>1, PairStable
<1>4. PairSince(n + 1) <=> prev_name # ""
  BY <1>2 DEF Reader
<1>5. Swallowed(n + 1)' <=> Continues(line)
  BY <1>3, <1>4 DEF Continues
<1>6. SectionAt(n + 1)' = section
  <2>1. SectionAt(n + 1)' = SectionAt(n + 1)
    BY <1>1, SectionStable
  <2> QED
    BY <1>2, <2>1 DEF Reader
<1>7. ASSUME Continues(line)
      PROVE  file'[Max(Before("pair", n + 1)')].word = prev_name
  <2>1. Before("pair", n + 1)' = Before("pair", n + 1) /\ Before("pair", n + 1) \subseteq 1..n
    BY <1>1, BeforeStable
  <2>2. PairSince(n + 1) /\ prev_name # ""
    BY <1>4, <1>7 DEF Continues
  <2>3. Before("pair", n + 1) # {}
    BY <1>1, <2>2, PairEffective
  <2>4. Before("pair", n + 1) \subseteq 0..n
    BY <1>1, <2>1
  <2>5. Max(Before("pair", n + 1)) \in 1..n
    BY <1>1, <2>1, <2>3, <2>4, MaxIn
  <2>6. file[Max(Before("pair", n + 1))].word = prev_name
    BY <1>2, <2>2 DEF Reader
  <2> QED
    BY <1>1, <2>1, <2>5, <2>6
<1>8. NameAt(n + 1)' = IF Swallowed(n + 1)' THEN file'[Max(Before("pair", n + 1)')].word
                       ELSE IF file'[n + 1].kind = "pair" THEN file'[n + 1].word ELSE ""
  BY DEF NameAt, Before
<1>9. NameAt(n + 1)' = NewName(line)
  BY <1>1, <1>5, <1>7, <1>8 DEF NewName
<1> QED
  BY <1>5, <1>6, <1>9

\* What the line after the new one has behind it: the new line too, if it is
\* effective, a section line at the margin starting afresh.
LEMMA BeforeNext ==
  ASSUME Reader, NEW line \in Line, file' = Append(file, line), NEW n, n = Len(file)
  PROVE  /\ \A kind : Before(kind, n + 2)' =
              Before(kind, n + 1)
                \cup (IF line.kind = kind /\ ~Continues(line) THEN {n + 1} ELSE {})
         /\ PairSince(n + 2)' <=> /\ ~(line.kind = "header" /\ ~line.indent)
                                  /\ PairSince(n + 1) \/ line.kind = "pair"
<1>1. /\ n \in Nat /\ (\A j \in 1..n : file'[j] = file[j]) /\ Len(file') = n + 1
      /\ file'[n + 1] = line /\ n + 1 \in 1..n + 1 /\ file \in Seq(Line)
  <2>1. file \in Seq(Line)
    BY DEF Reader
  <2> QED
    BY <2>1, Extend
<1>2. ASSUME NEW kind
      PROVE  Before(kind, n + 2)' =
               Before(kind, n + 1)
                 \cup (IF line.kind = kind /\ ~Continues(line) THEN {n + 1} ELSE {})
  <2>1. Swallowed(n + 1)' <=> Continues(line)
    BY NewLine
  <2>2. Before(kind, n + 1)' = Before(kind, n + 1)
    BY <1>1, BeforeStable
  <2>3. Before(kind, n + 1)' = {j \in 1..n : file'[j].kind = kind /\ ~Swallowed(j)'}
    BY <1>1 DEF Before, Effective
  <2>4. Before(kind, n + 2)' = {j \in 1..n + 1 : file'[j].kind = kind /\ ~Swallowed(j)'}
    BY <1>1 DEF Before, Effective
  <2> QED
    BY <1>1, <2>1, <2>2, <2>3, <2>4
<1>3. Anchor(n + 1)' = Anchor(n + 1) /\ Anchor(n + 1) \in 0..n
  BY <1>1, AnchorStable
<1>4. PairSince(n + 1)' <=> PairSince(n + 1)
  BY <1>1, PairStable
<1> DEFINE Old == {j \in 1..n : file'[j].kind = "header" /\ ~file'[j].indent}
           New == {j \in 1..n + 1 : file'[j].kind = "header" /\ ~file'[j].indent}
<1>5. Anchor(n + 1)' = LastOf(Old) /\ Anchor(n + 2)' = LastOf(New)
  BY <1>1 DEF Anchor
<1>6. Old \subseteq 1..n
  OBVIOUS
<1>7. \A k : PairSince(k)' <=> \E j \in Anchor(k)' + 1..k - 1 : file'[j].kind = "pair"
  BY DEF PairSince
<1>8. /\ PairSince(n + 1)' <=> \E j \in Anchor(n + 1)' + 1..n : file'[j].kind = "pair"
      /\ PairSince(n + 2)' <=> \E j \in Anchor(n + 2)' + 1..n + 1 : file'[j].kind = "pair"
  <2>1. (n + 1) - 1 = n /\ (n + 2) - 1 = n + 1
    BY <1>1
  <2> QED
    BY <1>7, <2>1
<1>9. CASE line.kind = "header" /\ ~line.indent
  <2>1. New = Old \cup {n + 1}
    BY <1>1, <1>9
  <2> HIDE DEF Old, New
  <2>2. Anchor(n + 2)' = n + 1
    BY <1>1, <1>5, <1>6, <2>1, LastNew
  <2>3. ~PairSince(n + 2)'
    BY <1>1, <1>8, <2>2
  <2> QED
    BY <1>2, <1>9, <2>3
<1>10. CASE ~(line.kind = "header" /\ ~line.indent)
  <2>1. New = Old
    BY <1>1, <1>10
  <2> HIDE DEF Old, New
  <2>2. Anchor(n + 2)' = Anchor(n + 1)
    BY <1>3, <1>5, <2>1
  <2>3. PairSince(n + 2)' <=> PairSince(n + 1)' \/ line.kind = "pair"
    BY <1>1, <1>3, <1>8, <2>2
  <2> QED
    BY <1>2, <1>4, <1>10, <2>3
<1> QED
  BY <1>9, <1>10

\* Whether the new line is bad, and the value it gives to its entry if not.
NewBad(line) ==
  IF NewName(line) # "" THEN <<section, NewName(line)>> \notin Known
                        ELSE line.kind \in {"open header", "number"}
NewValue(line) ==
  IF NewName(line) = "device" \/ ~Continues(line) \/ line.kind = "number" THEN lineno ELSE 0

\* What one round of ini_parse_file does to the parser's variables.
LEMMA Effect ==
  ASSUME NEW line \in Line, Continuation(line) \/ Plain(line)
  PROVE  /\ section' = IF line.kind = "header" /\ ~Continues(line) THEN line.word ELSE section
         /\ prev_name' = IF Continues(line) THEN prev_name
                        ELSE IF line.kind = "header" THEN ""
                        ELSE IF line.kind = "pair" THEN line.word ELSE prev_name
         /\ error' = IF NewBad(line) /\ error = 0 THEN lineno ELSE error
         /\ configuration' = IF NewName(line) # "" /\ ~NewBad(line)
                               THEN [configuration EXCEPT ![NewName(line)] = NewValue(line)]
                               ELSE configuration
<1>1. /\ line.kind \in {"nothing", "header", "pair", "open header", "number"}
      /\ line.kind = "pair" => line.word # ""
  BY Lines
<1>2. CASE Continuation(line)
  <2>1. Continues(line) /\ NewName(line) = prev_name /\ prev_name # ""
    <3>1. line.indent /\ prev_name # ""
      BY <1>2, Zenon DEF Continuation
    <3> QED
      BY <3>1 DEF Continues, NewName
  <2>2. /\ section' = section /\ prev_name' = prev_name
        /\ CONFIG_Handler(prev_name, line.kind = "number")
    BY <1>2, Zenon DEF Continuation
  <2>3. CASE <<section, prev_name>> \in Known
    <3>1. /\ configuration' = [configuration EXCEPT ![prev_name] =
                IF prev_name = "device" \/ line.kind = "number" THEN lineno ELSE 0]
          /\ error' = error
      BY <2>2, <2>3, Zenon DEF CONFIG_Handler
    <3>2. NewValue(line) = IF prev_name = "device" \/ line.kind = "number" THEN lineno ELSE 0
      BY <2>1 DEF NewValue
    <3>3. ~NewBad(line)
      BY <2>1, <2>3 DEF NewBad
    <3> QED
      BY <2>1, <2>2, <3>1, <3>2, <3>3
  <2>4. CASE <<section, prev_name>> \notin Known
    <3>1. Wrong
      BY <2>2, <2>4, Zenon DEF CONFIG_Handler
    <3>2. NewBad(line)
      BY <2>1, <2>4 DEF NewBad
    <3> QED
      BY <2>1, <2>2, <3>1, <3>2 DEF Wrong
  <2> QED
    BY <2>3, <2>4
<1>3. CASE Plain(line)
  <2>1. ~Continues(line)
    BY <1>3 DEF Plain, Continues
  <2>2. CASE line.kind = "nothing"
    BY <1>3, <2>1, <2>2 DEF Plain, Fine, NewName, NewBad
  <2>3. CASE line.kind = "header"
    BY <1>3, <2>1, <2>3 DEF Plain, Fine, NewName, NewBad
  <2>4. CASE line.kind = "pair"
    <3>1. NewName(line) = line.word /\ line.word # ""
      BY <1>1, <2>1, <2>4 DEF NewName
    <3>2. prev_name' = line.word /\ section' = section /\ CONFIG_Handler(line.word, TRUE)
      BY <1>3, <2>1, <2>4 DEF Plain, Continues
    <3>3. CASE <<section, line.word>> \in Known
      BY <2>1, <2>4, <3>1, <3>2, <3>3 DEF CONFIG_Handler, NewBad, NewValue
    <3>4. CASE <<section, line.word>> \notin Known
      BY <2>1, <2>4, <3>1, <3>2, <3>4 DEF CONFIG_Handler, NewBad, NewValue, Wrong
    <3> QED
      BY <3>3, <3>4
  <2>5. CASE line.kind \in {"open header", "number"}
    BY <1>3, <2>1, <2>5 DEF Plain, Wrong, NewName, NewBad
  <2> QED
    BY <1>1, <2>2, <2>3, <2>4, <2>5
<1> QED
  BY <1>2, <1>3

-----------------------------------------------------------------------------
(* A step of the parser preserves the invariant, part by part. *)

\* What the parser remembers is what the lines say, one line later too.
LEMMA ReaderStep ==
  ASSUME Reader, NEW line \in Line, file' = Append(file, line),
         Continuation(line) \/ Plain(line), NEW n, n = Len(file)
  PROVE  Reader'
<1>1. file \in Seq(Line)
  BY DEF Reader
<1>2. /\ n \in Nat /\ (\A j \in 1..n : file'[j] = file[j]) /\ Len(file') = n + 1
      /\ file'[n + 1] = line /\ file' \in Seq(Line) /\ n + 1 \in 1..n + 1
  BY <1>1, Extend
<1>3. lineno = n + 1 /\ lineno' = n + 2
  BY <1>2 DEF lineno
<1>4. /\ \A kind : Before(kind, n + 2)' =
           Before(kind, n + 1) \cup (IF line.kind = kind /\ ~Continues(line) THEN {n + 1} ELSE {})
      /\ PairSince(n + 2)' <=> /\ ~(line.kind = "header" /\ ~line.indent)
                               /\ PairSince(n + 1) \/ line.kind = "pair"
  BY BeforeNext
<1>5. PairSince(n + 1) <=> prev_name # ""
  BY <1>3 DEF Reader
<1>6. /\ section' = IF line.kind = "header" /\ ~Continues(line) THEN line.word ELSE section
      /\ prev_name' = IF Continues(line) THEN prev_name
                     ELSE IF line.kind = "header" THEN ""
                     ELSE IF line.kind = "pair" THEN line.word ELSE prev_name
      /\ error' = IF NewBad(line) /\ error = 0 THEN lineno ELSE error
      /\ configuration' = IF NewName(line) # "" /\ ~NewBad(line)
                            THEN [configuration EXCEPT ![NewName(line)] = NewValue(line)]
                            ELSE configuration
  BY Effect
<1>7. \A kind : Before(kind, n + 1) \subseteq 1..n
  <2> TAKE kind
  <2>1. Before(kind, n + 1) \subseteq 1..(n + 1) - 1
    BY <1>1, <1>2, BeforeStable
  <2> QED
    BY <1>2, <2>1
<1>8. SectionAt(n + 2)' = section'
  <2>1. \A k : SectionAt(k)' = LET j == LastOf(Before("header", k)') IN
                                 IF j = 0 THEN "" ELSE file'[j].word
    BY DEF SectionAt, Before
  <2>2. CASE line.kind = "header" /\ ~Continues(line)
    <3>1. Before("header", n + 2)' = Before("header", n + 1) \cup {n + 1}
      BY <1>4, <2>2
    <3>2. LastOf(Before("header", n + 2)') = n + 1
      BY <1>2, <1>7, <3>1, LastNew
    <3>3. n + 1 # 0
      BY <1>2
    <3>4. section' = line.word
      BY <1>6, <2>2
    <3> QED
      BY <1>2, <2>1, <3>2, <3>3, <3>4
  <2>3. CASE ~(line.kind = "header" /\ ~Continues(line))
    <3>1. Before("header", n + 2)' = Before("header", n + 1)
      BY <1>4, <2>3
    <3>2. Before("header", n + 1)' = Before("header", n + 1)
      BY <1>1, <1>2, BeforeStable
    <3>3. SectionAt(n + 2)' = SectionAt(n + 1)'
      BY <2>1, <3>1, <3>2
    <3>4. SectionAt(n + 1)' = section
      BY NewLine
    <3> QED
      BY <1>6, <2>3, <3>3, <3>4
  <2> QED
    BY <2>2, <2>3
<1>9. line.kind = "pair" => line.word # ""
  BY Lines
<1>10. PairSince(n + 2)' <=> prev_name' # ""
  <2>1. line.indent \in BOOLEAN
    BY Lines
  <2> QED
    BY <1>4, <1>5, <1>6, <1>9, <2>1 DEF Continues
<1>11. ASSUME prev_name' # ""
       PROVE  prev_name' = file'[Max(Before("pair", n + 2)')].word
  <2>1. CASE line.kind = "pair" /\ ~Continues(line)
    <3>1. Before("pair", n + 2)' = Before("pair", n + 1) \cup {n + 1}
      BY <1>4, <2>1
    <3>2. Max(Before("pair", n + 2)') = n + 1
      BY <1>2, <1>7, <3>1, LastNew
    <3> QED
      BY <1>2, <1>6, <2>1, <3>2
  <2>2. CASE ~(line.kind = "pair" /\ ~Continues(line))
    <3>1. Before("pair", n + 2)' = Before("pair", n + 1)
      BY <1>4, <2>2
    <3>2. prev_name' = prev_name /\ prev_name # ""
      BY <1>6, <1>11, <2>2
    <3>3. Before("pair", n + 1) # {}
      BY <1>1, <1>2, <1>5, <3>2, PairEffective
    <3>4. Before("pair", n + 1) \subseteq 0..n
      BY <1>2, <1>7
    <3>5. Max(Before("pair", n + 1)) \in 1..n
      BY <1>2, <1>7, <3>3, <3>4, MaxIn
    <3>6. prev_name = file[Max(Before("pair", n + 1))].word
      BY <1>3, <3>2 DEF Reader
    <3> QED
      BY <1>2, <3>1, <3>2, <3>5, <3>6
  <2> QED
    BY <2>1, <2>2
<1>12. error' \in Nat
  <2>1. error \in Nat
    BY DEF Reader
  <2>2. lineno \in Nat
    BY <1>2, <1>3
  <2> QED
    BY <1>6, <2>1, <2>2
<1>13. configuration' \in [{"port", "device", "speed"} -> Nat]
  <2>1. NewValue(line) \in Nat
    BY <1>2, <1>3 DEF NewValue
  <2>2. configuration \in [{"port", "device", "speed"} -> Nat]
    BY DEF Reader
  <2> QED
    BY <1>6, <2>1, <2>2
<1>14. SectionAt(lineno)' = section'
  BY <1>3, <1>8 DEF SectionAt
<1>15. PairSince(lineno)' <=> prev_name' # ""
  BY <1>3, <1>10 DEF PairSince, Anchor
<1>16. prev_name' # "" => prev_name' = file'[Max(Before("pair", lineno)')].word
  BY <1>3, <1>11 DEF Before
<1> QED
  BY <1>2, <1>12, <1>13, <1>14, <1>15, <1>16 DEF Reader

\* The bad lines.
BadLines == {k \in 1..Len(file) : Bad(k)}

\* The number of the first bad line, among one line more.
LEMMA ErrorStep ==
  ASSUME Reader, FirstError, NEW line \in Line, file' = Append(file, line),
         Continuation(line) \/ Plain(line), NEW n, n = Len(file)
  PROVE  FirstError'
<1>1. file \in Seq(Line) /\ error \in Nat
  BY DEF Reader
<1>2. n \in Nat /\ Len(file') = n + 1 /\ file'[n + 1] = line
  BY <1>1, Extend
<1>3. error' = IF NewBad(line) /\ error = 0 THEN n + 1 ELSE error
  <2>1. lineno = n + 1
    BY DEF lineno
  <2> QED
    BY <2>1, Effect
<1>4. Bad(n + 1)' <=> NewBad(line)
  <2>1. SectionAt(n + 1)' = section /\ NameAt(n + 1)' = NewName(line)
    BY NewLine
  <2> QED
    BY <1>2, <2>1, Zenon DEF Bad, Assigns, NewBad, Known
<1>5. \A k \in 1..n : Bad(k)' <=> Bad(k)
  BY <1>1, NameStable
<1>6. BadLines \subseteq 1..n /\ BadLines = {k \in 1..n : Bad(k)}
  BY DEF BadLines
<1>7. BadLines' = {k \in 1..n + 1 : Bad(k)'}
  BY <1>2 DEF BadLines
<1>8. BadLines' = BadLines \cup (IF NewBad(line) THEN {n + 1} ELSE {})
  BY <1>2, <1>4, <1>5, <1>6, <1>7
<1>9. error = IF BadLines # {} THEN Min(BadLines) ELSE 0
  BY DEF FirstError, BadLines
<1>10. SUFFICES error' = IF BadLines' # {} THEN Min(BadLines') ELSE 0
  BY DEF FirstError, BadLines
<1>11. CASE BadLines = {}
  <2>1. error = 0
    BY <1>9, <1>11
  <2>2. CASE NewBad(line)
    <3>1. BadLines' = {n + 1}
      BY <1>8, <1>11, <2>2
    <3>2. Min(BadLines') = n + 1
      <4>1. BadLines' \subseteq Nat /\ n + 1 \in BadLines' /\ \A y \in BadLines' : n + 1 <= y
        BY <1>2, <3>1
      <4> QED
        BY <4>1, MinIs
    <3> QED
      BY <1>3, <2>1, <2>2, <3>1, <3>2
  <2>3. CASE ~NewBad(line)
    BY <1>3, <1>8, <1>11, <2>1, <2>3
  <2> QED
    BY <2>2, <2>3
<1>12. CASE BadLines # {}
  <2>1. Min(BadLines) \in BadLines /\ \A y \in BadLines : Min(BadLines) <= y
    <3>1. BadLines \subseteq Nat
      BY <1>2, <1>6
    <3> QED
      BY <1>12, <3>1, MinIn
  <2>2. Min(BadLines) \in 1..n /\ error = Min(BadLines)
    BY <1>9, <1>6, <1>12, <2>1
  <2>3. error' = Min(BadLines)
    BY <1>2, <1>3, <2>2
  <2>4. BadLines' \subseteq Nat /\ Min(BadLines) \in BadLines' /\ \A y \in BadLines' : Min(BadLines) <= y
    <3>1. n + 1 \in Nat /\ Min(BadLines) <= n + 1
      BY <1>2, <2>2
    <3>2. \A y \in BadLines' : y \in BadLines \/ y = n + 1
      BY <1>8
    <3>3. Min(BadLines) \in BadLines'
      BY <1>8, <2>1
    <3>4. BadLines' \subseteq Nat
      BY <1>2, <1>6, <3>1, <3>2
    <3> QED
      BY <2>1, <3>1, <3>2, <3>3, <3>4
  <2>5. Min(BadLines') = Min(BadLines)
    BY <2>4, MinIs
  <2> QED
    BY <2>3, <2>4, <2>5
<1> QED
  BY <1>11, <1>12

\* The entries are about fields of the configuration.
LEMMA KnownField ==
  ASSUME NEW e \in Known
  PROVE  e[2] \in {"port", "device", "speed"} /\ e[2] # ""
<1>1. e = <<"remote", "port">> \/ e = <<"wheels", "device">> \/ e = <<"wheels", "speed">>
  BY DEF Known
<1>2. e = <<"remote", "port">> => e[2] = "port"
  OBVIOUS
<1>3. e = <<"wheels", "device">> => e[2] = "device"
  OBVIOUS
<1>4. e = <<"wheels", "speed">> => e[2] = "speed"
  OBVIOUS
<1> QED
  BY <1>1, <1>2, <1>3, <1>4

\* The lines that give entry e a value, and the value that line k gives it.
Giving(e) == {j \in 1..Len(file) : <<SectionAt(j), NameAt(j)>> = e}
ValueOf(e, k) ==
  IF k = 0 \/ (Swallowed(k) /\ e[2] # "device" /\ file[k].kind # "number") THEN 0 ELSE k

\* Each field has the value of the last line that gives it one, counting the new line.
LEMMA ConfigStep ==
  ASSUME Reader, ParsedAsWritten, NEW line \in Line, file' = Append(file, line),
         Continuation(line) \/ Plain(line), NEW n, n = Len(file)
  PROVE  ParsedAsWritten'
<1>1. file \in Seq(Line) /\ configuration \in [{"port", "device", "speed"} -> Nat]
  BY DEF Reader
<1>2. /\ n \in Nat /\ Len(file') = n + 1 /\ file'[n + 1] = line
      /\ \A j \in 1..n : file'[j] = file[j]
  BY <1>1, Extend
<1>3. lineno = n + 1
  BY DEF lineno
<1>4. /\ Swallowed(n + 1)' <=> Continues(line)
      /\ SectionAt(n + 1)' = section
      /\ NameAt(n + 1)' = NewName(line)
  BY NewLine
<1>5. \A j \in 1..n : /\ Swallowed(j)' <=> Swallowed(j)
                      /\ SectionAt(j)' = SectionAt(j) /\ NameAt(j)' = NameAt(j)
  <2> TAKE j \in 1..n
  <2>1. j \in 1..n + 1 /\ j <= n
    BY <1>2
  <2> QED
    BY <1>1, <2>1, PairStable, SectionStable, NameStable
<1>6. configuration' = IF NewName(line) # "" /\ ~NewBad(line)
                         THEN [configuration EXCEPT ![NewName(line)] = NewValue(line)]
                         ELSE configuration
  BY Effect
<1>7. SUFFICES ASSUME NEW e \in Known
               PROVE  configuration'[e[2]] = ValueOf(e, LastOf(Giving(e)))'
  BY DEF ParsedAsWritten, Known, ValueOf, Giving
<1>8. configuration[e[2]] = ValueOf(e, LastOf(Giving(e)))
  BY DEF ParsedAsWritten, ValueOf, Giving
<1>9. Giving(e) = {j \in 1..n : <<SectionAt(j), NameAt(j)>> = e}
  BY DEF Giving
<1>10. Giving(e)' = {j \in 1..n + 1 : <<SectionAt(j)', NameAt(j)'>> = e}
  BY <1>2 DEF Giving
<1>11. /\ Giving(e) \subseteq 1..n
       /\ Giving(e)' = Giving(e) \cup (IF <<section, NewName(line)>> = e THEN {n + 1} ELSE {})
  BY <1>2, <1>4, <1>5, <1>9, <1>10
<1>12. e[2] \in {"port", "device", "speed"} /\ e[2] # ""
  BY KnownField
<1>13. CASE <<section, NewName(line)>> = e
  <2>1. LastOf(Giving(e)') = n + 1
    BY <1>2, <1>11, <1>13, LastNew
  <2>2. NewName(line) = e[2] /\ NewName(line) # "" /\ ~NewBad(line)
    BY <1>12, <1>13 DEF NewBad
  <2>3. configuration'[e[2]] = NewValue(line)
    BY <1>1, <1>6, <1>12, <2>2
  <2>4. NewValue(line) = IF e[2] = "device" \/ ~Continues(line) \/ line.kind = "number"
                           THEN n + 1 ELSE 0
    BY <1>3, <2>2 DEF NewValue
  <2>5. n + 1 # 0
    BY <1>2
  <2>6. ValueOf(e, n + 1)' = IF Continues(line) /\ e[2] # "device" /\ line.kind # "number"
                               THEN 0 ELSE n + 1
    BY <1>2, <1>4, <2>5 DEF ValueOf
  <2>7. ValueOf(e, LastOf(Giving(e)))' = ValueOf(e, n + 1)'
    BY <2>1 DEF ValueOf
  <2> QED
    BY <2>3, <2>4, <2>6, <2>7
<1>14. CASE <<section, NewName(line)>> # e
  <2>1. Giving(e)' = Giving(e)
    BY <1>11, <1>14
  <2>2. PICK k \in 0..n : k = LastOf(Giving(e))
    BY <1>2, <1>11, LastIn
  <2>3. ValueOf(e, k)' = ValueOf(e, k)
    <3>1. CASE k = 0
      BY <3>1 DEF ValueOf
    <3>2. CASE k # 0
      <4>1. k \in 1..n
        BY <1>2, <3>2
      <4> QED
        BY <1>2, <1>5, <4>1 DEF ValueOf
    <3> QED
      BY <3>1, <3>2
  <2>4. ValueOf(e, LastOf(Giving(e)))' = ValueOf(e, k)'
    BY <2>1, <2>2 DEF ValueOf
  <2>5. configuration'[e[2]] = configuration[e[2]]
    <3>1. CASE NewName(line) # "" /\ ~NewBad(line)
      <4>1. <<section, NewName(line)>> \in Known
        BY <3>1 DEF NewBad
      <4>2. NewName(line) # e[2]
        BY <1>14, <4>1 DEF Known
      <4> QED
        BY <1>1, <1>6, <1>12, <3>1, <4>2
    <3>2. CASE ~(NewName(line) # "" /\ ~NewBad(line))
      BY <1>6, <3>2
    <3> QED
      BY <3>1, <3>2
  <2> QED
    BY <1>8, <2>2, <2>3, <2>4, <2>5
<1> QED
  BY <1>13, <1>14

\* Where no line is read, all of it stays as it is.
LEMMA Idle ==
  ASSUME IInv, UNCHANGED parser
  PROVE  IInv'
<1>1. /\ file' = file /\ section' = section /\ prev_name' = prev_name
      /\ error' = error /\ configuration' = configuration
  BY DEF parser
<1>2. \A k : Anchor(k)' = Anchor(k)
  BY <1>1 DEF Anchor
<1>3. \A k : Swallowed(k)' <=> Swallowed(k)
  BY <1>1, <1>2 DEF Swallowed
<1>4. \A kind : Effective(kind)' = Effective(kind)
  BY <1>1, <1>3 DEF Effective
<1>5. \A k : SectionAt(k)' = SectionAt(k) /\ NameAt(k)' = NameAt(k)
  BY <1>1, <1>3, <1>4 DEF SectionAt, NameAt
<1>6. Reader'
  BY <1>1, <1>2, <1>4, <1>5 DEF IInv, Reader, PairSince, Before, lineno
<1>7. FirstError'
  BY <1>1, <1>5 DEF IInv, FirstError, Bad, Assigns, Known
<1>8. ParsedAsWritten'
  BY <1>1, <1>3, <1>5 DEF IInv, ParsedAsWritten, Known
<1> QED
  BY <1>6, <1>7, <1>8 DEF IInv

\* Before the first line there is nothing to remember.
LEMMA InitIInv == Init => IInv
<1> SUFFICES ASSUME Init PROVE IInv
  OBVIOUS
<1>1. /\ file = <<>> /\ section = "" /\ prev_name = "" /\ error = 0
      /\ configuration = [n \in {"port", "device", "speed"} |-> 0]
  BY DEF Init
<1>2. Len(file) = 0 /\ file \in Seq(Line) /\ lineno = 1
  <2>1. Len(<<>>) = 0 /\ <<>> \in Seq(Line)
    BY EmptySeq
  <2>2. Len(file) = 0
    BY <1>1, <2>1
  <2>3. file \in Seq(Line)
    BY <1>1, <2>1
  <2> QED
    BY <2>2, <2>3 DEF lineno
<1>3. \A kind, k : Before(kind, k) = {}
  BY <1>2 DEF Before, Effective
<1>4. SectionAt(lineno) = ""
  BY <1>3 DEF SectionAt, Before, LastOf
<1>5. Anchor(1) = 0
  BY DEF Anchor, LastOf
<1>6. ~PairSince(lineno)
  BY <1>2, <1>5 DEF PairSince
<1>7. Reader
  BY <1>1, <1>2, <1>4, <1>6 DEF Reader
<1>8. FirstError
  <2>1. ~\E k \in 1..Len(file) : Bad(k)
    BY <1>2
  <2> QED
    BY <1>1, <2>1 DEF FirstError
<1>9. ParsedAsWritten
  <2>1. LastOf({}) = 0
    BY DEF LastOf
  <2>2. \A e \in Known : {j \in 1..Len(file) : <<SectionAt(j), NameAt(j)>> = e} = {}
    BY <1>2
  <2>3. \A e \in Known : configuration[e[2]] = 0
    BY <1>1, KnownField
  <2> QED
    BY <2>1, <2>2, <2>3 DEF ParsedAsWritten
<1> QED
  BY <1>7, <1>8, <1>9 DEF IInv

\* The invariant of the parser holds in every reachable state.
THEOREM Invariance == Spec => []IInv
<1>1. IInv /\ [Next]_vars => IInv'
  <2> SUFFICES ASSUME IInv, [Next]_vars PROVE IInv'
    OBVIOUS
  <2>1. CASE ReadLine
    <3>1. PICK line \in Line : file' = Append(file, line) /\ (Continuation(line) \/ Plain(line))
      BY <2>1 DEF ReadLine
    <3>2. PICK n : n = Len(file)
      OBVIOUS
    <3> QED
      BY <3>1, <3>2, ReaderStep, ErrorStep, ConfigStep DEF IInv
  <2>2. CASE UNCHANGED parser
    BY <2>2, Idle
  <2> QED
    BY <2>1, <2>2 DEF Next, Flag, LastOption, DAEMONIZE_Init, OpenFile, EndOfFile, REMOTE_Init, vars
<1> QED
  BY <1>1, InitIInv, PTL DEF Spec

\* The result of ini_parse_file is the number of the first bad line of the file,
\* and 0 exactly if there is none, whatever the file.
THEOREM FirstBadLine == Spec => []FirstError
<1>1. IInv => FirstError
  BY DEF IInv
<1> QED
  BY <1>1, Invariance, PTL

\* The configuration is what the file says when its lines are not read one by one:
\* every field has the value of the last line that gives it one in its section.
THEOREM Parsed == Spec => []ParsedAsWritten
<1>1. IInv => ParsedAsWritten
  BY DEF IInv
<1> QED
  BY <1>1, Invariance, PTL

-----------------------------------------------------------------------------
(* Whether main goes into the background. *)

\* Once DAEMONIZE_Init is behind it, the program is in the background exactly if no
\* flag is set; before, it is not.
Background ==
  /\ options # {} => "debug" \in options
  /\ pc \in {"options", "daemonize"} => ~daemon
  /\ pc \in {"open", "scan", "remote", "running"} => (daemon <=> options = {})

\* Any debug flag keeps the service in the foreground, and only a debug flag.
THEOREM Foreground == Spec => []ForegroundIfDebugged
<1>1. Init => Background
  BY DEF Init, Background
<1>2. Background /\ [Next]_vars => Background'
  <2> SUFFICES ASSUME Background, [Next]_vars PROVE Background'
    OBVIOUS
  <2>1. CASE Flag
    BY <2>1 DEF Flag, Background, parser
  <2>2. CASE LastOption
    BY <2>2 DEF LastOption, Background, command
  <2>3. CASE DAEMONIZE_Init
    BY <2>3 DEF DAEMONIZE_Init, Background
  <2>4. CASE OpenFile \/ EndOfFile \/ REMOTE_Init
    <3>1. /\ pc \in {"open", "scan", "remote"} /\ pc' \in {"scan", "remote", "running", "exit 1"}
          /\ options' = options /\ daemon' = daemon
      BY <2>4 DEF OpenFile, EndOfFile, REMOTE_Init, command
    <3> QED
      BY <3>1 DEF Background
  <2>5. CASE ReadLine
    BY <2>5 DEF ReadLine, Background, command
  <2>6. CASE UNCHANGED vars
    BY <2>6 DEF vars, Background, command
  <2> QED
    BY <2>1, <2>2, <2>3, <2>4, <2>5, <2>6 DEF Next
<1>3. Background => ForegroundIfDebugged
  BY DEF Background, ForegroundIfDebugged
<1> QED
  BY <1>1, <1>2, <1>3, PTL DEF Spec
=============================================================================

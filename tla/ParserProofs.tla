----------------------------- MODULE ParserProofs -----------------------------
(* The two parsers, for any streams a client may send and any cuts between the  *)
(* pieces that arrive: what HttpParse and GetHost say of the bytes received is  *)
(* what the bytes mean when they are looked at as a whole.  GetHost has the     *)
(* variables below and stream, start_line from HttpParse.                       *)
EXTENDS HttpParse, SequenceTheorems, WellFoundedInduction, TLAPS

CONSTANT BufferSize
VARIABLES sent, shut, buffer, read_index, checked_index, checkstate, pc, reply

G == INSTANCE GetHost

(* ---------------------------------- lines -------------------------------------- *)

\* Positions count from 1 here: a byte of C's index i is at i + 1.
Ends == {"CR", "LF"}
\* No line ends, and none is spoilt, behind the first a bytes and up to b.
Plain(s, a, b) == \A j \in a + 1 .. b : s[j] \notin Ends

LEMMA MinExists == ASSUME NEW S \in SUBSET Nat, S # {} PROVE Min(S) \in S /\ \A x \in S : Min(S) <= x
<1>1. PICK x \in S : \A y \in S : ~ (<<y, x>> \in OpToRel(<, Nat))
  BY NatLessThanWellFounded, WFMin
<1>2. ASSUME NEW y \in S PROVE x <= y
  <2>1. x \in Nat /\ y \in Nat /\ <<y, x>> \in Nat \X Nat
    OBVIOUS
  <2>2. <<y, x>> \in OpToRel(<, Nat) <=> y < x
    BY <2>1, Zenon DEF OpToRel
  <2>3. ~ (y < x)
    BY <1>1, <2>2, Zenon
  <2> QED
    BY <2>1, <2>3
<1> QED
  BY <1>2 DEF Min

LEMMA MinIs == ASSUME NEW S \in SUBSET Nat, NEW m \in S, \A x \in S : m <= x PROVE Min(S) = m
<1>1. Min(S) \in S /\ Min(S) <= m
  BY MinExists
<1>2. m <= Min(S) /\ m \in Nat /\ Min(S) \in Nat
  BY <1>1
<1> QED
  BY <1>1, <1>2

\* What parse_line finds
LEMMA ParseIs ==
  ASSUME NEW buf_, NEW read \in Nat, NEW checked \in 0 .. read, NEW L,
         L = ParseLine(buf_, read, checked)
  PROVE  \/ L = [status |-> "LINE_OPEN", checked |-> read] /\ Plain(buf_, checked, read)
         \/ \E k \in checked + 1 .. read :
              /\ Plain(buf_, checked, k - 1)
              /\ \/ buf_[k] = "CR" /\ k = read /\ L = [status |-> "LINE_OPEN", checked |-> k - 1]
                 \/ /\ buf_[k] = "CR" /\ k < read /\ buf_[k + 1] = "LF"
                    /\ L = [status |-> "LINE_OK", checked |-> k + 1]
                 \/ /\ buf_[k] = "CR" /\ k < read /\ buf_[k + 1] # "LF"
                    /\ L = [status |-> "LINE_BAD", checked |-> k - 1]
                 \/ /\ buf_[k] = "LF" /\ ~ (k > 2 /\ buf_[k - 1] = "CR")
                    /\ L = [status |-> "LINE_BAD", checked |-> k - 1]
                 \/ buf_[k] = "LF" /\ k > 2 /\ buf_[k - 1] = "CR"
<1> DEFINE stops == Stops(buf_, read, checked)
<1>1. stops = {i \in checked .. read - 1 : buf_[i + 1] \in Ends}
  BY DEF Stops, Ends
<1>2. CASE stops = {}
  <2>1. ASSUME NEW j \in checked + 1 .. read PROVE buf_[j] \notin Ends
    <3>1. j - 1 \in checked .. read - 1 /\ (j - 1) + 1 = j
      OBVIOUS
    <3> QED
      BY <1>1, <1>2, <3>1
  <2>2. L = [status |-> "LINE_OPEN", checked |-> read]
    BY <1>2 DEF ParseLine
  <2> QED
    BY <2>1, <2>2 DEF Plain
<1>3. CASE stops # {}
  <2>1. stops \in SUBSET Nat
    BY <1>1
  <2>2. PICK i \in stops : i = Min(stops) /\ \A x \in stops : i <= x
    BY <1>3, <2>1, MinExists
  <2>3. PICK k \in checked + 1 .. read : k = i + 1 /\ k - 1 = i /\ k + 1 = i + 2 /\ buf_[k] \in Ends
    <3>1. i + 1 \in checked + 1 .. read /\ (i + 1) - 1 = i /\ (i + 1) + 1 = i + 2 /\ buf_[i + 1] \in Ends
      BY <1>1
    <3> QED
      BY <3>1
  <2>4. ASSUME NEW j \in checked + 1 .. k - 1 PROVE buf_[j] \notin Ends
    <3>1. j - 1 \in checked .. read - 1 /\ (j - 1) + 1 = j /\ ~ (i <= j - 1)
      BY <2>3
    <3> QED
      BY <1>1, <2>2, <3>1
  <2>5. L = IF buf_[k] = "CR" /\ k = read
            THEN [status |-> "LINE_OPEN", checked |-> k - 1]
            ELSE IF buf_[k] = "CR" /\ buf_[k + 1] = "LF"
            THEN [status |-> "LINE_OK", checked |-> k + 1]
            ELSE IF buf_[k] = "LF" /\ k > 2 /\ buf_[k - 1] = "CR"
            THEN [status |-> "LINE_OK", checked |-> k]
            ELSE [status |-> "LINE_BAD", checked |-> k - 1]
    <3>1. i > 1 <=> k > 2
      BY <2>3
    <3> HIDE DEF stops
    <3>2. L = IF buf_[i + 1] = "CR" /\ i + 1 = read
              THEN [status |-> "LINE_OPEN", checked |-> i]
              ELSE IF buf_[i + 1] = "CR" /\ buf_[i + 2] = "LF"
              THEN [status |-> "LINE_OK", checked |-> i + 2]
              ELSE IF buf_[i + 1] = "LF" /\ i > 1 /\ buf_[i] = "CR"
              THEN [status |-> "LINE_OK", checked |-> i + 1]
              ELSE [status |-> "LINE_BAD", checked |-> i]
      BY <1>3, <2>2 DEF ParseLine, stops
    <3> QED
      BY <2>3, <3>1, <3>2
  <2>6. k < read \/ k = read
    OBVIOUS
  <2> QED
    BY <2>3, <2>4, <2>5, <2>6 DEF Plain, Ends
<1> QED
  BY <1>2, <1>3

\* What a parser knows of the bytes s it has received: its buffer holds the line it is
\* in, the lines before are cut, and no line before is spoilt.
Parsed(s, b, start, checked) ==
  /\ b \in Seq(Symbols \cup {"NUL"}) /\ Len(b) = Len(s)
  /\ start \in Nat /\ checked \in start .. Len(s)
  /\ \A j \in start + 1 .. Len(s) : b[j] = s[j]
  /\ Plain(s, start, checked)
  /\ start # 0 => start > 1 /\ s[start - 1] = "CR" /\ s[start] = "LF" /\ b[start] = "NUL"
  /\ \A j \in 1 .. start : ~ BadAt(s, j)
\* Nothing of a line's end but a CR at the very end
OpenLine(s, start) == \A j \in start + 1 .. Len(s) : s[j] \in Ends => s[j] = "CR" /\ j = Len(s)

LEMMA LineFound ==
  ASSUME NEW s \in Seq(Symbols), NEW b, NEW start, NEW checked, Parsed(s, b, start, checked),
         NEW L, L = ParseLine(b, Len(s), checked)
  PROVE  \/ /\ L.status = "LINE_OK"
            /\ \E k \in start + 1 .. Len(s) - 1 :
                 /\ k > checked /\ Plain(s, start, k - 1) /\ s[k] = "CR" /\ s[k + 1] = "LF"
                 /\ L.checked = k + 1
         \/ /\ L.status = "LINE_OPEN" /\ L.checked \in checked .. Len(s)
            /\ Plain(s, start, L.checked) /\ OpenLine(s, start)
         \/ /\ L.status = "LINE_BAD" /\ L.checked \in checked .. Len(s)
            /\ Plain(s, start, L.checked) /\ L.checked + 1 \in 1 .. Len(s)
            /\ BadAt(s, L.checked + 1)
<1>1. PICK n \in Nat : n = Len(s)
  OBVIOUS
<1>2. start \in Nat /\ checked \in 0 .. n /\ start <= checked
  BY <1>1 DEF Parsed
<1>3. \A j \in start + 1 .. n : b[j] = s[j]
  BY <1>1 DEF Parsed
<1>4. \A j \in start + 1 .. checked : s[j] \notin Ends
  BY DEF Parsed, Plain
<1>5. CASE L = [status |-> "LINE_OPEN", checked |-> n] /\ Plain(b, checked, n)
  <2>1. ASSUME NEW j \in start + 1 .. n PROVE s[j] \notin Ends
    <3>1. CASE j \in checked + 1 .. n
      BY <1>2, <1>3, <1>5, <3>1 DEF Plain
    <3>2. CASE j \in start + 1 .. checked
      BY <1>4, <3>2
    <3> QED
      BY <1>2, <3>1, <3>2
  <2> QED
    BY <1>1, <1>2, <1>5, <2>1 DEF Plain, OpenLine
<1>6. ASSUME NEW k \in checked + 1 .. n, Plain(b, checked, k - 1)
      PROVE  /\ k \in start + 1 .. n /\ k \in 1 .. n /\ b[k] = s[k]
             /\ (k < n => b[k + 1] = s[k + 1])
             /\ \A j \in start + 1 .. k - 1 : s[j] \notin Ends
             /\ k > 1 => s[k - 1] # "CR" /\ b[k - 1] # "CR"
  <2>1. k \in start + 1 .. n /\ k \in 1 .. n /\ (k < n => k + 1 \in start + 1 .. n)
    BY <1>2
  <2>2. ASSUME NEW j \in start + 1 .. k - 1 PROVE s[j] \notin Ends
    <3>1. CASE j \in checked + 1 .. k - 1
      <4>1. j \in start + 1 .. n
        BY <2>1
      <4> QED
        BY <1>3, <1>6, <3>1, <4>1 DEF Plain
    <3>2. CASE j \in start + 1 .. checked
      BY <1>4, <3>2
    <3> QED
      BY <1>2, <3>1, <3>2
  <2>3. ASSUME k > 1 PROVE s[k - 1] # "CR" /\ b[k - 1] # "CR"
    <3>1. CASE k - 1 \in start + 1 .. k - 1
      <4>1. k - 1 \in start + 1 .. n
        BY <2>1, <3>1
      <4> QED
        BY <1>3, <2>2, <3>1, <4>1 DEF Ends
    <3>2. CASE k - 1 = start
      BY <2>3, <3>2 DEF Parsed
    <3> QED
      BY <1>2, <2>1, <2>3, <3>1, <3>2
  <2> QED
    BY <1>3, <2>1, <2>2, <2>3
<1>7. ASSUME NEW k \in checked + 1 .. n, Plain(b, checked, k - 1),
             b[k] = "CR", k = n, L = [status |-> "LINE_OPEN", checked |-> k - 1]
      PROVE  /\ L.status = "LINE_OPEN" /\ L.checked \in checked .. n
             /\ Plain(s, start, L.checked) /\ OpenLine(s, start)
  <2>1. \A j \in start + 1 .. n : j \in start + 1 .. k - 1 \/ j = n
    BY <1>7
  <2>2. L.checked = k - 1 /\ L.status = "LINE_OPEN" /\ k - 1 \in checked .. n
    BY <1>2, <1>7
  <2> QED
    BY <1>1, <1>6, <1>7, <2>1, <2>2 DEF Plain, OpenLine
<1>8. ASSUME NEW k \in checked + 1 .. n, Plain(b, checked, k - 1),
             b[k] = "CR", k < n, b[k + 1] = "LF", L = [status |-> "LINE_OK", checked |-> k + 1]
      PROVE  /\ L.status = "LINE_OK"
             /\ k \in start + 1 .. n - 1 /\ k > checked /\ Plain(s, start, k - 1)
             /\ s[k] = "CR" /\ s[k + 1] = "LF" /\ L.checked = k + 1
  <2>1. k \in start + 1 .. n - 1 /\ k > checked
    BY <1>2, <1>8
  <2> QED
    BY <1>6, <1>8, <2>1 DEF Plain
<1>9. ASSUME NEW k \in checked + 1 .. n, Plain(b, checked, k - 1),
             \/ b[k] = "CR" /\ k < n /\ b[k + 1] # "LF"
             \/ b[k] = "LF" /\ ~ (k > 2 /\ b[k - 1] = "CR"),
             L = [status |-> "LINE_BAD", checked |-> k - 1]
      PROVE  /\ L.status = "LINE_BAD" /\ L.checked \in checked .. n
             /\ Plain(s, start, L.checked) /\ L.checked + 1 \in 1 .. n /\ BadAt(s, L.checked + 1)
  <2>1. L.checked = k - 1 /\ L.status = "LINE_BAD" /\ k - 1 \in checked .. n /\ (k - 1) + 1 = k
    BY <1>2, <1>9
  <2>2. BadAt(s, k)
    BY <1>1, <1>6, <1>9 DEF BadAt
  <2> QED
    BY <1>6, <1>9, <2>1, <2>2 DEF Plain
<1>10. ASSUME NEW k \in checked + 1 .. n, Plain(b, checked, k - 1) PROVE ~ (k > 2 /\ b[k - 1] = "CR")
  <2>1. k > 1 => b[k - 1] # "CR"
    BY <1>6, <1>10
  <2> QED
    BY <1>2, <2>1
<1>11. \/ L = [status |-> "LINE_OPEN", checked |-> n] /\ Plain(b, checked, n)
       \/ \E k \in checked + 1 .. n :
              /\ Plain(b, checked, k - 1)
              /\ \/ b[k] = "CR" /\ k = n /\ L = [status |-> "LINE_OPEN", checked |-> k - 1]
                 \/ /\ b[k] = "CR" /\ k < n /\ b[k + 1] = "LF"
                    /\ L = [status |-> "LINE_OK", checked |-> k + 1]
                 \/ /\ b[k] = "CR" /\ k < n /\ b[k + 1] # "LF"
                    /\ L = [status |-> "LINE_BAD", checked |-> k - 1]
                 \/ /\ b[k] = "LF" /\ ~ (k > 2 /\ b[k - 1] = "CR")
                    /\ L = [status |-> "LINE_BAD", checked |-> k - 1]
                 \/ b[k] = "LF" /\ k > 2 /\ b[k - 1] = "CR"
  BY <1>1, <1>2, ParseIs
<1> QED
  BY <1>1, <1>5, <1>7, <1>8, <1>9, <1>10, <1>11

LEMMA Cut ==
  ASSUME NEW T, "NUL" \in T, NEW b \in Seq(T), NEW c \in 2 .. Len(b)
  PROVE  /\ CutLine(b, c) \in Seq(T) /\ Len(CutLine(b, c)) = Len(b)
         /\ \A j \in 1 .. Len(b) : CutLine(b, c)[j] = IF j \in {c - 1, c} THEN "NUL" ELSE b[j]
<1> DEFINE d == [b EXCEPT ![c - 1] = "NUL"]
           f == [d EXCEPT ![c] = "NUL"]
<1>1. c - 1 \in 1 .. Len(b) /\ c \in 1 .. Len(b)
  OBVIOUS
<1>2. /\ d \in Seq(T) /\ Len(d) = Len(b)
      /\ \A j \in 1 .. Len(b) : d[j] = IF j = c - 1 THEN "NUL" ELSE b[j]
  BY <1>1, ExceptSeq
<1> HIDE DEF d
<1>3. /\ f \in Seq(T) /\ Len(f) = Len(d)
      /\ \A j \in 1 .. Len(d) : f[j] = IF j = c THEN "NUL" ELSE d[j]
  BY <1>1, <1>2, ExceptSeq
<1>4. CutLine(b, c) = f
  BY DEF CutLine, d
<1> HIDE DEF f
<1> QED
  BY <1>2, <1>3, <1>4

\* A line found is cut out, and the one that follows is next.
LEMMA LineCut ==
  ASSUME NEW s \in Seq(Symbols), NEW b, NEW start, NEW checked, Parsed(s, b, start, checked),
         NEW k \in start + 1 .. Len(s) - 1, Plain(s, start, k - 1), s[k] = "CR", s[k + 1] = "LF"
  PROVE  /\ Parsed(s, CutLine(b, k + 1), k + 1, k + 1)
         /\ k \in GoodEnds(s)
         /\ \A e \in GoodEnds(s) : e < k + 1 => e < start \/ e = k
<1> DEFINE c == CutLine(b, k + 1)
<1>1. PICK n \in Nat : n = Len(s)
  OBVIOUS
<1>2. start \in Nat /\ k \in 1 .. n /\ k + 1 \in 1 .. n /\ (k + 1) - 1 = k
  BY <1>1 DEF Parsed
<1>3. b \in Seq(Symbols \cup {"NUL"}) /\ Len(b) = n
  BY <1>1 DEF Parsed
<1>4. k + 1 \in 2 .. Len(b) /\ \A j \in 1 .. n : j \in {(k + 1) - 1, k + 1} <=> j = k \/ j = k + 1
  BY <1>2, <1>3
<1>5. /\ c \in Seq(Symbols \cup {"NUL"}) /\ Len(c) = n /\ c[k + 1] = "NUL"
      /\ \A j \in 1 .. n : j # k /\ j # k + 1 => c[j] = b[j]
  BY <1>2, <1>3, <1>4, Cut
<1> HIDE DEF c
<1>6. ASSUME NEW j \in 1 .. k + 1 PROVE ~ BadAt(s, j)
  <2>1. CASE j \in 1 .. start
    BY <2>1 DEF Parsed
  <2>2. CASE j \in start + 1 .. k - 1
    BY <2>2 DEF Plain, Ends, BadAt
  <2>3. CASE j = k
    BY <2>3 DEF BadAt
  <2>4. CASE j = k + 1
    BY <1>2, <2>4 DEF BadAt
  <2> QED
    BY <1>2, <2>1, <2>2, <2>3, <2>4
<1>7. k \in GoodEnds(s)
  BY <1>1, <1>2, <1>6 DEF GoodEnds, LineEnds
<1>8. ASSUME NEW e \in GoodEnds(s), e < k + 1 PROVE e < start \/ e = k
  <2>1. e \in 1 .. n - 1 /\ s[e] = "CR"
    BY <1>1 DEF GoodEnds, LineEnds
  <2>2. e # start
    BY <2>1 DEF Parsed
  <2>3. ~ (e \in start + 1 .. k - 1)
    BY <2>1 DEF Plain, Ends
  <2> QED
    BY <1>2, <1>8, <2>1, <2>2, <2>3
<1>9. Parsed(s, c, k + 1, k + 1)
  <2>1. k + 1 \in Nat /\ k + 1 \in k + 1 .. Len(s) /\ k + 1 > 1 /\ Plain(s, k + 1, k + 1)
    BY <1>1, <1>2 DEF Plain
  <2>2. ASSUME NEW j \in (k + 1) + 1 .. Len(s) PROVE c[j] = s[j]
    <3>1. j \in start + 1 .. Len(s) /\ j \in 1 .. n /\ j # k /\ j # k + 1
      BY <1>1, <1>2
    <3> QED
      BY <1>5, <3>1 DEF Parsed
  <2> QED
    BY <1>1, <1>2, <1>5, <1>6, <2>1, <2>2 DEF Parsed
<1> QED
  BY <1>7, <1>8, <1>9 DEF c

\* The line before the one that is parsed ends right before it.
LEMMA LastEnd ==
  ASSUME NEW s \in Seq(Symbols), NEW b, NEW start, NEW checked, Parsed(s, b, start, checked),
         start # 0
  PROVE  start - 1 \in GoodEnds(s)
<1>1. PICK n \in Nat : n = Len(s)
  OBVIOUS
<1>2. start \in 2 .. n /\ s[start - 1] = "CR" /\ s[start] = "LF"
  BY <1>1 DEF Parsed
<1>3. start - 1 \in 1 .. n - 1 /\ (start - 1) + 1 = start
  BY <1>2
<1>4. \A j \in 1 .. start - 1 : ~ BadAt(s, j)
  BY <1>2 DEF Parsed
<1> QED
  BY <1>1, <1>2, <1>3, <1>4 DEF GoodEnds, LineEnds

\* No line ends behind start when the one there is open or spoilt.
LEMMA NoLineLeft ==
  ASSUME NEW s \in Seq(Symbols), NEW b, NEW start, NEW checked, Parsed(s, b, start, checked),
         \/ OpenLine(s, start)
         \/ \E c \in start .. Len(s) : Plain(s, start, c) /\ BadAt(s, c + 1)
  PROVE  \A e \in GoodEnds(s) : e < start
<1> SUFFICES ASSUME NEW e \in GoodEnds(s) PROVE e < start
  OBVIOUS
<1>1. PICK n \in Nat : n = Len(s)
  OBVIOUS
<1>2. e \in 1 .. n - 1 /\ s[e] = "CR" /\ start \in Nat /\ \A j \in 1 .. e : ~ BadAt(s, j)
  BY <1>1 DEF GoodEnds, LineEnds, Parsed
<1>3. e # start
  BY <1>2 DEF Parsed
<1>4. ASSUME e \in start + 1 .. n PROVE FALSE
  <2>1. CASE OpenLine(s, start)
    BY <1>1, <1>2, <1>4, <2>1 DEF OpenLine, Ends
  <2>2. CASE \E c \in start .. Len(s) : Plain(s, start, c) /\ BadAt(s, c + 1)
    <3>1. PICK c \in start .. n : Plain(s, start, c) /\ BadAt(s, c + 1)
      BY <1>1, <2>2
    <3>2. CASE e <= c
      BY <1>2, <1>4, <3>1, <3>2 DEF Plain, Ends
    <3>3. CASE e > c
      <4>1. c + 1 \in 1 .. e
        BY <1>2, <3>3
      <4> QED
        BY <1>2, <3>1, <4>1
    <3> QED
      BY <1>2, <3>2, <3>3
  <2> QED
    BY <2>1, <2>2
<1> QED
  BY <1>2, <1>3, <1>4

(* ------------------------------- more bytes arrive ------------------------------ *)

\* u begins with s.
Begins(s, u) == Len(s) <= Len(u) /\ \A i \in 1 .. Len(s) : u[i] = s[i]

LEMMA EndsStay ==
  ASSUME NEW s \in Seq(Symbols), NEW u \in Seq(Symbols), Begins(s, u)
  PROVE  /\ \A j \in 1 .. Len(s) - 1 : BadAt(u, j) <=> BadAt(s, j)
         /\ GoodEnds(s) \subseteq GoodEnds(u)
         /\ \A e \in GoodEnds(u) : e < Len(s) => e \in GoodEnds(s)
<1>1. PICK n \in Nat : n = Len(s)
  OBVIOUS
<1>2. PICK m \in Nat : m = Len(u) /\ n <= m
  BY <1>1 DEF Begins
<1>3. \A i \in 1 .. n : u[i] = s[i]
  BY <1>1 DEF Begins
<1>4. ASSUME NEW j \in 1 .. n - 1 PROVE BadAt(u, j) <=> BadAt(s, j)
  <2>1. /\ j \in 1 .. n /\ j + 1 \in 1 .. n /\ j < n /\ j < m
        /\ j # 1 => j - 1 \in 1 .. n
    BY <1>2
  <2>2. u[j] = s[j] /\ u[j + 1] = s[j + 1] /\ (j # 1 => u[j - 1] = s[j - 1])
    BY <1>3, <2>1
  <2> QED
    BY <1>1, <1>2, <2>1, <2>2 DEF BadAt
<1>5. ASSUME NEW e \in 1 .. n - 1 PROVE e \in GoodEnds(s) <=> e \in GoodEnds(u)
  <2>1. e \in 1 .. n /\ e + 1 \in 1 .. n /\ e \in 1 .. m - 1 /\ \A j \in 1 .. e : j \in 1 .. n - 1
    BY <1>2
  <2>2. u[e] = s[e] /\ u[e + 1] = s[e + 1]
    BY <1>3, <2>1
  <2>3. e \in LineEnds(s) <=> e \in LineEnds(u)
    BY <1>1, <1>2, <2>1, <2>2 DEF LineEnds
  <2> QED
    BY <1>4, <2>1, <2>3 DEF GoodEnds
<1>6. \A e \in GoodEnds(s) : e \in 1 .. n - 1
  BY <1>1 DEF GoodEnds, LineEnds
<1>7. \A e \in GoodEnds(u) : e < n => e \in 1 .. n - 1
  BY <1>1, <1>2 DEF GoodEnds, LineEnds
<1> QED
  BY <1>1, <1>4, <1>5, <1>6, <1>7

LEMMA ParsedMore ==
  ASSUME NEW s \in Seq(Symbols), NEW b, NEW start, NEW checked, Parsed(s, b, start, checked),
         NEW u \in Seq(Symbols), Begins(s, u),
         NEW c \in Seq(Symbols \cup {"NUL"}), Len(c) = Len(u),
         \A i \in 1 .. Len(s) : c[i] = b[i], \A i \in Len(s) + 1 .. Len(u) : c[i] = u[i]
  PROVE  Parsed(u, c, start, checked)
<1>1. PICK n \in Nat : n = Len(s)
  OBVIOUS
<1>2. PICK m \in Nat : m = Len(u) /\ n <= m
  BY <1>1 DEF Begins
<1>3. start \in 0 .. n /\ checked \in start .. n /\ checked \in start .. m
  BY <1>1, <1>2 DEF Parsed
<1>4. ASSUME NEW j \in start + 1 .. m PROVE c[j] = u[j]
  <2>1. CASE j \in 1 .. n
    BY <1>1, <1>3, <2>1 DEF Parsed, Begins
  <2>2. CASE j \in n + 1 .. m
    BY <1>1, <1>2, <2>2
  <2> QED
    BY <1>3, <2>1, <2>2
<1>5. ASSUME NEW j \in start + 1 .. checked PROVE u[j] \notin Ends
  <2>1. j \in 1 .. n
    BY <1>3
  <2> QED
    BY <1>1, <2>1 DEF Parsed, Begins, Plain
<1>6. start # 0 => /\ start > 1 /\ u[start - 1] = "CR" /\ u[start] = "LF" /\ c[start] = "NUL"
                   /\ s[start] = "LF"
  <2> SUFFICES ASSUME start # 0
               PROVE  /\ start > 1 /\ u[start - 1] = "CR" /\ u[start] = "LF" /\ c[start] = "NUL"
                      /\ s[start] = "LF"
    OBVIOUS
  <2>1. start > 1 /\ s[start - 1] = "CR" /\ s[start] = "LF" /\ b[start] = "NUL"
    BY DEF Parsed
  <2>2. start \in 1 .. n /\ start - 1 \in 1 .. n
    BY <1>3, <2>1
  <2> QED
    BY <1>1, <2>1, <2>2 DEF Begins
<1>7. ASSUME NEW j \in 1 .. start PROVE ~ BadAt(u, j)
  <2>1. ~ BadAt(s, j)
    BY DEF Parsed
  <2>2. CASE j \in 1 .. n - 1
    BY <1>1, <2>1, <2>2, EndsStay
  <2>3. CASE j = n
    <3>1. j = start /\ j # 1 /\ u[j] = "LF" /\ u[j - 1] = "CR"
      BY <1>3, <1>6, <2>3
    <3> QED
      BY <3>1 DEF BadAt
  <2> QED
    BY <1>3, <2>2, <2>3
<1> QED
  BY <1>2, <1>3, <1>4, <1>5, <1>6, <1>7 DEF Parsed, Plain

(* ------------------------------ what the bytes mean ----------------------------- *)

\* A good request line, and no blank line ends before h
Headed(s, h) ==
  /\ 2 \in GoodEnds(s) /\ s[1] = "GET"
  /\ \A e \in GoodEnds(s) : e < h => e - 2 \notin GoodEnds(s)

\* Before h there is a keep-alive line, a Content-Length line.
HasKA(s, h) == \E e \in GoodEnds(s) : e + 3 < h /\ e + 3 \in GoodEnds(s) /\ s[e + 2] = "KA"
HasCL(s, h) == \E e \in GoodEnds(s) : e + 2 < h /\ s[e + 2] = "CL"

LEMMA EndFacts ==
  ASSUME NEW s \in Seq(Symbols), NEW e \in GoodEnds(s)
  PROVE  e \in Nat \ {0} /\ e < Len(s) /\ s[e] = "CR" /\ s[e + 1] = "LF"
BY DEF GoodEnds, LineEnds

LEMMA HeadingStays ==
  ASSUME NEW s \in Seq(Symbols), NEW u \in Seq(Symbols), Begins(s, u), NEW h \in 0 .. Len(s)
  PROVE  /\ Headed(s, h) => Headed(u, h)
         /\ HasKA(s, h) <=> HasKA(u, h)
         /\ HasCL(s, h) <=> HasCL(u, h)
<1>1. PICK n \in Nat : n = Len(s) /\ h <= n
  OBVIOUS
<1>2. GoodEnds(s) \subseteq GoodEnds(u) /\ \A e \in GoodEnds(u) : e < n => e \in GoodEnds(s)
  BY <1>1, EndsStay
<1>3. \A e \in GoodEnds(u) : e \in Nat \ {0}
  BY EndFacts
<1>4. \A i \in 1 .. n : u[i] = s[i]
  BY <1>1 DEF Begins
<1>5. ASSUME Headed(s, h) PROVE Headed(u, h)
  <2>1. 2 \in GoodEnds(u)
    BY <1>2, <1>5 DEF Headed
  <2>2. u[1] = "GET"
    <3>1. 2 < n
      BY <1>1, <1>5, EndFacts DEF Headed
    <3> QED
      BY <1>4, <1>5, <3>1 DEF Headed
  <2>3. ASSUME NEW e \in GoodEnds(u), e < h, e - 2 \in GoodEnds(u) PROVE FALSE
    <3>1. e < n /\ e - 2 < n
      BY <1>1, <1>3, <2>3
    <3>2. e \in GoodEnds(s) /\ e - 2 \in GoodEnds(s)
      BY <1>2, <2>3, <3>1
    <3> QED
      BY <1>5, <2>3, <3>2 DEF Headed
  <2> QED
    BY <2>1, <2>2, <2>3 DEF Headed
<1>6. ASSUME NEW e \in GoodEnds(u), e + 2 < h
      PROVE  /\ e \in GoodEnds(s) /\ s[e + 2] = u[e + 2]
             /\ e + 3 < h => (e + 3 \in GoodEnds(s) <=> e + 3 \in GoodEnds(u))
  <2>1. e \in Nat /\ e < n /\ e + 2 \in 1 .. n /\ (e + 3 < h => e + 3 < n)
    BY <1>1, <1>3, <1>6
  <2> QED
    BY <1>2, <1>4, <2>1
<1>7. \A e \in GoodEnds(u) : e + 3 < h => e + 2 < h
  BY <1>3
<1>8. HasKA(s, h) <=> HasKA(u, h)
  BY <1>2, <1>6, <1>7 DEF HasKA
<1>9. HasCL(s, h) <=> HasCL(u, h)
  BY <1>2, <1>6 DEF HasCL
<1> QED
  BY <1>5, <1>8, <1>9

\* The first line is what RequestIsBad looks at.
LEMMA FirstLine ==
  ASSUME NEW s \in Seq(Symbols), NEW k \in GoodEnds(s), \A e \in GoodEnds(s) : k <= e
  PROVE  /\ RequestIsBad(s) <=> SubSeq(s, 1, k - 1) # <<"GET">>
         /\ SubSeq(s, 1, k - 1) = <<"GET">> <=> k = 2 /\ s[1] = "GET"
<1>1. k \in Nat \ {0} /\ k < Len(s)
  BY EndFacts
<1>2. GoodEnds(s) \in SUBSET Nat
  BY EndFacts
<1>3. Min(GoodEnds(s)) = k
  BY <1>2, MinIs
<1>4. RequestIsBad(s) <=> SubSeq(s, 1, k - 1) # <<"GET">>
  BY <1>3 DEF RequestIsBad
<1>5. Len(SubSeq(s, 1, k - 1)) = k - 1 /\ \A i \in 1 .. k - 1 : SubSeq(s, 1, k - 1)[i] = s[i]
  BY <1>1
<1> DEFINE l == SubSeq(s, 1, k - 1)
<1>6. l \in Seq(Symbols) /\ Len(l) = k - 1 /\ (k = 2 => l[1] = s[1])
  BY <1>1, <1>5
<1> HIDE DEF l
<1>7. l = <<"GET">> <=> k = 2 /\ s[1] = "GET"
  <2>1. ASSUME l = <<"GET">> PROVE k = 2 /\ s[1] = "GET"
    <3>1. Len(l) = 1 /\ l[1] = "GET"
      BY <2>1
    <3>2. k - 1 = 1
      BY ONLY <1>6, <3>1
    <3>3. k = 2
      BY <1>1, <3>2
    <3> QED
      BY <1>6, <3>1, <3>3
  <2>2. ASSUME k = 2, s[1] = "GET" PROVE l = <<"GET">>
    <3>1. Len(l) = 1 /\ \A i \in 1 .. Len(l) : l[i] = <<"GET">>[i]
      BY <1>6, <2>2
    <3>2. <<"GET">> \in Seq(Symbols)
      BY DEF Symbols, Tokens
    <3> QED
      BY <1>6, <3>1, <3>2, SeqEqual
  <2> QED
    BY <2>1, <2>2
<1> QED
  BY <1>4, <1>7 DEF l

LEMMA HeadedIsGood ==
  ASSUME NEW s \in Seq(Symbols), 2 \in GoodEnds(s), s[1] = "GET" PROVE ~ RequestIsBad(s)
<1>1. \A e \in GoodEnds(s) : e \in Nat \ {0} /\ s[e] = "CR"
  BY EndFacts
<1>2. \A e \in GoodEnds(s) : 2 <= e
  BY <1>1
<1> QED
  BY <1>2, FirstLine

\* The lines that have ended tell nothing yet.
LEMMA NothingYet ==
  ASSUME NEW s \in Seq(Symbols), NEW start \in Nat, start # 0 => Headed(s, start),
         \A e \in GoodEnds(s) : e < start
  PROVE  ~ RequestIsBad(s) /\ BlankLines(s) = {}
<1>1. CASE start = 0
  <2>1. GoodEnds(s) = {}
    BY <1>1, EndFacts
  <2> QED
    BY <2>1 DEF RequestIsBad, BlankLines
<1>2. CASE start # 0
  BY <1>2, HeadedIsGood DEF Headed, BlankLines
<1> QED
  BY <1>1, <1>2

\* The blank line at k ends the header: what was gathered before it is what the
\* header lines say.
LEMMA HeaderMeans ==
  ASSUME NEW s \in Seq(Symbols), NEW k \in GoodEnds(s), k - 2 \in GoodEnds(s), Headed(s, k)
  PROVE  /\ ~ RequestIsBad(s) /\ BlankLines(s) # {} /\ Min(BlankLines(s)) = k
         /\ HasHeader(s, "CL") <=> HasCL(s, k - 1)
         /\ <<"KA">> \in HeaderLines(s) <=> HasKA(s, k - 1)
<1> DEFINE next(e) == Min({i \in GoodEnds(s) : i > e})
           line(e) == SubSeq(s, e + 2, next(e) - 1)
<1>1. \A e \in GoodEnds(s) : e \in Nat \ {0} /\ e < Len(s) /\ s[e] = "CR" /\ s[e + 1] = "LF"
  BY EndFacts
<1>2. GoodEnds(s) \in SUBSET Nat /\ BlankLines(s) \in SUBSET Nat
  BY <1>1 DEF BlankLines
<1>3. k \in BlankLines(s) /\ \A b \in BlankLines(s) : k <= b
  BY <1>1 DEF BlankLines, Headed
<1>4. Min(BlankLines(s)) = k
  BY <1>2, <1>3, MinIs
<1>5. ~ RequestIsBad(s)
  BY HeadedIsGood DEF Headed
<1>6. ASSUME NEW e \in GoodEnds(s)
      PROVE  (\E i \in GoodEnds(s) : i > e) /\ (\A b \in BlankLines(s) : e < b) <=> e < k
  BY <1>1, <1>2, <1>3
<1>7. HeaderLines(s) = {line(e) : e \in {i \in GoodEnds(s) : i < k}}
  BY <1>6 DEF HeaderLines
<1>8. ASSUME NEW e \in GoodEnds(s), NEW n \in GoodEnds(s), e < n,
             \A i \in GoodEnds(s) : i > e => n <= i
      PROVE  next(e) = n
  <2> DEFINE S == {i \in GoodEnds(s) : i > e}
  <2>1. S \in SUBSET Nat /\ n \in S /\ \A i \in S : n <= i
    BY <1>2, <1>8
  <2> HIDE DEF S
  <2>2. Min(S) = n
    BY <2>1, MinIs
  <2> QED
    BY <2>2 DEF S
<1>9. ASSUME NEW e \in GoodEnds(s), e < k
      PROVE  next(e) \in GoodEnds(s) /\ e < next(e) /\ next(e) <= k
  <2> DEFINE S == {i \in GoodEnds(s) : i > e}
  <2>1. S \in SUBSET Nat /\ k \in S
    BY <1>1, <1>2, <1>9
  <2> HIDE DEF S
  <2>2. Min(S) \in S /\ Min(S) <= k
    BY <2>1, MinExists
  <2> QED
    BY <2>2 DEF S
<1>10. ASSUME NEW e \in GoodEnds(s), NEW n \in GoodEnds(s), e < n
       PROVE  /\ SubSeq(s, e + 2, n - 1) # <<>> <=> e + 2 < n
              /\ e + 2 < n => SubSeq(s, e + 2, n - 1)[1] = s[e + 2]
              /\ SubSeq(s, e + 2, n - 1) = <<"KA">> <=> e + 3 = n /\ s[e + 2] = "KA"
  <2> DEFINE l == SubSeq(s, e + 2, n - 1)
  <2>1. e \in Nat /\ n \in Nat /\ e + 2 <= n /\ n < Len(s)
    <3>1. e + 1 # n
      BY <1>1
    <3> QED
      BY <1>1, <1>10, <3>1
  <2>2. Len(l) = n - e - 2 /\ \A i \in 1 .. n - e - 2 : l[i] = s[e + 1 + i]
    BY <2>1
  <2>3. l \in Seq(Symbols)
    BY <2>1
  <2> HIDE DEF l
  <2>4. l # <<>> <=> e + 2 < n
    BY <2>1, <2>2, <2>3
  <2>5. e + 2 < n => l[1] = s[e + 2]
    <3> SUFFICES ASSUME e + 2 < n PROVE l[1] = s[e + 2]
      OBVIOUS
    <3>1. 1 \in 1 .. n - e - 2 /\ e + 1 + 1 = e + 2
      BY <2>1
    <3> QED
      BY <2>2, <3>1
  <2>6. ASSUME l = <<"KA">> PROVE e + 3 = n /\ s[e + 2] = "KA"
    <3>1. Len(l) = 1 /\ l[1] = "KA"
      BY <2>6
    <3>2. n - e - 2 = 1
      BY ONLY <2>2, <3>1
    <3>3. e + 3 = n /\ e + 2 < n
      BY <2>1, <3>2
    <3> QED
      BY <2>5, <3>1, <3>3
  <2>7. ASSUME e + 3 = n, s[e + 2] = "KA" PROVE l = <<"KA">>
    <3>1. Len(l) = 1 /\ l[1] = "KA"
      BY <2>1, <2>2, <2>5, <2>7
    <3>2. <<"KA">> \in Seq(Symbols)
      BY DEF Symbols, Tokens
    <3>3. \A i \in 1 .. 1 : l[i] = <<"KA">>[i]
      BY <3>1
    <3> QED
      BY <2>3, <3>1, <3>2, <3>3, SeqEqual
  <2> QED
    BY <2>4, <2>5, <2>6, <2>7 DEF l
<1>11. ASSUME NEW e \in GoodEnds(s), e < k PROVE e = k - 2 \/ e < k - 2
  <2>1. e \in Nat /\ k \in Nat /\ s[e] = "CR" /\ (k - 2) + 1 = k - 1 /\ s[(k - 2) + 1] = "LF"
    BY <1>1
  <2>2. e # k - 1
    BY <2>1
  <2> QED
    BY <1>11, <2>1, <2>2
<1> HIDE DEF next
<1>12. HasHeader(s, "CL") <=> HasCL(s, k - 1)
  <2>1. ASSUME HasHeader(s, "CL") PROVE HasCL(s, k - 1)
    <3>1. PICK e \in GoodEnds(s) : e < k /\ line(e) # <<>> /\ line(e)[1] = "CL"
      BY <1>7, <2>1 DEF HasHeader
    <3>2. e + 2 < next(e) /\ s[e + 2] = "CL" /\ next(e) <= k /\ next(e) \in Nat
      BY <1>1, <1>9, <1>10, <3>1
    <3>3. e + 2 < k - 1
      <4>1. e + 2 # k - 1
        <5>1. s[k - 1] = "LF"
          <6>1. (k - 2) + 1 = k - 1
            BY <1>1
          <6> QED
            BY <1>1, <6>1
        <5> QED
          BY <3>2, <5>1
      <4> QED
        BY <1>1, <3>2, <4>1
    <3> QED
      BY <3>2, <3>3 DEF HasCL
  <2>2. ASSUME HasCL(s, k - 1) PROVE HasHeader(s, "CL")
    <3>1. PICK e \in GoodEnds(s) : s[e + 2] = "CL" /\ e + 2 < k - 1
      BY <2>2 DEF HasCL
    <3>2. e < k
      BY <1>1, <3>1
    <3>3. next(e) \in GoodEnds(s) /\ e < next(e)
      BY <1>9, <3>2
    <3>4. e + 2 < next(e)
      <4>1. /\ e \in Nat /\ next(e) \in Nat
            /\ s[e + 1] = "LF" /\ s[next(e)] = "CR"
        BY <1>1, <3>3
      <4>2. next(e) # e + 1 /\ next(e) # e + 2
        BY <3>1, <4>1
      <4> QED
        BY <3>3, <4>1, <4>2
    <3>5. line(e) # <<>> /\ line(e)[1] = "CL"
      BY <1>10, <3>1, <3>3, <3>4
    <3>6. line(e) \in HeaderLines(s)
      BY <1>7, <3>2
    <3> QED
      BY <3>5, <3>6 DEF HasHeader
  <2> QED
    BY <2>1, <2>2
<1>13. <<"KA">> \in HeaderLines(s) <=> HasKA(s, k - 1)
  <2>1. ASSUME <<"KA">> \in HeaderLines(s) PROVE HasKA(s, k - 1)
    <3>1. PICK e \in GoodEnds(s) : e < k /\ line(e) = <<"KA">>
      BY <1>7, <2>1
    <3>2. next(e) \in GoodEnds(s) /\ e < next(e) /\ next(e) <= k
      BY <1>9, <3>1
    <3>3. e + 3 = next(e) /\ s[e + 2] = "KA"
      BY <1>10, <3>1, <3>2
    <3>4. e + 3 < k - 1
      <4>1. e + 3 # k - 1
        <5>1. (k - 2) + 1 = k - 1
          BY <1>1
        <5> QED
          BY <1>1, <3>2, <3>3, <5>1
      <4>2. e + 3 # k
        <5>1. e + 3 = k => e + 1 = k - 2
          BY <1>1
        <5> QED
          BY <1>1, <5>1
      <4> QED
        BY <1>1, <3>2, <3>3, <4>1, <4>2
    <3> QED
      BY <3>2, <3>3, <3>4 DEF HasKA
  <2>2. ASSUME HasKA(s, k - 1) PROVE <<"KA">> \in HeaderLines(s)
    <3>1. PICK e \in GoodEnds(s) : e + 3 \in GoodEnds(s) /\ s[e + 2] = "KA" /\ e + 3 < k - 1
      BY <2>2 DEF HasKA
    <3>2. e < k /\ e < e + 3
      BY <1>1, <3>1
    <3>3. \A i \in GoodEnds(s) : i > e => e + 3 <= i
      <4> SUFFICES ASSUME NEW i \in GoodEnds(s), i > e PROVE e + 3 <= i
        OBVIOUS
      <4>1. e \in Nat /\ i \in Nat /\ s[e + 1] = "LF" /\ s[i] = "CR"
        BY <1>1
      <4>2. i # e + 1 /\ i # e + 2
        BY <3>1, <4>1
      <4> QED
        BY <4>1, <4>2
    <3>4. next(e) = e + 3
      BY <1>8, <3>1, <3>2, <3>3
    <3>5. line(e) = <<"KA">>
      BY <1>10, <3>1, <3>2, <3>4
    <3> QED
      BY <1>7, <3>2, <3>5
  <2> QED
    BY <2>1, <2>2
<1> QED
  BY <1>3, <1>4, <1>5, <1>12, <1>13

\* The text of the line behind start that ends at k, as the parser has it in its buffer
Text(b, start, k) == SubSeq(b, start + 1, k - 1)

LEMMA TextIs ==
  ASSUME NEW s \in Seq(Symbols), NEW b, NEW start, NEW checked, Parsed(s, b, start, checked),
         NEW k \in start + 1 .. Len(s) - 1
  PROVE  /\ Text(b, start, k) = Text(s, start, k)
         /\ Text(b, start, k) = <<>> <=> k = start + 1
         /\ k # start + 1 => Text(b, start, k)[1] = s[start + 1]
         /\ Text(b, start, k) = <<"KA">> <=> k = start + 2 /\ s[start + 1] = "KA"
<1> DEFINE text == SubSeq(b, start + 1, k - 1)
           T == Symbols \cup {"NUL"}
           l == SubSeq(s, start + 1, k - 1)
<1>1. PICK n \in Nat : n = Len(s)
  OBVIOUS
<1>2. start \in Nat /\ k \in start + 1 .. n - 1 /\ b \in Seq(T) /\ Len(b) = n
  BY <1>1 DEF Parsed
<1>3. \A j \in start + 1 .. n : b[j] = s[j]
  BY <1>1 DEF Parsed
<1>4. s \in Seq(T)
  BY <1>1
<1> HIDE DEF T
<1>5. text \in Seq(T) /\ Len(text) = k - 1 - start /\ \A i \in 1 .. k - 1 - start : text[i] = b[start + i]
  BY <1>2
<1> HIDE DEF text
<1>6. l \in Seq(T) /\ Len(l) = k - 1 - start /\ \A i \in 1 .. k - 1 - start : l[i] = s[start + i]
  BY <1>1, <1>2, <1>4
<1> HIDE DEF l
<1>7. ASSUME NEW i \in 1 .. k - 1 - start PROVE text[i] = l[i]
  <2>1. start + i \in start + 1 .. n
    BY <1>2
  <2> QED
    BY <1>3, <1>5, <1>6, <2>1
<1>8. text = l
  BY <1>5, <1>6, <1>7, SeqEqual
<1>9. text = <<>> <=> k = start + 1
  BY <1>2, <1>5
<1>10. ASSUME k # start + 1 PROVE text[1] = s[start + 1]
  <2>1. 1 \in 1 .. k - 1 - start
    BY <1>2, <1>10
  <2> QED
    BY <1>6, <1>8, <2>1
<1>11. ASSUME text = <<"KA">> PROVE k = start + 2 /\ s[start + 1] = "KA"
  <2>1. Len(text) = 1 /\ text[1] = "KA"
    BY ONLY <1>11
  <2>2. k - 1 - start = 1
    BY ONLY <1>5, <2>1
  <2>3. k = start + 2 /\ k # start + 1
    BY <1>2, <2>2
  <2> QED
    BY <1>10, <2>1, <2>3
<1>12. ASSUME k = start + 2, s[start + 1] = "KA" PROVE text = <<"KA">>
  <2>1. k # start + 1 /\ k - 1 - start = 1
    BY <1>2, <1>12
  <2>2. Len(text) = 1 /\ text[1] = "KA"
    BY <1>5, <1>10, <1>12, <2>1
  <2>3. \A i \in 1 .. Len(text) : text[i] = <<"KA">>[i]
    BY ONLY <2>2
  <2>4. <<"KA">> \in Seq(T)
    BY DEF T, Symbols, Tokens
  <2> QED
    BY <1>5, <2>2, <2>3, <2>4, SeqEqual
<1> QED
  BY <1>8, <1>9, <1>10, <1>11, <1>12 DEF l, text, Text

\* The first line has ended.
LEMMA FirstHeading ==
  ASSUME NEW s \in Seq(Symbols), NEW b, NEW start, NEW checked, Parsed(s, b, start, checked),
         NEW k \in start + 1 .. Len(s) - 1, Plain(s, start, k - 1), s[k] = "CR", s[k + 1] = "LF",
         start = 0
  PROVE  /\ Text(b, start, k) = <<"GET">> <=> ~ RequestIsBad(s)
         /\ Text(b, start, k) = <<"GET">> =>
              Headed(s, k + 1) /\ ~ HasKA(s, k + 1) /\ ~ HasCL(s, k + 1)
<1> DEFINE text == Text(b, start, k)
<1>1. k \in Nat /\ start + 1 = 1
  OBVIOUS
<1>2. text = Text(s, start, k)
  BY TextIs
<1>3. text = SubSeq(s, 1, k - 1)
  BY <1>1, <1>2 DEF Text
<1> HIDE DEF text
<1>4. k \in GoodEnds(s) /\ \A e \in GoodEnds(s) : e < k + 1 => e < start \/ e = k
  BY LineCut
<1>5. \A e \in GoodEnds(s) : e \in Nat \ {0} /\ s[e] = "CR"
  BY EndFacts
<1>6. ASSUME NEW e \in GoodEnds(s), e < k + 1 PROVE e = k
  BY <1>4, <1>5, <1>6
<1>7. \A e \in GoodEnds(s) : k <= e
  BY <1>5, <1>6
<1>8. /\ RequestIsBad(s) <=> text # <<"GET">>
      /\ text = <<"GET">> <=> k = 2 /\ s[1] = "GET"
  BY <1>3, <1>4, <1>7, FirstLine
<1>9. ASSUME text = <<"GET">> PROVE Headed(s, k + 1) /\ ~ HasKA(s, k + 1) /\ ~ HasCL(s, k + 1)
  <2>1. k = 2 /\ s[1] = "GET"
    BY <1>8, <1>9
  <2>2. \A e \in GoodEnds(s) : e < 3 => e = 2
    BY <1>6, <2>1
  <2>3. Headed(s, k + 1)
    BY <1>4, <1>5, <2>1, <2>2 DEF Headed
  <2>4. \A e \in GoodEnds(s) : e \in Nat \ {0} /\ 2 <= e
    BY <1>5, <1>7, <2>1
  <2>5. ~ HasKA(s, k + 1) /\ ~ HasCL(s, k + 1)
    BY <2>1, <2>4 DEF HasKA, HasCL
  <2> QED
    BY <2>3, <2>5
<1> QED
  BY <1>8, <1>9 DEF text

\* A line with text has ended.
LEMMA HeadingGrows ==
  ASSUME NEW s \in Seq(Symbols), NEW b, NEW start, NEW checked, Parsed(s, b, start, checked),
         start # 0, Headed(s, start),
         NEW k \in start + 1 .. Len(s) - 1, Plain(s, start, k - 1), s[k] = "CR", s[k + 1] = "LF",
         k # start + 1
  PROVE  /\ Headed(s, k + 1)
         /\ HasKA(s, k + 1) <=> HasKA(s, start) \/ (k = start + 2 /\ s[start + 1] = "KA")
         /\ HasCL(s, k + 1) <=> HasCL(s, start) \/ s[start + 1] = "CL"
<1>1. k \in GoodEnds(s) /\ \A e \in GoodEnds(s) : e < k + 1 => e < start \/ e = k
  BY LineCut
<1>2. \A e \in GoodEnds(s) : e \in Nat \ {0} /\ s[e] = "CR" /\ s[e + 1] = "LF"
  BY EndFacts
<1>3. start - 1 \in GoodEnds(s) /\ start \in Nat /\ k \in Nat /\ k > start + 1
      /\ (start - 1) + 1 = start /\ (start - 1) + 2 = start + 1 /\ (start - 1) + 3 = start + 2
  <2>1. start - 1 \in GoodEnds(s)
    BY LastEnd
  <2>2. start \in Nat
    BY DEF Parsed
  <2> QED
    BY <2>1, <2>2
<1>4. s[start] = "LF" /\ s[start - 1] = "CR"
  BY <1>2, <1>3
<1>5. Headed(s, k + 1)
  <2>1. ASSUME NEW e \in GoodEnds(s), e < k + 1, e - 2 \in GoodEnds(s) PROVE FALSE
    <3>1. CASE e < start
      BY <2>1, <3>1 DEF Headed
    <3>2. CASE e = k
      <4>1. k - 2 \in GoodEnds(s) /\ k - 2 < k + 1 /\ k - 2 # k
        BY <1>3, <2>1, <3>2
      <4>2. k - 2 < start
        BY <1>1, <4>1
      <4> QED
        BY <1>3, <4>2
    <3> QED
      BY <1>1, <2>1, <3>1, <3>2
  <2> QED
    BY <2>1 DEF Headed
<1>6. HasKA(s, k + 1) <=> HasKA(s, start) \/ (k = start + 2 /\ s[start + 1] = "KA")
  <2>1. ASSUME HasKA(s, k + 1), ~ HasKA(s, start) PROVE k = start + 2 /\ s[start + 1] = "KA"
    <3>1. PICK e \in GoodEnds(s) : e + 3 \in GoodEnds(s) /\ s[e + 2] = "KA" /\ e + 3 < k + 1
      BY <2>1 DEF HasKA
    <3>2. e \in Nat
      BY <1>2
    <3>3. e + 3 = k
      BY <1>1, <2>1, <3>1, <3>2 DEF HasKA
    <3>4. e < start
      BY <1>1, <3>2, <3>3
    <3>5. e = start - 1
      BY <1>3, <3>2, <3>3, <3>4
    <3> QED
      BY <1>3, <3>1, <3>3, <3>5
  <2>2. ASSUME HasKA(s, start) PROVE HasKA(s, k + 1)
    <3>1. PICK e \in GoodEnds(s) : e + 3 \in GoodEnds(s) /\ s[e + 2] = "KA" /\ e + 3 < start
      BY <2>2 DEF HasKA
    <3>2. e + 3 < k + 1
      BY <1>2, <1>3, <3>1
    <3> QED
      BY <3>1, <3>2 DEF HasKA
  <2>3. ASSUME k = start + 2, s[start + 1] = "KA" PROVE HasKA(s, k + 1)
    <3>1. (start - 1) + 3 \in GoodEnds(s) /\ s[(start - 1) + 2] = "KA" /\ (start - 1) + 3 < k + 1
      BY <1>1, <1>3, <2>3
    <3> QED
      BY <1>3, <3>1 DEF HasKA
  <2> QED
    BY <2>1, <2>2, <2>3
<1>7. HasCL(s, k + 1) <=> HasCL(s, start) \/ s[start + 1] = "CL"
  <2>1. ASSUME HasCL(s, k + 1), ~ HasCL(s, start) PROVE s[start + 1] = "CL"
    <3>1. PICK e \in GoodEnds(s) : s[e + 2] = "CL" /\ e + 2 < k + 1
      BY <2>1 DEF HasCL
    <3>2. e \in Nat /\ s[e + 1] = "LF"
      BY <1>2
    <3>3. e < start
      BY <1>1, <3>1, <3>2
    <3>4. e + 2 >= start
      BY <1>3, <2>1, <3>1, <3>2 DEF HasCL
    <3>5. e # start - 2
      <4>1. e = start - 2 => e + 1 = start - 1
        BY <1>3, <3>2
      <4> QED
        BY <1>4, <3>2, <4>1
    <3>6. e = start - 1
      BY <1>3, <3>2, <3>3, <3>4, <3>5
    <3> QED
      BY <1>3, <3>1, <3>6
  <2>2. ASSUME HasCL(s, start) PROVE HasCL(s, k + 1)
    <3>1. PICK e \in GoodEnds(s) : s[e + 2] = "CL" /\ e + 2 < start
      BY <2>2 DEF HasCL
    <3>2. e + 2 < k + 1
      BY <1>2, <1>3, <3>1
    <3> QED
      BY <3>1, <3>2 DEF HasCL
  <2>3. ASSUME s[start + 1] = "CL" PROVE HasCL(s, k + 1)
    <3>1. s[(start - 1) + 2] = "CL" /\ (start - 1) + 2 < k + 1
      BY <1>3, <2>3
    <3> QED
      BY <1>3, <3>1 DEF HasCL
  <2> QED
    BY <2>1, <2>2, <2>3
<1> QED
  BY <1>5, <1>6, <1>7

\* A blank line ends the header.
LEMMA HeadingEnds ==
  ASSUME NEW s \in Seq(Symbols), NEW b, NEW start, NEW checked, Parsed(s, b, start, checked),
         start # 0, Headed(s, start),
         start + 1 \in 1 .. Len(s) - 1, s[start + 1] = "CR", s[start + 2] = "LF"
  PROVE  start + 1 \in GoodEnds(s) /\ start - 1 \in GoodEnds(s) /\ Headed(s, start + 1)
<1>1. start \in Nat /\ start + 1 \in start + 1 .. Len(s) - 1 /\ (start + 1) + 1 = start + 2
      /\ (start + 1) - 1 = start
  BY DEF Parsed
<1>2. Plain(s, start, (start + 1) - 1)
  BY <1>1 DEF Plain
<1>3. start + 1 \in GoodEnds(s) /\ \A e \in GoodEnds(s) : e < (start + 1) + 1 => e < start \/ e = start + 1
  BY <1>1, <1>2, LineCut
<1>4. \A e \in GoodEnds(s) : e \in Nat
  BY EndFacts
<1>5. \A e \in GoodEnds(s) : e < start + 1 => e < start
  BY <1>1, <1>3, <1>4
<1> QED
  BY <1>3, <1>5, LastEnd DEF Headed

(* ------------------------------- the read buffer --------------------------------- *)

Bytes == Symbols \cup {"NUL"}

\* What a call of parse_line may do to m_checked_idx, whatever is in the buffer
LEMMA Scan ==
  ASSUME NEW b, NEW read \in Nat, NEW checked \in 0 .. read, checked # 0 => b[checked] # "CR",
         NEW L, L = ParseLine(b, read, checked)
  PROVE  /\ L.checked \in checked .. read
         /\ L.status \in {"LINE_OK", "LINE_BAD", "LINE_OPEN"}
         /\ L.status = "LINE_OK" => L.checked >= checked + 2
         /\ L.status # "LINE_OK" => (L.checked # 0 => b[L.checked] # "CR")
<1>1. ASSUME NEW k \in checked + 1 .. read, Plain(b, checked, k - 1), k > 1
      PROVE  b[k - 1] # "CR"
  <2>1. CASE k - 1 = checked
    BY <1>1, <2>1
  <2>2. CASE k - 1 # checked
    <3>1. k - 1 \in checked + 1 .. k - 1
      BY <2>2
    <3> QED
      BY <1>1, <3>1 DEF Plain, Ends
  <2> QED
    BY <2>1, <2>2
<1>2. ASSUME L = [status |-> "LINE_OPEN", checked |-> read], Plain(b, checked, read), read # 0
      PROVE  b[read] # "CR"
  <2>1. CASE read = checked
    BY <1>2, <2>1
  <2>2. CASE read # checked
    BY <1>2, <2>2 DEF Plain, Ends
  <2> QED
    BY <2>1, <2>2
<1>3. CASE L = [status |-> "LINE_OPEN", checked |-> read] /\ Plain(b, checked, read)
  BY <1>2, <1>3
<1>4. ASSUME NEW k \in checked + 1 .. read, Plain(b, checked, k - 1),
             \/ k < read /\ L = [status |-> "LINE_OK", checked |-> k + 1]
             \/ L = [status |-> "LINE_OPEN", checked |-> k - 1]
             \/ L = [status |-> "LINE_BAD", checked |-> k - 1]
      PROVE  /\ L.checked \in checked .. read
             /\ L.status \in {"LINE_OK", "LINE_BAD", "LINE_OPEN"}
             /\ L.status = "LINE_OK" => L.checked >= checked + 2
             /\ L.status # "LINE_OK" => (L.checked # 0 => b[L.checked] # "CR")
  <2>1. CASE k < read /\ L = [status |-> "LINE_OK", checked |-> k + 1]
    BY <2>1
  <2>2. CASE L.checked = k - 1 /\ L.status \in {"LINE_OPEN", "LINE_BAD"}
    <3>1. k - 1 # 0 => b[k - 1] # "CR"
      BY <1>1, <1>4
    <3> QED
      BY <2>2, <3>1
  <2> QED
    BY <1>4, <2>1, <2>2
<1>5. ASSUME NEW k \in checked + 1 .. read, Plain(b, checked, k - 1) PROVE ~ (k > 2 /\ b[k - 1] = "CR")
  <2>1. k > 1 => b[k - 1] # "CR"
    BY <1>1, <1>5
  <2> QED
    BY <2>1
<1>6. \/ L = [status |-> "LINE_OPEN", checked |-> read] /\ Plain(b, checked, read)
      \/ \E k \in checked + 1 .. read :
              /\ Plain(b, checked, k - 1)
              /\ \/ b[k] = "CR" /\ k = read /\ L = [status |-> "LINE_OPEN", checked |-> k - 1]
                 \/ /\ b[k] = "CR" /\ k < read /\ b[k + 1] = "LF"
                    /\ L = [status |-> "LINE_OK", checked |-> k + 1]
                 \/ /\ b[k] = "CR" /\ k < read /\ b[k + 1] # "LF"
                    /\ L = [status |-> "LINE_BAD", checked |-> k - 1]
                 \/ /\ b[k] = "LF" /\ ~ (k > 2 /\ b[k - 1] = "CR")
                    /\ L = [status |-> "LINE_BAD", checked |-> k - 1]
                 \/ b[k] = "LF" /\ k > 2 /\ b[k - 1] = "CR"
  BY ParseIs
<1>7. CASE \E k \in checked + 1 .. read :
              /\ Plain(b, checked, k - 1)
              /\ \/ k < read /\ L = [status |-> "LINE_OK", checked |-> k + 1]
                 \/ L = [status |-> "LINE_OPEN", checked |-> k - 1]
                 \/ L = [status |-> "LINE_BAD", checked |-> k - 1]
  BY <1>4, <1>7
<1> QED
  BY <1>3, <1>5, <1>6, <1>7

\* The bytes received, and what recv appends to them
LEMMA Received ==
  ASSUME NEW all \in Seq(Symbols), NEW r \in 0 .. Len(all)
  PROVE  /\ SubSeq(all, 1, r) \in Seq(Symbols) /\ Len(SubSeq(all, 1, r)) = r
         /\ \A i \in 1 .. r : SubSeq(all, 1, r)[i] = all[i]
OBVIOUS

Joined(b, all, r, n) == b \o SubSeq(all, r + 1, r + n)

LEMMA ReceivedMore ==
  ASSUME NEW all \in Seq(Symbols), NEW r \in 0 .. Len(all), NEW n \in Nat, r + n <= Len(all),
         NEW b \in Seq(Bytes), Len(b) = r
  PROVE  /\ Begins(SubSeq(all, 1, r), SubSeq(all, 1, r + n))
         /\ Joined(b, all, r, n) \in Seq(Bytes) /\ Len(Joined(b, all, r, n)) = r + n
         /\ \A i \in 1 .. r : Joined(b, all, r, n)[i] = b[i]
         /\ \A i \in r + 1 .. r + n : Joined(b, all, r, n)[i] = all[i]
<1> DEFINE c == Joined(b, all, r, n)
           t == SubSeq(all, r + 1, r + n)
<1>1. r \in Nat /\ r + n \in 0 .. Len(all)
  OBVIOUS
<1>2. Begins(SubSeq(all, 1, r), SubSeq(all, 1, r + n))
  BY <1>1, Received DEF Begins
<1>3. t \in Seq(Bytes) /\ Len(t) = n /\ \A i \in 1 .. n : t[i] = all[r + i]
  <2>1. t \in Seq(Symbols) /\ Len(t) = n
    BY <1>1
  <2>2. ASSUME NEW i \in 1 .. n PROVE t[i] = all[r + i]
    <3>1. i \in 1 .. (r + n) - (r + 1) + 1 /\ (r + 1) + i - 1 = r + i
      BY <1>1
    <3>2. t[i] = all[(r + 1) + i - 1]
      BY <1>1, <3>1, SubSeqProperties
    <3> QED
      BY <3>1, <3>2
  <2>3. t \in Seq(Bytes)
    BY <1>1, <2>1 DEF Bytes
  <2> QED
    BY <2>1, <2>2, <2>3
<1>4. c = b \o t
  BY DEF Joined
<1> HIDE DEF c, t
<1>5. c \in Seq(Bytes) /\ Len(c) = r + n /\ \A i \in 1 .. r : c[i] = b[i]
  <2>1. c \in Seq(Bytes) /\ Len(c) = Len(b) + Len(t)
    BY <1>3, <1>4, ConcatProperties
  <2>2. \A i \in 1 .. r : c[i] = b[i]
    BY <1>1, <1>3, <1>4
  <2> QED
    BY <1>3, <2>1, <2>2
<1>6. ASSUME NEW i \in r + 1 .. r + n PROVE c[i] = all[i]
  <2>1. i - r \in 1 .. n /\ r + (i - r) = i /\ ~ (i <= r) /\ i \in 1 .. r + n
    BY <1>1
  <2>2. c[i] = t[i - r]
    BY <1>1, <1>3, <1>4, <2>1, ConcatProperties
  <2> QED
    BY <1>3, <2>1, <2>2
<1> QED
  BY <1>2, <1>5, <1>6 DEF c

(* --------------------------------- process_read ---------------------------------- *)

\* The indices and the buffer, in every state of the parser
Frame ==
  /\ TypeOK /\ start_line \in Nat /\ checked_idx \in Nat
  /\ stream \in Seq(Symbols) /\ buf \in Seq(Bytes)
  /\ checked_idx # 0 => buf[checked_idx] # "CR"
  /\ running => verdict = "NO_REQUEST"

LEMMA FrameInit == Init => Frame
<1> SUFFICES ASSUME Init PROVE Frame
  OBVIOUS
<1>1. stream \in Seq(Symbols)
  BY StreamsAssumption DEF Init
<1>2. buf = <<>> /\ buf \in Seq(Bytes) /\ Len(buf) = 0
  BY DEF Init
<1>3. Len(stream) \in Nat
  BY <1>1
<1>4. /\ read_idx = 0 /\ checked_idx = 0 /\ start_line = 0 /\ content_length = 0
      /\ check_state = "REQUESTLINE" /\ is_linger = FALSE
      /\ line_status = "LINE_OK" /\ running = FALSE /\ verdict = "NO_REQUEST"
  BY DEF Init
<1>5. TypeOK
  <2>1. Len(buf) = read_idx /\ read_idx \in 0 .. Len(stream)
    BY <1>2, <1>3, <1>4
  <2>2. \A i \in 1 .. Len(buf) : buf[i] \in {stream[i], "NUL"}
    BY <1>2
  <2>3. is_linger \in BOOLEAN /\ running \in BOOLEAN
    BY <1>4
  <2>4. 0 <= start_line /\ start_line <= checked_idx /\ checked_idx <= read_idx
    BY <1>4
  <2>5. /\ check_state \in {"REQUESTLINE", "HEADER", "CONTENT"}
        /\ content_length \in {0, ContentLength}
        /\ line_status \in {"LINE_OK", "LINE_BAD", "LINE_OPEN"}
        /\ verdict \in {"NO_REQUEST", "GET_REQUEST", "BAD_REQUEST"}
    BY <1>4
  <2> QED
    BY <2>1, <2>2, <2>3, <2>4, <2>5 DEF TypeOK
<1> QED
  BY <1>1, <1>2, <1>4, <1>5 DEF Frame

\* parse_line in a state of the parser
LEMMA LineIs ==
  ASSUME Frame
  PROVE  /\ Line.checked \in checked_idx .. read_idx
         /\ Line.status \in {"LINE_OK", "LINE_BAD", "LINE_OPEN"}
         /\ Line.status = "LINE_OK" => Line.checked >= checked_idx + 2
         /\ Line.status # "LINE_OK" => (Line.checked # 0 => buf[Line.checked] # "CR")
<1>1. read_idx \in Nat /\ checked_idx \in 0 .. read_idx
  BY DEF Frame, TypeOK
<1> QED
  BY <1>1, Scan DEF Frame, Line

\* Where a line is cut
LEMMA CutKeeps ==
  ASSUME Frame, Line.status = "LINE_OK"
  PROVE  LET c == CutLine(buf, Line.checked)
         IN  /\ c \in Seq(Bytes) /\ Len(c) = read_idx /\ c[Line.checked] = "NUL"
             /\ \A i \in 1 .. read_idx : c[i] \in {stream[i], "NUL"}
             /\ \A i \in 1 .. start_line : c[i] = buf[i]
<1> DEFINE k == Line.checked
<1>1. k \in checked_idx .. read_idx /\ k >= checked_idx + 2
  BY LineIs
<1> HIDE DEF k
<1>2. buf \in Seq(Bytes) /\ Len(buf) = read_idx /\ start_line \in 0 .. checked_idx
      /\ read_idx \in Nat /\ checked_idx \in Nat
  BY DEF Frame, TypeOK
<1>3. k \in 2 .. Len(buf)
  BY <1>1, <1>2
<1>4. "NUL" \in Bytes
  BY DEF Bytes
<1> DEFINE c == CutLine(buf, k)
<1>5. /\ c \in Seq(Bytes) /\ Len(c) = read_idx
      /\ \A i \in 1 .. read_idx : c[i] = IF i \in {k - 1, k} THEN "NUL" ELSE buf[i]
  BY <1>2, <1>3, <1>4, Cut
<1> HIDE DEF c
<1>6. c[k] = "NUL"
  BY <1>2, <1>3, <1>5
<1>7. \A i \in 1 .. read_idx : c[i] \in {stream[i], "NUL"}
  BY <1>2, <1>5 DEF Frame, TypeOK
<1>8. ASSUME NEW i \in 1 .. start_line PROVE c[i] = buf[i]
  <2>1. i \in 1 .. read_idx /\ i \notin {k - 1, k}
    BY <1>1, <1>2, <1>3
  <2> QED
    BY <1>5, <2>1
<1> QED
  BY <1>5, <1>6, <1>7, <1>8 DEF c, k

LEMMA FrameStep ==
  ASSUME Frame, [Next]_vars
  PROVE  Frame' /\ \A i \in 1 .. start_line : buf'[i] = buf[i]
<1>1. /\ buf \in Seq(Bytes) /\ Len(buf) = read_idx /\ read_idx \in 0 .. Len(stream)
      /\ stream \in Seq(Symbols) /\ start_line \in Nat /\ checked_idx \in Nat
      /\ start_line <= checked_idx /\ checked_idx <= read_idx
      /\ \A i \in 1 .. read_idx : buf[i] \in {stream[i], "NUL"}
  BY DEF Frame, TypeOK
<1>2. Len(stream) \in Nat /\ read_idx \in Nat /\ ContentLength \in Nat \ {0}
  BY <1>1, StreamsAssumption
<1>3. ASSUME NEW n \in 1 .. Len(stream), Read(n)
      PROVE  Frame' /\ \A i \in 1 .. start_line : buf'[i] = buf[i]
  <2>1. n \in Nat /\ read_idx + n <= Len(stream) /\ read_idx + n \in 0 .. Len(stream)
    BY <1>2, <1>3 DEF Read
  <2>2. /\ buf' \in Seq(Bytes) /\ Len(buf') = read_idx'
        /\ \A i \in 1 .. read_idx : buf'[i] = buf[i]
        /\ \A i \in read_idx + 1 .. read_idx' : buf'[i] = stream[i]
    <3>1. buf' = Joined(buf, stream, read_idx, n) /\ read_idx' = read_idx + n
      BY <1>3 DEF Read, Joined
    <3> QED
      BY <1>1, <2>1, <3>1, ReceivedMore
  <2>3. \A i \in 1 .. read_idx' : buf'[i] \in {stream[i], "NUL"}
    <3>1. \A i \in 1 .. read_idx' : i \in 1 .. read_idx \/ i \in read_idx + 1 .. read_idx'
      BY <1>1, <1>2, <1>3, <2>1 DEF Read
    <3> QED
      BY <1>1, <2>2, <3>1
  <2>4. checked_idx # 0 => buf'[checked_idx] # "CR"
    <3>1. checked_idx # 0 => checked_idx \in 1 .. read_idx
      BY <1>1, <1>2
    <3> QED
      BY <2>2, <3>1 DEF Frame
  <2>5. \A i \in 1 .. start_line : i \in 1 .. read_idx
    BY <1>1, <1>2
  <2>6. /\ read_idx' = read_idx + n /\ read_idx' \in 0 .. Len(stream) /\ checked_idx <= read_idx'
        /\ line_status' = "LINE_OK" /\ running' = TRUE /\ verdict' = "NO_REQUEST"
        /\ UNCHANGED <<stream, checked_idx, start_line, check_state, content_length, is_linger>>
    BY <1>1, <1>2, <1>3, <2>1 DEF Read
  <2> QED
    BY <1>1, <2>2, <2>3, <2>4, <2>5, <2>6 DEF Frame, TypeOK
<1>4. CASE NoLine
  <2>1. /\ checked_idx' = Line.checked /\ line_status' = Line.status /\ Line.status # "LINE_OK"
        /\ running' = FALSE /\ verdict' = "NO_REQUEST"
        /\ UNCHANGED <<stream, read_idx, buf, start_line, check_state, content_length, is_linger>>
    BY <1>4 DEF NoLine, Return, input
  <2>2. checked_idx' \in Nat /\ start_line <= checked_idx' /\ checked_idx' <= read_idx
    BY <1>1, <1>2, <2>1, LineIs
  <2> QED
    BY <1>1, <2>1, <2>2, LineIs DEF Frame, TypeOK
<1>5. ASSUME GotLine,
             check_state' \in {"REQUESTLINE", "HEADER", "CONTENT"},
             content_length' \in {0, ContentLength}, is_linger' \in BOOLEAN,
             \/ running' = running /\ verdict' = verdict
             \/ running' = FALSE /\ verdict' \in {"GET_REQUEST", "BAD_REQUEST"}
      PROVE  Frame' /\ \A i \in 1 .. start_line : buf'[i] = buf[i]
  <2>1. /\ Line.status = "LINE_OK" /\ buf' = CutLine(buf, Line.checked)
        /\ checked_idx' = Line.checked /\ start_line' = Line.checked
        /\ line_status' = "LINE_OK" /\ UNCHANGED <<stream, read_idx>>
    BY <1>5 DEF GotLine, input
  <2>2. /\ buf' \in Seq(Bytes) /\ Len(buf') = read_idx /\ buf'[checked_idx'] = "NUL"
        /\ \A i \in 1 .. read_idx : buf'[i] \in {stream[i], "NUL"}
        /\ \A i \in 1 .. start_line : buf'[i] = buf[i]
    BY <2>1, CutKeeps
  <2>3. Line.checked \in Nat /\ Line.checked <= read_idx
    BY <1>1, <1>2, LineIs
  <2>4. running' \in BOOLEAN /\ verdict' \in {"NO_REQUEST", "GET_REQUEST", "BAD_REQUEST"}
        /\ (running' => verdict' = "NO_REQUEST")
    <3>1. CASE running' = running /\ verdict' = verdict
      BY <3>1 DEF Frame, TypeOK
    <3>2. CASE running' = FALSE /\ verdict' \in {"GET_REQUEST", "BAD_REQUEST"}
      BY <3>2
    <3> QED
      BY <1>5, <3>1, <3>2
  <2> QED
    BY <1>1, <1>5, <2>1, <2>2, <2>3, <2>4 DEF Frame, TypeOK
<1>6. CASE GotRequestLine
  <2>1. UNCHANGED <<content_length, is_linger>> /\ check_state' \in {check_state, "HEADER"}
    BY <1>6 DEF GotRequestLine
  <2>2. \/ running' = running /\ verdict' = verdict
        \/ running' = FALSE /\ verdict' \in {"GET_REQUEST", "BAD_REQUEST"}
    BY <1>6 DEF GotRequestLine, Return
  <2> QED
    BY <1>5, <1>6, <2>1, <2>2 DEF GotRequestLine, Frame, TypeOK
<1>7. CASE GotHeader
  <2>1. is_linger' \in BOOLEAN /\ content_length' \in {0, ContentLength}
    BY <1>7 DEF GotHeader, Frame, TypeOK
  <2>2. UNCHANGED <<check_state, running, verdict>>
    BY <1>7 DEF GotHeader
  <2> QED
    BY <1>5, <1>7, <2>1, <2>2 DEF GotHeader, Frame, TypeOK
<1>8. CASE GotBlank
  <2>1. UNCHANGED <<content_length, is_linger>> /\ check_state' \in {check_state, "CONTENT"}
    BY <1>8 DEF GotBlank
  <2>2. \/ running' = running /\ verdict' = verdict
        \/ running' = FALSE /\ verdict' \in {"GET_REQUEST", "BAD_REQUEST"}
    BY <1>8 DEF GotBlank, Return
  <2> QED
    BY <1>5, <1>8, <2>1, <2>2 DEF GotBlank, Frame, TypeOK
<1>9. CASE GotContent
  <2>1. /\ start_line' = checked_idx
        /\ UNCHANGED <<stream, read_idx, checked_idx, check_state, content_length, is_linger>>
        /\ line_status' \in {"LINE_OK", "LINE_OPEN"}
    BY <1>9 DEF GotContent, input
  <2>2. running' \in BOOLEAN /\ verdict' \in {"NO_REQUEST", "GET_REQUEST", "BAD_REQUEST"}
        /\ (running' => verdict' = "NO_REQUEST")
    BY <1>9 DEF GotContent, Return, Frame, TypeOK
  <2>3. /\ buf' \in Seq(Bytes) /\ Len(buf') = read_idx
        /\ \A i \in 1 .. read_idx : buf'[i] \in {buf[i], "NUL"}
        /\ \A i \in 1 .. start_line : buf'[i] = buf[i]
    <3>1. CASE buf' = buf
      BY <1>1, <3>1
    <3>2. CASE buf' # buf
      <4> DEFINE i == start_line + content_length
      <4>1. i \in Nat /\ i >= start_line
        BY <1>1, <1>2 DEF Frame, TypeOK
      <4>2. buf' = CutAt(i)
        BY <1>9, <3>2 DEF GotContent
      <4> HIDE DEF i
      <4>3. i + 1 \in 1 .. Len(buf) /\ buf' = [buf EXCEPT ![i + 1] = "NUL"]
        BY <1>1, <1>2, <3>2, <4>1, <4>2 DEF CutAt
      <4>4. "NUL" \in Bytes
        BY DEF Bytes
      <4>5. /\ buf' \in Seq(Bytes) /\ Len(buf') = read_idx
            /\ \A j \in 1 .. read_idx : buf'[j] = IF j = i + 1 THEN "NUL" ELSE buf[j]
        BY <1>1, <4>3, <4>4, ExceptSeq
      <4>6. \A j \in 1 .. start_line : j \in 1 .. read_idx /\ j # i + 1
        BY <1>1, <1>2, <4>1
      <4> QED
        BY <4>5, <4>6
    <3> QED
      BY <3>1, <3>2
  <2>4. \A i \in 1 .. read_idx : buf'[i] \in {stream[i], "NUL"}
    BY <1>1, <2>3
  <2>5. checked_idx # 0 => buf'[checked_idx] # "CR"
    <3>1. checked_idx # 0 => checked_idx \in 1 .. read_idx
      BY <1>1, <1>2
    <3> QED
      BY <2>3, <3>1 DEF Frame
  <2> QED
    BY <1>1, <2>1, <2>2, <2>3, <2>4, <2>5 DEF Frame, TypeOK
<1>10. CASE ScanContent
  <2>1. /\ checked_idx' = Line.checked /\ line_status' = Line.status
        /\ UNCHANGED <<stream, read_idx, start_line, check_state, content_length, is_linger>>
    BY <1>10 DEF ScanContent, input
  <2>2. checked_idx' \in Nat /\ start_line <= checked_idx' /\ checked_idx' <= read_idx
    BY <1>1, <1>2, <2>1, LineIs
  <2>3. running' \in BOOLEAN /\ verdict' \in {"NO_REQUEST", "GET_REQUEST", "BAD_REQUEST"}
        /\ (running' => verdict' = "NO_REQUEST")
    BY <1>10 DEF ScanContent, Return, Frame, TypeOK
  <2>4. CASE Line.status = "LINE_OK"
    <3>1. buf' = CutLine(buf, Line.checked)
      BY <1>10, <2>4 DEF ScanContent
    <3>2. /\ buf' \in Seq(Bytes) /\ Len(buf') = read_idx /\ buf'[checked_idx'] = "NUL"
          /\ \A i \in 1 .. read_idx : buf'[i] \in {stream[i], "NUL"}
          /\ \A i \in 1 .. start_line : buf'[i] = buf[i]
      BY <2>1, <2>4, <3>1, CutKeeps
    <3> QED
      BY <1>1, <2>1, <2>2, <2>3, <2>4, <3>2 DEF Frame, TypeOK
  <2>5. CASE Line.status # "LINE_OK"
    <3>1. buf' = buf
      BY <1>10, <2>5 DEF ScanContent
    <3> QED
      BY <1>1, <2>1, <2>2, <2>3, <2>5, <3>1, LineIs DEF Frame, TypeOK
  <2> QED
    BY <2>4, <2>5
<1>11. CASE UNCHANGED vars
  BY <1>1, <1>11 DEF vars, Frame, TypeOK
<1> QED
  BY <1>3, <1>4, <1>6, <1>7, <1>8, <1>9, <1>10, <1>11 DEF Next, ProcessRead

\* The text that m_url and m_host point into is not written to any more, for any bytes
\* a client sends and any segments they come in.
THEOREM ParsedTextStays == Spec => ParsedTextKept
<1>1. Frame /\ [Next]_vars => Frame'
  BY FrameStep
<1>2. Frame /\ [Next]_vars => [\A i \in 1 .. start_line : buf'[i] = buf[i]]_vars
  BY FrameStep
<1> QED
  BY <1>1, <1>2, FrameInit, PTL DEF Spec, ParsedTextKept

\* Between and within the calls, up to the blank line: what the lines that have ended
\* say is in check_state, m_linger and m_content_length; when a call has returned, no
\* other line has ended.
InLines ==
  /\ verdict = "NO_REQUEST" =>
       /\ Parsed(Delivered, buf, start_line, checked_idx)
       /\ check_state = "HEADER" <=> start_line # 0
       /\ start_line # 0 => Headed(Delivered, start_line)
       /\ is_linger <=> HasKA(Delivered, start_line)
       /\ content_length # 0 <=> HasCL(Delivered, start_line)
  /\ ~ running =>
       IF verdict = "NO_REQUEST" THEN \A e \in GoodEnds(Delivered) : e < start_line
                                 ELSE VerdictIsMeaning

\* Behind the blank line at k: its header lines are remembered, and as long as
\* parse_line has not moved m_checked_idx the result is that of the bytes there are.
BodyBehind(k) ==
  /\ k - 2 \in GoodEnds(Delivered) /\ Headed(Delivered, k)
  /\ is_linger <=> HasKA(Delivered, k - 1)
  /\ HasCL(Delivered, k - 1) /\ content_length = ContentLength
  /\ k + 1 <= checked_idx
  /\ checked_idx = k + 1 =>
       /\ running /\ line_status = "LINE_OPEN" => ~ BodyArrived
       /\ ~ running => (verdict = "GET_REQUEST" <=> BodyArrived)
  /\ verdict # "BAD_REQUEST"
InBody == \E k \in GoodEnds(Delivered) : BodyBehind(k)

ParseInv == Frame /\ IF check_state = "CONTENT" THEN InBody ELSE InLines

LEMMA DeliveredIs ==
  ASSUME Frame
  PROVE  /\ Delivered \in Seq(Symbols) /\ Len(Delivered) = read_idx
         /\ read_idx \in Nat /\ checked_idx \in 0 .. read_idx /\ start_line \in 0 .. checked_idx
BY Received DEF Frame, TypeOK, Delivered

LEMMA NoHeading == ASSUME NEW s \in Seq(Symbols) PROVE ~ HasKA(s, 0) /\ ~ HasCL(s, 0)
BY EndFacts DEF HasKA, HasCL

LEMMA ParseInit == Init => ParseInv
<1> SUFFICES ASSUME Init PROVE ParseInv
  OBVIOUS
<1>1. Frame
  BY FrameInit
<1>2. Delivered \in Seq(Symbols) /\ Len(Delivered) = 0
  BY <1>1, DeliveredIs DEF Init
<1>3. ASSUME NEW e \in GoodEnds(Delivered) PROVE FALSE
  <2>1. e \in Nat \ {0} /\ e < Len(Delivered)
    BY <1>2, EndFacts
  <2> QED
    BY <1>2, <2>1
<1>4. buf \in Seq(Bytes) /\ Len(buf) = 0 /\ start_line = 0 /\ checked_idx = 0
  BY <1>1 DEF Init, Frame
<1>5. Parsed(Delivered, buf, start_line, checked_idx)
  BY <1>2, <1>4 DEF Parsed, Plain, Bytes
<1>6. ~ is_linger /\ content_length = 0 /\ check_state = "REQUESTLINE" /\ verdict = "NO_REQUEST"
  BY DEF Init
<1>7. ~ HasKA(Delivered, start_line) /\ ~ HasCL(Delivered, start_line)
  BY <1>2, <1>4, NoHeading
<1>8. InLines
  BY <1>3, <1>4, <1>5, <1>6, <1>7 DEF InLines
<1> QED
  BY <1>1, <1>6, <1>8 DEF ParseInv

LEMMA ReadKeeps ==
  ASSUME ParseInv, Frame', NEW n \in 1 .. Len(stream), Read(n) PROVE ParseInv'
<1>1. Frame /\ stream \in Seq(Symbols) /\ buf \in Seq(Bytes) /\ Len(buf) = read_idx
      /\ Len(stream) \in Nat /\ read_idx \in 0 .. Len(stream)
  BY DEF ParseInv, Frame, TypeOK
<1>2. /\ ~ running /\ verdict = "NO_REQUEST" /\ running' /\ verdict' = "NO_REQUEST"
      /\ n \in Nat /\ read_idx + n <= Len(stream) /\ read_idx' = read_idx + n
      /\ buf' = Joined(buf, stream, read_idx, n) /\ line_status' = "LINE_OK"
      /\ UNCHANGED <<stream, checked_idx, start_line, check_state, content_length, is_linger>>
  BY <1>1 DEF Read, Joined
<1> DEFINE s == Delivered
           u == SubSeq(stream, 1, read_idx + n)
<1>3. s \in Seq(Symbols) /\ Len(s) = read_idx /\ read_idx \in Nat
      /\ start_line \in 0 .. read_idx
  BY <1>1, DeliveredIs
<1>4. read_idx + n \in 0 .. Len(stream)
  BY <1>1, <1>2
<1>5. u \in Seq(Symbols) /\ Len(u) = read_idx + n /\ \A i \in 1 .. read_idx + n : u[i] = stream[i]
  BY <1>1, <1>4, Received
<1>6. /\ Begins(s, u) /\ buf' \in Seq(Bytes) /\ Len(buf') = read_idx + n
      /\ \A i \in 1 .. read_idx : buf'[i] = buf[i]
      /\ \A i \in read_idx + 1 .. read_idx + n : buf'[i] = stream[i]
  BY <1>1, <1>2, ReceivedMore DEF Delivered
<1>7. \A i \in read_idx + 1 .. read_idx + n : buf'[i] = u[i]
  BY <1>3, <1>5, <1>6
<1>8. Delivered' = u
  BY <1>2 DEF Delivered
<1> HIDE DEF u, s
<1>9. \A h \in 0 .. read_idx : /\ Headed(s, h) => Headed(u, h)
                               /\ HasKA(s, h) <=> HasKA(u, h)
                               /\ HasCL(s, h) <=> HasCL(u, h)
  BY <1>3, <1>5, <1>6, HeadingStays
<1>10. CASE check_state # "CONTENT"
  <2>1. InLines
    BY <1>10 DEF ParseInv
  <2>2. Parsed(s, buf, start_line, checked_idx)
    BY <1>2, <2>1 DEF InLines, s
  <2>3. Parsed(u, buf', start_line, checked_idx)
    BY SMTT(30), <1>3, <1>5, <1>6, <1>7, <2>2, ParsedMore DEF Bytes
  <2>4. /\ check_state = "HEADER" <=> start_line # 0
        /\ start_line # 0 => Headed(u, start_line)
        /\ is_linger <=> HasKA(u, start_line)
        /\ content_length # 0 <=> HasCL(u, start_line)
    BY <1>2, <1>3, <1>9, <2>1 DEF InLines, s
  <2>5. InLines'
    BY <1>2, <1>8, <2>3, <2>4 DEF InLines
  <2> QED
    BY <1>2, <1>10, <2>5 DEF ParseInv
<1>11. CASE check_state = "CONTENT"
  <2>1. PICK k \in GoodEnds(s) : BodyBehind(k)
    BY <1>11 DEF ParseInv, InBody, s
  <2>2. k \in Nat \ {0} /\ k < read_idx /\ k \in 0 .. read_idx /\ k - 1 \in 0 .. read_idx
    BY <1>3, <2>1, EndFacts
  <2>3. k \in GoodEnds(u) /\ (k - 2 \in GoodEnds(s) => k - 2 \in GoodEnds(u))
    BY <1>3, <1>5, <1>6, EndsStay
  <2>4. BodyBehind(k)'
    BY <1>2, <1>8, <1>9, <2>1, <2>2, <2>3 DEF BodyBehind, s
  <2> QED
    BY <1>2, <1>8, <1>11, <2>3, <2>4 DEF ParseInv, InBody
<1> QED
  BY <1>10, <1>11

\* What a line in the header or before it is, when process_read has one
LEMMA LineAt ==
  ASSUME ParseInv, ExpectsLine, Line.status = "LINE_OK"
  PROVE  /\ Parsed(Delivered, buf, start_line, checked_idx)
         /\ \E k \in start_line + 1 .. read_idx - 1 :
              /\ Plain(Delivered, start_line, k - 1)
              /\ Delivered[k] = "CR" /\ Delivered[k + 1] = "LF"
              /\ Line.checked = k + 1 /\ LineText = Text(buf, start_line, k)
              /\ Parsed(Delivered, CutLine(buf, Line.checked), k + 1, k + 1)
<1> DEFINE s == Delivered
<1>1. s \in Seq(Symbols) /\ Len(s) = read_idx /\ read_idx \in Nat /\ start_line \in Nat
  BY DeliveredIs DEF ParseInv
<1>2. Parsed(s, buf, start_line, checked_idx)
  BY DEF ParseInv, ExpectsLine, Frame, InLines
<1> HIDE DEF s
<1>3. Line = ParseLine(buf, Len(s), checked_idx)
  BY <1>1 DEF Line
<1>4. PICK k \in start_line + 1 .. Len(s) - 1 :
        /\ Plain(s, start_line, k - 1) /\ s[k] = "CR" /\ s[k + 1] = "LF"
        /\ Line.checked = k + 1
  BY <1>1, <1>2, <1>3, LineFound
<1>5. Parsed(s, CutLine(buf, k + 1), k + 1, k + 1)
  BY <1>1, <1>2, <1>4, LineCut
<1>6. (k + 1) - 2 = k - 1
  BY <1>1
<1>7. LineText = Text(buf, start_line, k)
  BY <1>4, <1>6 DEF LineText, Text
<1> QED
  BY <1>1, <1>2, <1>4, <1>5, <1>7 DEF s

LEMMA NoLineKeeps == ASSUME ParseInv, Frame', NoLine PROVE ParseInv'
<1> DEFINE s == Delivered
<1>1. s \in Seq(Symbols) /\ Len(s) = read_idx /\ read_idx \in Nat /\ start_line \in Nat
  BY DeliveredIs DEF ParseInv
<1>2. /\ running /\ check_state # "CONTENT" /\ verdict = "NO_REQUEST" /\ InLines
      /\ Line.status # "LINE_OK"
      /\ checked_idx' = Line.checked /\ ~ running' /\ verdict' = "NO_REQUEST"
      /\ UNCHANGED <<stream, read_idx, buf, start_line, check_state, content_length, is_linger>>
  BY DEF ParseInv, NoLine, ExpectsLine, Frame, Return, input
<1>3. Parsed(s, buf, start_line, checked_idx)
  BY <1>2 DEF InLines
<1>4. Delivered' = s
  BY <1>2 DEF Delivered
<1> HIDE DEF s
<1>5. Line = ParseLine(buf, Len(s), checked_idx)
  BY <1>1 DEF Line
<1>6. /\ Line.checked \in checked_idx .. Len(s) /\ Plain(s, start_line, Line.checked)
      /\ OpenLine(s, start_line) \/ BadAt(s, Line.checked + 1)
  BY <1>1, <1>2, <1>3, <1>5, LineFound
<1>7. Line.checked \in start_line .. Len(s)
  BY <1>1, <1>3, <1>6 DEF Parsed
<1>8. Parsed(s, buf, start_line, Line.checked)
  BY <1>3, <1>6, <1>7 DEF Parsed
<1>9. \A e \in GoodEnds(s) : e < start_line
  BY <1>1, <1>3, <1>6, <1>7, NoLineLeft
<1>10. /\ check_state = "HEADER" <=> start_line # 0
       /\ start_line # 0 => Headed(s, start_line)
       /\ is_linger <=> HasKA(s, start_line)
       /\ content_length # 0 <=> HasCL(s, start_line)
  BY <1>2 DEF InLines, s
<1>11. InLines'
  BY <1>2, <1>4, <1>8, <1>9, <1>10 DEF InLines
<1> QED
  BY <1>2, <1>11 DEF ParseInv

LEMMA RequestLineKeeps == ASSUME ParseInv, Frame', GotRequestLine PROVE ParseInv'
<1> DEFINE s == Delivered
<1>1. s \in Seq(Symbols) /\ Len(s) = read_idx /\ read_idx \in Nat /\ start_line \in Nat
  BY DeliveredIs DEF ParseInv
<1>2. /\ running /\ check_state = "REQUESTLINE" /\ verdict = "NO_REQUEST" /\ InLines
      /\ Line.status = "LINE_OK" /\ ExpectsLine
      /\ buf' = CutLine(buf, Line.checked)
      /\ checked_idx' = Line.checked /\ start_line' = Line.checked
      /\ UNCHANGED <<stream, read_idx, content_length, is_linger>>
  BY DEF ParseInv, GotRequestLine, GotLine, ExpectsLine, Frame, input
<1>3. Delivered' = s
  BY <1>2 DEF Delivered
<1>4. PICK k \in start_line + 1 .. Len(s) - 1 :
        /\ Plain(s, start_line, k - 1) /\ s[k] = "CR" /\ s[k + 1] = "LF"
        /\ Line.checked = k + 1 /\ LineText = Text(buf, start_line, k)
        /\ Parsed(s, buf', k + 1, k + 1)
  BY <1>1, <1>2, LineAt
<1>5. Parsed(s, buf, start_line, checked_idx) /\ start_line = 0
      /\ (is_linger <=> HasKA(s, start_line)) /\ (content_length # 0 <=> HasCL(s, start_line))
  BY <1>2 DEF InLines
<1> HIDE DEF s
<1>6. ~ is_linger /\ content_length = 0
  BY <1>1, <1>5, NoHeading
<1>7. /\ LineText = <<"GET">> <=> ~ RequestIsBad(s)
      /\ LineText = <<"GET">> => Headed(s, k + 1) /\ ~ HasKA(s, k + 1) /\ ~ HasCL(s, k + 1)
  BY <1>1, <1>4, <1>5, FirstHeading
<1>8. k + 1 # 0
  BY <1>1, <1>4
<1>9. CASE RequestLineGood
  <2>1. check_state' = "HEADER" /\ running' /\ verdict' = "NO_REQUEST"
    BY <1>2, <1>9 DEF GotRequestLine
  <2>2. Headed(s, k + 1) /\ ~ HasKA(s, k + 1) /\ ~ HasCL(s, k + 1)
    BY <1>7, <1>9 DEF RequestLineGood
  <2>3. InLines'
    BY <1>2, <1>3, <1>4, <1>6, <1>8, <2>1, <2>2 DEF InLines
  <2> QED
    BY <2>1, <2>3 DEF ParseInv
<1>10. CASE ~ RequestLineGood
  <2>1. check_state' = "REQUESTLINE" /\ ~ running' /\ verdict' = "BAD_REQUEST"
    BY <1>2, <1>10 DEF GotRequestLine, Return
  <2>2. RequestIsBad(s)
    BY <1>7, <1>10 DEF RequestLineGood
  <2>3. Meaning(s) = "BAD_REQUEST"
    BY <2>2 DEF Meaning
  <2>4. InLines'
    BY <1>3, <2>1, <2>3 DEF InLines, VerdictIsMeaning
  <2> QED
    BY <2>1, <2>4 DEF ParseInv
<1> QED
  BY <1>9, <1>10

\* The parser in the header, with a line
LEMMA HeaderLineAt ==
  ASSUME ParseInv, check_state = "HEADER", GotLine
  PROVE  /\ running /\ verdict = "NO_REQUEST" /\ start_line # 0 /\ Headed(Delivered, start_line)
         /\ is_linger <=> HasKA(Delivered, start_line)
         /\ content_length # 0 <=> HasCL(Delivered, start_line)
         /\ Parsed(Delivered, buf, start_line, checked_idx)
         /\ \E k \in start_line + 1 .. read_idx - 1 :
              /\ Plain(Delivered, start_line, k - 1)
              /\ Delivered[k] = "CR" /\ Delivered[k + 1] = "LF"
              /\ Line.checked = k + 1 /\ LineText = Text(buf, start_line, k)
              /\ Parsed(Delivered, buf', k + 1, k + 1)
         /\ Delivered' = Delivered /\ checked_idx' = Line.checked /\ start_line' = Line.checked
         /\ line_status' = "LINE_OK" /\ UNCHANGED read_idx
<1>1. /\ running /\ verdict = "NO_REQUEST" /\ InLines
      /\ Line.status = "LINE_OK" /\ ExpectsLine
      /\ buf' = CutLine(buf, Line.checked)
      /\ checked_idx' = Line.checked /\ start_line' = Line.checked
      /\ line_status' = "LINE_OK" /\ UNCHANGED <<stream, read_idx>>
  BY DEF ParseInv, GotLine, ExpectsLine, Frame, input
<1>2. Delivered' = Delivered
  BY <1>1 DEF Delivered
<1>3. \E k \in start_line + 1 .. read_idx - 1 :
              /\ Plain(Delivered, start_line, k - 1)
              /\ Delivered[k] = "CR" /\ Delivered[k + 1] = "LF"
              /\ Line.checked = k + 1 /\ LineText = Text(buf, start_line, k)
              /\ Parsed(Delivered, buf', k + 1, k + 1)
  BY <1>1, LineAt
<1> QED
  BY <1>1, <1>2, <1>3 DEF InLines

LEMMA HeaderKeeps == ASSUME ParseInv, Frame', GotHeader PROVE ParseInv'
<1> DEFINE s == Delivered
<1>1. s \in Seq(Symbols) /\ Len(s) = read_idx /\ read_idx \in Nat /\ start_line \in Nat
      /\ ContentLength # 0
  BY DeliveredIs, StreamsAssumption DEF ParseInv
<1>2. /\ check_state = "HEADER" /\ GotLine /\ LineText # <<>>
      /\ is_linger' = (is_linger \/ LineText = <<"KA">>)
      /\ content_length' = IF LineText[1] = "CL" THEN ContentLength ELSE content_length
      /\ UNCHANGED <<check_state, running, verdict>>
  BY DEF GotHeader
<1>3. /\ running /\ verdict = "NO_REQUEST" /\ start_line # 0 /\ Headed(s, start_line)
      /\ is_linger <=> HasKA(s, start_line)
      /\ content_length # 0 <=> HasCL(s, start_line)
      /\ Parsed(s, buf, start_line, checked_idx)
      /\ Delivered' = s /\ checked_idx' = Line.checked /\ start_line' = Line.checked
  BY <1>2, HeaderLineAt
<1>4. PICK k \in start_line + 1 .. Len(s) - 1 :
        /\ Plain(s, start_line, k - 1) /\ s[k] = "CR" /\ s[k + 1] = "LF"
        /\ Line.checked = k + 1 /\ LineText = Text(buf, start_line, k)
        /\ Parsed(s, buf', k + 1, k + 1)
  BY <1>1, <1>2, HeaderLineAt
<1> HIDE DEF s
<1>5. /\ LineText = <<>> <=> k = start_line + 1
      /\ k # start_line + 1 => LineText[1] = s[start_line + 1]
      /\ LineText = <<"KA">> <=> k = start_line + 2 /\ s[start_line + 1] = "KA"
  BY <1>1, <1>3, <1>4, TextIs
<1>6. k # start_line + 1 /\ k + 1 # 0
  BY <1>1, <1>2, <1>4, <1>5
<1>7. /\ Headed(s, k + 1)
      /\ HasKA(s, k + 1) <=> HasKA(s, start_line) \/ (k = start_line + 2 /\ s[start_line + 1] = "KA")
      /\ HasCL(s, k + 1) <=> HasCL(s, start_line) \/ s[start_line + 1] = "CL"
  BY <1>1, <1>3, <1>4, <1>6, HeadingGrows
<1>8. is_linger' <=> HasKA(s, k + 1)
  BY <1>2, <1>3, <1>5, <1>7
<1>9. content_length' # 0 <=> HasCL(s, k + 1)
  BY <1>1, <1>2, <1>3, <1>5, <1>6, <1>7
<1>10. InLines'
  BY <1>2, <1>3, <1>4, <1>6, <1>7, <1>8, <1>9 DEF InLines
<1> QED
  BY <1>2, <1>10 DEF ParseInv

LEMMA BlankKeeps == ASSUME ParseInv, Frame', GotBlank PROVE ParseInv'
<1> DEFINE s == Delivered
<1>1. s \in Seq(Symbols) /\ Len(s) = read_idx /\ read_idx \in Nat /\ start_line \in Nat
      /\ content_length \in {0, ContentLength} /\ is_linger \in BOOLEAN
  BY DeliveredIs DEF ParseInv, Frame, TypeOK
<1>2. /\ check_state = "HEADER" /\ GotLine /\ LineText = <<>>
      /\ UNCHANGED <<content_length, is_linger>>
  BY DEF GotBlank
<1>3. /\ running /\ verdict = "NO_REQUEST" /\ start_line # 0 /\ Headed(s, start_line)
      /\ is_linger <=> HasKA(s, start_line)
      /\ content_length # 0 <=> HasCL(s, start_line)
      /\ Parsed(s, buf, start_line, checked_idx)
      /\ Delivered' = s /\ checked_idx' = Line.checked
      /\ line_status' = "LINE_OK" /\ UNCHANGED read_idx
  BY <1>2, HeaderLineAt
<1>4. PICK k \in start_line + 1 .. Len(s) - 1 :
        /\ s[k] = "CR" /\ s[k + 1] = "LF"
        /\ Line.checked = k + 1 /\ LineText = Text(buf, start_line, k)
  BY <1>1, <1>2, HeaderLineAt
<1> HIDE DEF s
<1>5. k = start_line + 1
  BY <1>1, <1>2, <1>3, <1>4, TextIs
<1>6. k \in 1 .. Len(s) - 1 /\ k + 1 = start_line + 2 /\ k - 1 = start_line /\ k - 2 = start_line - 1
  BY <1>1, <1>4, <1>5
<1>7. k \in GoodEnds(s) /\ k - 2 \in GoodEnds(s) /\ Headed(s, k)
  BY <1>1, <1>3, <1>4, <1>5, <1>6, HeadingEnds
<1>8. CASE content_length # 0
  <2>1. check_state' = "CONTENT" /\ running' /\ verdict' = "NO_REQUEST"
    BY <1>3, <1>8 DEF GotBlank
  <2>2. BodyBehind(k)'
    BY <1>1, <1>2, <1>3, <1>4, <1>6, <1>7, <1>8, <2>1 DEF BodyBehind
  <2> QED
    BY <1>3, <1>7, <2>1, <2>2 DEF ParseInv, InBody
<1>9. CASE content_length = 0
  <2>1. check_state' = "HEADER" /\ ~ running' /\ verdict' = "GET_REQUEST"
    BY <1>2, <1>9 DEF GotBlank, Return
  <2>2. /\ ~ RequestIsBad(s) /\ BlankLines(s) # {}
        /\ HasHeader(s, "CL") <=> HasCL(s, k - 1)
        /\ <<"KA">> \in HeaderLines(s) <=> HasKA(s, k - 1)
    BY <1>1, <1>7, HeaderMeans
  <2>3. Meaning(s) = "GET_REQUEST"
    BY <1>3, <1>6, <1>9, <2>2 DEF Meaning
  <2>4. is_linger = (<<"KA">> \in HeaderLines(s))
    BY <1>1, <1>3, <1>6, <2>2
  <2>5. VerdictIsMeaning'
    BY <1>2, <1>3, <2>1, <2>3, <2>4 DEF VerdictIsMeaning
  <2>6. InLines'
    BY <2>1, <2>5 DEF InLines
  <2> QED
    BY <2>1, <2>6 DEF ParseInv
<1> QED
  BY <1>8, <1>9

LEMMA ContentKeeps == ASSUME ParseInv, Frame', GotContent PROVE ParseInv'
<1>1. /\ running /\ check_state = "CONTENT" /\ verdict = "NO_REQUEST"
      /\ UNCHANGED <<stream, read_idx, checked_idx, check_state, content_length, is_linger>>
  BY DEF ParseInv, GotContent, Frame, input
<1>2. PICK k \in GoodEnds(Delivered) : BodyBehind(k)
  BY <1>1 DEF ParseInv, InBody
<1>3. Delivered' = Delivered /\ (BodyArrived' <=> BodyArrived)
  BY <1>1 DEF Delivered, BodyArrived
<1>4. CASE BodyArrived
  <2>1. ~ running' /\ verdict' = "GET_REQUEST"
    BY <1>4 DEF GotContent, Return
  <2>2. BodyBehind(k)'
    BY <1>1, <1>2, <1>3, <1>4, <2>1 DEF BodyBehind
  <2> QED
    BY <1>1, <1>3, <2>2 DEF ParseInv, InBody
<1>5. CASE ~ BodyArrived
  <2>1. running' /\ verdict' = "NO_REQUEST"
    BY <1>1, <1>5 DEF GotContent
  <2>2. BodyBehind(k)'
    BY <1>1, <1>2, <1>3, <1>5, <2>1 DEF BodyBehind
  <2> QED
    BY <1>1, <1>3, <2>2 DEF ParseInv, InBody
<1> QED
  BY <1>4, <1>5

LEMMA ScanKeeps == ASSUME ParseInv, Frame', ScanContent PROVE ParseInv'
<1>1. /\ running /\ check_state = "CONTENT" /\ verdict = "NO_REQUEST" /\ line_status = "LINE_OPEN"
      /\ checked_idx' = Line.checked /\ verdict' = "NO_REQUEST"
      /\ Line.status = "LINE_OK" => line_status' = "LINE_OK" /\ running'
      /\ Line.status # "LINE_OK" => ~ running'
      /\ UNCHANGED <<stream, read_idx, check_state, content_length, is_linger>>
  BY DEF ParseInv, ScanContent, Frame, input, Return
<1>2. PICK k \in GoodEnds(Delivered) : BodyBehind(k)
  BY <1>1 DEF ParseInv, InBody
<1>3. Delivered' = Delivered
  BY <1>1 DEF Delivered
<1>4. /\ Line.checked \in checked_idx .. read_idx
      /\ Line.status = "LINE_OK" => Line.checked >= checked_idx + 2
      /\ checked_idx \in Nat /\ read_idx \in Nat
  BY LineIs, DeliveredIs DEF ParseInv
<1>5. k \in Nat /\ k + 1 <= checked_idx
  BY <1>2, DeliveredIs, EndFacts DEF ParseInv, BodyBehind
<1>6. k + 1 <= checked_idx' /\ checked_idx' >= checked_idx
  BY <1>1, <1>4, <1>5
<1>7. ASSUME checked_idx' = k + 1 PROVE ~ BodyArrived' /\ ~ running'
  <2>1. checked_idx = k + 1 /\ checked_idx' = checked_idx
    BY <1>1, <1>4, <1>5, <1>7
  <2>2. Line.status # "LINE_OK"
    BY <1>1, <1>4, <2>1
  <2>3. ~ BodyArrived
    BY <1>1, <1>2, <2>1 DEF BodyBehind
  <2> QED
    BY <1>1, <2>1, <2>2, <2>3 DEF BodyArrived
<1>8. BodyBehind(k)'
  BY <1>1, <1>2, <1>3, <1>6, <1>7 DEF BodyBehind
<1> QED
  BY <1>1, <1>3, <1>8 DEF ParseInv, InBody

LEMMA ParseStep == ASSUME ParseInv, [Next]_vars PROVE ParseInv'
<1>1. Frame'
  BY FrameStep DEF ParseInv
<1>2. ASSUME UNCHANGED vars PROVE ParseInv'
  <2>1. Delivered' = Delivered /\ (BodyArrived' <=> BodyArrived)
    BY <1>2 DEF vars, Delivered, BodyArrived
  <2>2. InLines' <=> InLines
    BY <1>2, <2>1 DEF vars, InLines, VerdictIsMeaning
  <2>3. InBody' <=> InBody
    BY <1>2, <2>1 DEF vars, InBody, BodyBehind
  <2> QED
    BY <1>1, <1>2, <2>2, <2>3 DEF vars, ParseInv
<1> QED
  BY <1>1, <1>2, ReadKeeps, NoLineKeeps, RequestLineKeeps, HeaderKeeps, BlankKeeps, ContentKeeps,
     ScanKeeps DEF Next, ProcessRead

LEMMA ParseMeans == ASSUME ParseInv PROVE FragmentationIndependence
<1> DEFINE s == Delivered
<1>1. s \in Seq(Symbols) /\ Len(s) = read_idx /\ read_idx \in Nat /\ start_line \in Nat
      /\ checked_idx \in Nat /\ is_linger \in BOOLEAN /\ ContentLength \in Nat
  BY DeliveredIs, StreamsAssumption DEF ParseInv, Frame, TypeOK
<1> HIDE DEF s
<1>2. SUFFICES ASSUME ~ running, ~ BodyCut PROVE VerdictIsMeaning
  BY DEF FragmentationIndependence, ParseInv, Frame
<1>3. CASE check_state # "CONTENT"
  <2>1. InLines
    BY <1>3 DEF ParseInv
  <2>2. CASE verdict = "NO_REQUEST"
    <3>1. (start_line # 0 => Headed(s, start_line)) /\ \A e \in GoodEnds(s) : e < start_line
      BY <1>2, <2>1, <2>2 DEF InLines, s
    <3>2. ~ RequestIsBad(s) /\ BlankLines(s) = {}
      BY <1>1, <3>1, NothingYet
    <3> QED
      BY <2>2, <3>2 DEF VerdictIsMeaning, Meaning, s
  <2>3. CASE verdict # "NO_REQUEST"
    BY <1>2, <2>1, <2>3 DEF InLines
  <2> QED
    BY <2>2, <2>3
<1>4. CASE check_state = "CONTENT"
  <2>1. PICK k \in GoodEnds(s) : BodyBehind(k)
    BY <1>4 DEF ParseInv, InBody, s
  <2>2. /\ k - 2 \in GoodEnds(s) /\ Headed(s, k) /\ HasCL(s, k - 1)
        /\ is_linger <=> HasKA(s, k - 1)
        /\ k + 1 <= checked_idx /\ content_length = ContentLength
        /\ k \in Nat
    BY <1>1, <2>1, EndFacts DEF BodyBehind, s
  <2>3. /\ ~ RequestIsBad(s) /\ BlankLines(s) # {} /\ Min(BlankLines(s)) = k
        /\ HasHeader(s, "CL")
        /\ <<"KA">> \in HeaderLines(s) <=> HasKA(s, k - 1)
    BY <1>1, <2>1, <2>2, HeaderMeans
  <2>4. checked_idx = k + 1
    BY <1>1, <1>2, <1>4, <2>2, <2>3 DEF BodyCut, s
  <2>5. verdict # "BAD_REQUEST" /\ (verdict = "GET_REQUEST" <=> BodyArrived)
    BY <1>2, <2>1, <2>4 DEF BodyBehind
  <2>6. BodyArrived <=> BodyLength(s) >= ContentLength
    BY <1>1, <2>2, <2>3, <2>4 DEF BodyArrived, BodyLength
  <2>7. Meaning(s) = IF BodyArrived THEN "GET_REQUEST" ELSE "NO_REQUEST"
    BY <2>3, <2>6 DEF Meaning
  <2>8. verdict \in {"NO_REQUEST", "GET_REQUEST", "BAD_REQUEST"}
    BY DEF ParseInv, Frame, TypeOK
  <2>9. verdict = Meaning(s)
    BY <2>5, <2>7, <2>8
  <2>10. is_linger = (<<"KA">> \in HeaderLines(s))
    BY <1>1, <2>2, <2>3
  <2> QED
    BY <2>9, <2>10 DEF VerdictIsMeaning, s
<1> QED
  BY <1>3, <1>4

\* process_read, for any bytes a client sends, any Content-Length and any segments:
\* the result and m_linger between two reads are those of all the bytes read, looked
\* at as a whole, unless parse_line went over a part of the body.
THEOREM FragmentsAreOne == Spec => []FragmentationIndependence
<1>1. ParseInv /\ [Next]_vars => ParseInv'
  BY ParseStep
<1> QED
  BY <1>1, ParseInit, ParseMeans, PTL DEF Spec

\* parse_line's branch for a LF that follows a CR (118-125 of 7/http_conn.cpp) never
\* ends a line: a CR that came last is looked at again with the next bytes, so a LF it
\* meets first always stands alone.
FirstStop == Min(Stops(buf, read_idx, checked_idx))
LoneLineFeed ==
  Stops(buf, read_idx, checked_idx) # {} /\ buf[FirstStop + 1] = "LF" => Line.status = "LINE_BAD"

THEOREM LineFeedStandsAlone == Spec => []LoneLineFeed
<1>1. Frame /\ [Next]_vars => Frame'
  BY FrameStep
<1>2. ASSUME Frame PROVE LoneLineFeed
  <2> DEFINE S == Stops(buf, read_idx, checked_idx)
             i == FirstStop
  <2> SUFFICES ASSUME S # {}, buf[i + 1] = "LF" PROVE Line.status = "LINE_BAD"
    BY DEF LoneLineFeed
  <2>1. checked_idx \in 0 .. read_idx /\ read_idx \in Nat
    BY <1>2 DEF Frame, TypeOK
  <2>2. S = {j \in checked_idx .. read_idx - 1 : buf[j + 1] \in Ends} /\ S \in SUBSET Nat
    BY <2>1 DEF Stops, Ends
  <2>3. i = Min(S)
    BY DEF FirstStop
  <2> HIDE DEF S, i
  <2>4. i \in S /\ \A j \in S : i <= j
    BY <2>2, <2>3, MinExists
  <2>5. ~ (i > 1 /\ buf[i] = "CR")
    <3>1. CASE i = checked_idx
      BY <1>2, <2>1, <3>1 DEF Frame
    <3>2. CASE i # checked_idx
      <4>1. i - 1 \in checked_idx .. read_idx - 1 /\ (i - 1) + 1 = i /\ ~ (i <= i - 1)
        BY <2>1, <2>2, <2>4, <3>2
      <4>2. i - 1 \notin S
        BY <2>4, <4>1
      <4> QED
        BY <2>2, <4>1, <4>2 DEF Ends
    <3> QED
      BY <3>1, <3>2
  <2>6. Line.status = "LINE_BAD"
    BY <2>3, <2>5 DEF Line, ParseLine, S
  <2> QED
    BY <2>6
<1> QED
  BY <1>1, <1>2, FrameInit, PTL DEF Spec

(* ------------------------------------ GET_HOST ----------------------------------- *)

\* The operators of LineParser are the same through the instance.
LEMMA SameOperators ==
  /\ \A b, r, c : G!ParseLine(b, r, c) = ParseLine(b, r, c)
  /\ \A b, c : G!CutLine(b, c) = CutLine(b, c)
  /\ \A s : /\ G!RequestIsBad(s) = RequestIsBad(s)
            /\ G!HeaderIsBad(s) = HeaderIsBad(s)
            /\ G!BlankLines(s) = BlankLines(s)
<1>1. \A b, r, c : G!ParseLine(b, r, c) = ParseLine(b, r, c)
  BY DEF G!ParseLine, ParseLine, G!Stops, Stops, G!Min, Min
<1>2. \A b, c : G!CutLine(b, c) = CutLine(b, c)
  BY DEF G!CutLine, CutLine
<1>3. \A s, i : G!BadAt(s, i) = BadAt(s, i)
  BY DEF G!BadAt, BadAt
<1>4. \A s : G!GoodEnds(s) = GoodEnds(s)
  BY <1>3 DEF G!GoodEnds, GoodEnds, G!LineEnds, LineEnds
<1>5. \A s : G!BlankLines(s) = BlankLines(s)
  BY <1>4 DEF G!BlankLines, BlankLines
<1>6. \A s : G!RequestIsBad(s) = RequestIsBad(s)
  BY <1>4 DEF G!RequestIsBad, RequestIsBad, G!Min, Min
<1>7. \A s : G!HeaderIsBad(s) = HeaderIsBad(s)
  BY <1>3, <1>5 DEF G!HeaderIsBad, HeaderIsBad
<1> QED
  BY <1>1, <1>2, <1>5, <1>6, <1>7

Got == SubSeq(stream, 1, read_index)

\* The buffer and the indices of main and parse_content
HostFrame ==
  /\ stream \in Seq(Symbols) /\ sent \in 0 .. Len(stream) /\ read_index \in 0 .. sent
  /\ read_index <= BufferSize
  /\ buffer \in Seq(Bytes) /\ Len(buffer) = read_index
  /\ start_line \in Nat /\ checked_index \in start_line .. read_index
  /\ checkstate \in {"REQUESTLINE", "HEADER"} /\ shut \in BOOLEAN
  /\ pc \in {"recv", "parse", "closed"} /\ reply \in {"none", "good", "bad"}

\* What the lines that have ended say is in checkstate; main waits in recv only when the
\* line it is in is open.
HostLines ==
  /\ Parsed(Got, buffer, start_line, checked_index)
  /\ checkstate = "HEADER" <=> start_line # 0
  /\ start_line # 0 => Headed(Got, start_line)
  /\ reply = "none"
HostInv ==
  /\ HostFrame
  /\ pc # "closed" => HostLines
  /\ pc = "recv" => OpenLine(Got, start_line)
  /\ pc = "closed" => reply = G!Meaning(Got)

LEMMA GotIs == ASSUME HostFrame PROVE Got \in Seq(Symbols) /\ Len(Got) = read_index /\ read_index \in Nat
BY Received DEF HostFrame, Got

LEMMA HostMeaning ==
  ASSUME NEW s
  PROVE  G!Meaning(s) = IF RequestIsBad(s) \/ HeaderIsBad(s) THEN "bad"
                        ELSE IF BlankLines(s) # {} THEN "good" ELSE "none"
BY SameOperators DEF G!Meaning

\* Only an open line: there is nothing to answer.
LEMMA NoAnswerYet == ASSUME HostFrame, HostLines, OpenLine(Got, start_line) PROVE G!Meaning(Got) = "none"
<1> DEFINE s == Got
<1>1. s \in Seq(Symbols) /\ start_line \in Nat /\ Len(s) \in Nat
  BY GotIs DEF HostFrame
<1>2. /\ Parsed(s, buffer, start_line, checked_index) /\ OpenLine(s, start_line)
      /\ start_line # 0 => Headed(s, start_line)
  BY DEF HostLines
<1> HIDE DEF s
<1>3. \A e \in GoodEnds(s) : e < start_line
  BY <1>1, <1>2, NoLineLeft
<1>4. ~ RequestIsBad(s) /\ BlankLines(s) = {}
  BY <1>1, <1>2, <1>3, NothingYet
<1>5. ASSUME NEW j \in 1 .. Len(s) PROVE ~ BadAt(s, j)
  <2>1. CASE j \in 1 .. start_line
    BY <1>2, <2>1 DEF Parsed
  <2>2. CASE j \in start_line + 1 .. Len(s)
    BY <1>2, <2>2 DEF OpenLine, BadAt, Ends
  <2> QED
    BY <1>1, <2>1, <2>2
<1>6. ~ HeaderIsBad(s)
  BY <1>5 DEF HeaderIsBad
<1>7. G!Meaning(s) = "none"
  BY <1>4, <1>6, HostMeaning
<1> QED
  BY <1>7 DEF s

LEMMA HostInit == ASSUME BufferSize \in Nat \ {0}, G!Init PROVE HostInv
<1>1. stream \in Seq(Symbols) /\ Len(stream) \in Nat
  BY StreamsAssumption DEF G!Init
<1>2. buffer \in Seq(Bytes) /\ Len(buffer) = 0
  BY DEF G!Init
<1>3. /\ sent = 0 /\ shut = FALSE /\ read_index = 0 /\ checked_index = 0 /\ start_line = 0
      /\ checkstate = "REQUESTLINE" /\ pc = "recv" /\ reply = "none"
  BY DEF G!Init
<1>4. HostFrame
  <2>1. shut \in BOOLEAN
    BY <1>3
  <2>2. sent \in 0 .. Len(stream) /\ read_index \in 0 .. sent /\ read_index <= BufferSize
        /\ start_line \in Nat /\ checked_index \in start_line .. read_index
    BY <1>1, <1>3
  <2>3. /\ checkstate \in {"REQUESTLINE", "HEADER"}
        /\ pc \in {"recv", "parse", "closed"} /\ reply \in {"none", "good", "bad"}
    BY <1>3
  <2> QED
    BY <1>1, <1>2, <1>3, <2>1, <2>2, <2>3 DEF HostFrame
<1>5. Got \in Seq(Symbols) /\ Len(Got) = 0
  BY <1>3, <1>4, GotIs
<1>6. Parsed(Got, buffer, start_line, checked_index)
  BY <1>2, <1>3, <1>5 DEF Parsed, Plain, Bytes
<1>7. HostLines
  BY <1>3, <1>6 DEF HostLines
<1>8. OpenLine(Got, start_line)
  BY <1>3, <1>5 DEF OpenLine
<1> QED
  BY <1>3, <1>4, <1>7, <1>8 DEF HostInv

\* The steps that leave the server where it is, and those that end it without an answer
LEMMA ClientKeeps ==
  ASSUME HostInv, UNCHANGED <<stream, buffer, read_index, checked_index, start_line, checkstate,
                              pc, reply>>,
         sent' \in sent .. Len(stream), shut' \in BOOLEAN
  PROVE  HostInv'
<1>1. HostFrame'
  BY DEF HostInv, HostFrame
<1>2. Got' = Got
  BY DEF Got
<1> QED
  BY <1>1, <1>2 DEF HostInv, HostLines, G!Meaning

LEMMA LeaveKeeps ==
  ASSUME HostInv, pc = "recv", pc' = "closed",
         UNCHANGED <<stream, sent, shut, buffer, read_index, checked_index, start_line,
                     checkstate, reply>>
  PROVE  HostInv'
<1>1. HostFrame'
  BY DEF HostInv, HostFrame
<1>2. Got' = Got /\ reply' = reply
  BY DEF Got
<1>3. G!Meaning(Got) = "none" /\ reply = "none"
  BY NoAnswerYet DEF HostInv, HostLines
<1>4. reply' = G!Meaning(Got)'
  BY <1>2, <1>3, HostMeaning
<1> QED
  BY <1>1, <1>4 DEF HostInv

LEMMA RecvKeeps ==
  ASSUME BufferSize \in Nat \ {0}, HostInv, NEW n \in 1 .. BufferSize, G!Recv(n) PROVE HostInv'
<1>1. /\ stream \in Seq(Symbols) /\ buffer \in Seq(Bytes) /\ Len(buffer) = read_index
      /\ Len(stream) \in Nat /\ sent \in 0 .. Len(stream) /\ read_index \in 0 .. Len(stream)
      /\ start_line \in Nat /\ checked_index \in start_line .. read_index
  BY DEF HostInv, HostFrame
<1>2. /\ pc = "recv" /\ pc' = "parse" /\ n \in Nat
      /\ read_index + n <= sent /\ read_index + n <= BufferSize /\ read_index' = read_index + n
      /\ buffer' = Joined(buffer, stream, read_index, n)
      /\ UNCHANGED <<stream, sent, shut, checked_index, start_line, checkstate, reply>>
  BY <1>1 DEF G!Recv, G!Room, G!client, Joined
<1> DEFINE s == Got
           u == SubSeq(stream, 1, read_index + n)
<1>3. s \in Seq(Symbols) /\ Len(s) = read_index /\ read_index \in Nat
  BY GotIs DEF HostInv
<1>4. read_index + n \in 0 .. Len(stream) /\ read_index + n <= Len(stream)
      /\ checked_index \in start_line .. read_index + n /\ start_line \in 0 .. read_index
  BY <1>1, <1>2
<1>5. u \in Seq(Symbols) /\ Len(u) = read_index + n /\ \A i \in 1 .. read_index + n : u[i] = stream[i]
  BY <1>1, <1>4, Received
<1>6. /\ Begins(s, u) /\ buffer' \in Seq(Bytes) /\ Len(buffer') = read_index + n
      /\ \A i \in 1 .. read_index : buffer'[i] = buffer[i]
      /\ \A i \in read_index + 1 .. read_index + n : buffer'[i] = stream[i]
  BY <1>1, <1>2, <1>4, ReceivedMore DEF Got
<1>7. \A i \in read_index + 1 .. read_index + n : buffer'[i] = u[i]
  BY <1>3, <1>5, <1>6
<1>8. Got' = u
  BY <1>2 DEF Got
<1>9. HostLines
  BY <1>2 DEF HostInv
<1> HIDE DEF u
<1>10. HostFrame'
  <2>1. read_index' \in 0 .. sent' /\ sent' \in 0 .. Len(stream')
    BY <1>1, <1>2, <1>4
  <2> QED
    BY <1>1, <1>2, <1>4, <1>6, <2>1 DEF HostInv, HostFrame
<1>11. Parsed(u, buffer', start_line, checked_index)
  BY <1>3, <1>5, <1>6, <1>7, <1>9, ParsedMore DEF Bytes, HostLines
<1>12. Headed(s, start_line) => Headed(u, start_line)
  BY <1>3, <1>4, <1>5, <1>6, HeadingStays
<1>13. HostLines'
  BY <1>2, <1>8, <1>9, <1>11, <1>12 DEF HostLines
<1> QED
  BY <1>2, <1>10, <1>13 DEF HostInv

LEMMA HostNoLineKeeps == ASSUME HostInv, G!NoLine PROVE HostInv'
<1> DEFINE s == Got
<1>1. s \in Seq(Symbols) /\ Len(s) = read_index /\ read_index \in Nat /\ start_line \in Nat
  BY GotIs DEF HostInv, HostFrame
<1>2. /\ pc = "parse" /\ HostLines /\ HostFrame /\ G!Line.status # "LINE_OK"
      /\ checked_index' = G!Line.checked
      /\ UNCHANGED <<stream, sent, shut, buffer, read_index, start_line, checkstate>>
  BY DEF HostInv, G!NoLine, G!client
<1>3. Parsed(s, buffer, start_line, checked_index)
  BY <1>2 DEF HostLines
<1>4. Got' = s
  BY <1>2 DEF Got
<1> HIDE DEF s
<1> DEFINE L == ParseLine(buffer, Len(s), checked_index)
<1>5. G!Line = L
  BY <1>1, SameOperators DEF G!Line
<1> HIDE DEF L
<1>6. /\ L.checked \in checked_index .. Len(s) /\ Plain(s, start_line, L.checked)
      /\ \/ L.status = "LINE_OPEN" /\ OpenLine(s, start_line)
         \/ L.status = "LINE_BAD" /\ L.checked + 1 \in 1 .. Len(s) /\ BadAt(s, L.checked + 1)
  BY <1>1, <1>2, <1>3, <1>5, LineFound DEF L
<1>7. L.checked \in start_line .. Len(s) /\ L.checked \in start_line .. read_index
  BY <1>1, <1>3, <1>6 DEF Parsed
<1>8. Parsed(s, buffer, start_line, L.checked)
  BY <1>3, <1>6, <1>7 DEF Parsed
<1>9. CASE L.status = "LINE_OPEN" /\ OpenLine(s, start_line)
  <2>1. pc' = "recv" /\ reply' = reply
    BY <1>5, <1>9 DEF G!NoLine
  <2>2. HostFrame'
    BY <1>2, <1>5, <1>7, <2>1 DEF HostFrame
  <2>3. HostLines'
    BY <1>2, <1>4, <1>5, <1>8, <2>1 DEF HostLines, s
  <2> QED
    BY <1>2, <1>4, <1>9, <2>1, <2>2, <2>3 DEF HostInv
<1>10. CASE L.status = "LINE_BAD" /\ L.checked + 1 \in 1 .. Len(s) /\ BadAt(s, L.checked + 1)
  <2>1. pc' = "closed" /\ reply' = "bad"
    BY <1>5, <1>10 DEF G!NoLine, G!Answer
  <2>2. HostFrame'
    BY <1>2, <1>5, <1>7, <2>1 DEF HostFrame
  <2>3. \A e \in GoodEnds(s) : e < start_line
    BY <1>1, <1>3, <1>6, <1>7, <1>10, NoLineLeft
  <2>4. BlankLines(s) = {}
    BY <1>1, <1>2, <2>3, NothingYet DEF HostLines, s
  <2>5. HeaderIsBad(s)
    BY <1>10, <2>4 DEF HeaderIsBad
  <2>6. G!Meaning(Got)' = "bad"
    BY <1>4, <2>5, HostMeaning
  <2> QED
    BY <2>1, <2>2, <2>6 DEF HostInv
<1> QED
  BY <1>6, <1>9, <1>10

\* A line was found and cut out.
LEMMA CutOffIs ==
  ASSUME HostInv, G!CutOff, checkstate' \in {"REQUESTLINE", "HEADER"},
         pc' \in {"parse", "closed"}, reply' \in {"none", "good", "bad"}
  PROVE  /\ HostFrame' /\ HostLines /\ Got' = Got
         /\ \E k \in start_line + 1 .. read_index - 1 :
              /\ Plain(Got, start_line, k - 1) /\ Got[k] = "CR" /\ Got[k + 1] = "LF"
              /\ G!LineText = Text(buffer, start_line, k) /\ start_line' = k + 1
              /\ Parsed(Got, buffer, start_line, checked_index)
              /\ Parsed(Got, buffer', start_line', checked_index')
<1> DEFINE s == Got
<1>1. s \in Seq(Symbols) /\ Len(s) = read_index /\ read_index \in Nat /\ start_line \in Nat
  BY GotIs DEF HostInv, HostFrame
<1>2. /\ pc = "parse" /\ HostLines /\ HostFrame /\ G!Line.status = "LINE_OK"
      /\ checked_index' = G!Line.checked /\ start_line' = G!Line.checked
      /\ buffer' = CutLine(buffer, G!Line.checked)
      /\ UNCHANGED <<stream, sent, shut, read_index>>
  BY SameOperators DEF HostInv, G!CutOff, G!client
<1>3. Parsed(s, buffer, start_line, checked_index)
  BY <1>2 DEF HostLines
<1>4. Got' = s
  BY <1>2 DEF Got
<1> HIDE DEF s
<1>5. G!Line = ParseLine(buffer, Len(s), checked_index)
  BY <1>1, SameOperators DEF G!Line
<1>6. PICK k \in start_line + 1 .. Len(s) - 1 :
        /\ Plain(s, start_line, k - 1) /\ s[k] = "CR" /\ s[k + 1] = "LF"
        /\ G!Line.checked = k + 1
  BY <1>1, <1>2, <1>3, <1>5, LineFound
<1>7. Parsed(s, CutLine(buffer, k + 1), k + 1, k + 1)
  BY <1>1, <1>3, <1>6, LineCut
<1>8. (k + 1) - 2 = k - 1 /\ k + 1 \in Nat /\ k + 1 \in k + 1 .. read_index
  BY <1>1, <1>6
<1>9. G!LineText = Text(buffer, start_line, k)
  BY <1>6, <1>8 DEF G!LineText, Text
<1>10. buffer' \in Seq(Bytes) /\ Len(buffer') = read_index
  BY <1>1, <1>2, <1>6, <1>7 DEF Parsed, Bytes
<1>11. HostFrame'
  BY <1>2, <1>6, <1>8, <1>10 DEF HostFrame
<1> QED
  BY <1>1, <1>2, <1>3, <1>4, <1>6, <1>7, <1>9, <1>11 DEF s

LEMMA HostRequestLineKeeps == ASSUME HostInv, G!GotRequestLine PROVE HostInv'
<1> DEFINE s == Got
<1>1. s \in Seq(Symbols) /\ Len(s) = read_index /\ read_index \in Nat /\ start_line \in Nat
  BY GotIs DEF HostInv, HostFrame
<1>2. /\ checkstate = "REQUESTLINE" /\ G!CutOff /\ pc = "parse" /\ reply = "none"
      /\ checkstate' \in {"REQUESTLINE", "HEADER"} /\ pc' \in {"parse", "closed"}
      /\ reply' \in {"none", "good", "bad"}
  BY DEF HostInv, HostLines, G!GotRequestLine, G!CutOff, G!Answer
<1>3. HostFrame' /\ HostLines /\ Got' = s
  BY <1>2, CutOffIs
<1>4. PICK k \in start_line + 1 .. Len(s) - 1 :
        /\ Plain(s, start_line, k - 1) /\ s[k] = "CR" /\ s[k + 1] = "LF"
        /\ G!LineText = Text(buffer, start_line, k) /\ start_line' = k + 1
        /\ Parsed(s, buffer, start_line, checked_index)
        /\ Parsed(s, buffer', start_line', checked_index')
  BY <1>1, <1>2, CutOffIs
<1>5. start_line = 0 /\ start_line' # 0
  BY <1>1, <1>2, <1>3, <1>4 DEF HostLines
<1> HIDE DEF s
<1>6. /\ G!LineText = <<"GET">> <=> ~ RequestIsBad(s)
      /\ G!LineText = <<"GET">> => Headed(s, k + 1)
  BY <1>1, <1>4, <1>5, FirstHeading
<1>7. CASE G!LineText = <<"GET">>
  <2>1. checkstate' = "HEADER" /\ pc' = "parse" /\ reply' = "none"
    BY <1>2, <1>7 DEF G!GotRequestLine
  <2>2. HostLines'
    BY <1>3, <1>4, <1>5, <1>6, <1>7, <2>1 DEF HostLines
  <2> QED
    BY <1>3, <2>1, <2>2 DEF HostInv
<1>8. CASE G!LineText # <<"GET">>
  <2>1. pc' = "closed" /\ reply' = "bad"
    BY <1>8 DEF G!GotRequestLine, G!Answer
  <2>2. G!Meaning(Got)' = "bad"
    BY <1>3, <1>6, <1>8, HostMeaning
  <2> QED
    BY <1>3, <2>1, <2>2 DEF HostInv
<1> QED
  BY <1>7, <1>8

LEMMA HostHeaderKeeps == ASSUME HostInv, G!GotHeader PROVE HostInv'
<1> DEFINE s == Got
<1>1. s \in Seq(Symbols) /\ Len(s) = read_index /\ read_index \in Nat /\ start_line \in Nat
  BY GotIs DEF HostInv, HostFrame
<1>2. /\ checkstate = "HEADER" /\ checkstate' = "HEADER" /\ G!CutOff /\ pc = "parse" /\ reply = "none"
      /\ pc' \in {"parse", "closed"} /\ reply' \in {"none", "good", "bad"}
  BY DEF HostInv, HostLines, G!GotHeader, G!CutOff, G!Answer
<1>3. HostFrame' /\ HostLines /\ Got' = s
  BY <1>2, CutOffIs
<1>4. PICK k \in start_line + 1 .. Len(s) - 1 :
        /\ Plain(s, start_line, k - 1) /\ s[k] = "CR" /\ s[k + 1] = "LF"
        /\ G!LineText = Text(buffer, start_line, k) /\ start_line' = k + 1
        /\ Parsed(s, buffer, start_line, checked_index)
        /\ Parsed(s, buffer', start_line', checked_index')
  BY <1>1, <1>2, CutOffIs
<1>5. start_line # 0 /\ Headed(s, start_line) /\ start_line' # 0
  BY <1>1, <1>2, <1>3, <1>4 DEF HostLines
<1> HIDE DEF s
<1>6. G!LineText = <<>> <=> k = start_line + 1
  BY <1>1, <1>4, TextIs
<1>7. CASE G!LineText = <<>>
  <2>1. pc' = "closed" /\ reply' = "good"
    BY <1>7 DEF G!GotHeader, G!Answer
  <2>2. k = start_line + 1 /\ k \in 1 .. Len(s) - 1 /\ k + 1 = start_line + 2
        /\ k - 2 = start_line - 1
    BY <1>1, <1>4, <1>6, <1>7
  <2>3. k \in GoodEnds(s) /\ k - 2 \in GoodEnds(s) /\ Headed(s, k)
    BY <1>1, <1>4, <1>5, <2>2, HeadingEnds
  <2>4. ~ RequestIsBad(s) /\ BlankLines(s) # {}
    BY <1>1, <2>3, HeaderMeans
  <2>5. G!Meaning(Got)' = "good"
    BY <1>3, <2>4, HostMeaning DEF HeaderIsBad
  <2> QED
    BY <1>3, <2>1, <2>5 DEF HostInv
<1>8. CASE G!LineText # <<>>
  <2>1. pc' = "parse" /\ reply' = "none"
    BY <1>2, <1>8 DEF G!GotHeader
  <2>2. Headed(s, k + 1)
    BY <1>1, <1>4, <1>5, <1>6, <1>8, HeadingGrows
  <2>3. HostLines'
    BY <1>2, <1>3, <1>4, <1>5, <2>1, <2>2 DEF HostLines
  <2> QED
    BY <1>3, <2>1, <2>3 DEF HostInv
<1> QED
  BY <1>7, <1>8

LEMMA HostStep == ASSUME BufferSize \in Nat \ {0}, HostInv, [G!Next]_G!vars PROVE HostInv'
<1>1. Len(stream) \in Nat /\ sent \in 0 .. Len(stream) /\ shut \in BOOLEAN
  BY DEF HostInv, HostFrame
<1>2. ASSUME NEW n \in 1 .. Len(stream), G!Send(n) PROVE HostInv'
  <2>1. sent' \in sent .. Len(stream)
    BY <1>1, <1>2 DEF G!Send
  <2> QED
    BY <1>1, <1>2, <2>1, ClientKeeps DEF G!Send
<1>3. CASE G!Shut
  <2>1. sent' \in sent .. Len(stream) /\ shut' \in BOOLEAN
    BY <1>1, <1>3 DEF G!Shut
  <2> QED
    BY <1>3, <2>1, ClientKeeps DEF G!Shut
<1>4. CASE G!RecvFails
  BY <1>4, LeaveKeeps DEF G!RecvFails, G!client
<1>5. CASE G!RecvNothing
  BY <1>5, LeaveKeeps DEF G!RecvNothing, G!client
<1>6. CASE UNCHANGED G!vars
  <2>1. sent' \in sent .. Len(stream) /\ shut' \in BOOLEAN
    BY <1>1, <1>6 DEF G!vars
  <2> QED
    BY <1>6, <2>1, ClientKeeps DEF G!vars
<1> QED
  BY <1>2, <1>3, <1>4, <1>5, <1>6, RecvKeeps, HostNoLineKeeps, HostRequestLineKeeps, HostHeaderKeeps
  DEF G!Next, G!Server

LEMMA HostMeans == ASSUME HostInv PROVE G!AnswerIsMeaning
<1>1. G!TypeOK
  BY DEF HostInv, HostFrame, G!TypeOK
<1>2. pc # "parse" => reply = G!Meaning(Got)
  <2>1. CASE pc = "recv"
    BY <2>1, NoAnswerYet DEF HostInv, HostLines
  <2>2. CASE pc = "closed"
    BY <2>2 DEF HostInv
  <2> QED
    BY <2>1, <2>2 DEF HostInv, HostFrame
<1> QED
  BY <1>1, <1>2 DEF G!AnswerIsMeaning, Got

\* GET_HOST, for any bytes a client sends, any BUFFER_SIZE and any pieces recv returns:
\* the one answer, or that there is none, is that of all the bytes received, looked at
\* as a whole.  (GetHost assumes of BufferSize what is assumed here.)
THEOREM AnswersAreMeant == ASSUME BufferSize \in Nat \ {0} PROVE G!Spec => []G!AnswerIsMeaning
<1>1. G!Init => HostInv
  BY HostInit
<1>2. HostInv /\ [G!Next]_G!vars => HostInv'
  BY HostStep
<1>3. HostInv => G!AnswerIsMeaning
  BY HostMeans
<1> QED
  BY <1>1, <1>2, <1>3, PTL DEF G!Spec
=============================================================================

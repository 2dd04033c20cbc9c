------------------------ MODULE ManifestReaderProofs ------------------------
(***************************************************************************)
(* Proofs about ManifestReader and the names of ServiceNames, for every    *)
(* folder of manifests, every machine manifest and every file name.        *)
(***************************************************************************)
EXTENDS ManifestReader, SequenceTheorems, TLAPS

(***************************************************************************)
(* Names.                                                                  *)
(***************************************************************************)

\* The last slash of s is where every later character is no slash.
LEMMA LastSlash ==
    ASSUME NEW s \in Seq(Chars), NEW pos \in Nat, NEW i \in 0 .. Len(s) - 1,
           i <= pos, s[i + 1] = Slash,
           \A j \in i + 1 .. Len(s) - 1 : j <= pos => s[j + 1] # Slash
    PROVE  FindLastOf(s, pos) = i
<1>1. i \in Slashes(s, pos)
  BY DEF Slashes
<1>2. \A j \in Slashes(s, pos) : j \in Nat /\ j <= i
  BY DEF Slashes
<1>3. \A k \in Slashes(s, pos) : (\A j \in Slashes(s, pos) : j <= k) => k = i
  BY <1>1, <1>2
<1>4. (CHOOSE k \in Slashes(s, pos) : \A j \in Slashes(s, pos) : j <= k) = i
  BY <1>1, <1>2, <1>3
<1> QED BY <1>1, <1>4 DEF FindLastOf

\* A string of one character.
LEMMA OneCharacter ==
    ASSUME NEW c \in Chars
    PROVE  <<c>> \in Seq(Chars) /\ Len(<<c>>) = 1 /\ <<c>>[1] = c
OBVIOUS

\* ab has the characters of a and then those of b.
IsJoin(a, b, ab) ==
    /\ ab \in Seq(Chars)
    /\ Len(a) \in Nat /\ Len(b) \in Nat /\ Len(ab) = Len(a) + Len(b)
    /\ \A i \in 1 .. Len(a) : ab[i] = a[i]
    /\ \A i \in 1 .. Len(b) : ab[Len(a) + i] = b[i]

\* That is what the concatenation of two strings has.
LEMMA Joined ==
    ASSUME NEW a \in Seq(Chars), NEW b \in Seq(Chars)
    PROVE  IsJoin(a, b, a \o b)
<1>1. Len(a) \in Nat /\ Len(b) \in Nat
  BY LenProperties
<1>2. /\ a \o b \in Seq(Chars) /\ Len(a \o b) = Len(a) + Len(b)
      /\ \A i \in 1 .. Len(a) + Len(b) :
            (a \o b)[i] = IF i <= Len(a) THEN a[i] ELSE b[i - Len(a)]
  BY ConcatProperties
<1> QED BY <1>1, <1>2 DEF IsJoin

\* The characters of a command line: the path of the folder, a slash, the
\* directory, "/processes/", the process and the NUL.
IsCommandLine(d, proc, s) ==
    /\ s \in Seq(Chars)
    /\ Len(s) = Len(BinPath) + 1 + Len(d) + Len(Processes) + Len(proc) + 1
    /\ s[Len(BinPath) + 1] = Slash
    /\ \A i \in 1 .. Len(d) : s[Len(BinPath) + 1 + i] = d[i]
    /\ s[Len(BinPath) + 1 + Len(d) + Len(Processes)] = Slash
    /\ \A i \in 1 .. Len(proc) :
          s[Len(BinPath) + 1 + Len(d) + Len(Processes) + i] = proc[i]
    /\ s[Len(s)] = NUL

\* That is what the path of a binary with a NUL behind it has.
LEMMA CommandLine ==
    ASSUME NEW d \in Seq(Chars), NEW proc \in Seq(Chars), BinPath \in Seq(Chars),
           NEW s, s = BinaryPath(d, proc) \o <<NUL>>
    PROVE  IsCommandLine(d, proc, s)
<1>0. /\ <<Slash>> \in Seq(Chars) /\ Len(<<Slash>>) = 1 /\ <<Slash>>[1] = Slash
      /\ <<NUL>> \in Seq(Chars) /\ Len(<<NUL>>) = 1 /\ <<NUL>>[1] = NUL
  BY OneCharacter, CharsAssumption
<1>1. PICK t1 : t1 = BinPath \o <<Slash>>
  OBVIOUS
<1>2. PICK t2 : t2 = t1 \o d
  OBVIOUS
<1>3. PICK t3 : t3 = t2 \o Processes
  OBVIOUS
<1>4. PICK t4 : t4 = t3 \o proc
  OBVIOUS
<1>5. s = t4 \o <<NUL>>
  BY <1>1, <1>2, <1>3, <1>4 DEF BinaryPath
<1>6. IsJoin(BinPath, <<Slash>>, t1)
  BY <1>0, <1>1, Joined
<1>7. t1 \in Seq(Chars)
  BY <1>6 DEF IsJoin
<1>8. IsJoin(t1, d, t2)
  BY <1>7, <1>2, Joined, Zenon
<1>9. t2 \in Seq(Chars)
  BY <1>8 DEF IsJoin
<1>10. IsJoin(t2, Processes, t3)
  BY <1>9, <1>3, ProcessesAssumption, Joined, Zenon
<1>11. t3 \in Seq(Chars)
  BY <1>10 DEF IsJoin
<1>12. IsJoin(t3, proc, t4)
  BY <1>11, <1>4, Joined, Zenon
<1>13. t4 \in Seq(Chars)
  BY <1>12 DEF IsJoin
<1>14. IsJoin(t4, <<NUL>>, s)
  BY <1>13, <1>0, <1>5, Joined, Zenon
<1>15. /\ Len(BinPath) \in Nat /\ Len(d) \in Nat /\ Len(proc) \in Nat
       /\ Len(Processes) \in Nat \ {0, 1}
       /\ Len(t1) = Len(BinPath) + 1 /\ Len(t2) = Len(t1) + Len(d)
       /\ Len(t3) = Len(t2) + Len(Processes) /\ Len(t4) = Len(t3) + Len(proc)
       /\ Len(s) = Len(t4) + 1
  BY <1>0, <1>6, <1>8, <1>10, <1>12, <1>14, ProcessesAssumption DEF IsJoin
<1>16. /\ t1[Len(BinPath) + 1] = Slash
       /\ t3[Len(t2) + Len(Processes)] = Slash
       /\ s[Len(t4) + 1] = NUL
  <2>1. t1[Len(BinPath) + 1] = <<Slash>>[1]
    BY <1>0, <1>6, <1>15 DEF IsJoin
  <2>2. t3[Len(t2) + Len(Processes)] = Processes[Len(Processes)]
    BY <1>10, <1>15 DEF IsJoin
  <2>3. s[Len(t4) + 1] = <<NUL>>[1]
    BY <1>0, <1>14, <1>15 DEF IsJoin
  <2> QED BY <2>1, <2>2, <2>3, <1>0, ProcessesAssumption
<1>17. /\ \A i \in 1 .. Len(t1) : t2[i] = t1[i]
       /\ \A i \in 1 .. Len(t2) : t3[i] = t2[i]
       /\ \A i \in 1 .. Len(t3) : t4[i] = t3[i]
       /\ \A i \in 1 .. Len(t4) : s[i] = t4[i]
  BY <1>8, <1>10, <1>12, <1>14 DEF IsJoin
<1>18. /\ \A i \in 1 .. Len(d) : t2[Len(t1) + i] = d[i]
       /\ \A i \in 1 .. Len(proc) : t4[Len(t3) + i] = proc[i]
  BY <1>8, <1>12 DEF IsJoin
<1>19. s[Len(BinPath) + 1] = Slash
  BY <1>15, <1>16, <1>17
<1>20. s[Len(BinPath) + 1 + Len(d) + Len(Processes)] = Slash
  BY <1>15, <1>16, <1>17
<1>21. \A i \in 1 .. Len(d) : s[Len(BinPath) + 1 + i] = d[i]
  <2> TAKE i \in 1 .. Len(d)
  <2>1. Len(t1) + i \in 1 .. Len(t2) /\ Len(t1) + i = Len(BinPath) + 1 + i
    BY <1>15
  <2>2. Len(t2) <= Len(t3) /\ Len(t3) <= Len(t4)
    BY <1>15
  <2> QED BY <2>1, <2>2, <1>15, <1>17, <1>18
<1>22. \A i \in 1 .. Len(proc) :
           s[Len(BinPath) + 1 + Len(d) + Len(Processes) + i] = proc[i]
  <2> TAKE i \in 1 .. Len(proc)
  <2>1. /\ Len(t3) + i \in 1 .. Len(t4)
        /\ Len(t3) + i = Len(BinPath) + 1 + Len(d) + Len(Processes) + i
    BY <1>15
  <2> QED BY <2>1, <1>17, <1>18
<1>23. s \in Seq(Chars)
  BY <1>14 DEF IsJoin
<1> QED BY <1>15, <1>16, <1>19, <1>20, <1>21, <1>22, <1>23 DEF IsCommandLine


\* A piece of s that has the characters of t is t.
LEMMA Piece ==
    ASSUME NEW s \in Seq(Chars), NEW t \in Seq(Chars), NEW k \in Nat, NEW n \in Nat,
           n = k + Len(t), n <= Len(s),
           \A i \in 1 .. Len(t) : s[k + i] = t[i]
    PROVE  SubSeq(s, k + 1, n) = t
<1>1. Len(t) \in Nat /\ Len(s) \in Nat
  BY LenProperties
<1>2. \A i \in k + 1 .. n : s[i] \in Chars
  BY <1>1, ElementOfSeq
<1>3. /\ SubSeq(s, k + 1, n) \in Seq(Chars)
      /\ Len(SubSeq(s, k + 1, n)) = IF k + 1 <= n THEN n - (k + 1) + 1 ELSE 0
      /\ \A i \in 1 .. n - (k + 1) + 1 : SubSeq(s, k + 1, n)[i] = s[k + 1 + i - 1]
  BY <1>1, <1>2, SubSeqProperties
<1>4. Len(SubSeq(s, k + 1, n)) = Len(t)
  BY <1>1, <1>3
<1>5. \A i \in 1 .. Len(t) : SubSeq(s, k + 1, n)[i] = t[i]
  BY <1>1, <1>3
<1> QED BY <1>3, <1>4, <1>5, SeqEqual

\* Positions that stay in the range of size_t do not wrap around.
LEMMA NoWrap ==
    ASSUME NEW a \in Nat, NEW b \in Nat
    PROVE  /\ a + b < Word => Plus(a, b) = a + b
           /\ a < Word /\ b <= a => Minus(a, b) = a - b
BY WordAssumption DEF Plus, Minus

\* The positions of parseServiceName in a command line, where b, l and k are
\* the lengths of the folder's path, of the directory and of "/processes/".
ParsePositions(s, b, l, k) ==
    /\ FindLastOf(s, npos) = b + l + k
    /\ Minus(b + l + k, k) = b + l
    /\ FindLastOf(s, b + l) = b
    /\ Plus(b, 1) = b + 1
    /\ Minus(b + l, b) = l
    /\ Plus(b + l + k, 1) = b + l + k + 1

\* A string with slashes in these places, and none behind them, has these
\* positions: none of them wraps around.
LEMMA Positions ==
    ASSUME NEW s \in Seq(Chars), NEW b \in Nat, NEW l \in Nat, NEW k \in Nat, NEW n \in Nat,
           k > 1, Len(s) = b + 1 + l + k + n + 1, Len(s) < Word,
           s[b + 1] = Slash, s[b + 1 + l + k] = Slash, s[Len(s)] = NUL,
           \A i \in 1 .. l : s[b + 1 + i] # Slash,
           \A i \in 1 .. n : s[b + 1 + l + k + i] # Slash
    PROVE  ParsePositions(s, b, l, k)
<1>0. Word \in Nat
  BY WordAssumption
<1>1. FindLastOf(s, npos) = b + l + k
  <2>1. b + l + k \in 0 .. Len(s) - 1 /\ npos \in Nat /\ b + l + k <= npos
    BY <1>0 DEF npos
  <2>2. s[b + l + k + 1] = Slash
    <3>1. b + l + k + 1 = b + 1 + l + k
      OBVIOUS
    <3> QED BY <3>1
  <2>3. \A j \in b + l + k + 1 .. Len(s) - 1 : s[j + 1] # Slash
    <3> TAKE j \in b + l + k + 1 .. Len(s) - 1
    <3>1. CASE j + 1 = Len(s)
      BY <3>1 DEF NUL, Slash
    <3>2. CASE j + 1 # Len(s)
      <4>1. /\ j - (b + l + k) \in 1 .. n
            /\ j + 1 = b + 1 + l + k + (j - (b + l + k))
        BY <3>2
      <4> QED BY <4>1
    <3> QED BY <3>1, <3>2
  <2> QED BY <2>1, <2>2, <2>3, LastSlash
<1>2. FindLastOf(s, b + l) = b
  <2>1. b \in 0 .. Len(s) - 1 /\ b + l \in Nat /\ b <= b + l
    OBVIOUS
  <2>2. \A j \in b + 1 .. Len(s) - 1 : j <= b + l => s[j + 1] # Slash
    <3> SUFFICES ASSUME NEW j \in b + 1 .. Len(s) - 1, j <= b + l
                 PROVE  s[j + 1] # Slash
      OBVIOUS
    <3>1. j - b \in 1 .. l /\ j + 1 = b + 1 + (j - b)
      OBVIOUS
    <3> QED BY <3>1
  <2> QED BY <2>1, <2>2, LastSlash
<1>3. Minus(b + l + k, k) = b + l
  <2>1. b + l + k < Word /\ b + l + k \in Nat
    BY <1>0
  <2> QED BY <2>1, NoWrap
<1>4. Minus(b + l, b) = l
  <2>1. b + l < Word /\ b + l \in Nat
    BY <1>0
  <2> QED BY <2>1, NoWrap
<1>5. Plus(b, 1) = b + 1 /\ Plus(b + l + k, 1) = b + l + k + 1
  <2>1. b + 1 < Word /\ b + l + k + 1 < Word
    BY <1>0
  <2> QED BY <2>1, NoWrap
<1> QED BY <1>1, <1>2, <1>3, <1>4, <1>5 DEF ParsePositions

\* parseServiceName takes the directory and the process, with the NUL behind
\* it, out of the command line.
LEMMA ParsedName ==
    ASSUME NEW d, NEW proc, IsFileName(d), IsFileName(proc), BinPath \in Seq(Chars),
           Len(BinaryPath(d, proc)) + 1 < Word
    PROVE  parseServiceName(BinaryPath(d, proc) \o <<NUL>>)
             = getServiceName(d, proc \o <<NUL>>)
<1>1. d \in Seq(Chars) /\ proc \in Seq(Chars)
  BY DEF IsFileName
<1>2. PICK s : s = BinaryPath(d, proc) \o <<NUL>>
  OBVIOUS
<1>3. PICK t : t = proc \o <<NUL>>
  OBVIOUS
<1>4. PICK b : b = Len(BinPath)
  OBVIOUS
<1>5. PICK l : l = Len(d)
  OBVIOUS
<1>6. PICK k : k = Len(Processes)
  OBVIOUS
<1>7. PICK n : n = Len(proc)
  OBVIOUS
<1>8. b \in Nat /\ l \in Nat /\ n \in Nat /\ k \in Nat /\ k > 1
  BY <1>1, <1>4, <1>5, <1>6, <1>7, LenProperties, ProcessesAssumption
<1>9. <<NUL>> \in Seq(Chars) /\ Len(<<NUL>>) = 1 /\ <<NUL>>[1] = NUL
  BY OneCharacter, CharsAssumption
<1>10. IsJoin(proc, <<NUL>>, t)
  BY <1>9, <1>1, <1>3, Joined, Zenon
<1>11. IsCommandLine(d, proc, s)
  BY <1>1, <1>2, CommandLine, Zenon
<1>12. s \in Seq(Chars) /\ Len(s) = b + 1 + l + k + n + 1
  BY <1>11, <1>4, <1>5, <1>6, <1>7 DEF IsCommandLine
<1>13. s[b + 1] = Slash /\ s[b + 1 + l + k] = Slash /\ s[Len(s)] = NUL
  BY <1>11, <1>4, <1>5, <1>6 DEF IsCommandLine
<1>14. /\ \A i \in 1 .. l : s[b + 1 + i] = d[i]
       /\ \A i \in 1 .. n : s[b + 1 + l + k + i] = proc[i]
  BY <1>11, <1>4, <1>5, <1>6, <1>7 DEF IsCommandLine
<1>15. /\ \A i \in 1 .. l : d[i] # Slash
       /\ \A i \in 1 .. n : proc[i] # Slash
  BY <1>1, <1>5, <1>7, LenProperties DEF IsFileName
<1>16. Len(s) < Word
  <2>1. BinaryPath(d, proc) \in Seq(Chars)
    BY <1>1, ProcessesAssumption, CharsAssumption, OneCharacter, ConcatProperties
       DEF BinaryPath
  <2>2. IsJoin(BinaryPath(d, proc), <<NUL>>, s)
    BY <2>1, <1>2, <1>9, Joined, Zenon
  <2> QED BY <2>2, <1>9 DEF IsJoin
<1>17. ParsePositions(s, b, l, k)
  <2>1. /\ \A i \in 1 .. l : s[b + 1 + i] # Slash
        /\ \A i \in 1 .. n : s[b + 1 + l + k + i] # Slash
    BY <1>14, <1>15
  <2> QED BY <2>1, <1>8, <1>12, <1>13, <1>16, Positions, Zenon
<1>18. Substr(s, b + 1, l) = d
  <2>1. b + 1 \in Nat /\ b + 1 + l \in Nat /\ b + 1 + l <= Len(s) /\ l < Len(s) - (b + 1)
    BY <1>8, <1>12
  <2>2. SubSeq(s, b + 1 + 1, b + 1 + l) = d
    BY <2>1, <1>1, <1>5, <1>12, <1>14, Piece
  <2> QED BY <2>1, <2>2 DEF Substr
<1>19. Substr(s, b + l + k + 1, npos) = t
  <2>1. t \in Seq(Chars) /\ Len(t) = n + 1 /\ t[n + 1] = NUL
    BY <1>9, <1>10, <1>7 DEF IsJoin
  <2>2. \A i \in 1 .. n : t[i] = proc[i]
    BY <1>10, <1>7 DEF IsJoin
  <2>3. \A i \in 1 .. n + 1 : s[b + l + k + 1 + i] = t[i]
    <3> TAKE i \in 1 .. n + 1
    <3>0. b + l + k + 1 + i = b + 1 + l + k + i
      BY <1>8
    <3>1. CASE i = n + 1
      <4>1. b + l + k + 1 + i = Len(s)
        BY <3>1, <1>8, <1>12
      <4> QED BY <4>1, <3>1, <2>1, <1>13
    <3>2. CASE i \in 1 .. n
      BY <3>0, <3>2, <2>2, <1>14
    <3> QED BY <3>1, <3>2, <1>8
  <2>4. b + l + k + 1 \in Nat /\ Len(s) \in Nat /\ Len(s) = b + l + k + 1 + Len(t)
    BY <1>8, <1>12, <2>1
  <2>5. SubSeq(s, b + l + k + 1 + 1, Len(s)) = t
    <3>1. \A i \in 1 .. Len(t) : s[b + l + k + 1 + i] = t[i]
      BY <2>1, <2>3
    <3>2. Len(s) <= Len(s)
      BY <2>4
    <3> QED BY <3>1, <3>2, <2>1, <2>4, <1>12, Piece, Zenon
  <2>6. ~(npos < Len(s) - (b + l + k + 1))
    BY <1>8, <1>12, <1>16, WordAssumption DEF npos
  <2> QED BY <2>5, <2>6 DEF Substr
<1> QED BY <1>2, <1>3, <1>6, <1>17, <1>18, <1>19 DEF parseServiceName, ParsePositions

\* k is where the first c of s is.
FirstIs(s, c, k) == Has(s, c) /\ FindFirstOf(s, c) = k

\* The first c of s is where no character before it is c.
LEMMA FirstCharacter ==
    ASSUME NEW s \in Seq(Chars), NEW c \in Chars, NEW k \in 1 .. Len(s), s[k] = c,
           \A j \in 1 .. Len(s) : j < k => s[j] # c
    PROVE  FirstIs(s, c, k)
<1>1. DOMAIN s = 1 .. Len(s) /\ Len(s) \in Nat
  BY LenProperties
<1>2. \A i \in DOMAIN s : s[i] = c /\ (\A j \in 1 .. i - 1 : s[j] # c) => i = k
  <2> SUFFICES ASSUME NEW i \in DOMAIN s, s[i] = c, \A j \in 1 .. i - 1 : s[j] # c
               PROVE  i = k
    OBVIOUS
  <2>1. i \in Int /\ k \in Int /\ i >= 1 /\ k >= 1
    BY <1>1
  <2>2. ~(i < k)
    BY <2>1
  <2>3. ~(k < i)
    BY <2>1
  <2> QED BY <2>1, <2>2, <2>3
<1>3. FindFirstOf(s, c) = k
  BY <1>1, <1>2 DEF FindFirstOf
<1>4. Has(s, c)
  BY <1>1 DEF Has
<1> QED BY <1>3, <1>4 DEF FirstIs

\* u is d, an underscore and t.
HasParts(d, t, u) ==
    /\ u \in Seq(Chars) /\ Len(d) \in Nat /\ Len(t) \in Nat
    /\ Len(u) = Len(d) + 1 + Len(t)
    /\ \A i \in 1 .. Len(d) : u[i] = d[i]
    /\ u[Len(d) + 1] = Underscore
    /\ \A i \in 1 .. Len(t) : u[Len(d) + 1 + i] = t[i]

\* So it is with a unit name, and with one that has a NUL behind it.
LEMMA NameParts ==
    ASSUME NEW d \in Seq(Chars), NEW t \in Seq(Chars), NEW u, u = d \o <<Underscore>> \o t
    PROVE  HasParts(d, t, u)
<1>1. /\ <<Underscore>> \in Seq(Chars) /\ Len(<<Underscore>>) = 1
      /\ <<Underscore>>[1] = Underscore
  BY OneCharacter, CharsAssumption
<1>2. PICK v : v = d \o <<Underscore>>
  OBVIOUS
<1>3. IsJoin(d, <<Underscore>>, v)
  BY <1>1, <1>2, Joined, Zenon
<1>4. v \in Seq(Chars)
  BY <1>3 DEF IsJoin
<1>5. IsJoin(v, t, u)
  BY <1>2, <1>4, Joined, Zenon
<1>6. /\ Len(d) \in Nat /\ Len(t) \in Nat /\ Len(v) = Len(d) + 1
      /\ u \in Seq(Chars) /\ Len(u) = Len(v) + Len(t)
  BY <1>1, <1>3, <1>5 DEF IsJoin
<1>7. /\ \A i \in 1 .. Len(d) : v[i] = d[i]
      /\ v[Len(d) + 1] = <<Underscore>>[1]
  BY <1>1, <1>3 DEF IsJoin
<1>8. /\ \A i \in 1 .. Len(v) : u[i] = v[i]
      /\ \A i \in 1 .. Len(t) : u[Len(v) + i] = t[i]
  BY <1>5 DEF IsJoin
<1>9. \A i \in 1 .. Len(d) : u[i] = d[i]
  BY <1>6, <1>7, <1>8
<1>10. u[Len(d) + 1] = Underscore
  BY <1>1, <1>6, <1>7, <1>8
<1>11. \A i \in 1 .. Len(t) : u[Len(d) + 1 + i] = t[i]
  BY <1>6, <1>8
<1> QED BY <1>6, <1>9, <1>10, <1>11 DEF HasParts

\* A process reports the name of the unit that started it.
LEMMA ReportsUnitName ==
    ASSUME NEW d, NEW proc, IsFileName(d), IsFileName(proc), BinPath \in Seq(Chars),
           Len(BinaryPath(d, proc)) + 1 < Word, ~Has(BinaryPath(d, proc), Blank)
    PROVE  ReportedName(BinaryPath(d, proc)) = UnitName(d, proc)
<1>1. d \in Seq(Chars) /\ proc \in Seq(Chars)
  BY DEF IsFileName
<1>2. PICK t : t = proc \o <<NUL>>
  OBVIOUS
<1>3. PICK u : u = d \o <<Underscore>> \o t
  OBVIOUS
<1>4. PICK v : v = d \o <<Underscore>> \o proc
  OBVIOUS
<1>5. parseServiceName(BinaryPath(d, proc) \o <<NUL>>) = u
  BY <1>2, <1>3, ParsedName DEF getServiceName
<1>6. <<NUL>> \in Seq(Chars) /\ Len(<<NUL>>) = 1 /\ <<NUL>>[1] = NUL
  BY OneCharacter, CharsAssumption
<1>7. IsJoin(proc, <<NUL>>, t)
  BY <1>6, <1>1, <1>2, Joined, Zenon
<1>8. t \in Seq(Chars) /\ Len(t) = Len(proc) + 1 /\ t[Len(proc) + 1] = NUL
  BY <1>6, <1>7 DEF IsJoin
<1>9. \A i \in 1 .. Len(proc) : t[i] = proc[i]
  BY <1>7 DEF IsJoin
<1>10. HasParts(d, t, u)
  BY <1>1, <1>3, <1>8, NameParts, Zenon
<1>11. HasParts(d, proc, v)
  BY <1>1, <1>4, NameParts, Zenon
<1>12. /\ u \in Seq(Chars) /\ v \in Seq(Chars) /\ Len(d) \in Nat /\ Len(proc) \in Nat
       /\ Len(v) = Len(d) + 1 + Len(proc) /\ Len(u) = Len(v) + 1
       /\ Len(v) \in Nat /\ Len(u) \in Nat
  BY <1>8, <1>10, <1>11 DEF HasParts
<1>13. \A i \in 1 .. Len(v) : u[i] = v[i] /\ v[i] # NUL
  <2> TAKE i \in 1 .. Len(v)
  <2>1. CASE i \in 1 .. Len(d)
    BY <2>1, <1>1, <1>10, <1>11, LenProperties DEF IsFileName, HasParts
  <2>2. CASE i = Len(d) + 1
    BY <2>2, <1>10, <1>11 DEF Underscore, NUL, HasParts
  <2>3. CASE i > Len(d) + 1
    <3>1. PICK j \in 1 .. Len(proc) : i = Len(d) + 1 + j
      <4>1. i - (Len(d) + 1) \in 1 .. Len(proc) /\ i = Len(d) + 1 + (i - (Len(d) + 1))
        BY <2>3, <1>12
      <4> QED BY <4>1
    <3>2. proc[j] # NUL
      BY <1>1, LenProperties DEF IsFileName
    <3>3. j \in 1 .. Len(t)
      BY <1>8, <1>12
    <3>4. u[Len(d) + 1 + j] = t[j] /\ v[Len(d) + 1 + j] = proc[j]
      BY <3>3, <1>10, <1>11 DEF HasParts
    <3> QED BY <3>1, <3>2, <3>4, <1>9
  <2> QED BY <2>1, <2>2, <2>3, <1>12
<1>14. u[Len(v) + 1] = NUL
  <2>1. Len(v) + 1 = Len(d) + 1 + (Len(proc) + 1) /\ Len(proc) + 1 \in 1 .. Len(t)
    BY <1>8, <1>12
  <2>2. u[Len(d) + 1 + (Len(proc) + 1)] = t[Len(proc) + 1]
    BY <2>1, <1>10 DEF HasParts
  <2> QED BY <2>1, <2>2, <1>8
<1>15. FirstIs(u, NUL, Len(v) + 1)
  <2>1. \A j \in 1 .. Len(u) : j < Len(v) + 1 => u[j] # NUL
    BY <1>12, <1>13
  <2>2. Len(v) + 1 \in 1 .. Len(u)
    BY <1>12
  <2>3. NUL \in Chars /\ u \in Seq(Chars)
    BY <1>12, CharsAssumption
  <2> QED BY <2>1, <2>2, <2>3, <1>14, FirstCharacter, Zenon
<1>16. CString(u) = SubSeq(u, 1, Len(v) + 1 - 1)
  BY <1>15 DEF CString, Before, FirstIs
<1>17. SubSeq(u, 0 + 1, Len(v)) = v
  <2>1. /\ 0 \in Nat /\ Len(v) = 0 + Len(v) /\ Len(v) <= Len(u)
        /\ \A i \in 1 .. Len(v) : u[0 + i] = v[i]
    BY <1>12, <1>13
  <2> QED BY <2>1, <1>12, Piece, Zenon
<1>18. 0 + 1 = 1 /\ Len(v) + 1 - 1 = Len(v)
  BY <1>12
<1>19. Before(BinaryPath(d, proc) \o <<NUL>>, Blank) = BinaryPath(d, proc) \o <<NUL>>
  <2>1. BinaryPath(d, proc) \in Seq(Chars)
    BY <1>1, ProcessesAssumption, CharsAssumption, OneCharacter DEF BinaryPath
  <2>2. PICK b : b = BinaryPath(d, proc)
    OBVIOUS
  <2>3. PICK w : w = b \o <<NUL>>
    OBVIOUS
  <2>4. IsJoin(b, <<NUL>>, w)
    BY <1>6, <2>1, <2>2, <2>3, Joined, Zenon
  <2>5. ~Has(b, Blank)
    BY <2>2
  <2>6. ~Has(w, Blank)
    <3>1. /\ DOMAIN b = 1 .. Len(b) /\ DOMAIN w = 1 .. Len(w)
          /\ Len(b) \in Nat /\ Len(w) = Len(b) + 1
      BY <1>6, <2>1, <2>2, <2>4, LenProperties DEF IsJoin
    <3>2. \A i \in 1 .. Len(b) : w[i] # Blank
      BY <2>4, <2>5, <3>1 DEF Has, IsJoin
    <3>3. w[Len(b) + 1] = NUL
      BY <1>6, <2>4 DEF IsJoin
    <3>4. NUL # Blank
      BY DEF NUL, Blank
    <3>5. \A i \in 1 .. Len(w) : i \in 1 .. Len(b) \/ i = Len(b) + 1
      BY <3>1
    <3> QED BY <3>1, <3>2, <3>3, <3>4, <3>5 DEF Has
  <2>7. Before(w, Blank) = w
    BY <2>6 DEF Before
  <2> QED BY <2>2, <2>3, <2>7
<1> QED BY <1>4, <1>5, <1>2, <1>16, <1>17, <1>18, <1>19 DEF ReportedName, UnitName

\* Behind the first underscore of a unit name stands the process, when the
\* directory has no underscore.
LEMMA PidofProcess ==
    ASSUME NEW d \in Seq(Chars), NEW proc \in Seq(Chars),
           \A i \in DOMAIN d : d[i] # Underscore
    PROVE  PidofName(UnitName(d, proc)) = proc
<1>1. PICK u : u = d \o <<Underscore>> \o proc
  OBVIOUS
<1>2. HasParts(d, proc, u)
  BY <1>1, NameParts, Zenon
<1>3. /\ Len(d) + 1 \in 1 .. Len(u) /\ Len(u) \in Nat /\ Len(d) \in Nat
      /\ u \in Seq(Chars) /\ u[Len(d) + 1] = Underscore
      /\ Len(u) = Len(d) + 1 + Len(proc)
  BY <1>2 DEF HasParts
<1>4. FirstIs(u, Underscore, Len(d) + 1)
  <2>1. \A j \in 1 .. Len(u) : j < Len(d) + 1 => u[j] # Underscore
    BY <1>2, LenProperties DEF HasParts
  <2>2. Underscore \in Chars /\ u \in Seq(Chars) /\ Len(d) + 1 \in 1 .. Len(u)
    BY <1>3, CharsAssumption
  <2>3. u[Len(d) + 1] = Underscore
    BY <1>3
  <2> QED BY <2>1, <2>2, <2>3, FirstCharacter, Zenon
<1>5. PidofName(u) = SubSeq(u, Len(d) + 1 + 1, Len(u))
  BY <1>4 DEF PidofName, FirstIs
<1>6. SubSeq(u, Len(d) + 1 + 1, Len(u)) = proc
  <2>1. Len(d) + 1 \in Nat /\ Len(u) <= Len(u)
    BY <1>3
  <2>2. \A i \in 1 .. Len(proc) : u[Len(d) + 1 + i] = proc[i]
    BY <1>2 DEF HasParts
  <2> QED BY <2>1, <2>2, <1>3, Piece, Zenon
<1> QED BY <1>1, <1>5, <1>6 DEF UnitName

-----------------------------------------------------------------------------
(***************************************************************************)
(* The constructor.  The inductive invariant says what the map holds while *)
(* directories are still to be read: the services of the others.           *)
(***************************************************************************)
ReadServices(mode) ==
    UNION {ServicesOf(folder[d], mode) : d \in DOMAIN folder \ files}

MapInv ==
    phase \in {"listing", "applications", "filter"} =>
        /\ phase = "listing" => supported = << >>
        /\ phase # "listing" =>
              /\ \A d \in DOMAIN folder \ files : folder[d].ok
              /\ \A mode : mode \in DOMAIN supported <=>
                    \E d \in DOMAIN folder \ files : mode \in ModesOf(folder[d])
              /\ \A mode \in DOMAIN supported : supported[mode] = ReadServices(mode)
        /\ phase = "filter" =>
              /\ files = {}
              /\ machine.ok
              /\ \A mode : mode \in states <=>
                    \E g \in DOMAIN machine.groups :
                       FirstGroup(g) /\ mode \in machine.groups[g].modes

\* A mode that no process names has no service, and one that is named has.
LEMMA NamedHasService ==
    ASSUME NEW m, NEW mode
    PROVE  mode \in ModesOf(m) <=> ServicesOf(m, mode) # {}
BY DEF ModesOf, ServicesOf

\* The type invariant of the reader.
THEOREM ReaderTypeCorrect == Spec => []ReaderTypeOK
<1>1. Init => ReaderTypeOK
  BY DEF Init, ReaderTypeOK
<1>2. ReaderTypeOK /\ [Next]_vars => ReaderTypeOK'
  <2> SUFFICES ASSUME ReaderTypeOK, [Next]_vars PROVE ReaderTypeOK'
    OBVIOUS
  <2> USE DEF ReaderTypeOK, disk, vars
  <2>1. CASE getListOfApplications
    BY <2>1 DEF getListOfApplications
  <2>2. CASE OpendirFails
    BY <2>2 DEF OpendirFails, Throw
  <2>3. ASSUME NEW d \in files, ReadManifest(d) PROVE ReaderTypeOK'
    <3>1. DOMAIN supported' = DOMAIN supported \cup ModesOf(folder[d])
      BY <2>3 DEF ReadManifest
    <3>2. DOMAIN supported' \subseteq UNION {ModesOf(folder'[e]) : e \in DOMAIN folder'}
      BY <3>1, <2>3 DEF ReadManifest
    <3> QED BY <2>3, <3>2 DEF ReadManifest
  <2>4. ASSUME NEW d \in files, ManifestFails(d) PROVE ReaderTypeOK'
    BY <2>4 DEF ManifestFails, Throw
  <2>5. CASE getMachineStates
    BY <2>5 DEF getMachineStates
  <2>6. CASE MachineManifestFails
    BY <2>6 DEF MachineManifestFails, Throw
  <2>7. CASE filterStates
    <3>1. DOMAIN supported' \subseteq DOMAIN supported
      BY <2>7 DEF filterStates
    <3> QED BY <2>7, <3>1 DEF filterStates
  <2>8. ASSUME NEW mode \in DOMAIN supported, NEW d \in DOMAIN folder,
               NEW p \in folder[d].processes, Start(mode, d, p)
        PROVE  ReaderTypeOK'
    BY <2>8 DEF Start
  <2>9. CASE UNCHANGED vars
    BY <2>9
  <2> QED BY <2>1, <2>2, <2>3, <2>4, <2>5, <2>6, <2>7, <2>8, <2>9 DEF Next
<1> QED BY <1>1, <1>2, PTL DEF Spec

\* The Execution Manager serves exactly the services the manifests declare,
\* whatever the manifests are and in whatever order they are read.
THEOREM ServesTheManifests == Spec => []ServesWhatIsDeclared
<1>1. Init => MapInv /\ ServesWhatIsDeclared
  BY DEF Init, MapInv, ServesWhatIsDeclared
<1>2. ReaderTypeOK /\ MapInv /\ ServesWhatIsDeclared /\ [Next]_vars
        => (MapInv /\ ServesWhatIsDeclared)'
  <2> SUFFICES ASSUME ReaderTypeOK, MapInv, ServesWhatIsDeclared, [Next]_vars
               PROVE  MapInv' /\ ServesWhatIsDeclared'
    OBVIOUS
  <2>1. CASE getListOfApplications
    BY <2>1 DEF getListOfApplications, MapInv, ServesWhatIsDeclared, disk, ReadServices
  <2>2. CASE OpendirFails
    BY <2>2 DEF OpendirFails, Throw, MapInv, ServesWhatIsDeclared
  <2>3. ASSUME NEW d \in files, ReadManifest(d)
        PROVE  MapInv' /\ ServesWhatIsDeclared'
    <3>1. /\ phase = "applications" /\ phase' = "applications" /\ folder[d].ok
          /\ files' = files \ {d} /\ folder' = folder
          /\ d \in DOMAIN folder
      BY <2>3 DEF ReadManifest, disk, ReaderTypeOK
    <3>2. supported' = [m \in DOMAIN supported \cup ModesOf(folder[d]) |->
                           At(supported, m) \cup ServicesOf(folder[d], m)]
      BY <2>3 DEF ReadManifest
    <3>3. DOMAIN folder' \ files' = (DOMAIN folder \ files) \cup {d}
      BY <3>1, <2>3
    <3>4. \A e \in DOMAIN folder' \ files' : folder'[e].ok
      BY <3>1, <3>3 DEF MapInv
    <3>5. \A mode : mode \in DOMAIN supported' <=>
             \E e \in DOMAIN folder' \ files' : mode \in ModesOf(folder'[e])
      BY <3>1, <3>2, <3>3 DEF MapInv
    <3>6. \A mode : At(supported, mode) = ReadServices(mode)
      <4> TAKE mode
      <4>1. CASE mode \in DOMAIN supported
        BY <4>1, <3>1 DEF MapInv, At
      <4>2. CASE mode \notin DOMAIN supported
        <5>1. \A e \in DOMAIN folder \ files : mode \notin ModesOf(folder[e])
          BY <4>2, <3>1 DEF MapInv
        <5>2. \A e \in DOMAIN folder \ files : ServicesOf(folder[e], mode) = {}
          BY <5>1, NamedHasService
        <5>3. ReadServices(mode) = {}
          BY <5>2 DEF ReadServices
        <5> QED BY <5>3, <4>2 DEF At
      <4> QED BY <4>1, <4>2
    <3>7. \A mode : ReadServices(mode)' = ReadServices(mode) \cup ServicesOf(folder[d], mode)
      BY <3>1, <3>3 DEF ReadServices
    <3>8. \A mode \in DOMAIN supported' : supported'[mode] = ReadServices(mode)'
      BY <3>2, <3>6, <3>7
    <3>9. MapInv'
      BY <3>1, <3>4, <3>5, <3>8 DEF MapInv
    <3> QED BY <3>1, <3>9 DEF ServesWhatIsDeclared
  <2>4. ASSUME NEW d \in files, ManifestFails(d)
        PROVE  MapInv' /\ ServesWhatIsDeclared'
    BY <2>4 DEF ManifestFails, Throw, MapInv, ServesWhatIsDeclared
  <2>5. CASE getMachineStates
    <3>1. /\ phase = "applications" /\ phase' = "filter" /\ files = {} /\ files' = {}
          /\ folder' = folder /\ machine' = machine /\ machine.ok /\ supported' = supported
      BY <2>5 DEF getMachineStates, disk
    <3>2. \A mode : mode \in states' <=>
             \E g \in DOMAIN machine.groups :
                FirstGroup(g) /\ mode \in machine.groups[g].modes
      BY <2>5 DEF getMachineStates
    <3>3. \A mode : ReadServices(mode)' = ReadServices(mode)
      BY <3>1 DEF ReadServices
    <3>4. \A g : FirstGroup(g)' <=> FirstGroup(g)
      BY <3>1 DEF FirstGroup
    <3>5. MapInv'
      BY <3>1, <3>2, <3>3, <3>4 DEF MapInv
    <3> QED BY <3>1, <3>5 DEF ServesWhatIsDeclared
  <2>6. CASE MachineManifestFails
    BY <2>6 DEF MachineManifestFails, Throw, MapInv, ServesWhatIsDeclared
  <2>7. CASE filterStates
    <3>1. /\ phase = "filter" /\ phase' = "serving" /\ folder' = folder /\ machine' = machine
          /\ supported' = [m \in DOMAIN supported \cap states |-> supported[m]]
      BY <2>7 DEF filterStates, disk
    <3>2. /\ files = {} /\ machine.ok
          /\ \A d \in DOMAIN folder : folder[d].ok
          /\ \A mode : mode \in states <=>
                \E g \in DOMAIN machine.groups :
                   FirstGroup(g) /\ mode \in machine.groups[g].modes
      BY <3>1 DEF MapInv
    <3>3. \A mode : ReadServices(mode) = DeclaredServices(mode)
      BY <3>2 DEF ReadServices, DeclaredServices
    <3>4. \A mode : DeclaredServices(mode)' = DeclaredServices(mode)
      BY <3>1 DEF DeclaredServices
    <3>5. \A g : FirstGroup(g)' <=> FirstGroup(g)
      BY <3>1 DEF FirstGroup
    <3>6. \A mode \in DOMAIN supported' :
             supported'[mode] = DeclaredServices(mode) /\ mode \in states
      BY <3>1, <3>3 DEF MapInv
    <3>7. \A mode : DeclaredServices(mode) # {} => mode \in DOMAIN supported
      <4> SUFFICES ASSUME NEW mode, DeclaredServices(mode) # {}
                   PROVE  mode \in DOMAIN supported
        OBVIOUS
      <4>1. PICK d \in DOMAIN folder : ServicesOf(folder[d], mode) # {}
        BY DEF DeclaredServices
      <4>2. mode \in ModesOf(folder[d])
        BY <4>1, NamedHasService
      <4> QED BY <4>2, <3>1, <3>2 DEF MapInv
    <3>8. ServesWhatIsDeclared'
      BY <3>1, <3>2, <3>4, <3>5, <3>6, <3>7 DEF ServesWhatIsDeclared
    <3> QED BY <3>1, <3>8 DEF MapInv
  <2>8. ASSUME NEW mode \in DOMAIN supported, NEW d \in DOMAIN folder,
               NEW p \in folder[d].processes, Start(mode, d, p)
        PROVE  MapInv' /\ ServesWhatIsDeclared'
    BY <2>8 DEF Start, disk, MapInv, ServesWhatIsDeclared, DeclaredServices, FirstGroup
  <2>9. CASE UNCHANGED vars
    BY <2>9 DEF vars, MapInv, ServesWhatIsDeclared, DeclaredServices, FirstGroup, ReadServices
  <2> QED BY <2>1, <2>2, <2>3, <2>4, <2>5, <2>6, <2>7, <2>8, <2>9 DEF Next
<1> QED BY <1>1, <1>2, ReaderTypeCorrect, PTL DEF Spec

\* Every process reports under the name of the service that was started, for
\* every name a file can have.
THEOREM ReportsUnderItsName == Spec => []ReportsAsItsService
<1>1. Init => ReportsAsItsService
  BY DEF Init, ReportsAsItsService
<1>2. ReaderTypeOK /\ ReportsAsItsService /\ [Next]_vars => ReportsAsItsService'
  <2> SUFFICES ASSUME ReaderTypeOK, ReportsAsItsService, [Next]_vars
               PROVE  ReportsAsItsService'
    OBVIOUS
  <2>1. ASSUME NEW mode \in DOMAIN supported, NEW d \in DOMAIN folder,
               NEW p \in folder[d].processes, Start(mode, d, p)
        PROVE  ReportsAsItsService'
    <3>1. /\ IsFileName(d) /\ IsFileName(p.name) /\ BinPath \in Seq(Chars)
          /\ Len(BinaryPath(d, p.name)) + 1 < Word
          /\ ~Has(BinaryPath(d, p.name), Blank)
      BY NamesAssumption DEF ReaderTypeOK
    <3>2. ReportedName(BinaryPath(d, p.name)) = UnitName(d, p.name)
      BY <3>1, ReportsUnitName, Zenon
    <3>3. \A r \in started' :
             \/ r \in started
             \/ /\ r.service = UnitName(d, p.name)
                /\ r.reported = ReportedName(BinaryPath(d, p.name))
      BY <2>1 DEF Start
    <3> QED BY <3>2, <3>3 DEF ReportsAsItsService
  <2>2. (\A mode \in DOMAIN supported, d \in DOMAIN folder :
            \A p \in folder[d].processes : ~Start(mode, d, p)) => started' = started
    BY DEF Next, vars, getListOfApplications, OpendirFails, ReadManifest, ManifestFails,
           getMachineStates, MachineManifestFails, filterStates, Throw
  <2> QED BY <2>1, <2>2 DEF ReportsAsItsService
<1> QED BY <1>1, <1>2, ReaderTypeCorrect, PTL DEF Spec

\* The start-up poll asks for the process that was started.
THEOREM PollsTheProcess == Spec => []PollsItsProcess
<1>1. Init => PollsItsProcess
  BY DEF Init, PollsItsProcess
<1>2. ReaderTypeOK /\ PollsItsProcess /\ [Next]_vars => PollsItsProcess'
  <2> SUFFICES ASSUME ReaderTypeOK, PollsItsProcess, [Next]_vars
               PROVE  PollsItsProcess'
    OBVIOUS
  <2>1. ASSUME NEW mode \in DOMAIN supported, NEW d \in DOMAIN folder,
               NEW p \in folder[d].processes, Start(mode, d, p)
        PROVE  PollsItsProcess'
    <3>1. d \in Seq(Chars) /\ p.name \in Seq(Chars)
      BY NamesAssumption DEF ReaderTypeOK, IsFileName
    <3>2. (\A i \in DOMAIN d : d[i] # Underscore) => PidofName(UnitName(d, p.name)) = p.name
      BY <3>1, PidofProcess, Zenon
    <3>3. \A r \in started' :
             \/ r \in started
             \/ /\ r.dir = d /\ r.proc = p.name
                /\ r.pidof = PidofName(UnitName(d, p.name))
      BY <2>1 DEF Start
    <3> QED BY <3>2, <3>3 DEF PollsItsProcess
  <2>2. (\A mode \in DOMAIN supported, d \in DOMAIN folder :
            \A p \in folder[d].processes : ~Start(mode, d, p)) => started' = started
    BY DEF Next, vars, getListOfApplications, OpendirFails, ReadManifest, ManifestFails,
           getMachineStates, MachineManifestFails, filterStates, Throw
  <2> QED BY <2>1, <2>2 DEF PollsItsProcess
<1> QED BY <1>1, <1>2, ReaderTypeCorrect, PTL DEF Spec
=============================================================================

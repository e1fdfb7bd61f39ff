--------------------------- MODULE OutputStreamProofs ---------------------------
(***************************************************************************)
(* Proofs about the output ring and its readers, for rings of any size, any *)
(* number of clients and any number of outputs and turns.                   *)
(***************************************************************************)
EXTENDS OutputStream, TLAPS

-----------------------------------------------------------------------------
(* The ring.                                                               *)

\* The ring holds the last outputs: all that there are, which may be more than
\* its bound as long as all are restored ones, or as many as its bound.
IsRing(ring, seq) ==
    /\ Len(ring) = seq \/ (Len(ring) = MaxLines /\ seq >= MaxLines)
    /\ \A i \in 1 .. Len(ring) : ring[i] = seq - Len(ring) + i

\* The last output a reader at cursor cur can no longer get, or has had.
Before(seq, cur) == IF cur < seq - MaxLines THEN seq - MaxLines ELSE cur

Entries(b, k) == [i \in 1 .. k |-> b + i]

\* SubSeq as a function.
LEMMA SubSeqFunction ==
    ASSUME NEW s \in Seq(Nat), NEW m \in Nat, NEW n \in Nat
    PROVE  SubSeq(s, m, n) = [i \in 1 .. (1 + n - m) |-> s[i + m - 1]]
OBVIOUS

\* A ring stays a ring when the next output is appended and the rest cut off.
LEMMA RingAppend ==
    ASSUME NEW ring \in Seq(Nat), NEW seq \in Nat, IsRing(ring, seq)
    PROVE  /\ Latest(Append(ring, seq + 1), MaxLines) \in Seq(Nat)
           /\ IsRing(Latest(Append(ring, seq + 1), MaxLines), seq + 1)
           /\ Len(Latest(Append(ring, seq + 1), MaxLines)) =
                IF Len(ring) < MaxLines THEN Len(ring) + 1 ELSE MaxLines
<1> USE BoundAssumption
<1> DEFINE long == Append(ring, seq + 1)
           cutoff == Len(ring) + 1 - MaxLines
<1>1. /\ long \in Seq(Nat)
      /\ Len(long) = Len(ring) + 1
      /\ \A i \in 1 .. Len(ring) : long[i] = ring[i]
      /\ long[Len(ring) + 1] = seq + 1
  OBVIOUS
<1>2. Len(ring) \in Nat /\ Len(ring) <= seq
  BY DEF IsRing
<1>3. \A i \in 1 .. Len(long) : long[i] = seq - Len(ring) + i
  BY <1>1, <1>2 DEF IsRing
<1>4. CASE Len(ring) >= MaxLines
  <2> DEFINE cut == SubSeq(long, cutoff + 1, Len(long))
  <2>1. Latest(long, MaxLines) = cut
    <3>1. Len(long) > MaxLines /\ Len(long) - MaxLines + 1 = cutoff + 1
      BY <1>1, <1>2, <1>4
    <3> HIDE DEF long, cutoff
    <3> QED
      BY <3>1 DEF Latest
  <2>2. /\ cut \in Seq(Nat) /\ Len(cut) = MaxLines
        /\ \A i \in 1 .. MaxLines : cut[i] = long[i + cutoff]
    <3>1. cutoff \in Nat /\ Len(long) = MaxLines + cutoff
      BY <1>1, <1>2, <1>4
    <3> HIDE DEF long, cutoff
    <3>2. cut = [i \in 1 .. MaxLines |-> long[i + cutoff]]
      <4>1. cut = [i \in 1 .. (1 + Len(long) - (cutoff + 1)) |-> long[i + (cutoff + 1) - 1]]
        BY <1>1, <3>1, SubSeqFunction
      <4>2. 1 + Len(long) - (cutoff + 1) = MaxLines
        BY <3>1
      <4>3. \A i \in 1 .. MaxLines : i + (cutoff + 1) - 1 = i + cutoff
        BY <3>1
      <4> HIDE DEF cut
      <4> QED
        BY <4>1, <4>2, <4>3
    <3>3. \A i \in 1 .. MaxLines : long[i + cutoff] \in Nat
      <4> SUFFICES ASSUME NEW i \in 1 .. MaxLines PROVE long[i + cutoff] \in Nat
        OBVIOUS
      <4>1. i + cutoff \in 1 .. Len(long)
        BY <3>1
      <4> QED
        BY <1>1, <4>1
    <3> HIDE DEF cut
    <3> QED
      BY <3>2, <3>3
  <2>3. \A i \in 1 .. MaxLines : long[i + cutoff] = seq + 1 - MaxLines + i
    <3> SUFFICES ASSUME NEW i \in 1 .. MaxLines
                 PROVE  long[i + cutoff] = seq + 1 - MaxLines + i
      OBVIOUS
    <3>1. i + cutoff \in 1 .. Len(long)
      BY <1>1, <1>2, <1>4
    <3>2. long[i + cutoff] = seq - Len(ring) + (i + cutoff)
      <4> HIDE DEF long, cutoff
      <4> QED
        BY <1>3, <3>1
    <3>3. seq - Len(ring) + (i + cutoff) = seq + 1 - MaxLines + i
      BY <1>2
    <3> QED
      BY <3>2, <3>3
  <2>4. IsRing(cut, seq + 1)
    <3>1. \A i \in 1 .. MaxLines : cut[i] = seq + 1 - MaxLines + i
      BY <2>2, <2>3
    <3>2. Len(cut) = MaxLines /\ seq + 1 >= MaxLines
      BY <1>2, <1>4, <2>2
    <3> HIDE DEF cut
    <3> QED
      BY <3>1, <3>2 DEF IsRing
  <2> HIDE DEF cut
  <2> QED
    BY <1>4, <2>1, <2>2, <2>4
<1>5. CASE Len(ring) < MaxLines
  <2>1. Latest(long, MaxLines) = long
    BY <1>1, <1>2, <1>5 DEF Latest
  <2>2. Len(ring) = seq
    BY <1>2, <1>5 DEF IsRing
  <2> QED
    BY <2>1, <2>2, <1>1, <1>3, <1>5 DEF IsRing
<1> QED
  BY <1>2, <1>4, <1>5

\* What the next output pushes out of a ring are the outputs up to its bound.
LEMMA TrimmedRing ==
    ASSUME lines \in Seq(Nat), outputSeq \in Nat, IsRing(lines, outputSeq)
    PROVE  \A n \in Nat : n > outputSeq - Len(lines) /\ n <= outputSeq + 1 - MaxLines
                => n \in Trimmed
<1> SUFFICES ASSUME NEW n \in Nat, n > outputSeq - Len(lines),
                    n <= outputSeq + 1 - MaxLines
             PROVE  n \in Trimmed
  OBVIOUS
<1> USE BoundAssumption
<1> DEFINE i == n - (outputSeq - Len(lines))
<1>1. i \in 1 .. Len(lines) + 1 - MaxLines /\ i \in 1 .. Len(lines)
  OBVIOUS
<1>2. lines[i] = outputSeq - Len(lines) + i
  <2> HIDE DEF i
  <2> QED
    BY <1>1 DEF IsRing
<1>3. outputSeq - Len(lines) + i = n
  OBVIOUS
<1> QED
  <2> HIDE DEF i
  <2> QED
    BY <1>1, <1>2, <1>3 DEF Trimmed

\* A sequence followed by the beginning of another one.
LEMMA PrefixSeq ==
    ASSUME NEW s \in Seq(Nat), NEW t \in Seq(Nat), NEW k \in 0 .. Len(t)
    PROVE  s \o SubSeq(t, 1, k) \in Seq(Nat)
<1>1. SubSeq(t, 1, k) \in Seq(Nat)
  <2>1. \A i \in 1 .. k : t[i] \in Nat
    OBVIOUS
  <2>2. SubSeq(t, 1, k) = [i \in 1 .. (1 + k - 1) |-> t[i + 1 - 1]]
    BY SubSeqFunction
  <2> QED
    BY <2>1, <2>2
<1> QED
  BY <1>1

\* A snapshot gives a reader all the entries that are left for it, in order.
LEMMA SinceEntries ==
    ASSUME NEW ring \in Seq(Nat), NEW seq \in Nat, NEW cur \in Nat,
           IsRing(ring, seq), cur <= seq, Len(ring) <= MaxLines \/ cur = seq
    PROVE  /\ Before(seq, cur) \in Nat
           /\ cur <= Before(seq, cur) /\ Before(seq, cur) <= seq
           /\ Since(ring, seq, cur) = Entries(Before(seq, cur), seq - Before(seq, cur))
<1> USE BoundAssumption
<1> DEFINE base == seq - Len(ring)
           from == IF cur < base THEN base ELSE IF cur > seq THEN seq ELSE cur
<1>1. /\ Len(ring) \in Nat /\ Len(ring) <= seq
      /\ from = Before(seq, cur)
      /\ from \in Nat /\ cur <= from /\ from <= seq /\ base <= from /\ base \in Nat
  <2>1. Len(ring) \in Nat /\ Len(ring) <= seq /\ base \in Nat /\ base <= seq
    BY DEF IsRing
  <2>2. CASE cur < base
    <3>1. Len(ring) = MaxLines
      BY <2>1, <2>2 DEF IsRing
    <3> QED
      BY <2>1, <2>2, <3>1 DEF Before
  <2>3. CASE ~(cur < base)
    <3>1. ~(cur < seq - MaxLines)
      BY <2>1, <2>3 DEF IsRing
    <3> QED
      BY <2>1, <2>3, <3>1 DEF Before
  <2> QED
    BY <2>2, <2>3
<1>2. Since(ring, seq, cur) = SubSeq(ring, from - base + 1, Len(ring))
  BY DEF Since
<1>3. SubSeq(ring, from - base + 1, Len(ring))
        = [i \in 1 .. seq - from |-> ring[from - base + i]]
  <2> HIDE DEF base, from
  <2> DEFINE m == from - base + 1
             n == Len(ring)
  <2>1. SubSeq(ring, m, n) = [i \in 1 .. (1 + n - m) |-> ring[i + m - 1]]
    <3>1. m \in Nat /\ n \in Nat
      BY <1>1
    <3> HIDE DEF m, n
    <3> QED
      BY <3>1, SubSeqFunction
  <2>2. 1 + n - m = seq - from
    BY <1>1 DEF base
  <2>3. \A i \in 1 .. seq - from : i + m - 1 = from - base + i
    BY <1>1
  <2>4. 1 .. (1 + n - m) = 1 .. seq - from
    BY <2>2
  <2>5. [i \in 1 .. (1 + n - m) |-> ring[i + m - 1]]
            = [i \in 1 .. seq - from |-> ring[i + m - 1]]
    BY <2>4
  <2>6. [i \in 1 .. seq - from |-> ring[i + m - 1]]
            = [i \in 1 .. seq - from |-> ring[from - base + i]]
    <3> HIDE DEF m, n
    <3> QED
      BY <2>3
  <2> QED
    BY <2>1, <2>5, <2>6
<1>4. \A i \in 1 .. seq - from : ring[from - base + i] = from + i
  <2> SUFFICES ASSUME NEW i \in 1 .. seq - from PROVE ring[from - base + i] = from + i
    OBVIOUS
  <2>1. from - base + i \in 1 .. Len(ring)
    BY <1>1
  <2>2. ring[from - base + i] = seq - Len(ring) + (from - base + i)
    <3> HIDE DEF base, from
    <3> QED
      BY <2>1 DEF IsRing
  <2>3. seq - Len(ring) + (from - base + i) = from + i
    BY <1>1
  <2> QED
    BY <2>2, <2>3
<1> QED
  <2> HIDE DEF base, from
  <2> QED
    BY <1>1, <1>2, <1>3, <1>4 DEF Entries

\* What Entries are, as a sequence and cut short.
LEMMA EntriesSeq ==
    ASSUME NEW b \in Nat, NEW k \in Nat
    PROVE  /\ Entries(b, k) \in Seq(Nat)
           /\ Len(Entries(b, k)) = k
           /\ \A i \in 1 .. k : Entries(b, k)[i] = b + i
           /\ \A j \in 0 .. k : SubSeq(Entries(b, k), 1, j) = Entries(b, j)
<1>1. Entries(b, k) \in Seq(Nat) /\ Len(Entries(b, k)) = k
      /\ \A i \in 1 .. k : Entries(b, k)[i] = b + i
  BY DEF Entries
<1>2. ASSUME NEW j \in 0 .. k PROVE SubSeq(Entries(b, k), 1, j) = Entries(b, j)
  <2>1. SubSeq(Entries(b, k), 1, j) = [i \in 1 .. j |-> Entries(b, k)[i]]
    <3> DEFINE e == Entries(b, k)
    <3> HIDE DEF e
    <3>1. e \in Seq(Nat)
      BY <1>1 DEF e
    <3>2. SubSeq(e, 1, j) = [i \in 1 .. (1 + j - 1) |-> e[i + 1 - 1]]
      BY <3>1
    <3>3. 1 + j - 1 = j /\ \A i \in 1 .. j : i + 1 - 1 = i
      OBVIOUS
    <3> QED
      BY <3>2, <3>3 DEF e
  <2>2. \A i \in 1 .. j : Entries(b, k)[i] = b + i
    BY <1>1
  <2> QED
    BY <2>1, <2>2 DEF Entries
<1> QED
  BY <1>1, <1>2

\* Entries put behind a sequence.
LEMMA ConcatEntries ==
    ASSUME NEW g \in Seq(Nat), NEW b \in Nat, NEW k \in Nat
    PROVE  /\ g \o Entries(b, k) \in Seq(Nat)
           /\ Len(g \o Entries(b, k)) = Len(g) + k
           /\ \A i \in 1 .. Len(g) : (g \o Entries(b, k))[i] = g[i]
           /\ \A i \in Len(g) + 1 .. Len(g) + k :
                (g \o Entries(b, k))[i] = b + (i - Len(g))
<1> DEFINE e == Entries(b, k)
<1>1. e \in Seq(Nat) /\ Len(e) = k /\ \A i \in 1 .. k : e[i] = b + i
  BY EntriesSeq
<1> HIDE DEF e
<1>2. /\ g \o e \in Seq(Nat) /\ Len(g \o e) = Len(g) + Len(e)
      /\ \A i \in 1 .. Len(g) + Len(e) :
            (g \o e)[i] = IF i <= Len(g) THEN g[i] ELSE e[i - Len(g)]
  BY <1>1
<1>3. Len(g) \in Nat
  OBVIOUS
<1>4. \A i \in 1 .. Len(g) : (g \o e)[i] = g[i]
  BY <1>1, <1>2, <1>3
<1>5. \A i \in Len(g) + 1 .. Len(g) + k : (g \o e)[i] = b + (i - Len(g))
  <2> SUFFICES ASSUME NEW i \in Len(g) + 1 .. Len(g) + k
               PROVE  (g \o e)[i] = b + (i - Len(g))
    OBVIOUS
  <2>1. i - Len(g) \in 1 .. k /\ i \in 1 .. Len(g) + k /\ ~(i <= Len(g))
    BY <1>3
  <2>2. (g \o e)[i] = e[i - Len(g)]
    BY <2>1, <1>1, <1>2
  <2> QED
    BY <2>1, <2>2, <1>1
<1> QED
  BY <1>1, <1>2, <1>4, <1>5 DEF e

\* A sequence is increasing; is above s and up to cur; has, with M, all of s + 1 .. cur.
Increasing(g) == \A i, j \in 1 .. Len(g) : i < j => g[i] < g[j]
Within(g, s, cur) == \A i \in 1 .. Len(g) : g[i] > s /\ g[i] <= cur
Covers(g, M, s, cur) ==
    \A n \in s + 1 .. cur : n \in M \/ \E i \in 1 .. Len(g) : g[i] = n

\* The sequence h is g with the k entries after b behind it.
Behind(h, g, b, k) ==
    /\ Len(h) = Len(g) + k
    /\ \A i \in 1 .. Len(g) : h[i] = g[i]
    /\ \A i \in Len(g) + 1 .. Len(g) + k : h[i] = b + (i - Len(g))

LEMMA ConcatBehind ==
    ASSUME NEW g \in Seq(Nat), NEW b \in Nat, NEW k \in Nat
    PROVE  Behind(g \o Entries(b, k), g, b, k)
BY ConcatEntries DEF Behind

\* What a reader was given up to cur, with the entries from b to seq behind it, is
\* what it should have up to seq, if it has missed what lies between cur and b.
LEMMA GivenGrows ==
    ASSUME NEW g \in Seq(Nat), NEW s \in Nat, NEW cur \in Nat, NEW b \in Nat,
           NEW seq \in Nat, NEW M, s <= cur, cur <= b, b <= seq,
           Increasing(g), Within(g, s, cur), Covers(g, M, s, cur),
           cur + 1 .. b \subseteq M,
           NEW h, Behind(h, g, b, seq - b)
    PROVE  Increasing(h) /\ Within(h, s, seq) /\ Covers(h, M, s, seq)
<1> DEFINE m == Len(g)
           k == seq - b
<1>1. m \in Nat /\ k \in Nat /\ seq = b + k
  OBVIOUS
<1>2. /\ Len(h) = m + k
      /\ \A i \in 1 .. m : h[i] = g[i]
      /\ \A i \in m + 1 .. m + k : h[i] = b + (i - m)
  BY DEF Behind
<1>3. \A i \in 1 .. m : g[i] \in Nat
  OBVIOUS
<1> HIDE DEF m, k
<1>4. \A i \in 1 .. m : h[i] \in Nat /\ h[i] > s /\ h[i] <= cur
  BY <1>2, <1>3 DEF m, Within
<1>5. \A i \in m + 1 .. m + k : h[i] \in Nat /\ h[i] > b /\ h[i] <= seq
  BY <1>1, <1>2
<1>6. \A i \in 1 .. m + k : i \in 1 .. m \/ i \in m + 1 .. m + k
  BY <1>1
<1>7. Increasing(h)
  <2> SUFFICES ASSUME NEW i \in 1 .. m + k, NEW j \in 1 .. m + k, i < j
               PROVE  h[i] < h[j]
    BY <1>2 DEF Increasing
  <2>1. CASE j \in 1 .. m
    <3>1. i \in 1 .. m
      BY <2>1, <1>1
    <3>2. g[i] < g[j]
      BY <2>1, <3>1 DEF m, Increasing
    <3> QED
      BY <2>1, <3>1, <3>2, <1>2
  <2>2. CASE i \in 1 .. m /\ j \in m + 1 .. m + k
    <3>1. h[i] \in Nat /\ h[i] <= cur
      BY <2>2, <1>4
    <3>2. h[j] \in Nat /\ h[j] > b
      BY <2>2, <1>5
    <3> QED
      BY <3>1, <3>2
  <2>3. CASE i \in m + 1 .. m + k
    <3>1. j \in m + 1 .. m + k
      BY <2>3, <1>1
    <3> QED
      BY <2>3, <3>1, <1>1, <1>2
  <2> QED
    BY <2>1, <2>2, <2>3, <1>6
<1>8. Within(h, s, seq)
  <2> SUFFICES ASSUME NEW i \in 1 .. m + k PROVE h[i] > s /\ h[i] <= seq
    BY <1>2 DEF Within
  <2>1. CASE i \in 1 .. m
    <3>1. h[i] \in Nat /\ h[i] > s /\ h[i] <= cur
      BY <2>1, <1>4
    <3> QED
      BY <3>1
  <2>2. CASE i \in m + 1 .. m + k
    <3>1. h[i] \in Nat /\ h[i] > b /\ h[i] <= seq
      BY <2>2, <1>5
    <3> QED
      BY <3>1
  <2> QED
    BY <2>1, <2>2, <1>6
<1>9. Covers(h, M, s, seq)
  <2> SUFFICES ASSUME NEW n \in s + 1 .. seq, n \notin M
               PROVE  \E i \in 1 .. m + k : h[i] = n
    BY <1>2 DEF Covers
  <2>1. CASE n <= cur
    <3>1. PICK i \in 1 .. m : g[i] = n
      BY <2>1 DEF m, Covers
    <3>2. h[i] = n /\ i \in 1 .. m + k
      BY <3>1, <1>1, <1>2
    <3> QED
      BY <3>2
  <2>2. CASE n > cur /\ n <= b
    <3>1. n \in cur + 1 .. b
      BY <2>2
    <3> QED
      BY <3>1
  <2>3. CASE n > b
    <3>1. m + (n - b) \in m + 1 .. m + k /\ m + (n - b) \in 1 .. m + k
      BY <2>3, <1>1
    <3>2. h[m + (n - b)] = b + ((m + (n - b)) - m)
      BY <3>1, <1>2
    <3>3. b + ((m + (n - b)) - m) = n
      BY <1>1
    <3> QED
      BY <3>1, <3>2, <3>3
  <2>4. n <= cur \/ (n > cur /\ n <= b) \/ n > b
    OBVIOUS
  <2> QED
    BY <2>1, <2>2, <2>3, <2>4
<1> QED
  BY <1>7, <1>8, <1>9

-----------------------------------------------------------------------------
(* Types.                                                                  *)

\* A snapshot is a sequence of what the ring holds.
LEMMA SinceSeq ==
    ASSUME NEW ring \in Seq(Nat), NEW seq \in Nat, NEW cur \in Nat
    PROVE  Since(ring, seq, cur) \in Seq(Nat)
<1> DEFINE base == seq - Len(ring)
           from == IF cur < base THEN base ELSE IF cur > seq THEN seq ELSE cur
<1>1. Len(ring) \in Nat /\ base \in Int /\ from \in Int /\ from >= base
  OBVIOUS
<1>2. from - base + 1 \in Nat \ {0}
  BY <1>1
<1>3. SubSeq(ring, from - base + 1, Len(ring)) \in Seq(Nat)
  <2> HIDE DEF base, from
  <2> QED
    BY <1>1, <1>2
<1> QED
  BY <1>3 DEF Since

\* Cutting a sequence makes it a ring, within the bound.
LEMMA LatestSeq ==
    ASSUME NEW ring \in Seq(Nat), NEW n \in Nat \ {0}, NEW e \in Nat
    PROVE  /\ Latest(Append(ring, e), n) \in Seq(Nat)
           /\ Len(Latest(Append(ring, e), n)) <= n
<1> DEFINE long == Append(ring, e)
<1>1. long \in Seq(Nat) /\ Len(long) \in Nat
  OBVIOUS
<1>2. Latest(long, n) \in Seq(Nat) /\ Len(Latest(long, n)) <= n
  <2> HIDE DEF long
  <2>1. CASE Len(long) > n
    BY <1>1, <2>1 DEF Latest
  <2>2. CASE ~(Len(long) > n)
    BY <1>1, <2>2 DEF Latest
  <2> QED
    BY <2>1, <2>2
<1> QED
  BY <1>2

LEMMA AddOutputTypes ==
    ASSUME TypeOK, NEW t \in Nat, AddOutput(t)
    PROVE  /\ lines' \in Seq(Nat) /\ Len(lines)' <= MaxLines /\ outputSeq' \in Nat
           /\ outputCh' \in Nat
           /\ about' \in Seq(Nat)
           /\ missed' \in [Client -> SUBSET Nat]
<1> USE BoundAssumption
<1>1. lines' \in Seq(Nat) /\ Len(lines)' <= MaxLines
  BY LatestSeq DEF AddOutput, TypeOK
<1>2. missed' \in [Client -> SUBSET Nat]
  <2>1. Trimmed \subseteq Nat
    BY DEF TypeOK, Trimmed
  <2> QED
    BY <2>1 DEF AddOutput, TypeOK
<1>3. outputSeq' \in Nat /\ outputCh' \in Nat
  BY DEF AddOutput, TypeOK, Fresh
<1>4. about' \in Seq(Nat)
  BY DEF AddOutput, TypeOK
<1> QED
  BY <1>1, <1>2, <1>3, <1>4

LEMMA PublishTypes ==
    ASSUME TypeOK, NEW t \in Nat, PublishTerminal(t)
    PROVE  /\ terminals' \in Seq(Nat) /\ Len(terminals)' <= MaxTerminals
           /\ terminalSeq' \in Nat /\ terminalCh' \in Nat
           /\ UNCHANGED <<lines, outputSeq, outputCh, about, missed>>
<1> USE BoundAssumption
<1>1. terminals' \in Seq(Nat) /\ Len(terminals)' <= MaxTerminals
  BY LatestSeq DEF PublishTerminal, TypeOK
<1> QED
  BY <1>1 DEF PublishTerminal, TypeOK, Fresh

\* Types at the start.
LEMMA InitTypes == Init => TypeOK
<1> SUFFICES ASSUME Init PROVE TypeOK
  OBVIOUS
<1> USE BoundAssumption
<1>1. PICK k \in 0 .. MaxRestored :
        /\ lines = [i \in 1 .. k |-> i]
        /\ outputSeq = k
        /\ about = [i \in 1 .. k |-> 0]
  BY DEF Init
<1>2. lines \in Seq(Nat) /\ Len(lines) = k /\ about \in Seq(Nat)
  BY <1>1
<1>3. held \in [Actor -> BOOLEAN]
  BY DEF Init
<1>4. codex \in BOOLEAN /\ active \in BOOLEAN /\ cancelling \in BOOLEAN /\ up \in BOOLEAN
  BY DEF Init
<1>5. /\ pc \in [Actor -> PC] /\ mine \in [Actor -> Nat]
      /\ terminals \in Seq(Nat) /\ Len(terminals) <= MaxTerminals
      /\ terminalSeq \in Nat /\ terminalCh \in Nat /\ outputCh \in Nat
      /\ token \in Nat /\ working \in Nat /\ exits \in Nat
      /\ onClose \subseteq Client /\ stopped \subseteq Client
  BY DEF Init, PC
<1>6. /\ cursor \in [Client -> Nat] /\ ch \in [Client -> Nat]
      /\ tcursor \in [Client -> Nat] /\ tch \in [Client -> Nat]
      /\ start \in [Client -> Nat] /\ verdict \in [Client -> Nat]
      /\ got \in [Client -> Seq(Nat)] /\ missed \in [Client -> SUBSET Nat]
  BY DEF Init
<1> QED
  BY <1>1, <1>2, <1>3, <1>4, <1>5, <1>6 DEF TypeOK

LEMMA NextTypes == TypeOK /\ [Next]_vars => TypeOK'
<1> SUFFICES ASSUME TypeOK, [Next]_vars PROVE TypeOK'
  OBVIOUS
<1> USE BoundAssumption
<1>1. ASSUME NEW c \in Client, Subscribe(c) PROVE TypeOK'
  BY <1>1 DEF TypeOK, Subscribe, meta, gate, env, subs, seen, Goto, PC
<1>2. ASSUME NEW c \in Client, SubscribeTerminals(c) PROVE TypeOK'
  BY <1>2 DEF TypeOK, SubscribeTerminals, meta, gate, env, subs, seen, Goto, PC
<1>3. ASSUME NEW c \in Client, Register(c) PROVE TypeOK'
  BY <1>3 DEF TypeOK, Register, meta, gate, env, subs, seen, Goto, PC
<1>4. ASSUME NEW c \in Client, ForwardOutput(c) PROVE TypeOK'
  <2> DEFINE outs == Since(lines, outputSeq, cursor[c])
  <2>1. outs \in Seq(Nat)
    BY <1>4, SinceSeq DEF TypeOK
  <2>2. \A k \in 0 .. Len(outs) : got[c] \o SubSeq(outs, 1, k) \in Seq(Nat)
    <3> HIDE DEF outs
    <3>1. got[c] \in Seq(Nat)
      BY DEF TypeOK
    <3> QED
      BY <2>1, <3>1, PrefixSeq
  <2>3. got[c] \o outs \in Seq(Nat)
    BY <2>1 DEF TypeOK
  <2>4. \E s \in Seq(Nat) : got' = [got EXCEPT ![c] = s]
    <3> HIDE DEF outs
    <3> QED
      BY <1>4, <2>2, <2>3 DEF ForwardOutput, outs
  <2>5. got' \in [Client -> Seq(Nat)]
    BY <2>4 DEF TypeOK
  <2> QED
    BY <1>4, <2>5 DEF TypeOK, ForwardOutput, Advance, meta, gate, env, Goto, PC
<1>5. ASSUME NEW c \in Client, ForwardTerminal(c) PROVE TypeOK'
  <2> DEFINE news == Since(terminals, terminalSeq, tcursor[c])
  <2>1. news \in Seq(Nat)
    BY <1>5, SinceSeq DEF TypeOK
  <2>2. news # <<>> => Head(news) \in Nat
    BY <2>1
  <2>3. verdict' \in [Client -> Nat]
    <3> HIDE DEF news
    <3> QED
      BY <1>5, <2>2 DEF ForwardTerminal, TerminalsSince, TypeOK, news
  <2> QED
    BY <1>5, <2>3 DEF TypeOK, ForwardTerminal, meta, gate, env, Goto, PC
<1>6. ASSUME NEW c \in Client, ForwardStopped(c) PROVE TypeOK'
  BY <1>6 DEF TypeOK, ForwardStopped, meta, gate, env, subs, seen, Goto, PC
<1>7. ASSUME NEW c \in Client, ForwardEnds(c) PROVE TypeOK'
  BY <1>7 DEF TypeOK, ForwardEnds, meta, gate, env, subs, seen, Goto, PC
<1>8. ASSUME NEW a \in Poster, Post(a) PROVE TypeOK'
  BY <1>8 DEF TypeOK, Post, meta, gate, env, subs, seen, Goto, PC, AfterBegin, Actor
<1>9. ASSUME NEW a \in Poster, UserLine(a) PROVE TypeOK'
  <2>1. AddOutput(mine[a]) /\ mine[a] \in Nat
    BY <1>9 DEF UserLine, TypeOK, Actor
  <2>2. UNCHANGED <<terminals, terminalSeq, terminalCh>>
    BY <2>1 DEF AddOutput
  <2> QED
    BY <1>9, <2>1, <2>2, AddOutputTypes DEF TypeOK, UserLine, gate, env, subs, Goto, PC
<1>10. ASSUME NEW a \in Actor, BeginTurn(a) PROVE TypeOK'
  <2>1. active' \in BOOLEAN /\ cancelling' \in BOOLEAN
    BY <1>10 DEF TypeOK, BeginTurn, gate
  <2>2. token' \in Nat /\ mine' \in [Actor -> Nat]
    <3>1. token \in Nat /\ mine \in [Actor -> Nat]
      BY DEF TypeOK
    <3>2. \/ token' = token /\ mine' = mine
          \/ token' = token + 1 /\ mine' = [mine EXCEPT ![a] = token + 1]
      BY <1>10 DEF BeginTurn, gate
    <3> QED
      BY <3>1, <3>2
  <2>3. pc' \in [Actor -> PC]
    BY <1>10 DEF TypeOK, BeginTurn, Goto, PC, AfterBegin
  <2> QED
    BY <1>10, <2>1, <2>2, <2>3 DEF TypeOK, BeginTurn, meta, env, subs, seen
<1>11. ASSUME NEW a \in Actor, SendInput(a) PROVE TypeOK'
  BY <1>11 DEF TypeOK, SendInput, meta, gate, env, subs, seen, Goto, PC, AfterBegin, Actor
<1>12. ASSUME NEW a \in Actor, SendFails(a) PROVE TypeOK'
  BY <1>12 DEF TypeOK, SendFails, meta, gate, env, subs, seen, Goto, PC, AfterBegin, Actor
<1>13. CASE WorkerOutput
  <2>1. AddOutput(working) /\ working \in Nat
    BY <1>13 DEF WorkerOutput, TypeOK
  <2>2. UNCHANGED <<terminals, terminalSeq, terminalCh>>
    BY <2>1 DEF AddOutput
  <2> QED
    BY <1>13, <2>1, <2>2, AddOutputTypes DEF TypeOK, WorkerOutput, gate, env, subs
<1>14. CASE WorkerTerminal
  <2>1. CASE active
    <3>1. PublishTerminal(working) /\ active' = FALSE /\ cancelling' = FALSE /\ token' = token
      BY <1>14, <2>1 DEF WorkerTerminal, FinishTurn
    <3> QED
      BY <1>14, <3>1, PublishTypes DEF TypeOK, WorkerTerminal, subs
  <2>2. CASE ~active
    BY <1>14, <2>2 DEF TypeOK, WorkerTerminal, meta, gate, subs
  <2> QED
    BY <2>1, <2>2
<1>15. CASE BeginTurnCancel
  BY <1>15 DEF TypeOK, BeginTurnCancel, meta, gate, env, subs, seen, Goto, PC
<1>16. CASE FailCancellingTurn
  <2>1. PublishTerminal(token) /\ active' = FALSE /\ cancelling' = FALSE /\ token' = token
    BY <1>16 DEF FailCancellingTurn, FinishTurn
  <2> QED
    BY <1>16, <2>1, PublishTypes DEF TypeOK, FailCancellingTurn, env, subs
<1>17. CASE WorkerExit
  <2>1. held' \in [Actor -> BOOLEAN] /\ up' \in BOOLEAN
    BY <1>17 DEF WorkerExit
  <2>2. working' \in Nat /\ exits' \in Nat
    BY <1>17 DEF TypeOK, WorkerExit
  <2>3. onClose' \subseteq Client /\ stopped' \subseteq Client
    BY <1>17 DEF TypeOK, WorkerExit
  <2> QED
    BY <1>17, <2>1, <2>2, <2>3 DEF TypeOK, WorkerExit, meta, gate, subs, seen
<1>18. CASE WorkerReady
  BY <1>18 DEF TypeOK, WorkerReady, meta, gate, env, subs, seen, Goto, PC
<1>19. CASE UNCHANGED vars
  BY <1>19 DEF TypeOK, vars, meta, gate, env, subs, seen
<1> QED
  BY <1>1, <1>2, <1>3, <1>4, <1>5, <1>6, <1>7, <1>8, <1>9, <1>10, <1>11, <1>12, <1>13, <1>14, <1>15, <1>16, <1>17, <1>18, <1>19 DEF Next, Forward

\* The rings stay within their bounds, and everything has its type.  Only the
\* restored output may be more, up to its own bound, before another one comes.
THEOREM StreamTypeOK == Spec => []TypeOK
  BY InitTypes, NextTypes, PTL DEF Spec

-----------------------------------------------------------------------------
(* What a step can do to the output and its readers.                       *)

\* Nothing is added or read, and nobody joins or leaves.
Pause ==
    /\ UNCHANGED <<lines, outputSeq, outputCh, cursor, ch, start, got, missed>>
    /\ \A c \in Client : pc'[c] \in Reading <=> pc[c] \in Reading
    /\ \A c \in Client : pc'[c] = "idle" => pc[c] = "idle"

\* A client stops reading.
Leaves(c) ==
    /\ UNCHANGED <<lines, outputSeq, outputCh, cursor, ch, start, got, missed>>
    /\ pc[c] \in Reading
    /\ \E l \in PC \ (Reading \union {"idle"}) : pc' = [pc EXCEPT ![c] = l]

\* An output is added.
Adds ==
    /\ \E t \in Nat : AddOutput(t)
    /\ UNCHANGED <<cursor, ch, start, got>>
    /\ \A c \in Client : pc'[c] = pc[c]

LEMMA OutputSteps ==
    ASSUME TypeOK, [Next]_vars
    PROVE  \/ Pause
           \/ Adds
           \/ \E c \in Client : Leaves(c) \/ Subscribe(c) \/ ForwardOutput(c)
<1> USE ActorAssumption
<1> DEFINE Goal == \/ Pause
                   \/ Adds
                   \/ \E c \in Client : Leaves(c) \/ Subscribe(c) \/ ForwardOutput(c)
<1>1. ASSUME NEW c \in Client, Subscribe(c) PROVE Goal
  BY <1>1
<1>2. ASSUME NEW c \in Client, SubscribeTerminals(c) PROVE Goal
  <2>0. "subscribed" \in Reading /\ "begin" \in Reading
    BY DEF Reading
  <2>1. pc[c] = "subscribed" /\ pc' = [pc EXCEPT ![c] = "begin"]
    BY <1>2 DEF SubscribeTerminals, Goto
  <2>2. UNCHANGED <<lines, outputSeq, outputCh, cursor, ch, start, got, missed>>
    BY <1>2 DEF SubscribeTerminals, meta, subs, seen
  <2>3. \A d \in Client : /\ pc'[d] \in Reading <=> pc[d] \in Reading
                          /\ pc'[d] = "idle" => pc[d] = "idle"
    <3> SUFFICES ASSUME NEW d \in Client
                 PROVE  /\ pc'[d] \in Reading <=> pc[d] \in Reading
                        /\ pc'[d] = "idle" => pc[d] = "idle"
      OBVIOUS
    <3>1. CASE d = c
      BY <2>0, <2>1, <3>1 DEF TypeOK, Actor
    <3>2. CASE d # c
      BY <2>1, <3>2 DEF TypeOK, Actor
    <3> QED
      BY <3>1, <3>2
  <2> QED
    BY <2>2, <2>3 DEF Pause
<1>3. ASSUME NEW c \in Client, Register(c) PROVE Goal
  <2>0. "register" \in Reading /\ "select" \in Reading
    BY DEF Reading
  <2>1. pc[c] = "register" /\ pc' = [pc EXCEPT ![c] = "select"]
    BY <1>3 DEF Register, Goto
  <2>2. UNCHANGED <<lines, outputSeq, outputCh, cursor, ch, start, got, missed>>
    BY <1>3 DEF Register, meta, subs, seen
  <2>3. \A d \in Client : /\ pc'[d] \in Reading <=> pc[d] \in Reading
                          /\ pc'[d] = "idle" => pc[d] = "idle"
    <3> SUFFICES ASSUME NEW d \in Client
                 PROVE  /\ pc'[d] \in Reading <=> pc[d] \in Reading
                        /\ pc'[d] = "idle" => pc[d] = "idle"
      OBVIOUS
    <3>1. CASE d = c
      BY <2>0, <2>1, <3>1 DEF TypeOK, Actor
    <3>2. CASE d # c
      BY <2>1, <3>2 DEF TypeOK, Actor
    <3> QED
      BY <3>1, <3>2
  <2> QED
    BY <2>2, <2>3 DEF Pause
<1>4. ASSUME NEW c \in Client, ForwardOutput(c) PROVE Goal
  BY <1>4
<1>5. ASSUME NEW c \in Client, ForwardTerminal(c) PROVE Goal
  BY <1>5 DEF ForwardTerminal, Leaves, Goto, Reading, PC, meta, subs, seen
<1>6. ASSUME NEW c \in Client, ForwardStopped(c) PROVE Goal
  BY <1>6 DEF ForwardStopped, Leaves, Goto, Reading, PC, meta, subs, seen
<1>7. ASSUME NEW c \in Client, ForwardEnds(c) PROVE Goal
  BY <1>7 DEF ForwardEnds, Leaves, Goto, Reading, PC, meta, subs, seen
<1>8. ASSUME NEW a \in Poster, Post(a) PROVE Goal
  <2>1. \A c \in Client : pc'[c] = pc[c]
    BY <1>8 DEF Post, TypeOK, Actor, Goto
  <2> QED
    BY <1>8, <2>1 DEF Post, Pause, meta, subs, seen
<1>9. ASSUME NEW a \in Poster, UserLine(a) PROVE Goal
  <2>1. \A c \in Client : pc'[c] = pc[c]
    BY <1>9 DEF UserLine, TypeOK, Actor, Goto
  <2> QED
    BY <1>9, <2>1 DEF UserLine, Adds, TypeOK, Actor, subs
<1>10. ASSUME NEW a \in Actor, BeginTurn(a) PROVE Goal
  <2>1. CASE a \in Client /\ pc' = [pc EXCEPT ![a] = "refused"]
    BY <1>10, <2>1 DEF BeginTurn, Leaves, Reading, PC, meta, subs, seen
  <2>2. CASE a \in Client /\ pc' = [pc EXCEPT ![a] = "send"]
    BY <1>10, <2>2 DEF BeginTurn, Pause, TypeOK, Actor, Reading, meta, subs, seen
  <2>3. CASE a \notin Client
    BY <1>10, <2>3 DEF BeginTurn, Pause, TypeOK, Actor, Goto, Reading, meta, subs, seen
  <2>4. \/ pc' = [pc EXCEPT ![a] = "refused"]
        \/ pc' = [pc EXCEPT ![a] = AfterBegin(a)]
    BY <1>10 DEF BeginTurn, Goto
  <2> QED
    BY <2>1, <2>2, <2>3, <2>4 DEF AfterBegin
<1>11. ASSUME NEW a \in Actor, SendInput(a) PROVE Goal
  BY <1>11 DEF SendInput, Pause, TypeOK, Actor, Goto, Reading, meta, subs, seen
<1>12. ASSUME NEW a \in Actor, SendFails(a) PROVE Goal
  <2>1. CASE a \in Client
    BY <1>12, <2>1 DEF SendFails, Leaves, Goto, Reading, PC, meta, subs, seen
  <2>2. CASE a \notin Client
    BY <1>12, <2>2 DEF SendFails, Pause, TypeOK, Actor, Goto, Reading, meta, subs, seen
  <2> QED
    BY <2>1, <2>2
<1>13. CASE WorkerOutput
  BY <1>13 DEF WorkerOutput, Adds, TypeOK, subs
<1>14. CASE WorkerTerminal
  BY <1>14 DEF WorkerTerminal, FinishTurn, PublishTerminal, Pause, meta, subs
<1>15. CASE BeginTurnCancel
  BY <1>15 DEF BeginTurnCancel, Pause, meta, subs, seen
<1>16. CASE FailCancellingTurn
  BY <1>16 DEF FailCancellingTurn, FinishTurn, PublishTerminal, Pause, meta, subs
<1>17. CASE WorkerExit
  BY <1>17 DEF WorkerExit, Pause, meta, subs, seen
<1>18. CASE WorkerReady
  BY <1>18 DEF WorkerReady, Pause, meta, subs, seen
<1>19. CASE UNCHANGED vars
  BY <1>19 DEF vars, meta, subs, seen, Pause
<1> QED
  BY <1>1, <1>2, <1>3, <1>4, <1>5, <1>6, <1>7, <1>8, <1>9, <1>10, <1>11, <1>12, <1>13, <1>14, <1>15, <1>16, <1>17, <1>18, <1>19 DEF Next, Forward

-----------------------------------------------------------------------------
(* The inductive invariant of the readers.                                 *)

\* Between its subscription and its cursor a reader was given everything, once,
\* but for what was trimmed; and what is to come is in the ring, or was trimmed.
Given(c) ==
    /\ Increasing(got[c])
    /\ Within(got[c], start[c], cursor[c])
    /\ Covers(got[c], missed[c], start[c], cursor[c])
    /\ cursor[c] + 1 .. outputSeq - Len(lines) \subseteq missed[c]

Follows(c) ==
    /\ start[c] <= cursor[c] /\ cursor[c] <= outputSeq
    /\ ch[c] <= outputCh
    /\ cursor[c] < outputSeq => ch[c] < outputCh
    /\ Len(lines) <= MaxLines \/ cursor[c] = outputSeq

Reader(c) ==
    /\ pc[c] = "idle" => got[c] = <<>>
    /\ pc[c] \in Reading => Follows(c) /\ Given(c)

Readers == IsRing(lines, outputSeq) /\ \A c \in Client : Reader(c)

LEMMA InitReaders == Init => Readers
<1> SUFFICES ASSUME Init PROVE Readers
  OBVIOUS
<1> USE BoundAssumption
<1>1. PICK k \in 0 .. MaxRestored : lines = [i \in 1 .. k |-> i] /\ outputSeq = k
  BY DEF Init
<1>2. Len(lines) = k /\ \A i \in 1 .. k : lines[i] = i
  BY <1>1
<1>3. IsRing(lines, outputSeq)
  BY <1>1, <1>2 DEF IsRing
<1>4. \A c \in Client : Reader(c)
  BY DEF Init, Reader, Actor, Reading
<1> QED
  BY <1>3, <1>4 DEF Readers

LEMMA PauseReaders ==
    ASSUME Readers, Pause PROVE Readers'
BY DEF Readers, Reader, Follows, Given, Pause

LEMMA LeavesReaders ==
    ASSUME TypeOK, Readers, NEW c \in Client, Leaves(c) PROVE Readers'
<1>1. IsRing(lines, outputSeq)'
  BY DEF Leaves, Readers
<1>2. ASSUME NEW d \in Client PROVE Reader(d)'
  <2>1. pc'[d] \in Reading => pc[d] \in Reading
    BY DEF Leaves, TypeOK, Actor
  <2>2. pc'[d] = "idle" => pc[d] = "idle"
    BY DEF Leaves, TypeOK, Actor
  <2> QED
    BY <2>1, <2>2 DEF Leaves, Readers, Reader, Follows, Given
<1> QED
  BY <1>1, <1>2 DEF Readers

LEMMA SubscribeReaders ==
    ASSUME TypeOK, Readers, NEW c \in Client, Subscribe(c) PROVE Readers'
<1> USE BoundAssumption
<1>1. IsRing(lines, outputSeq)' /\ UNCHANGED <<lines, outputSeq, outputCh, got>>
  BY DEF Subscribe, Readers, meta
<1>2. ASSUME NEW d \in Client, d # c PROVE Reader(d)'
  <2>1. UNCHANGED <<pc[d], cursor[d], ch[d], start[d], missed[d]>>
    BY <1>2 DEF Subscribe, Goto, TypeOK
  <2> QED
    BY <2>1, <1>1 DEF Readers, Reader, Follows, Given
<1>3. Reader(c)'
  <2>1. got[c] = <<>>
    BY DEF Subscribe, Readers, Reader
  <2>2. /\ pc'[c] = "subscribed" /\ got'[c] = <<>>
        /\ start'[c] = outputSeq /\ cursor'[c] = outputSeq /\ ch'[c] = outputCh
    BY <1>1, <2>1 DEF Subscribe, Goto, TypeOK, Actor
  <2>3. outputSeq \in Nat /\ outputCh \in Nat /\ Len(lines) \in Nat
    BY DEF TypeOK
  <2> QED
    BY <1>1, <2>2, <2>3 DEF Reader, Follows, Given, Increasing, Within, Covers
<1> QED
  BY <1>1, <1>2, <1>3 DEF Readers

LEMMA AddsReaders ==
    ASSUME TypeOK, Readers, Adds PROVE Readers'
<1> USE BoundAssumption
<1>1. PICK t \in Nat : AddOutput(t)
  BY DEF Adds
<1>2. /\ outputSeq' = outputSeq + 1 /\ outputCh' = outputCh + 1
      /\ outputSeq \in Nat /\ outputCh \in Nat /\ lines \in Seq(Nat)
      /\ IsRing(lines, outputSeq)
  BY <1>1 DEF AddOutput, Fresh, TypeOK, Readers
<1>3. /\ IsRing(lines', outputSeq + 1)
      /\ Len(lines') = IF Len(lines) < MaxLines THEN Len(lines) + 1 ELSE MaxLines
      /\ Len(lines) \in Nat
  BY <1>1, <1>2, RingAppend DEF AddOutput
<1>4. ASSUME NEW d \in Client PROVE Reader(d)'
  <2>1. UNCHANGED <<pc[d], cursor[d], ch[d], start[d], got[d]>>
    BY DEF Adds
  <2>2. cursor[d] \in Nat /\ ch[d] \in Nat
    BY DEF TypeOK
  <2>3. pc[d] = "idle" => got'[d] = <<>>
    BY <2>1 DEF Readers, Reader
  <2>4. ASSUME pc[d] \in Reading PROVE Follows(d)' /\ Given(d)'
    <3>1. Follows(d) /\ Given(d)
      BY <2>4 DEF Readers, Reader
    <3>2. missed'[d] = missed[d] \union {n \in Trimmed : n > cursor[d]}
      <4>1. missed' = [c \in Client |->
                IF pc[c] \in Reading
                THEN missed[c] \union {n \in Trimmed : n > cursor[c]} ELSE missed[c]]
        BY <1>1 DEF AddOutput
      <4> QED
        BY <2>4, <4>1
    <3>3. Follows(d)'
      BY <2>1, <2>2, <3>1, <1>2, <1>3 DEF Follows
    <3>4. cursor'[d] + 1 .. outputSeq' - Len(lines') \subseteq missed'[d]
      <4> SUFFICES ASSUME NEW n \in cursor[d] + 1 .. outputSeq' - Len(lines')
                   PROVE  n \in missed'[d]
        BY <2>1
      <4>1. /\ n \in Nat /\ n > cursor[d] /\ n >= cursor[d] + 1
            /\ n <= outputSeq + 1 - Len(lines')
        BY <1>2, <1>3, <2>2
      <4>2. CASE n <= outputSeq - Len(lines)
        <5>1. cursor[d] + 1 .. outputSeq - Len(lines) \subseteq missed[d]
          BY <3>1 DEF Given
        <5>2. n \in cursor[d] + 1 .. outputSeq - Len(lines)
          BY <4>1, <4>2, <1>2, <1>3, <2>2
        <5>3. n \in missed[d]
          BY <5>1, <5>2, Zenon
        <5> QED
          BY <3>2, <5>3, Zenon
      <4>3. CASE n > outputSeq - Len(lines)
        <5>1. Len(lines') = MaxLines
          BY <1>3, <4>1, <4>3, <1>2
        <5> QED
          BY <1>2, <3>2, <4>1, <4>3, <5>1, TrimmedRing
      <4> QED
        BY <4>1, <4>2, <4>3, <1>2, <1>3
    <3>5. missed[d] \subseteq missed'[d]
      BY <3>2
    <3> QED
      BY <3>1, <3>3, <3>4, <3>5, <2>1 DEF Given, Covers
  <2> QED
    BY <2>1, <2>3, <2>4 DEF Reader
<1> QED
  BY <1>2, <1>3, <1>4 DEF Readers

LEMMA ForwardReaders ==
    ASSUME TypeOK, Readers, NEW c \in Client, ForwardOutput(c) PROVE Readers'
<1> USE BoundAssumption
<1>1. /\ IsRing(lines, outputSeq)'
      /\ UNCHANGED <<lines, outputSeq, outputCh, start, missed>>
  BY DEF ForwardOutput, Readers, meta
<1>2. ASSUME NEW d \in Client, d # c PROVE Reader(d)'
  <2>1. UNCHANGED <<cursor[d], ch[d]>>
    BY <1>2 DEF ForwardOutput, TypeOK
  <2>2. \E g : got' = [got EXCEPT ![c] = g]
    BY DEF ForwardOutput
  <2>3. pc' = pc \/ pc' = [pc EXCEPT ![c] = "gone"]
    BY DEF ForwardOutput, Goto
  <2>4. UNCHANGED <<pc[d], got[d]>>
    <3>1. got'[d] = got[d]
      BY <1>2, <2>2 DEF TypeOK
    <3>2. pc'[d] = pc[d]
      BY <1>2, <2>3 DEF TypeOK, Actor
    <3> QED
      BY <3>1, <3>2
  <2> QED
    BY <2>1, <2>4, <1>1 DEF Readers, Reader, Follows, Given
<1>3. Reader(c)'
  <2> DEFINE b == Before(outputSeq, cursor[c])
             k == outputSeq - b
  <2>1. /\ pc[c] = "select" /\ Follows(c) /\ Given(c) /\ IsRing(lines, outputSeq)
        /\ lines \in Seq(Nat) /\ outputSeq \in Nat /\ outputCh \in Nat
        /\ cursor[c] \in Nat /\ start[c] \in Nat /\ got[c] \in Seq(Nat)
    BY DEF ForwardOutput, Readers, Reader, Reading, TypeOK
  <2>2. /\ b \in Nat /\ k \in Nat /\ cursor[c] <= b /\ b <= outputSeq
        /\ Since(lines, outputSeq, cursor[c]) = Entries(b, k)
    BY <2>1, SinceEntries DEF Follows
  <2>3. cursor'[c] = outputSeq /\ ch'[c] = outputCh
    BY DEF ForwardOutput, Advance, TypeOK
  <2>4. pc'[c] # "idle"
    BY <2>1 DEF ForwardOutput, Goto, TypeOK, Actor
  <2>5. CASE pc'[c] \in Reading
    <3>1. got'[c] = got[c] \o Entries(b, k)
      <4>1. pc' = pc \/ pc' = [pc EXCEPT ![c] = "gone"]
        BY DEF ForwardOutput, Goto
      <4>2. pc' # [pc EXCEPT ![c] = "gone"]
        BY <2>5 DEF TypeOK, Actor, Reading
      <4> QED
        BY <4>2, <2>2 DEF ForwardOutput, Goto, TypeOK
    <3>2. cursor[c] + 1 .. b \subseteq missed[c]
      <4> SUFFICES ASSUME NEW n \in cursor[c] + 1 .. b PROVE n \in missed[c]
        OBVIOUS
      <4>1. b = outputSeq - MaxLines
        BY <2>1, <2>2 DEF Before
      <4>2. Len(lines) = MaxLines
        <5>1. Len(lines) <= MaxLines /\ outputSeq > MaxLines
          BY <4>1, <2>2, <2>1 DEF Follows
        <5> QED
          BY <5>1, <2>1 DEF IsRing
      <4> QED
        BY <4>1, <4>2, <2>1 DEF Given
    <3>3. /\ Increasing(got'[c])
          /\ Within(got'[c], start[c], outputSeq)
          /\ Covers(got'[c], missed[c], start[c], outputSeq)
      <4>1. /\ Increasing(got[c]) /\ Within(got[c], start[c], cursor[c])
            /\ Covers(got[c], missed[c], start[c], cursor[c]) /\ start[c] <= cursor[c]
        BY <2>1 DEF Given, Follows
      <4>2. got'[c] = got[c] \o Entries(b, outputSeq - b)
        BY <3>1
      <4> HIDE DEF b
      <4>3. Behind(got'[c], got[c], b, outputSeq - b)
        <5> HIDE DEF k
        <5>1. Behind(got[c] \o Entries(b, k), got[c], b, k)
          BY <2>1, <2>2, ConcatBehind
        <5> QED
          BY <5>1, <4>2 DEF k
      <4> HIDE DEF k
      <4> QED
        BY <2>1, <2>2, <3>2, <4>1, <4>3, GivenGrows
    <3>4. outputSeq + 1 .. outputSeq - Len(lines) = {}
      BY <2>1
    <3>5. Given(c)'
      BY <3>3, <3>4, <2>3, <1>1 DEF Given
    <3>6. Follows(c)'
      BY <2>1, <2>3, <1>1 DEF Follows
    <3> QED
      BY <3>5, <3>6, <2>4 DEF Reader
  <2> QED
    BY <2>4, <2>5 DEF Reader
<1> QED
  BY <1>1, <1>2, <1>3 DEF Readers

LEMMA NextReaders == TypeOK /\ Readers /\ [Next]_vars => Readers'
BY OutputSteps, PauseReaders, LeavesReaders, SubscribeReaders, AddsReaders, ForwardReaders

LEMMA ReadersInvariant == Spec => [](TypeOK /\ Readers)
BY InitTypes, NextTypes, InitReaders, NextReaders, PTL DEF Spec

\* A waiting client was given every output since its subscription exactly once,
\* in order, but for those that the ring had already lost.
THEOREM StreamReadsEverythingOnce == Spec => []ReadsEverythingOnce
<1>1. TypeOK /\ Readers => ReadsEverythingOnce
  BY DEF Readers, Reader, Given, ReadsEverythingOnce, Increasing, Within, Covers
<1> QED
  BY <1>1, ReadersInvariant, PTL

-----------------------------------------------------------------------------
(* The terminals, and the wake-ups.                                        *)

Subscribed == Reading \ {"subscribed"}

\* No terminal is added, no client turns to them, but one may turn away.
TerminalPause ==
    /\ UNCHANGED <<terminalSeq, terminalCh>>
    /\ \A c \in Client : pc'[c] \in Subscribed =>
        pc[c] \in Subscribed /\ tcursor'[c] = tcursor[c] /\ tch'[c] = tch[c]

Publishes ==
    /\ terminalSeq' = terminalSeq + 1 /\ terminalCh' = terminalCh + 1
    /\ UNCHANGED <<tcursor, tch>>
    /\ \A c \in Client : pc'[c] = pc[c]

LEMMA TerminalSteps ==
    ASSUME TypeOK, [Next]_vars
    PROVE  \/ TerminalPause
           \/ Publishes
           \/ \E c \in Client : SubscribeTerminals(c)
<1> USE ActorAssumption
<1> DEFINE Goal == TerminalPause \/ Publishes \/ \E c \in Client : SubscribeTerminals(c)
\* A step of one actor that does not turn to the terminals.
<1>0. ASSUME NEW a \in Actor, NEW l \in PC, pc' = pc \/ pc' = [pc EXCEPT ![a] = l],
             l \in Subscribed => pc[a] \in Subscribed,
             UNCHANGED <<terminalSeq, terminalCh, tcursor, tch>>
      PROVE  TerminalPause
  BY <1>0 DEF TerminalPause, TypeOK, Actor
<1>1. ASSUME NEW c \in Client, Subscribe(c) PROVE Goal
  <2>1. "subscribed" \in PC /\ ("subscribed" \in Subscribed => pc[c] \in Subscribed)
    BY <1>1 DEF Subscribe, PC, Subscribed, Reading
  <2>2. /\ pc' = pc \/ pc' = [pc EXCEPT ![c] = "subscribed"]
        /\ UNCHANGED <<terminalSeq, terminalCh, tcursor, tch>>
    BY <1>1 DEF Subscribe, Goto, meta, subs
  <2> QED
    BY <1>0, <2>1, <2>2 DEF Actor
<1>2. ASSUME NEW c \in Client, SubscribeTerminals(c) PROVE Goal
  BY <1>2
<1>3. ASSUME NEW c \in Client, Register(c) PROVE Goal
  <2>1. "select" \in PC /\ ("select" \in Subscribed => pc[c] \in Subscribed)
    BY <1>3 DEF Register, PC, Subscribed, Reading
  <2>2. /\ pc' = pc \/ pc' = [pc EXCEPT ![c] = "select"]
        /\ UNCHANGED <<terminalSeq, terminalCh, tcursor, tch>>
    BY <1>3 DEF Register, Goto, meta, subs
  <2> QED
    BY <1>0, <2>1, <2>2 DEF Actor
<1>4. ASSUME NEW c \in Client, ForwardOutput(c) PROVE Goal
  <2>1. "gone" \in PC /\ ("gone" \in Subscribed => pc[c] \in Subscribed)
    BY <1>4 DEF ForwardOutput, PC, Subscribed, Reading
  <2>2. /\ pc' = pc \/ pc' = [pc EXCEPT ![c] = "gone"]
        /\ UNCHANGED <<terminalSeq, terminalCh, tcursor, tch>>
    BY <1>4 DEF ForwardOutput, Goto, meta, subs
  <2> QED
    BY <1>0, <2>1, <2>2 DEF Actor
<1>5. ASSUME NEW c \in Client, ForwardTerminal(c) PROVE Goal
  <2>1. \E l \in {"done", "gone"} : pc' = [pc EXCEPT ![c] = l]
    BY <1>5 DEF ForwardTerminal, Goto
  <2>2. \A d \in Client : pc'[d] \in Subscribed => d # c /\ pc[d] \in Subscribed
    BY <2>1 DEF TypeOK, Actor, Subscribed, Reading
  <2>3. UNCHANGED <<terminalSeq, terminalCh>>
    BY <1>5 DEF ForwardTerminal, meta
  <2>4. \A d \in Client : d # c => tcursor'[d] = tcursor[d] /\ tch'[d] = tch[d]
    BY <1>5 DEF ForwardTerminal, TypeOK
  <2> QED
    BY <2>2, <2>3, <2>4 DEF TerminalPause
<1>6. ASSUME NEW c \in Client, ForwardStopped(c) PROVE Goal
  <2>1. "gone" \in PC /\ ("gone" \in Subscribed => pc[c] \in Subscribed)
    BY <1>6 DEF ForwardStopped, PC, Subscribed, Reading
  <2>2. /\ pc' = pc \/ pc' = [pc EXCEPT ![c] = "gone"]
        /\ UNCHANGED <<terminalSeq, terminalCh, tcursor, tch>>
    BY <1>6 DEF ForwardStopped, Goto, meta, subs
  <2> QED
    BY <1>0, <2>1, <2>2 DEF Actor
<1>7. ASSUME NEW c \in Client, ForwardEnds(c) PROVE Goal
  <2>1. "gone" \in PC /\ ("gone" \in Subscribed => pc[c] \in Subscribed)
    BY <1>7 DEF ForwardEnds, PC, Subscribed, Reading
  <2>2. /\ pc' = pc \/ pc' = [pc EXCEPT ![c] = "gone"]
        /\ UNCHANGED <<terminalSeq, terminalCh, tcursor, tch>>
    BY <1>7 DEF ForwardEnds, Goto, meta, subs
  <2> QED
    BY <1>0, <2>1, <2>2 DEF Actor
<1>8. ASSUME NEW a \in Poster, Post(a) PROVE Goal
  <2>1. \A c \in Client : pc'[c] = pc[c]
    BY <1>8 DEF Post, TypeOK, Actor, Goto
  <2> QED
    BY <1>8, <2>1 DEF Post, AddOutput, TerminalPause, meta, subs
<1>9. ASSUME NEW a \in Poster, UserLine(a) PROVE Goal
  <2>1. \A c \in Client : pc'[c] = pc[c]
    BY <1>9 DEF UserLine, TypeOK, Actor, Goto
  <2> QED
    BY <1>9, <2>1 DEF UserLine, AddOutput, TerminalPause, meta, subs
<1>10. ASSUME NEW a \in Actor, BeginTurn(a) PROVE Goal
  <2>1. PICK l \in {"line", "send", "refused"} : pc' = [pc EXCEPT ![a] = l]
    BY <1>10 DEF BeginTurn, Goto, AfterBegin
  <2>2. l \in PC /\ pc[a] \in Subscribed
    BY <1>10, <2>1 DEF BeginTurn, PC, Subscribed, Reading
  <2>3. UNCHANGED <<terminalSeq, terminalCh, tcursor, tch>>
    BY <1>10 DEF BeginTurn, meta, subs
  <2> QED
    BY <1>0, <2>1, <2>2, <2>3
<1>11. ASSUME NEW a \in Actor, SendInput(a) PROVE Goal
  <2>1. PICK l \in {"done", "register"} : pc' = [pc EXCEPT ![a] = l]
    BY <1>11 DEF SendInput, Goto
  <2>2. l \in PC /\ pc[a] \in Subscribed
    BY <1>11, <2>1 DEF SendInput, PC, Subscribed, Reading
  <2>3. UNCHANGED <<terminalSeq, terminalCh, tcursor, tch>>
    BY <1>11 DEF SendInput, meta, subs
  <2> QED
    BY <1>0, <2>1, <2>2, <2>3
<1>12. ASSUME NEW a \in Actor, SendFails(a) PROVE Goal
  <2>1. "refused" \in PC /\ ("refused" \in Subscribed => pc[a] \in Subscribed)
    BY <1>12 DEF SendFails, PC, Subscribed, Reading
  <2>2. /\ pc' = pc \/ pc' = [pc EXCEPT ![a] = "refused"]
        /\ UNCHANGED <<terminalSeq, terminalCh, tcursor, tch>>
    BY <1>12 DEF SendFails, Goto, meta, subs
  <2> QED
    BY <1>0, <2>1, <2>2 DEF Actor
<1>13. CASE WorkerOutput
  BY <1>13 DEF WorkerOutput, AddOutput, TerminalPause, subs
<1>14. CASE WorkerTerminal
  <2>1. CASE active
    BY <1>14, <2>1 DEF WorkerTerminal, FinishTurn, PublishTerminal, Fresh, Publishes, subs
  <2>2. CASE ~active
    BY <1>14, <2>2 DEF WorkerTerminal, TerminalPause, meta, subs
  <2> QED
    BY <2>1, <2>2
<1>15. CASE BeginTurnCancel
  BY <1>15 DEF BeginTurnCancel, TerminalPause, meta, subs
<1>16. CASE FailCancellingTurn
  BY <1>16 DEF FailCancellingTurn, FinishTurn, PublishTerminal, Fresh, Publishes, subs
<1>17. CASE WorkerExit
  BY <1>17 DEF WorkerExit, TerminalPause, meta, subs
<1>18. CASE WorkerReady
  BY <1>18 DEF WorkerReady, TerminalPause, meta, subs
<1>19. CASE UNCHANGED vars
  BY <1>19 DEF vars, meta, subs, TerminalPause
<1> QED
  BY <1>1, <1>2, <1>3, <1>4, <1>5, <1>6, <1>7, <1>8, <1>9, <1>10, <1>11, <1>12, <1>13, <1>14, <1>15, <1>16, <1>17, <1>18, <1>19 DEF Next, Forward

Waits ==
    \A c \in Client : pc[c] \in Subscribed =>
        /\ tch[c] <= terminalCh
        /\ tcursor[c] < terminalSeq => tch[c] < terminalCh

LEMMA InitWaits == Init => Waits
BY DEF Init, Waits, Subscribed, Reading, Actor

LEMMA NextWaits == TypeOK /\ Waits /\ [Next]_vars => Waits'
<1> SUFFICES ASSUME TypeOK, Waits, [Next]_vars PROVE Waits'
  OBVIOUS
<1>1. CASE TerminalPause
  BY <1>1 DEF TerminalPause, Waits
<1>2. CASE Publishes
  <2> SUFFICES ASSUME NEW c \in Client, pc'[c] \in Subscribed
               PROVE  tch'[c] <= terminalCh' /\ tch'[c] < terminalCh'
    BY DEF Waits
  <2>1. tch[c] <= terminalCh /\ tch'[c] = tch[c] /\ terminalCh' = terminalCh + 1
    BY <1>2 DEF Publishes, Waits
  <2> QED
    BY <2>1 DEF TypeOK
<1>3. ASSUME NEW c \in Client, SubscribeTerminals(c) PROVE Waits'
  <2>1. UNCHANGED <<terminalSeq, terminalCh>>
    BY <1>3 DEF SubscribeTerminals, meta
  <2>2. tcursor'[c] = terminalSeq /\ tch'[c] = terminalCh
    BY <1>3 DEF SubscribeTerminals, TypeOK
  <2>3. \A d \in Client : d # c =>
            pc'[d] = pc[d] /\ tcursor'[d] = tcursor[d] /\ tch'[d] = tch[d]
    BY <1>3 DEF SubscribeTerminals, TypeOK, Goto
  <2>4. terminalSeq \in Nat /\ terminalCh \in Nat
    BY DEF TypeOK
  <2> QED
    BY <2>1, <2>2, <2>3, <2>4 DEF Waits
<1> QED
  BY <1>1, <1>2, <1>3, TerminalSteps

\* No wake-up is lost: whoever waits with something unread has a closed channel.
THEOREM StreamNoLostWakeup == Spec => []NoLostWakeup
<1>1. Spec => []Waits
  BY InitTypes, NextTypes, InitWaits, NextWaits, PTL DEF Spec
<1>2. TypeOK /\ Readers /\ Waits => NoLostWakeup
  BY DEF Readers, Reader, Follows, Waits, Subscribed, NoLostWakeup
<1> QED
  BY <1>1, <1>2, ReadersInvariant, PTL

-----------------------------------------------------------------------------
(* The refinement.                                                         *)

LEMMA BeforeIsLog ==
    ASSUME TypeOK, NEW c \in Client
    PROVE  Log!Before(cursor[c]) = Before(outputSeq, cursor[c])
BY DEF Log!Before, Before

\* The session starts as a log does.
LEMMA InitRefines == Init => Log!LogInit
<1> SUFFICES ASSUME Init PROVE Log!LogInit
  OBVIOUS
<1> USE BoundAssumption
<1>1. PICK k \in 0 .. MaxRestored : outputSeq = k
  BY DEF Init
<1>2. {c \in Client : pc[c] \in Reading} = {}
  BY DEF Init, Reading, Actor
<1> QED
  BY <1>1, <1>2 DEF Init, Log!LogInit

\* Every step is a step of the log, or none.
LEMMA NextRefines ==
    ASSUME TypeOK, Readers, [Next]_vars PROVE [Log!LogNext]_(Log!logVars)
<1> USE BoundAssumption
<1> DEFINE reading == {c \in Client : pc[c] \in Reading}
<1>1. CASE Pause
  <2>1. reading' = reading
    BY <1>1 DEF Pause
  <2> QED
    BY <1>1, <2>1 DEF Pause, Log!logVars
<1>2. CASE Adds
  <2>1. reading' = reading
    BY <1>2 DEF Adds
  <2> QED
    BY <1>2, <2>1 DEF Adds, AddOutput, Log!LogNext, Log!Write
<1>3. ASSUME NEW c \in Client, Leaves(c) PROVE Log!Quit(c)
  <2>1. reading' = reading \ {c}
    BY <1>3 DEF Leaves, TypeOK, Actor
  <2> QED
    BY <1>3, <2>1 DEF Leaves, Log!Quit
<1>4. ASSUME NEW c \in Client, Subscribe(c) PROVE Log!Join(c)
  <2>1. pc[c] = "idle" /\ pc' = [pc EXCEPT ![c] = "subscribed"]
    BY <1>4 DEF Subscribe, Goto
  <2>2. reading' = reading \union {c} /\ c \notin reading
    BY <2>1 DEF TypeOK, Actor, Reading
  <2>3. got[c] = <<>>
    BY <2>1 DEF Readers, Reader
  <2> QED
    BY <1>4, <2>2, <2>3 DEF Subscribe, meta, Log!Join
<1>5. ASSUME NEW c \in Client, ForwardOutput(c) PROVE Log!Read(c)
  <2> DEFINE b == Before(outputSeq, cursor[c])
             k == outputSeq - b
  <2>1. /\ pc[c] = "select" /\ Follows(c) /\ IsRing(lines, outputSeq)
        /\ lines \in Seq(Nat) /\ outputSeq \in Nat /\ cursor[c] \in Nat
    BY <1>5 DEF ForwardOutput, Readers, Reader, Reading, TypeOK
  <2>2. /\ b \in Nat /\ k \in Nat
        /\ Since(lines, outputSeq, cursor[c]) = Entries(b, k)
    <3>1. cursor[c] <= outputSeq /\ (Len(lines) <= MaxLines \/ cursor[c] = outputSeq)
      BY <2>1 DEF Follows
    <3>2. /\ b \in Nat /\ b <= outputSeq
          /\ Since(lines, outputSeq, cursor[c]) = Entries(b, k)
      BY <2>1, <3>1, SinceEntries
    <3> HIDE DEF b
    <3> QED
      BY <2>1, <3>2
  <2>3. Len(Entries(b, k)) = k /\ \A j \in 0 .. k : SubSeq(Entries(b, k), 1, j) = Entries(b, j)
    BY <2>2, EntriesSeq
  <2>4. /\ cursor' = [cursor EXCEPT ![c] = outputSeq]
        /\ outputSeq' = outputSeq /\ c \in reading
    BY <1>5, <2>1 DEF ForwardOutput, Advance, meta, Reading
  <2>5. \/ got' = [got EXCEPT ![c] = @ \o Entries(b, k)] /\ pc' = pc
        \/ \E j \in 0 .. k : /\ got' = [got EXCEPT ![c] = @ \o Entries(b, j)]
                              /\ pc' = [pc EXCEPT ![c] = "gone"]
    <3> HIDE DEF b, k
    <3> QED
      BY <1>5, <2>2, <2>3 DEF ForwardOutput, Goto
  <2>6. Log!Before(cursor[c]) = b
    BY BeforeIsLog
  <2>7. \A j : Log!Entries(b, j) = Entries(b, j)
    BY DEF Log!Entries, Entries
  <2>8. pc' = pc => reading' = reading
    OBVIOUS
  <2>9. pc' = [pc EXCEPT ![c] = "gone"] => reading' = reading \ {c}
    BY DEF TypeOK, Actor, Reading
  <2> HIDE DEF b, reading
  <2> QED
    BY <2>4, <2>5, <2>6, <2>7, <2>8, <2>9 DEF Log!Read, reading
<1> QED
  BY <1>1, <1>2, <1>3, <1>4, <1>5, OutputSteps DEF Log!LogNext

\* The rings, channels and cursors of a session implement a log that every
\* client reads from its subscription on, within the window of the ring.
THEOREM StreamImplementsLog == Spec => ImplementsOutputLog
<1>1. Spec => [](TypeOK /\ Readers)
  BY ReadersInvariant
<1>2. TypeOK /\ Readers /\ [Next]_vars => [Log!LogNext]_(Log!logVars)
  BY NextRefines
<1> QED
  BY <1>1, <1>2, InitRefines, PTL DEF Spec, ImplementsOutputLog, Log!LogSpec

=============================================================================

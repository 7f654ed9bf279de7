--------------------------- MODULE RequestProofs ---------------------------
(***************************************************************************)
(* What the request parser finds in a connection's bytes does not depend   *)
(* on how they were cut into reads: proved for any bytes and any cuts.     *)
(***************************************************************************)
EXTENDS Request, SequenceTheorems, WellFoundedInduction, TLAPS

Bytes == Seq(STRING)

-----------------------------------------------------------------------------
(* The least number of a set.                                               *)

LEMMA LeastIs ==
  ASSUME NEW S \in SUBSET Nat, S # {}
  PROVE  /\ Min(S) \in S
         /\ \A y \in S : Min(S) <= y
<1> DEFINE Less == {ss \in Nat \X Nat : ss[1] < ss[2]}
<1>1. IsWellFoundedOn(Less, Nat)
  BY NatLessThanWellFounded DEF OpToRel
<1>2. PICK x \in S : \A y \in S : ~ (<<y, x>> \in Less)
  <2> HIDE DEF Less
  <2> QED
    BY <1>1, WFMin
<1>3. \A y \in S : x <= y
  <2> SUFFICES ASSUME NEW y \in S
               PROVE  x <= y
    OBVIOUS
  <2>1. ~ (<<y, x>> \in Less) /\ x \in Nat /\ y \in Nat
    BY <1>2
  <2> QED
    BY <2>1
<1> QED
  BY <1>2, <1>3 DEF Min

LEMMA LeastEquals ==
  ASSUME NEW S \in SUBSET Nat, NEW x \in S, \A y \in S : x <= y
  PROVE  Min(S) = x
<1>1. /\ Min(S) \in Nat /\ x \in Nat
      /\ Min(S) <= x /\ x <= Min(S)
  BY LeastIs
<1> QED
  BY <1>1

LEMMA GreatestIs ==
  ASSUME NEW k \in Nat, NEW S \in SUBSET (0 .. k), S # {}
  PROVE  Max(S) \in S
<1> DEFINE T == {k - x : x \in S}
<1>1. T \in SUBSET Nat /\ T # {}
  <2>1. \A x \in S : x \in 0 .. k /\ k - x \in Nat
    OBVIOUS
  <2>2. \A y \in T : y \in Nat
    BY <2>1
  <2>3. T # {}
    OBVIOUS
  <2> QED
    BY <2>2, <2>3
<1>2. Min(T) \in T /\ \A y \in T : Min(T) <= y
  <2> HIDE DEF T
  <2> QED
    BY <1>1, LeastIs
<1>3. PICK x \in S : Min(T) = k - x
  BY <1>2
<1>4. \A y \in S : x >= y
  <2> SUFFICES ASSUME NEW y \in S
               PROVE  x >= y
    OBVIOUS
  <2>1. k - y \in T
    OBVIOUS
  <2>2. k - x <= k - y /\ x \in 0 .. k /\ y \in 0 .. k
    BY <1>2, <1>3, <2>1
  <2> QED
    BY <2>2
<1> QED
  BY <1>4 DEF Max

-----------------------------------------------------------------------------
(* Lines, and what stays of them when bytes are added.                      *)

LEMMA Longer ==
  ASSUME NEW s \in Bytes, NEW t \in Bytes
  PROVE  /\ s \o t \in Bytes /\ Len(s) \in Nat /\ Len(t) \in Nat
         /\ Len(s \o t) = Len(s) + Len(t)
         /\ \A i \in 1 .. Len(s) : (s \o t)[i] = s[i]
         /\ \A i \in 1 .. Len(t) : (s \o t)[Len(s) + i] = t[i]
<1>1. Len(s) \in Nat /\ Len(t) \in Nat
  BY LenProperties DEF Bytes
<1>2. /\ s \o t \in Bytes /\ Len(s \o t) = Len(s) + Len(t)
      /\ \A i \in 1 .. Len(s) + Len(t) :
           (s \o t)[i] = IF i <= Len(s) THEN s[i] ELSE t[i - Len(s)]
  BY ConcatProperties DEF Bytes
<1>3. \A i \in 1 .. Len(t) : /\ Len(s) + i \in 1 .. Len(s) + Len(t)
                             /\ ~(Len(s) + i <= Len(s))
                             /\ (Len(s) + i) - Len(s) = i
  BY <1>1
<1>4. \A i \in 1 .. Len(s) : i \in 1 .. Len(s) + Len(t)
  BY <1>1
<1> QED
  BY <1>1, <1>2, <1>3, <1>4

LEMMA PlacesAre ==
  ASSUME NEW s \in Bytes
  PROVE  /\ Len(s) \in Nat /\ Breaks(s) \subseteq Nat /\ Lines(s) \subseteq Nat
         /\ \A p \in Lines(s) : 1 <= p /\ p <= Len(s) + 1
         /\ \A m, n \in Breaks(s) : m # n + 1
<1>1. Len(s) \in Nat
  BY LenProperties DEF Bytes
<1>2. \A m, n \in Breaks(s) : m # n + 1
  BY DEF Breaks, CR, LF
<1> QED
  BY <1>1, <1>2 DEF Breaks, Lines

\* A line begins with its bytes and ends before a break or with the bytes.
LEMMA LineIs ==
  ASSUME NEW s \in Bytes, NEW p \in Lines(s)
  PROVE  /\ LineEnd(s, p) \in Nat /\ p <= LineEnd(s, p)
         /\ LineEnd(s, p) \in Breaks(s) \/ LineEnd(s, p) = Len(s) + 1
         /\ \A n \in Breaks(s) : p <= n => LineEnd(s, p) <= n
         /\ Line(s, p) \in Bytes
         /\ Len(Line(s, p)) = LineEnd(s, p) - p
         /\ \A i \in 1 .. LineEnd(s, p) - p : Line(s, p)[i] = s[p + i - 1]
<1> DEFINE S == {n \in Breaks(s) : n >= p} \cup {Len(s) + 1}
           e == LineEnd(s, p)
<1>1. /\ Len(s) \in Nat /\ Breaks(s) \subseteq Nat /\ p \in Nat /\ 1 <= p
      /\ p <= Len(s) + 1
  BY PlacesAre
<1>2. S \in SUBSET Nat /\ S # {}
  BY <1>1
<1>3. e \in S /\ \A n \in S : e <= n
  <2>1. e = Min(S)
    BY DEF LineEnd
  <2> HIDE DEF S, e
  <2> QED
    BY <1>2, <2>1, LeastIs
<1> HIDE DEF e
<1>4. /\ e \in Nat /\ p <= e /\ e <= Len(s) + 1
      /\ e \in Breaks(s) \/ e = Len(s) + 1
      /\ \A n \in Breaks(s) : p <= n => e <= n
  BY <1>1, <1>3
<1>5. \A i \in p .. e - 1 : s[i] \in STRING
  <2>1. \A i \in p .. e - 1 : i \in 1 .. Len(s)
    BY <1>1, <1>4
  <2> QED
    BY <2>1, ElementOfSeq DEF Bytes
<1>6. /\ SubSeq(s, p, e - 1) \in Seq(STRING)
      /\ Len(SubSeq(s, p, e - 1)) = IF p <= e - 1 THEN (e - 1) - p + 1 ELSE 0
      /\ \A i \in 1 .. (e - 1) - p + 1 :
           SubSeq(s, p, e - 1)[i] = s[p + i - 1]
  <2>1. p \in Int /\ e - 1 \in Int
    BY <1>1, <1>4
  <2> QED
    BY <1>5, <2>1, SubSeqProperties
<1>7. Line(s, p) = SubSeq(s, p, e - 1)
  BY DEF Line, e
<1>8. (e - 1) - p + 1 = e - p /\ (~(p <= e - 1) => e - p = 0)
  BY <1>1, <1>4
<1> QED
  BY <1>4, <1>6, <1>7, <1>8 DEF e, Bytes

LEMMA BreaksStay ==
  ASSUME NEW s \in Bytes, NEW t \in Bytes
  PROVE  /\ Breaks(s) \subseteq Breaks(s \o t)
         /\ \A n \in Breaks(s \o t) : n < Len(s) => n \in Breaks(s)
         /\ Lines(s) \subseteq Lines(s \o t)
         /\ \A p \in Lines(s \o t) : p <= Len(s) + 1 => p \in Lines(s)
<1> DEFINE u == s \o t
<1>1. /\ Len(s) \in Nat /\ Len(t) \in Nat /\ Len(u) = Len(s) + Len(t)
      /\ \A i \in 1 .. Len(s) : u[i] = s[i]
  BY Longer
<1> HIDE DEF u
<1>2. ASSUME NEW n \in 1 .. Len(s) - 1
      PROVE  n \in Breaks(u) <=> n \in Breaks(s)
  <2>1. /\ n \in 1 .. Len(s) /\ n + 1 \in 1 .. Len(s)
        /\ n \in 1 .. Len(u) - 1
    BY <1>1
  <2> QED
    BY <1>1, <2>1 DEF Breaks
<1>3. Breaks(s) \subseteq Breaks(u)
  BY <1>2 DEF Breaks
<1>4. \A n \in Breaks(u) : n < Len(s) => n \in Breaks(s)
  <2>1. \A n \in Breaks(u) : n < Len(s) => n \in 1 .. Len(s) - 1
    BY <1>1 DEF Breaks
  <2> QED
    BY <1>2, <2>1
<1>5. \A n \in Breaks(u) : n + 2 <= Len(s) + 1 => n < Len(s)
  BY <1>1 DEF Breaks
<1> QED
  BY <1>3, <1>4, <1>5 DEF Lines, u

\* A line that is complete stays what it is.
LEMMA CompleteLine ==
  ASSUME NEW s \in Bytes, NEW t \in Bytes, NEW p \in Lines(s),
         LineEnd(s, p) \in Breaks(s)
  PROVE  /\ p \in Lines(s \o t) /\ LineEnd(s \o t, p) = LineEnd(s, p)
         /\ Line(s \o t, p) = Line(s, p)
<1> DEFINE u == s \o t
           e == LineEnd(s, p)
<1>1. /\ Len(s) \in Nat /\ Len(t) \in Nat /\ Len(u) = Len(s) + Len(t)
      /\ u \in Bytes /\ \A i \in 1 .. Len(s) : u[i] = s[i]
  BY Longer
<1>2. p \in Lines(u)
  BY BreaksStay
<1>3. /\ e \in Nat /\ p <= e /\ e \in Breaks(s) /\ e < Len(s)
      /\ \A n \in Breaks(s) : p <= n => e <= n
  <2>1. e < Len(s)
    BY <1>1 DEF Breaks
  <2> QED
    BY <2>1, LineIs
<1>4. Len(Line(s, p)) = e - p /\ Line(s, p) \in Bytes
  BY LineIs
<1>5. \A i \in 1 .. e - p : Line(s, p)[i] = s[p + i - 1]
  BY LineIs
<1> HIDE DEF e, u
<1>6. LineEnd(u, p) = e
  <2>1. /\ LineEnd(u, p) \in Nat /\ p <= LineEnd(u, p)
        /\ LineEnd(u, p) \in Breaks(u) \/ LineEnd(u, p) = Len(u) + 1
        /\ \A n \in Breaks(u) : p <= n => LineEnd(u, p) <= n
    BY <1>1, <1>2, LineIs
  <2>2. e \in Breaks(u)
    BY <1>3, BreaksStay DEF u
  <2>3. LineEnd(u, p) <= e
    BY <1>3, <2>1, <2>2
  <2>4. LineEnd(u, p) \in Breaks(s)
    BY <1>1, <1>3, <2>1, <2>3, BreaksStay DEF u
  <2> QED
    BY <1>3, <2>1, <2>3, <2>4
<1>7. Line(u, p) = Line(s, p)
  <2>1. /\ Len(Line(u, p)) = e - p /\ Line(u, p) \in Bytes
        /\ \A i \in 1 .. e - p : Line(u, p)[i] = u[p + i - 1]
    BY <1>1, <1>2, <1>6, LineIs
  <2>2. ASSUME NEW i \in 1 .. e - p
        PROVE  Line(u, p)[i] = Line(s, p)[i]
    <3>1. p + i - 1 \in 1 .. Len(s)
      BY <1>1, <1>3, PlacesAre
    <3> QED
      BY <1>1, <1>5, <2>1, <3>1
  <2> QED
    BY <1>4, <2>1, <2>2, SeqEqual DEF Bytes
<1> QED
  BY <1>2, <1>6, <1>7 DEF u, e

-----------------------------------------------------------------------------
(* Headers.                                                                 *)

LEMMA ColonIs ==
  ASSUME NEW line \in Bytes
  PROVE  /\ Colon(line) # 0 => /\ Colon(line) \in 1 .. Len(line)
                               /\ line[Colon(line)] = ":"
         /\ \A i \in 1 .. Len(line) :
              line[i] = ":" => Colon(line) # 0 /\ Colon(line) <= i
<1> DEFINE I == {i \in 1 .. Len(line) : line[i] = ":"}
<1>1. Colon(line) = IF I # {} THEN Min(I) ELSE 0
  BY DEF Colon, SelectInSeq
<1>2. I \in SUBSET Nat /\ \A i \in I : i >= 1
  OBVIOUS
<1>3. CASE I = {}
  BY <1>1, <1>3
<1>4. CASE I # {}
  <2>1. Colon(line) \in I /\ \A i \in I : Colon(line) <= i
    <3> HIDE DEF I
    <3> QED
      BY <1>1, <1>2, <1>4, LeastIs
  <2> QED
    BY <2>1
<1> QED
  BY <1>3, <1>4

LEMMA EmptyLine ==
  ASSUME NEW line \in Bytes
  PROVE  /\ line = << >> <=> Len(line) = 0
         /\ line = << >> => Colon(line) = 0
<1>1. line = << >> <=> Len(line) = 0
  BY EmptySeq DEF Bytes
<1>2. ASSUME line = << >>
      PROVE  Colon(line) = 0
  <2>1. 1 .. Len(line) = {}
    BY <1>1, <1>2
  <2> QED
    BY <2>1, ColonIs
<1> QED
  BY <1>1, <1>2

\* A line that has its colon keeps its key, although the rest may be to come:
\* of what is there only a CR at the end can become part of a break.
LEMMA KeyStays ==
  ASSUME NEW s \in Bytes, NEW t \in Bytes, NEW p \in Lines(s),
         Colon(Line(s, p)) # 0
  PROVE  /\ p \in Lines(s \o t)
         /\ Colon(Line(s \o t, p)) = Colon(Line(s, p))
         /\ Key(Line(s \o t, p)) = Key(Line(s, p))
<1> DEFINE u == s \o t
           a == Line(s, p)
           b == Line(u, p)
           c == Colon(a)
<1>1. /\ Len(s) \in Nat /\ Len(t) \in Nat /\ Len(u) = Len(s) + Len(t)
      /\ u \in Bytes /\ \A i \in 1 .. Len(s) : u[i] = s[i]
  BY Longer
<1>2. p \in Lines(u) /\ p \in Nat /\ 1 <= p
  BY BreaksStay, PlacesAre
<1> HIDE DEF u
<1>3. /\ a \in Bytes /\ Len(a) = LineEnd(s, p) - p
      /\ \A i \in 1 .. LineEnd(s, p) - p : a[i] = s[p + i - 1]
      /\ LineEnd(s, p) \in Nat /\ p <= LineEnd(s, p)
      /\ LineEnd(s, p) \in Breaks(s) \/ LineEnd(s, p) = Len(s) + 1
      /\ \A n \in Breaks(s) : p <= n => LineEnd(s, p) <= n
  BY LineIs
<1>4. /\ b \in Bytes /\ Len(b) = LineEnd(u, p) - p
      /\ \A i \in 1 .. LineEnd(u, p) - p : b[i] = u[p + i - 1]
      /\ LineEnd(u, p) \in Nat /\ p <= LineEnd(u, p)
      /\ LineEnd(u, p) \in Breaks(u) \/ LineEnd(u, p) = Len(u) + 1
  BY <1>1, <1>2, LineIs
<1> HIDE DEF a, b
<1>5. c \in 1 .. Len(a) /\ a[c] = ":" /\ \A i \in 1 .. c - 1 : a[i] # ":"
  BY <1>3, ColonIs DEF a
<1> HIDE DEF c
<1>6. LineEnd(s, p) <= Len(s) + 1
  BY <1>1, <1>3 DEF Breaks
<1>7. c <= Len(b)
  <2> SUFFICES ASSUME LineEnd(u, p) - p < c
               PROVE  FALSE
    BY <1>3, <1>4, <1>5, <1>2
  <2> DEFINE e == LineEnd(u, p)
  <2>1. /\ e \in Nat /\ p <= e /\ e < p + c /\ e < LineEnd(s, p) /\ e <= Len(s)
    BY <1>2, <1>3, <1>4, <1>5, <1>6
  <2>2. e \in Breaks(u)
    BY <1>1, <1>4, <2>1
  <2>3. CASE e < Len(s)
    <3>1. e \in Breaks(s)
      BY <2>2, <2>3, BreaksStay DEF u
    <3> QED
      BY <1>3, <2>1, <3>1
  <2>4. CASE e = Len(s)
    <3>1. u[e] = CR /\ e \in 1 .. Len(s)
      BY <1>2, <2>1, <2>2, <2>4 DEF Breaks
    <3>2. p + c - 1 = e
      BY <1>2, <1>3, <1>5, <1>6, <2>1, <2>4
    <3>3. a[c] = s[e]
      BY <1>3, <1>5, <3>2
    <3> QED
      BY <1>1, <1>5, <3>1, <3>3 DEF CR
  <2> QED
    BY <1>1, <2>1, <2>3, <2>4
<1>8. ASSUME NEW i \in 1 .. c
      PROVE  b[i] = a[i] /\ i \in 1 .. Len(a) /\ i \in 1 .. Len(b)
  <2>1. /\ i \in 1 .. LineEnd(s, p) - p /\ i \in 1 .. LineEnd(u, p) - p
        /\ p + i - 1 \in 1 .. Len(s)
    BY <1>1, <1>2, <1>3, <1>4, <1>5, <1>6, <1>7
  <2> QED
    BY <1>1, <1>3, <1>4, <2>1
<1>9. Colon(b) = c
  <2>1. c \in 1 .. c /\ c \in 1 .. Len(b) /\ b[c] = ":"
    BY <1>5, <1>8
  <2>2. /\ Colon(b) # 0 /\ Colon(b) <= c /\ Colon(b) \in 1 .. Len(b)
        /\ b[Colon(b)] = ":"
    BY <1>4, <2>1, ColonIs
  <2>3. Colon(b) \in 1 .. c
    BY <1>4, <1>5, <2>2
  <2> QED
    BY <1>5, <1>8, <2>2, <2>3
<1>10. SubSeq(b, 1, c - 1) = SubSeq(a, 1, c - 1)
  <2>1. \A i \in 1 .. c - 1 : /\ i \in 1 .. c
                              /\ a[i] \in STRING /\ b[i] \in STRING
    BY <1>3, <1>4, <1>5, <1>8, ElementOfSeq DEF Bytes
  <2>2. 1 \in Int /\ c - 1 \in Int
    BY <1>5
  <2> DEFINE x == SubSeq(a, 1, c - 1)
             y == SubSeq(b, 1, c - 1)
  <2>3. /\ x \in Seq(STRING)
        /\ Len(x) = IF 1 <= c - 1 THEN (c - 1) - 1 + 1 ELSE 0
        /\ \A i \in 1 .. (c - 1) - 1 + 1 : x[i] = a[1 + i - 1]
    BY <2>1, <2>2, SubSeqProperties
  <2>4. /\ y \in Seq(STRING)
        /\ Len(y) = IF 1 <= c - 1 THEN (c - 1) - 1 + 1 ELSE 0
        /\ \A i \in 1 .. (c - 1) - 1 + 1 : y[i] = b[1 + i - 1]
    BY <2>1, <2>2, SubSeqProperties
  <2> HIDE DEF x, y
  <2>5. Len(x) = c - 1 /\ Len(y) = c - 1 /\ (c - 1) - 1 + 1 = c - 1
    BY <1>5, <2>3, <2>4
  <2>6. ASSUME NEW i \in 1 .. Len(x)
        PROVE  x[i] = y[i]
    <3>1. i \in 1 .. c - 1 /\ 1 + i - 1 = i
      BY <2>5
    <3> QED
      BY <1>8, <2>1, <2>3, <2>4, <2>5, <3>1
  <2>7. x = y
    BY <2>3, <2>4, <2>5, <2>6, SeqEqual
  <2> QED
    BY <2>7 DEF x, y
<1>11. Key(b) = Key(a)
  BY <1>9, <1>10 DEF Key, c
<1> QED
  BY <1>2, <1>9, <1>11 DEF u, a, b, c

-----------------------------------------------------------------------------
(* ParseHeader's loop on longer and longer bytes.                           *)

LEMMA StopsAre ==
  ASSUME NEW s \in Bytes
  PROVE  /\ Stops(s) \in SUBSET Nat
         /\ \A p \in Lines(s) \ {1} :
              p \in Stops(s) <=> \/ Ends(s, p)
                                \/ Colon(Line(s, p)) = 0
                                \/ Key(Line(s, p)) = << >>
         /\ \A p \in Lines(s) \ {1} : Line(s, p) = << >> => p \in Stops(s)
         /\ \A p \in Stops(s) : p \in Lines(s) \ {1}
<1>1. \A p \in Lines(s) : Line(s, p) = << >> => Colon(Line(s, p)) = 0
  BY LineIs, EmptyLine
<1>2. Lines(s) \subseteq Nat
  BY PlacesAre
<1> QED
  BY <1>1, <1>2 DEF Stops

\* The lines the loop went past it goes past again, and finds the same keys.
LEMMA PassedStay ==
  ASSUME NEW s \in Bytes, NEW t \in Bytes, NEW p \in Passed(s)
  PROVE  p \in Passed(s \o t) /\ Name(s \o t, p) = Name(s, p)
<1> DEFINE u == s \o t
<1>1. u \in Bytes
  BY Longer
<1>2. /\ p \in Lines(s) \ {1} /\ p \in Nat /\ p <= Len(s) + 1
      /\ Len(s) \in Nat /\ \A q \in Stops(s) : p < q
  BY PlacesAre DEF Passed
<1>3. ASSUME NEW q \in Lines(s) \ {1}, q <= p
      PROVE  /\ Colon(Line(s, q)) # 0 /\ Key(Line(u, q)) = Key(Line(s, q))
             /\ q \notin Stops(u)
  <2>1. q \in Nat /\ ~(p < q)
    BY <1>2, <1>3, PlacesAre
  <2>2. q \notin Stops(s)
    BY <1>2, <2>1
  <2>3. Colon(Line(s, q)) # 0 /\ Key(Line(s, q)) # << >>
    BY <2>2, StopsAre
  <2>4. /\ q \in Lines(u) \ {1} /\ Colon(Line(u, q)) = Colon(Line(s, q))
        /\ Key(Line(u, q)) = Key(Line(s, q))
    BY <2>3, KeyStays
  <2>5. Line(u, q) # << >>
    <3>1. Line(u, q) \in Bytes
      BY <1>1, <2>4, LineIs
    <3> HIDE DEF u
    <3> QED
      BY <2>3, <2>4, <3>1, EmptyLine
  <2>6. ~Ends(u, q)
    BY <2>5 DEF Ends
  <2>7. q \notin Stops(u)
    <3> HIDE DEF u
    <3> QED
      BY <1>1, <2>3, <2>4, <2>6, StopsAre
  <2> QED
    BY <2>3, <2>4, <2>7
<1>4. ASSUME NEW q \in Stops(u)
      PROVE  p < q
  <2>1. q \in Lines(u) \ {1} /\ q \in Nat
    <3> HIDE DEF u
    <3> QED
      BY <1>1, StopsAre, PlacesAre
  <2> SUFFICES ASSUME q <= p
               PROVE  FALSE
    BY <1>2, <2>1
  <2>2. q \in Lines(s) \ {1}
    BY <1>2, <2>1, BreaksStay
  <2> QED
    BY <1>3, <2>2
<1>5. p \in Lines(u) \ {1}
  BY <1>2, BreaksStay
<1>6. Key(Line(u, p)) = Key(Line(s, p))
  <2>1. p <= p
    BY <1>2
  <2> QED
    BY <1>2, <1>3, <2>1
<1> QED
  BY <1>4, <1>5, <1>6 DEF Passed, Name

\* Where the header ends: at an empty line between two breaks.
LEMMA EndIs ==
  ASSUME NEW s \in Bytes, Verdict(s) = "OK"
  PROVE  LET e == Min(Stops(s))
         IN /\ e \in Stops(s) /\ \A q \in Stops(s) : e <= q
            /\ e \in Nat /\ e \in Lines(s) \ {1} /\ Line(s, e) = << >>
            /\ e \in Breaks(s) /\ LineEnd(s, e) = e /\ e - 2 \in Breaks(s)
            /\ Passed(s) = {p \in Lines(s) \ {1} : p < e}
<1> DEFINE e == Min(Stops(s))
<1>1. Stops(s) # {} /\ Ends(s, e)
  BY DEF Verdict
<1>2. e \in Stops(s) /\ \A q \in Stops(s) : e <= q
  BY <1>1, StopsAre, LeastIs
<1> HIDE DEF e
<1>3. e \in Lines(s) \ {1} /\ e \in Nat
  BY <1>2, StopsAre
<1>4. Line(s, e) = << >> /\ LineEnd(s, e) \in Breaks(s)
  BY <1>1 DEF Ends
<1>5. LineEnd(s, e) = e
  <2>1. /\ Line(s, e) \in Bytes /\ Len(Line(s, e)) = LineEnd(s, e) - e
        /\ LineEnd(s, e) \in Nat
    BY <1>3, LineIs
  <2>2. Len(Line(s, e)) = 0
    BY <1>4, <2>1, EmptyLine
  <2> QED
    BY <1>3, <2>1, <2>2
<1>6. e - 2 \in Breaks(s)
  <2>1. PICK n \in Breaks(s) : e = n + 2
    BY <1>3 DEF Lines
  <2>2. n \in Nat
    BY PlacesAre
  <2>3. e - 2 = n
    BY <2>1, <2>2
  <2> QED
    BY <2>3
<1>7. \A p \in Lines(s) : p \in Nat
  BY PlacesAre
<1>8. \A p \in Lines(s) : (\A q \in Stops(s) : p < q) <=> p < e
  <2> SUFFICES ASSUME NEW p \in Lines(s)
               PROVE  (\A q \in Stops(s) : p < q) <=> p < e
    OBVIOUS
  <2>1. \A q \in Stops(s) : q \in Nat /\ e <= q
    BY <1>2, StopsAre
  <2>2. p \in Nat
    BY <1>7
  <2> QED
    BY <1>2, <1>3, <2>1, <2>2
<1>9. Passed(s) = {p \in Lines(s) \ {1} : p < e}
  BY <1>8 DEF Passed
<1> QED
  BY <1>2, <1>3, <1>4, <1>5, <1>6, <1>9 DEF e

\* A header that is OK stays so, with the same lines.
LEMMA OKStays ==
  ASSUME NEW s \in Bytes, NEW t \in Bytes, Verdict(s) = "OK"
  PROVE  /\ Verdict(s \o t) = "OK" /\ Min(Stops(s \o t)) = Min(Stops(s))
         /\ Passed(s \o t) = Passed(s)
         /\ \A p \in Passed(s) : Line(s \o t, p) = Line(s, p)
<1> DEFINE u == s \o t
           e == Min(Stops(s))
<1>1. u \in Bytes /\ Len(s) \in Nat
  BY Longer
<1>2. /\ e \in Stops(s) /\ e \in Nat /\ e \in Lines(s) \ {1}
      /\ Line(s, e) = << >> /\ e \in Breaks(s) /\ LineEnd(s, e) = e
      /\ e - 2 \in Breaks(s)
      /\ Passed(s) = {p \in Lines(s) \ {1} : p < e}
  BY EndIs
<1>3. e <= Len(s) + 1
  BY <1>2, PlacesAre
<1> HIDE DEF e
<1>4. /\ e \in Lines(u) \ {1} /\ LineEnd(u, e) = e /\ Line(u, e) = << >>
      /\ e \in Breaks(u)
  BY <1>2, CompleteLine, BreaksStay
<1>5. Ends(u, e)
  BY <1>4 DEF Ends
<1>6. ASSUME NEW q \in Stops(u)
      PROVE  e <= q
  <2>1. q \in Nat /\ q \in Lines(u) \ {1}
    <3> HIDE DEF u
    <3> QED
      BY <1>1, StopsAre
  <2> SUFFICES ASSUME q < e
               PROVE  FALSE
    BY <1>2, <2>1
  <2>2. q \in Lines(s) \ {1}
    BY <1>1, <1>2, <1>3, <2>1, BreaksStay
  <2>3. q \in Passed(s)
    BY <1>2, <2>2
  <2>4. q \in Passed(u)
    BY <2>3, PassedStay
  <2> QED
    BY <2>1, <2>4 DEF Passed
<1>7. e \in Stops(u)
  <2> HIDE DEF u
  <2> QED
    BY <1>1, <1>4, <1>5, StopsAre
<1>8. Min(Stops(u)) = e
  <2> HIDE DEF u
  <2> QED
    BY <1>1, <1>6, <1>7, StopsAre, LeastEquals
<1>9. Verdict(u) = "OK"
  BY <1>5, <1>7, <1>8 DEF Verdict
<1>10. Passed(u) = Passed(s)
  <2>1. Passed(u) = {p \in Lines(u) \ {1} : p < e}
    <3> HIDE DEF u
    <3> QED
      BY <1>1, <1>8, <1>9, EndIs
  <2>2. \A p \in Lines(u) : p < e => p \in Lines(s)
    <3>1. \A p \in Lines(u) : p \in Nat
      <4> HIDE DEF u
      <4> QED
        BY <1>1, PlacesAre
    <3> QED
      BY <1>1, <1>2, <1>3, <3>1, BreaksStay
  <2>3. Lines(s) \subseteq Lines(u)
    BY BreaksStay
  <2> QED
    BY <1>2, <2>1, <2>2, <2>3
<1>11. ASSUME NEW p \in Passed(s)
       PROVE  Line(u, p) = Line(s, p)
  <2>1. p \in Lines(s) \ {1} /\ p < e /\ p \in Nat
    BY <1>2, PlacesAre
  <2>2. p <= e - 2
    <3>1. PICK m \in Breaks(s) : p = m + 2
      BY <2>1 DEF Lines
    <3>2. m \in Nat /\ e # m + 1 /\ e - 2 # m + 1 /\ m # e
      BY <1>2, <2>1, <3>1, PlacesAre
    <3> QED
      BY <1>2, <2>1, <3>1, <3>2
  <2>3. /\ LineEnd(s, p) <= e - 2 /\ LineEnd(s, p) \in Nat
        /\ LineEnd(s, p) \in Breaks(s) \/ LineEnd(s, p) = Len(s) + 1
    BY <1>2, <2>1, <2>2, LineIs
  <2>4. LineEnd(s, p) \in Breaks(s)
    BY <1>1, <1>2, <1>3, <2>3
  <2> QED
    BY <2>1, <2>4, CompleteLine
<1> QED
  BY <1>8, <1>9, <1>10, <1>11 DEF e

-----------------------------------------------------------------------------
(* r.Headers.                                                               *)

\* What was in r.Headers before does not count when the same keys come again.
LEMMA SetForgets ==
  ASSUME NEW s, NEW lines, NEW h, NEW g,
         DOMAIN h \subseteq {Name(s, p) : p \in lines}, DOMAIN g = {}
  PROVE  Set(h, s, lines) = Set(g, s, lines)
<1> DEFINE names == {Name(s, p) : p \in lines}
           setting(key) == {p \in lines : Name(s, p) = key}
           last(key) == Value(Line(s, Max(setting(key))))
<1>1. \A key \in names : setting(key) # {}
  OBVIOUS
<1>2. DOMAIN h \cup names = names /\ DOMAIN g \cup names = names
  OBVIOUS
<1>3. /\ Set(h, s, lines) = [key \in DOMAIN h \cup names |->
             IF setting(key) = {} THEN h[key] ELSE last(key)]
      /\ Set(g, s, lines) = [key \in DOMAIN g \cup names |->
             IF setting(key) = {} THEN g[key] ELSE last(key)]
  BY DEF Set
<1> HIDE DEF names, setting, last
<1> QED
  BY <1>1, <1>2, <1>3

LEMMA SetNames ==
  ASSUME NEW s, NEW lines, NEW h
  PROVE  DOMAIN Set(h, s, lines)
           = DOMAIN h \cup {Name(s, p) : p \in lines}
<1> QED
  BY DEF Set

\* The headers of complete lines do not depend on what follows.
LEMMA SetStays ==
  ASSUME NEW s, NEW u, NEW k \in Nat, NEW lines \in SUBSET (0 .. k), NEW h,
         \A p \in lines : Line(u, p) = Line(s, p)
  PROVE  Set(h, u, lines) = Set(h, s, lines)
<1> DEFINE setting(v, key) == {p \in lines : Name(v, p) = key}
           names(v) == {Name(v, p) : p \in lines}
           last(v, key) == Value(Line(v, Max(setting(v, key))))
<1>1. \A p \in lines : Name(u, p) = Name(s, p)
  BY DEF Name
<1>2. names(u) = names(s) /\ \A key : setting(u, key) = setting(s, key)
  BY <1>1
<1>3. ASSUME NEW key, setting(s, key) # {}
      PROVE  last(u, key) = last(s, key)
  <2>1. setting(s, key) \in SUBSET (0 .. k)
    OBVIOUS
  <2>2. Max(setting(s, key)) \in setting(s, key)
    <3> HIDE DEF setting
    <3> QED
      BY <1>3, <2>1, GreatestIs
  <2>3. Max(setting(s, key)) \in lines
    BY <2>2
  <2> QED
    BY <1>2, <2>3
<1>4. ASSUME NEW v
      PROVE  Set(h, v, lines) = [key \in DOMAIN h \cup names(v) |->
               IF setting(v, key) = {} THEN h[key] ELSE last(v, key)]
  BY DEF Set
<1> HIDE DEF setting, names, last
<1> QED
  BY <1>2, <1>3, <1>4

-----------------------------------------------------------------------------
(* ParseBody.                                                               *)

LEMMA PlacesOfEnd ==
  ASSUME NEW s \in Bytes, NEW n \in Nat
  PROVE  n \in Places(s, EndOfHeader)
           <=> n + 1 \in Breaks(s) /\ n + 3 \in Breaks(s)
<1>1. Len(s) \in Nat /\ Len(EndOfHeader) = 4
  BY LenProperties DEF Bytes, EndOfHeader
<1>2. CASE n \in 0 .. Len(s) - 4
  <2> DEFINE x == SubSeq(s, n + 1, n + 4)
  <2>1. \A i \in n + 1 .. n + 4 : s[i] \in STRING
    BY <1>1, <1>2, ElementOfSeq DEF Bytes
  <2>2. /\ x \in Seq(STRING)
        /\ Len(x) = IF n + 1 <= n + 4 THEN (n + 4) - (n + 1) + 1 ELSE 0
        /\ \A i \in 1 .. (n + 4) - (n + 1) + 1 : x[i] = s[(n + 1) + i - 1]
    <3>1. n + 1 \in Int /\ n + 4 \in Int
      OBVIOUS
    <3> QED
      BY <2>1, <3>1, SubSeqProperties
  <2> HIDE DEF x
  <2>3. Len(x) = 4 /\ \A i \in 1 .. 4 : x[i] = s[n + i]
    <3>1. /\ (n + 4) - (n + 1) + 1 = 4 /\ n + 1 <= n + 4
          /\ \A i \in 1 .. 4 : (n + 1) + i - 1 = n + i
      OBVIOUS
    <3> QED
      BY <2>2, <3>1
  <2>4. /\ x[1] = s[n + 1] /\ x[2] = s[n + 2]
        /\ x[3] = s[n + 3] /\ x[4] = s[n + 4]
    BY <2>3
  <2>5. /\ EndOfHeader \in Seq(STRING \cup {CR, LF})
        /\ EndOfHeader[1] = CR /\ EndOfHeader[2] = LF
        /\ EndOfHeader[3] = CR /\ EndOfHeader[4] = LF
    BY DEF EndOfHeader
  <2>6. x = EndOfHeader <=> /\ s[n + 1] = CR /\ s[n + 2] = LF
                            /\ s[n + 3] = CR /\ s[n + 4] = LF
    <3>1. ASSUME /\ s[n + 1] = CR /\ s[n + 2] = LF
                 /\ s[n + 3] = CR /\ s[n + 4] = LF
          PROVE  x = EndOfHeader
      <4>1. \A i \in 1 .. 4 : i = 1 \/ i = 2 \/ i = 3 \/ i = 4
        OBVIOUS
      <4>2. \A i \in 1 .. Len(x) : x[i] = EndOfHeader[i]
        BY <2>3, <2>4, <2>5, <3>1, <4>1
      <4>3. Len(x) = Len(EndOfHeader)
        BY <1>1, <2>3
      <4>4. x \in Seq(STRING \cup {CR, LF})
        <5>1. \A i \in 1 .. Len(x) : x[i] \in STRING
          BY <2>2, ElementOfSeq
        <5> QED
          BY <2>2, <5>1, LenProperties, SeqDef
      <4> QED
        BY <2>5, <4>2, <4>3, <4>4, SeqEqual
    <3> QED
      BY <2>4, <2>5, <3>1
  <2>7. n + 1 \in Breaks(s) <=> s[n + 1] = CR /\ s[n + 2] = LF
    <3>1. n + 1 \in 1 .. Len(s) - 1 /\ (n + 1) + 1 = n + 2
      BY <1>1, <1>2
    <3> QED
      BY <3>1 DEF Breaks
  <2>8. n + 3 \in Breaks(s) <=> s[n + 3] = CR /\ s[n + 4] = LF
    <3>1. n + 3 \in 1 .. Len(s) - 1 /\ (n + 3) + 1 = n + 4
      BY <1>1, <1>2
    <3> QED
      BY <3>1 DEF Breaks
  <2>9. n \in Places(s, EndOfHeader) <=> x = EndOfHeader
    BY <1>1, <1>2 DEF Places, x
  <2> QED
    BY <2>6, <2>7, <2>8, <2>9
<1>3. CASE n \notin 0 .. Len(s) - 4
  <2>1. n \notin Places(s, EndOfHeader)
    BY <1>1, <1>3 DEF Places
  <2>2. n + 3 \notin Breaks(s)
    BY <1>1, <1>3 DEF Breaks
  <2> QED
    BY <2>1, <2>2
<1> QED
  BY <1>2, <1>3

\* ParseBody, which searches bytes, finds the end ParseHeader found in lines.
LEMMA BodyStartIs ==
  ASSUME NEW s \in Bytes, Verdict(s) = "OK"
  PROVE  /\ BodyStart(s) = Min(Stops(s)) + 1
         /\ BodyStart(s) \in 4 .. Len(s)
<1> DEFINE e == Min(Stops(s))
           found == Places(s, EndOfHeader) \cap 0 .. Len(s) - 5
<1>1. /\ e \in Nat /\ e \in Breaks(s) /\ e - 2 \in Breaks(s)
      /\ \A q \in Stops(s) : e <= q
  BY EndIs
<1>2. Len(s) \in Nat
  BY PlacesAre
<1> HIDE DEF e
<1>3. e - 3 \in 0 .. Len(s) - 4
  BY <1>1, <1>2 DEF Breaks
<1>4. e - 3 \in Places(s, EndOfHeader)
  <2>1. e - 3 \in Nat /\ (e - 3) + 1 = e - 2 /\ (e - 3) + 3 = e
    BY <1>1, <1>2, <1>3
  <2> QED
    BY <1>1, <2>1, PlacesOfEnd
<1>5. ASSUME NEW n \in Places(s, EndOfHeader)
      PROVE  n \in Nat /\ e - 3 <= n
  <2>1. n \in Nat
    BY DEF Places
  <2>2. n + 1 \in Breaks(s) /\ n + 3 \in Breaks(s)
    BY <2>1, PlacesOfEnd
  <2>3. n + 3 \in Lines(s) \ {1} /\ n + 3 \in Nat
    <3>1. (n + 1) + 2 = n + 3 /\ n + 3 # 1 /\ n + 3 \in Nat
      BY <2>1
    <3> QED
      BY <2>2, <3>1 DEF Lines
  <2>4. LineEnd(s, n + 3) = n + 3
    <3>1. n + 3 <= n + 3
      BY <2>1
    <3>2. /\ LineEnd(s, n + 3) <= n + 3 /\ n + 3 <= LineEnd(s, n + 3)
          /\ LineEnd(s, n + 3) \in Nat
      BY <2>2, <2>3, <3>1, LineIs
    <3> QED
      BY <2>3, <3>2
  <2>5. Line(s, n + 3) = << >>
    <3>1. /\ Line(s, n + 3) \in Bytes
          /\ Len(Line(s, n + 3)) = (n + 3) - (n + 3)
      BY <2>3, <2>4, LineIs
    <3>2. Len(Line(s, n + 3)) = 0
      BY <2>3, <3>1
    <3> QED
      BY <3>1, <3>2, EmptyLine
  <2>6. n + 3 \in Stops(s)
    BY <2>3, <2>5, StopsAre
  <2>7. e <= n + 3
    BY <1>1, <2>6
  <2> QED
    BY <1>1, <2>1, <2>7
<1> DEFINE S == found \cup {Len(s) - 4}
<1>6. S \in SUBSET Nat
  BY <1>2, <1>3
<1>7. e - 3 \in S
  <2>1. CASE e - 3 = Len(s) - 4
    BY <2>1
  <2>2. CASE e - 3 # Len(s) - 4
    <3>1. e - 3 \in 0 .. Len(s) - 5
      BY <1>1, <1>2, <1>3, <2>2
    <3> QED
      BY <1>4, <3>1
  <2> QED
    BY <2>1, <2>2
<1>8. \A n \in S : e - 3 <= n
  <2>1. e - 3 <= Len(s) - 4
    BY <1>1, <1>2, <1>3
  <2> QED
    BY <1>5, <2>1
<1>9. Min(S) = e - 3
  <2> HIDE DEF S
  <2> QED
    BY <1>6, <1>7, <1>8, LeastEquals
<1>10. BodyStart(s) = Min(S) + 4
  BY DEF BodyStart
<1> HIDE DEF S
<1>11. BodyStart(s) = (e - 3) + 4
  BY <1>9, <1>10
<1> QED
  BY <1>1, <1>2, <1>3, <1>11 DEF e

\* The part of the bytes behind place b.
LEMMA TailGrows ==
  ASSUME NEW s \in Bytes, NEW t \in Bytes, NEW b \in 0 .. Len(s)
  PROVE  SubSeq(s \o t, b + 1, Len(s \o t)) = SubSeq(s, b + 1, Len(s)) \o t
<1> DEFINE u == s \o t
           x == SubSeq(u, b + 1, Len(u))
           y == SubSeq(s, b + 1, Len(s))
<1>1. /\ u \in Bytes /\ Len(s) \in Nat /\ Len(t) \in Nat
      /\ Len(u) = Len(s) + Len(t)
      /\ \A i \in 1 .. Len(s) : u[i] = s[i]
      /\ \A i \in 1 .. Len(t) : u[Len(s) + i] = t[i]
  BY Longer
<1> HIDE DEF u
<1>2. b + 1 \in Int /\ Len(u) \in Int /\ Len(s) \in Int /\ b \in Nat
  BY <1>1
<1>3. /\ x \in Seq(STRING) /\ Len(x) = Len(u) - b
      /\ \A i \in 1 .. Len(u) - b : x[i] = u[b + i]
  <2>1. \A i \in b + 1 .. Len(u) : u[i] \in STRING
    <3>1. \A i \in b + 1 .. Len(u) : i \in 1 .. Len(u)
      BY <1>1, <1>2
    <3> QED
      BY <1>1, <3>1, ElementOfSeq DEF Bytes
  <2>2. /\ x \in Seq(STRING)
        /\ Len(x) = IF b + 1 <= Len(u) THEN Len(u) - (b + 1) + 1 ELSE 0
        /\ \A i \in 1 .. Len(u) - (b + 1) + 1 : x[i] = u[(b + 1) + i - 1]
    BY <1>2, <2>1, SubSeqProperties
  <2> HIDE DEF x
  <2>3. /\ Len(u) - (b + 1) + 1 = Len(u) - b
        /\ \A i \in 1 .. Len(u) - b : (b + 1) + i - 1 = b + i
        /\ ~(b + 1 <= Len(u)) => Len(u) - b = 0
    BY <1>1, <1>2
  <2> QED
    BY <2>2, <2>3
<1>4. /\ y \in Seq(STRING) /\ Len(y) = Len(s) - b
      /\ \A i \in 1 .. Len(s) - b : y[i] = s[b + i]
  <2>1. \A i \in b + 1 .. Len(s) : s[i] \in STRING
    <3>1. \A i \in b + 1 .. Len(s) : i \in 1 .. Len(s)
      BY <1>1, <1>2
    <3> QED
      BY <1>1, <3>1, ElementOfSeq DEF Bytes
  <2>2. /\ y \in Seq(STRING)
        /\ Len(y) = IF b + 1 <= Len(s) THEN Len(s) - (b + 1) + 1 ELSE 0
        /\ \A i \in 1 .. Len(s) - (b + 1) + 1 : y[i] = s[(b + 1) + i - 1]
    BY <1>2, <2>1, SubSeqProperties
  <2> HIDE DEF y
  <2>3. /\ Len(s) - (b + 1) + 1 = Len(s) - b
        /\ \A i \in 1 .. Len(s) - b : (b + 1) + i - 1 = b + i
        /\ ~(b + 1 <= Len(s)) => Len(s) - b = 0
    BY <1>1, <1>2
  <2> QED
    BY <2>2, <2>3
<1> HIDE DEF x, y
<1>5. /\ y \o t \in Seq(STRING) /\ Len(y \o t) = Len(y) + Len(t)
      /\ \A i \in 1 .. Len(y) + Len(t) :
           (y \o t)[i] = IF i <= Len(y) THEN y[i] ELSE t[i - Len(y)]
  BY <1>4, ConcatProperties DEF Bytes
<1>6. Len(x) = Len(y \o t)
  BY <1>1, <1>2, <1>3, <1>4, <1>5
<1>7. ASSUME NEW i \in 1 .. Len(x)
      PROVE  x[i] = (y \o t)[i]
  <2>1. i \in 1 .. Len(y) + Len(t) /\ x[i] = u[b + i]
    BY <1>3, <1>5, <1>6
  <2>2. CASE i <= Len(y)
    <3>1. i \in 1 .. Len(s) - b /\ b + i \in 1 .. Len(s)
      BY <1>1, <1>2, <1>4, <2>2
    <3> QED
      BY <1>1, <1>4, <1>5, <2>1, <2>2, <3>1
  <2>3. CASE ~(i <= Len(y))
    <3>1. i - Len(y) \in 1 .. Len(t) /\ Len(s) + (i - Len(y)) = b + i
      BY <1>1, <1>2, <1>4, <2>1, <2>3
    <3> QED
      BY <1>1, <1>5, <2>1, <2>3, <3>1
  <2> QED
    BY <2>2, <2>3
<1>8. x = y \o t
  BY <1>3, <1>5, <1>6, <1>7, SeqEqual
<1> QED
  BY <1>8 DEF x, y, u

-----------------------------------------------------------------------------
(* ParseHeader.                                                             *)

IsReq(r) == r = [Method |-> r.Method, Path |-> r.Path,
                 Protocol |-> r.Protocol, Headers |-> r.Headers]

First(s) == Words(Line(s, 1))

Refused == {"FirstLineInvalid", "MethodInvalid", "PathInvalid",
            "ProtocolInvalid"}

\* What is wrong with the words of a first line.
Refusal(words) ==
  IF Len(words) # 3 THEN "FirstLineInvalid"
  ELSE IF words[1] \notin Methods THEN "MethodInvalid"
  ELSE IF words[2] = << >> THEN "PathInvalid"
  ELSE IF words[3] \notin Protocols THEN "ProtocolInvalid"
  ELSE "nothing"

Judged(s) == s # << >> /\ ~Cut(s)

\* The loop over the header lines is reached.
Looped(s) ==
  /\ Judged(s)
  /\ Refusal(First(s)) = "nothing"
  /\ Breaks(s) # {LineEnd(s, 1)}

LEMMA Overwritten ==
  ASSUME NEW r, IsReq(r), NEW a
  PROVE  /\ [r EXCEPT !.Method = a]
              = [Method |-> a, Path |-> r.Path,
                 Protocol |-> r.Protocol, Headers |-> r.Headers]
         /\ [r EXCEPT !.Path = a]
              = [Method |-> r.Method, Path |-> a,
                 Protocol |-> r.Protocol, Headers |-> r.Headers]
         /\ [r EXCEPT !.Protocol = a]
              = [Method |-> r.Method, Path |-> r.Path,
                 Protocol |-> a, Headers |-> r.Headers]
         /\ [r EXCEPT !.Headers = a]
              = [Method |-> r.Method, Path |-> r.Path,
                 Protocol |-> r.Protocol, Headers |-> a]
<1>1. [r EXCEPT !.Method = a]
        = [Method |-> a, Path |-> r.Path,
           Protocol |-> r.Protocol, Headers |-> r.Headers]
  BY DEF IsReq
<1>2. [r EXCEPT !.Path = a]
        = [Method |-> r.Method, Path |-> a,
           Protocol |-> r.Protocol, Headers |-> r.Headers]
  BY DEF IsReq
<1>3. [r EXCEPT !.Protocol = a]
        = [Method |-> r.Method, Path |-> r.Path,
           Protocol |-> a, Headers |-> r.Headers]
  BY DEF IsReq
<1>4. [r EXCEPT !.Headers = a]
        = [Method |-> r.Method, Path |-> r.Path,
           Protocol |-> r.Protocol, Headers |-> a]
  BY DEF IsReq
<1> QED
  BY <1>1, <1>2, <1>3, <1>4

LEMMA VerdictIs ==
  ASSUME NEW s
  PROVE  Verdict(s) \in {"NeedReadMore", "OK", "InvalidHeaders", "panic"}
<1> QED
  BY DEF Verdict

\* What ParseHeader makes of r.
LEMMA ParsedIs ==
  ASSUME NEW r, IsReq(r), NEW s
  PROVE  /\ Looped(s) => ParseHeader(r, s) =
              <<Verdict(s),
                [Method |-> First(s)[1], Path |-> First(s)[2],
                 Protocol |-> First(s)[3],
                 Headers |-> Set(r.Headers, s, Passed(s))]>>
         /\ ~Looped(s) => /\ ParseHeader(r, s)[1] # "OK"
                          /\ IsReq(ParseHeader(r, s)[2])
                          /\ ParseHeader(r, s)[2].Headers = r.Headers
         /\ ParseHeader(r, s)[1] \in Refused
              <=> Judged(s) /\ Refusal(First(s)) # "nothing"
         /\ Judged(s) /\ Refusal(First(s)) # "nothing"
              => ParseHeader(r, s)[1] = Refusal(First(s))
<1> DEFINE words == First(s)
           m == [r EXCEPT !.Method = words[1]]
           p == [m EXCEPT !.Path = words[2]]
           f == [p EXCEPT !.Protocol = words[3]]
           h == [f EXCEPT !.Headers = Set(r.Headers, s, Passed(s))]
           whole == [Method |-> words[1], Path |-> words[2],
                     Protocol |-> words[3],
                     Headers |-> Set(r.Headers, s, Passed(s))]
<1>1. ParseHeader(r, s) =
        IF s = << >> THEN <<"None", r>>
        ELSE IF Cut(s) THEN <<"UnknowInvalid", r>>
        ELSE IF Len(words) # 3 THEN <<"FirstLineInvalid", r>>
        ELSE IF words[1] \notin Methods THEN <<"MethodInvalid", r>>
        ELSE IF words[2] = << >> THEN <<"PathInvalid", m>>
        ELSE IF words[3] \notin Protocols THEN <<"ProtocolInvalid", p>>
        ELSE IF Breaks(s) = {LineEnd(s, 1)} THEN <<"NeedReadMore", f>>
        ELSE <<Verdict(s), h>>
  BY DEF ParseHeader, First
<1>2. /\ m = [Method |-> words[1], Path |-> r.Path,
              Protocol |-> r.Protocol, Headers |-> r.Headers]
      /\ IsReq(m)
  <2>1. m = [Method |-> words[1], Path |-> r.Path,
             Protocol |-> r.Protocol, Headers |-> r.Headers]
    BY Overwritten
  <2> HIDE DEF m
  <2> QED
    BY <2>1 DEF IsReq
<1> HIDE DEF m
<1>3. /\ p = [Method |-> words[1], Path |-> words[2],
              Protocol |-> r.Protocol, Headers |-> r.Headers]
      /\ IsReq(p)
  <2>1. p = [Method |-> m.Method, Path |-> words[2],
             Protocol |-> m.Protocol, Headers |-> m.Headers]
    <3>1. IsReq(m)
      BY <1>2
    <3> QED
      BY <3>1, Overwritten
  <2> HIDE DEF p
  <2> QED
    BY <1>2, <2>1 DEF IsReq
<1> HIDE DEF p
<1>4. /\ f = [Method |-> words[1], Path |-> words[2],
              Protocol |-> words[3], Headers |-> r.Headers]
      /\ IsReq(f)
  <2>1. f = [Method |-> p.Method, Path |-> p.Path,
             Protocol |-> words[3], Headers |-> p.Headers]
    <3>1. IsReq(p)
      BY <1>3
    <3> QED
      BY <3>1, Overwritten
  <2> HIDE DEF f
  <2> QED
    BY <1>3, <2>1 DEF IsReq
<1> HIDE DEF f
<1>5. h = whole
  <2>1. h = [Method |-> f.Method, Path |-> f.Path,
             Protocol |-> f.Protocol,
             Headers |-> Set(r.Headers, s, Passed(s))]
    <3>1. IsReq(f)
      BY <1>4
    <3> QED
      BY <3>1, Overwritten
  <2> HIDE DEF h
  <2> QED
    BY <1>4, <2>1
<1> HIDE DEF h, whole, words
<1>6. Looped(s) => ParseHeader(r, s) = <<Verdict(s), whole>>
  BY <1>1, <1>5 DEF Looped, Judged, Refusal, words
<1>7. ~Looped(s) => /\ ParseHeader(r, s)[1] # "OK"
                    /\ IsReq(ParseHeader(r, s)[2])
                    /\ ParseHeader(r, s)[2].Headers = r.Headers
  <2>1. ~Looped(s) => \/ s = << >> \/ Cut(s) \/ Len(words) # 3
                      \/ words[1] \notin Methods \/ words[2] = << >>
                      \/ words[3] \notin Protocols
                      \/ Breaks(s) = {LineEnd(s, 1)}
    BY DEF Looped, Judged, Refusal, words
  <2>2. m.Headers = r.Headers /\ p.Headers = r.Headers /\ f.Headers = r.Headers
    BY <1>2, <1>3, <1>4
  <2>3. IsReq(r) /\ IsReq(m) /\ IsReq(p) /\ IsReq(f)
    BY <1>2, <1>3, <1>4
  <2> QED
    BY <1>1, <2>1, <2>2, <2>3
<1>8. CASE Judged(s) /\ Refusal(words) # "nothing"
  <2>1. /\ ParseHeader(r, s)[1] = Refusal(words)
        /\ Refusal(words) \in Refused
    BY <1>1, <1>8 DEF Judged, Refusal, Refused
  <2> QED
    BY <1>6, <1>7, <1>8, <2>1 DEF words, whole
<1>9. CASE ~(Judged(s) /\ Refusal(words) # "nothing")
  <2>1. ParseHeader(r, s)[1]
          \in {"None", "UnknowInvalid", "NeedReadMore", Verdict(s)}
    BY <1>1, <1>9 DEF Judged, Refusal
  <2>2. ParseHeader(r, s)[1] \notin Refused
    BY <2>1, VerdictIs DEF Refused
  <2> QED
    BY <1>6, <1>7, <1>9, <2>2 DEF words, whole
<1> QED
  BY <1>8, <1>9

LEMMA FirstIsLine ==
  ASSUME NEW s \in Bytes, ~Cut(s)
  PROVE  1 \in Lines(s) /\ LineEnd(s, 1) \in Breaks(s)
<1>1. 1 \in Lines(s)
  BY DEF Lines
<1>2. PICK n \in Breaks(s) : TRUE
  BY DEF Cut
<1>3. n \in Nat /\ 1 <= n /\ n < Len(s) /\ Len(s) \in Nat
  BY PlacesAre DEF Breaks
<1>4. /\ LineEnd(s, 1) \in Nat /\ LineEnd(s, 1) <= n
      /\ LineEnd(s, 1) \in Breaks(s) \/ LineEnd(s, 1) = Len(s) + 1
  BY <1>1, <1>3, LineIs
<1>5. LineEnd(s, 1) # Len(s) + 1
  BY <1>3, <1>4
<1> QED
  BY <1>1, <1>4, <1>5

\* A first line that was judged is judged the same again.
LEMMA JudgedStays ==
  ASSUME NEW s \in Bytes, NEW t \in Bytes, Judged(s)
  PROVE  Judged(s \o t) /\ First(s \o t) = First(s)
         /\ LineEnd(s \o t, 1) = LineEnd(s, 1)
<1>1. /\ 1 \in Lines(s) /\ LineEnd(s, 1) \in Breaks(s)
  BY FirstIsLine DEF Judged
<1>2. Line(s \o t, 1) = Line(s, 1) /\ LineEnd(s \o t, 1) = LineEnd(s, 1)
  BY <1>1, CompleteLine
<1>3. ~Cut(s \o t)
  BY <1>1, BreaksStay DEF Cut
<1>4. s \o t # << >>
  <2>1. /\ Len(s \o t) = Len(s) + Len(t) /\ Len(s) \in Nat /\ Len(t) \in Nat
        /\ s \o t \in Bytes
    BY Longer
  <2>2. Len(s) # 0
    BY EmptyLine DEF Judged
  <2>3. Len(s \o t) # 0
    BY <2>1, <2>2
  <2> QED
    BY <2>1, <2>3, EmptyLine
<1> QED
  BY <1>2, <1>3, <1>4 DEF Judged, First

LEMMA LoopedStays ==
  ASSUME NEW s \in Bytes, NEW t \in Bytes, Looped(s)
  PROVE  Looped(s \o t)
<1>1. Judged(s) /\ Refusal(First(s)) = "nothing"
      /\ Breaks(s) # {LineEnd(s, 1)}
  BY DEF Looped
<1>2. /\ Judged(s \o t) /\ First(s \o t) = First(s)
      /\ LineEnd(s \o t, 1) = LineEnd(s, 1)
  BY <1>1, JudgedStays
<1>3. LineEnd(s, 1) \in Breaks(s)
  BY <1>1, FirstIsLine DEF Judged
<1>4. Breaks(s \o t) # {LineEnd(s, 1)}
  BY <1>1, <1>3, BreaksStay
<1> QED
  BY <1>1, <1>2, <1>4 DEF Looped

-----------------------------------------------------------------------------
(* The invariant.                                                           *)

Typed == buf \in Bytes /\ IsReq(req)

\* What calls on less than the whole left in r.Headers comes again.
Comes == DOMAIN req.Headers \subseteq {Name(buf, p) : p \in Passed(buf)}

\* A refusal is about a first line that is complete.
AboutFirst ==
  code \in Refused =>
    /\ Judged(buf) /\ code = Refusal(First(buf))
    /\ ~BodyPanics(buf)

RequestInv == Typed /\ Comes /\ AboutFirst /\ SameAsOnce

LEMMA ReqInitIs ==
  /\ IsReq(ReqInit)
  /\ DOMAIN ReqInit.Headers = {}
<1>1. IsReq(ReqInit)
  BY DEF IsReq, ReqInit
<1>2. ReqInit.Headers = << >>
  BY DEF ReqInit
<1> HIDE DEF ReqInit
<1>3. << >> \in Seq(STRING) /\ Len(<< >>) = 0
  BY EmptySeq
<1>4. DOMAIN << >> = 1 .. 0
  BY <1>3, LenProperties
<1> QED
  BY <1>1, <1>2, <1>4

LEMMA InitInv == Init => RequestInv
<1> SUFFICES ASSUME Init
             PROVE  RequestInv
  OBVIOUS
<1>1. buf = << >> /\ code = "None" /\ req = ReqInit
  BY DEF Init
<1>2. Typed
  BY <1>1, ReqInitIs, EmptySeq DEF Typed, Bytes
<1>3. Comes
  BY <1>1, ReqInitIs DEF Comes
<1>4. AboutFirst
  BY <1>1 DEF AboutFirst, Refused
<1>5. SameAsOnce
  BY <1>1 DEF SameAsOnce
<1> QED
  BY <1>2, <1>3, <1>4, <1>5 DEF RequestInv

\* The names of the lines gone past are still among those gone past.
LEMMA NamesStay ==
  ASSUME NEW s \in Bytes, NEW t \in Bytes
  PROVE  {Name(s, p) : p \in Passed(s)}
           \subseteq {Name(s \o t, p) : p \in Passed(s \o t)}
<1> SUFFICES ASSUME NEW p \in Passed(s)
             PROVE  /\ p \in Passed(s \o t)
                    /\ Name(s, p) = Name(s \o t, p)
  OBVIOUS
<1> QED
  BY PassedStay

\* ParseHeader, called again with more.
LEMMA ParseKeeps ==
  ASSUME RequestInv, NEW chunk \in Bytes, Parse(chunk)
  PROVE  RequestInv' /\ (code \in Refused => code' = code)
<1> DEFINE u == buf \o chunk
           parsed == ParseHeader(req, u)
           names == {Name(u, p) : p \in Passed(u)}
<1>1. buf \in Bytes /\ IsReq(req)
  BY DEF RequestInv, Typed
<1>2. u \in Bytes
  BY <1>1, Longer
<1>3. /\ buf' = u /\ req' = parsed[2]
      /\ code' = IF parsed[1] = "panic" \/ BodyPanics(u)
                 THEN "panic" ELSE parsed[1]
      /\ code' = "OK" => /\ body' = ParseBody(u)
                         /\ valid' = RequestBodyValid(req', body')
  BY DEF Parse, Read
<1>4. DOMAIN req.Headers \subseteq names
  BY <1>1, NamesStay DEF RequestInv, Comes
<1>5. /\ Judged(buf) => Judged(u) /\ First(u) = First(buf)
      /\ ~BodyPanics(buf) => ~BodyPanics(u)
  <2>1. /\ Len(u) = Len(buf) + Len(chunk)
        /\ Len(buf) \in Nat /\ Len(chunk) \in Nat
    BY <1>1, Longer
  <2>2. ~BodyPanics(buf) => ~BodyPanics(u)
    BY <2>1 DEF BodyPanics
  <2> QED
    BY <1>1, <2>2, JudgedStays
<1>6. /\ code \in Refused => /\ Judged(buf) /\ code = Refusal(First(buf))
                             /\ ~BodyPanics(buf)
  BY DEF RequestInv, AboutFirst
<1> HIDE DEF u
<1>7. /\ Looped(u) => parsed =
           <<Verdict(u), [Method |-> First(u)[1], Path |-> First(u)[2],
                          Protocol |-> First(u)[3],
                          Headers |-> Set(req.Headers, u, Passed(u))]>>
      /\ ~Looped(u) => /\ parsed[1] # "OK" /\ IsReq(parsed[2])
                       /\ parsed[2].Headers = req.Headers
      /\ parsed[1] \in Refused
           <=> Judged(u) /\ Refusal(First(u)) # "nothing"
      /\ Judged(u) /\ Refusal(First(u)) # "nothing"
           => parsed[1] = Refusal(First(u))
  BY <1>1, ParsedIs
<1> HIDE DEF parsed
<1>8. Typed'
  <2>1. CASE Looped(u)
    <3>1. IsReq(req')
      BY <1>3, <1>7, <2>1 DEF IsReq
    <3> QED
      BY <1>2, <1>3, <3>1 DEF Typed, IsReq
  <2>2. CASE ~Looped(u)
    <3>1. IsReq(req')
      BY <1>3, <1>7, <2>2
    <3> QED
      BY <1>2, <1>3, <3>1 DEF Typed, IsReq
  <2> QED
    BY <2>1, <2>2
<1>9. DOMAIN req'.Headers \subseteq names
  <2>1. CASE Looped(u)
    <3>1. req'.Headers = Set(req.Headers, u, Passed(u))
      BY <1>3, <1>7, <2>1
    <3>2. DOMAIN Set(req.Headers, u, Passed(u)) = DOMAIN req.Headers \cup names
      BY SetNames
    <3> HIDE DEF names
    <3> QED
      BY <1>4, <3>1, <3>2
  <2>2. CASE ~Looped(u)
    <3>1. req'.Headers = req.Headers
      BY <1>3, <1>7, <2>2
    <3> QED
      BY <1>4, <3>1
  <2> QED
    BY <2>1, <2>2
<1>10. Comes'
  <2>1. {Name(buf, p) : p \in Passed(buf)}' = names
    BY <1>3
  <2> QED
    BY <1>9, <2>1 DEF Comes
<1>11. code \in Refused => code' = code
  <2> SUFFICES ASSUME code \in Refused
               PROVE  code' = code
    OBVIOUS
  <2>1. /\ Judged(u) /\ First(u) = First(buf) /\ code = Refusal(First(buf))
        /\ ~BodyPanics(u)
    BY <1>5, <1>6
  <2>2. code # "nothing" /\ code # "panic"
    BY DEF Refused
  <2>3. parsed[1] = code
    BY <1>7, <2>1, <2>2
  <2> QED
    BY <1>3, <2>1, <2>2, <2>3
<1>12. AboutFirst'
  <2>1. ASSUME code' \in Refused
        PROVE  /\ Judged(u) /\ code' = Refusal(First(u))
               /\ ~BodyPanics(u)
    <3>1. "panic" \notin Refused
      BY DEF Refused
    <3>2. code' = parsed[1] /\ ~BodyPanics(u)
      BY <1>3, <2>1, <3>1
    <3> QED
      BY <1>7, <2>1, <3>2
  <2>2. Refused' = Refused
    BY DEF Refused
  <2>3. /\ Judged(buf)' <=> Judged(u)
        /\ Refusal(First(buf))' = Refusal(First(u))
        /\ BodyPanics(buf)' <=> BodyPanics(u)
    BY <1>3
  <2> QED
    BY <2>1, <2>2, <2>3 DEF AboutFirst
<1>13. SameAsOnce'
  <2>1. ASSUME code' = "OK"
        PROVE  /\ ParseHeader(ReqInit, u) = <<"OK", req'>>
               /\ body' = ParseBody(u)
               /\ valid' = RequestBodyValid(req', ParseBody(u))
    <3>1. parsed[1] = "OK"
      BY <1>3, <2>1
    <3>2. Looped(u)
      BY <1>7, <3>1
    <3> DEFINE whole(h) == [Method |-> First(u)[1], Path |-> First(u)[2],
                            Protocol |-> First(u)[3], Headers |-> h]
    <3>3. /\ Verdict(u) = "OK"
          /\ req' = whole(Set(req.Headers, u, Passed(u)))
      BY <1>3, <1>7, <3>1, <3>2
    <3>4. ParseHeader(ReqInit, u)
            = <<Verdict(u), whole(Set(ReqInit.Headers, u, Passed(u)))>>
      BY <3>2, ReqInitIs, ParsedIs
    <3>5. Set(req.Headers, u, Passed(u)) = Set(ReqInit.Headers, u, Passed(u))
      BY <1>4, ReqInitIs, SetForgets
    <3> HIDE DEF whole
    <3> QED
      BY <1>3, <2>1, <3>3, <3>4, <3>5
  <2>2. /\ ParseHeader(ReqInit, buf)' = ParseHeader(ReqInit, u)
        /\ ParseBody(buf)' = ParseBody(u)
        /\ RequestBodyValid(req, ParseBody(buf))'
             = RequestBodyValid(req', ParseBody(u))
    BY <1>3
  <2> QED
    BY <2>1, <2>2 DEF SameAsOnce
<1> QED
  BY <1>8, <1>10, <1>11, <1>12, <1>13 DEF RequestInv

\* TryFixBody, after OK.
LEMMA TryFixBodyKeeps ==
  ASSUME RequestInv, NEW chunk \in Bytes, TryFixBody(chunk)
  PROVE  RequestInv' /\ (code \in Refused => code' = code)
<1> DEFINE u == buf \o chunk
<1>1. buf \in Bytes /\ IsReq(req)
  BY DEF RequestInv, Typed
<1>2. u \in Bytes
  BY <1>1, Longer
<1>3. /\ buf' = u /\ req' = req /\ code = "OK" /\ code' = "OK"
      /\ body' = body \o chunk /\ valid' = RequestBodyValid(req, body')
  BY DEF TryFixBody, Read
<1>4. /\ ParseHeader(ReqInit, buf) = <<"OK", req>>
      /\ body = ParseBody(buf)
  BY <1>3 DEF RequestInv, SameAsOnce
<1> DEFINE parsed(s) ==
             <<Verdict(s), [Method |-> First(s)[1], Path |-> First(s)[2],
                            Protocol |-> First(s)[3],
                            Headers |-> Set(ReqInit.Headers, s, Passed(s))]>>
<1>5. Looped(buf) /\ ParseHeader(ReqInit, buf) = parsed(buf)
  <2>1. ParseHeader(ReqInit, buf)[1] = "OK"
    BY <1>4
  <2> QED
    BY <2>1, ReqInitIs, ParsedIs
<1>6. Verdict(buf) = "OK"
  BY <1>4, <1>5
<1>7. /\ Verdict(u) = "OK" /\ Passed(u) = Passed(buf)
      /\ Min(Stops(u)) = Min(Stops(buf))
      /\ \A p \in Passed(buf) : Line(u, p) = Line(buf, p)
  BY <1>1, <1>6, OKStays
<1>8. Looped(u) /\ First(u) = First(buf)
  <2>1. Judged(buf)
    BY <1>5 DEF Looped
  <2> QED
    BY <1>1, <1>5, <2>1, LoopedStays, JudgedStays
<1>9. Set(ReqInit.Headers, u, Passed(buf))
        = Set(ReqInit.Headers, buf, Passed(buf))
  <2>1. Len(buf) + 1 \in Nat /\ Passed(buf) \in SUBSET (0 .. Len(buf) + 1)
    <3>1. /\ Len(buf) \in Nat /\ Lines(buf) \subseteq Nat
          /\ \A p \in Lines(buf) : p <= Len(buf) + 1
      BY <1>1, PlacesAre
    <3> QED
      BY <3>1 DEF Passed
  <2> DEFINE k == Len(buf) + 1
             lines == Passed(buf)
  <2>2. /\ k \in Nat /\ lines \in SUBSET (0 .. k)
        /\ \A p \in lines : Line(u, p) = Line(buf, p)
    BY <1>7, <2>1
  <2> HIDE DEF u, k, lines
  <2>3. Set(ReqInit.Headers, u, lines) = Set(ReqInit.Headers, buf, lines)
    BY <2>2, SetStays
  <2> QED
    BY <2>3 DEF lines
<1>10. ParseHeader(ReqInit, u) = <<"OK", req>>
  <2>1. ParseHeader(ReqInit, u) = parsed(u)
    <3> HIDE DEF u
    <3> QED
      BY <1>8, ReqInitIs, ParsedIs
  <2>2. parsed(u) = parsed(buf)
    BY <1>6, <1>7, <1>8, <1>9
  <2> HIDE DEF parsed, u
  <2> QED
    BY <1>4, <1>5, <2>1, <2>2
<1>11. ParseBody(u) = ParseBody(buf) \o chunk
  <2>1. /\ BodyStart(buf) = Min(Stops(buf)) + 1
        /\ BodyStart(buf) \in 4 .. Len(buf)
    BY <1>1, <1>6, BodyStartIs
  <2>2. BodyStart(u) = BodyStart(buf)
    <3> HIDE DEF u
    <3> QED
      BY <1>2, <1>7, <2>1, BodyStartIs
  <2>3. BodyStart(buf) \in 0 .. Len(buf)
    BY <2>1
  <2>4. SubSeq(u, BodyStart(buf) + 1, Len(u))
          = SubSeq(buf, BodyStart(buf) + 1, Len(buf)) \o chunk
    BY <1>1, <2>3, TailGrows
  <2> HIDE DEF u
  <2> QED
    BY <2>2, <2>4 DEF ParseBody
<1>12. {Name(buf, p) : p \in Passed(buf)}
         \subseteq {Name(u, p) : p \in Passed(u)}
  BY <1>1, NamesStay
<1> HIDE DEF u
<1>13. Typed'
  BY <1>1, <1>2, <1>3 DEF Typed, IsReq
<1>14. Comes'
  <2>1. {Name(buf, p) : p \in Passed(buf)}' = {Name(u, p) : p \in Passed(u)}
    BY <1>3
  <2>2. DOMAIN req.Headers \subseteq {Name(buf, p) : p \in Passed(buf)}
    BY DEF RequestInv, Comes
  <2> QED
    BY <1>3, <1>12, <2>1, <2>2 DEF Comes
<1>15. "OK" \notin Refused
  BY DEF Refused
<1>16. AboutFirst'
  <2>1. code' \notin Refused'
    BY <1>3, <1>15 DEF Refused
  <2> QED
    BY <2>1 DEF AboutFirst
<1>17. SameAsOnce'
  <2>1. /\ ParseHeader(ReqInit, buf)' = ParseHeader(ReqInit, u)
        /\ ParseBody(buf)' = ParseBody(u)
        /\ RequestBodyValid(req, ParseBody(buf))'
             = RequestBodyValid(req, ParseBody(u))
    BY <1>3
  <2> QED
    BY <1>3, <1>4, <1>10, <1>11, <2>1 DEF SameAsOnce
<1> QED
  BY <1>3, <1>13, <1>14, <1>15, <1>16, <1>17 DEF RequestInv

LEMMA StepInv ==
  ASSUME RequestInv, [Next]_vars
  PROVE  RequestInv' /\ (code \in Refused => code' = code)
<1>1. FirstReads \subseteq Bytes /\ Reads \subseteq Bytes
  BY RequestAssumption DEF Bytes
<1>2. CASE UNCHANGED vars
  BY <1>2 DEF vars, RequestInv, Typed, IsReq, Comes, AboutFirst, Refused,
              SameAsOnce
<1>3. ASSUME NEW chunk \in IF reads = 0 THEN FirstReads ELSE Reads,
             Parse(chunk)
      PROVE  RequestInv' /\ (code \in Refused => code' = code)
  <2>1. chunk \in Bytes
    BY <1>1
  <2> QED
    BY <1>3, <2>1, ParseKeeps
<1>4. ASSUME NEW chunk \in Reads, TryFixBody(chunk)
      PROVE  RequestInv' /\ (code \in Refused => code' = code)
  <2>1. chunk \in Bytes
    BY <1>1
  <2> QED
    BY <1>4, <2>1, TryFixBodyKeeps
<1> QED
  BY <1>2, <1>3, <1>4 DEF Next

-----------------------------------------------------------------------------
\* A request that is OK is the request in all the bytes at once, however they
\* were cut into reads: of what ParseHeader set from a cut line nothing stale
\* stays in r.Headers, and TryFixBody loses nothing.
THEOREM CutsDoNotMatter == Spec => []SameAsOnce
<1>1. RequestInv /\ [Next]_vars => RequestInv'
  BY StepInv
<1>2. RequestInv => SameAsOnce
  BY DEF RequestInv
<1> QED
  BY InitInv, <1>1, <1>2, PTL DEF Spec

LEMMA BodyIsBehind ==
  ASSUME RequestInv
  PROVE  BodyFollowsHeader
<1> SUFFICES ASSUME code = "OK"
             PROVE  body = SubSeq(buf, Min({p \in Lines(buf) \ {1} :
                                              Line(buf, p) = << >>}) + 2,
                                  Len(buf))
  BY DEF BodyFollowsHeader
<1> DEFINE empty == {p \in Lines(buf) \ {1} : Line(buf, p) = << >>}
           e == Min(Stops(buf))
<1>1. buf \in Bytes /\ body = ParseBody(buf)
      /\ ParseHeader(ReqInit, buf)[1] = "OK"
  BY DEF RequestInv, Typed, SameAsOnce
<1>2. Verdict(buf) = "OK"
  <2>1. Looped(buf)
    BY <1>1, ReqInitIs, ParsedIs
  <2>2. ParseHeader(ReqInit, buf)[1] = Verdict(buf)
    BY <2>1, ReqInitIs, ParsedIs
  <2> QED
    BY <1>1, <2>2
<1>3. /\ e \in Nat /\ \A q \in Stops(buf) : e <= q
      /\ e \in Lines(buf) \ {1} /\ Line(buf, e) = << >>
  BY <1>1, <1>2, EndIs
<1>4. BodyStart(buf) = e + 1
  BY <1>1, <1>2, BodyStartIs
<1> HIDE DEF e
<1>5. e \in empty
  BY <1>3
<1>6. \A p \in empty : p \in Nat /\ e <= p
  BY <1>1, <1>3, StopsAre
<1>7. Min(empty) = e
  <2>1. empty \in SUBSET Nat
    BY <1>6
  <2> HIDE DEF empty
  <2> QED
    BY <1>5, <1>6, <2>1, LeastEquals
<1>8. (e + 1) + 1 = e + 2
  BY <1>3
<1> QED
  BY <1>1, <1>4, <1>7, <1>8 DEF ParseBody

\* The body of a request that is OK begins behind the empty line at which
\* ParseHeader ended the header: ParseBody, which searches bytes, finds the
\* same end as the loop over the lines.
THEOREM BodyIsBehindHeader == Spec => []BodyFollowsHeader
<1>1. RequestInv /\ [Next]_vars => RequestInv'
  BY StepInv
<1> QED
  BY InitInv, <1>1, BodyIsBehind, PTL DEF Spec

\* A first line that ParseHeader refuses stays refused, with the same code,
\* whatever is read after it.
THEOREM RefusalsStay == Spec => RefusedForGood
<1>1. RequestInv /\ [Next]_vars => RequestInv'
  BY StepInv
<1>2. RequestInv /\ [Next]_vars
        => [(code \in {"FirstLineInvalid", "MethodInvalid", "PathInvalid",
                       "ProtocolInvalid"}) => (code' = code)]_vars
  BY StepInv DEF Refused
<1> QED
  BY InitInv, <1>1, <1>2, PTL DEF Spec, RefusedForGood
=============================================================================

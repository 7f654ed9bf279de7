-------------------------- MODULE TimerListProofs --------------------------
(***************************************************************************)
(* The timer list stays sound while heapify, addTimer and deleteTimer walk *)
(* it, and with one interval executeTimers leaves nothing behind: proved   *)
(* for any number of timers, any intervals and any clock.                  *)
(***************************************************************************)
EXTENDS TimerList, SequenceTheorems, TLAPS

\* Where a loop is: parent is in the list.
Place == op \in {"append", "find", "heapify"}
           => at \in 1 .. Len(list) /\ parent = list[at]

\* What the list holds while a call is under way.  A timer that is being added
\* is not in the list yet; one that is being deleted has not been passed.
Members ==
  /\ op \in {"idle", "heapify", "execute"} => Holds(active)
  /\ op = "append" => /\ target \in active /\ next[target] = NULL
                      /\ Holds(active \ {target})
  /\ op = "find" => /\ target \in Timers \ active
                    /\ Holds(active) \/ Holds(active \cup {target})
                    /\ \A n \in 1 .. at : list[n] # target

\* heapify has seen nothing that expires after parent.
Latest ==
  /\ op \in {"idle", "find", "execute"} => LatestLast
  /\ op = "heapify" => \A n \in 1 .. at : expire[list[n]] <= expire[parent]

\* With one interval the list is in the order of expiry, and a timer that is
\* being added goes to its place at the end.
InTurn(i) ==
  /\ \A m, n \in 1 .. Len(list) : m <= n => expire[list[m]] <= expire[list[n]]
  /\ \A t \in active : expire[t] <= i
  /\ op = "append" =>
       \A n \in 1 .. Len(list) : expire[list[n]] <= expire[target]

Sorted == \A i \in Intervals : used = {i} => InTurn(i)

TimerInv == TypeOK /\ Linked /\ Once /\ Place /\ Members /\ Latest

-----------------------------------------------------------------------------
(* The sequence operators of the model, by their places.                    *)

LEMMA RemovedIs ==
  ASSUME list \in Seq(Timers), NEW n \in 1 .. Len(list)
  PROVE  /\ RemoveAt(list, n) \in Seq(Timers)
         /\ Len(RemoveAt(list, n)) = Len(list) - 1
         /\ \A i \in 1 .. Len(list) - 1 :
              RemoveAt(list, n)[i] = IF i < n THEN list[i] ELSE list[i + 1]
<1> DEFINE a == SubSeq(list, 1, n - 1)
           b == SubSeq(list, n + 1, Len(list))
<1>1. Len(list) \in Nat /\ \A i \in 1 .. Len(list) : list[i] \in Timers
  BY LenProperties, ElementOfSeq
<1>2. /\ a \in Seq(Timers) /\ Len(a) = n - 1
      /\ \A i \in 1 .. n - 1 : a[i] = list[i]
  <2>1. \A i \in 1 .. n - 1 : list[i] \in Timers
    BY <1>1
  <2>2. /\ a \in Seq(Timers)
        /\ Len(a) = IF 1 <= n - 1 THEN (n - 1) - 1 + 1 ELSE 0
        /\ \A i \in 1 .. (n - 1) - 1 + 1 : a[i] = list[1 + i - 1]
    BY <1>1, <2>1, SubSeqProperties
  <2> HIDE DEF a
  <2> QED
    BY <1>1, <2>2
<1>3. /\ b \in Seq(Timers) /\ Len(b) = Len(list) - n
      /\ \A i \in 1 .. Len(list) - n : b[i] = list[n + i]
  <2>1. \A i \in n + 1 .. Len(list) : list[i] \in Timers
    BY <1>1
  <2>2. /\ b \in Seq(Timers)
        /\ Len(b) = IF n + 1 <= Len(list) THEN Len(list) - (n + 1) + 1 ELSE 0
        /\ \A i \in 1 .. Len(list) - (n + 1) + 1 : b[i] = list[(n + 1) + i - 1]
    BY <1>1, <2>1, SubSeqProperties
  <2> HIDE DEF b
  <2> QED
    BY <1>1, <2>2
<1>4. RemoveAt(list, n) = a \o b
  BY DEF RemoveAt
<1> HIDE DEF a, b
<1>5. /\ a \o b \in Seq(Timers) /\ Len(a \o b) = Len(a) + Len(b)
      /\ \A i \in 1 .. Len(a) + Len(b) :
           (a \o b)[i] = IF i <= Len(a) THEN a[i] ELSE b[i - Len(a)]
  BY <1>2, <1>3, ConcatProperties
<1> QED
  BY <1>1, <1>2, <1>3, <1>4, <1>5

LEMMA FrontedIs ==
  ASSUME list \in Seq(Timers), NEW n \in 1 .. Len(list), NEW t \in Timers
  PROVE  LET s == <<t>> \o RemoveAt(list, n)
         IN /\ s \in Seq(Timers) /\ Len(s) = Len(list) /\ s[1] = t
            /\ \A i \in 2 .. Len(list) :
                 s[i] = IF i <= n THEN list[i - 1] ELSE list[i]
<1> DEFINE r == RemoveAt(list, n)
<1>1. /\ r \in Seq(Timers) /\ Len(r) = Len(list) - 1
      /\ \A i \in 1 .. Len(list) - 1 :
           r[i] = IF i < n THEN list[i] ELSE list[i + 1]
  BY RemovedIs
<1> HIDE DEF r
<1>2. <<t>> \in Seq(Timers) /\ Len(<<t>>) = 1 /\ <<t>>[1] = t
  OBVIOUS
<1>3. /\ <<t>> \o r \in Seq(Timers) /\ Len(<<t>> \o r) = 1 + Len(r)
      /\ \A i \in 1 .. 1 + Len(r) :
           (<<t>> \o r)[i] = IF i <= 1 THEN <<t>>[i] ELSE r[i - 1]
  BY <1>1, <1>2, ConcatProperties
<1>4. Len(list) \in Nat
  BY LenProperties
<1> DEFINE s == <<t>> \o r
<1> HIDE DEF s
<1>5. s \in Seq(Timers) /\ Len(s) = Len(list) /\ s[1] = t
  BY <1>1, <1>2, <1>3, <1>4 DEF s
<1>6. ASSUME NEW i \in 2 .. Len(list)
      PROVE  s[i] = IF i <= n THEN list[i - 1] ELSE list[i]
  <2>1. s[i] = r[i - 1] /\ i - 1 \in 1 .. Len(list) - 1 /\ (i - 1) + 1 = i
    BY <1>1, <1>3, <1>4, <1>6 DEF s
  <2> QED
    BY <1>1, <1>4, <2>1
<1> QED
  BY <1>5, <1>6 DEF s, r

LEMMA ListIs ==
  ASSUME TypeOK
  PROVE  /\ Len(list) \in Nat
         /\ \A n \in 1 .. Len(list) : list[n] \in Timers
         /\ list = << >> <=> Len(list) = 0
<1> QED
  BY LenProperties, ElementOfSeq, EmptySeq DEF TypeOK

LEMMA TailIs ==
  ASSUME list \in Seq(Timers), list # << >>
  PROVE  /\ Tail(list) \in Seq(Timers) /\ Len(Tail(list)) = Len(list) - 1
         /\ \A n \in 1 .. Len(list) - 1 : Tail(list)[n] = list[n + 1]
<1> QED
  BY HeadTailProperties

-----------------------------------------------------------------------------
(* What a step of a loop finds and does.                                    *)

LEMMA CurrentIs ==
  ASSUME TimerInv, op \in {"append", "find", "heapify"}
  PROVE  /\ at \in 1 .. Len(list) /\ parent \in Timers /\ parent = list[at]
         /\ at = Len(list) => current = NULL
         /\ at # Len(list) => /\ at + 1 \in 1 .. Len(list)
                              /\ current = list[at + 1] /\ current \in Timers
<1>1. /\ Len(list) \in Nat /\ \A n \in 1 .. Len(list) : list[n] \in Timers
      /\ list = << >> <=> Len(list) = 0
  BY ListIs DEF TimerInv
<1>2. at \in 1 .. Len(list) /\ parent = list[at] /\ parent \in Timers
  BY <1>1 DEF TimerInv, Place
<1>3. CASE at = Len(list)
  BY <1>1, <1>2, <1>3 DEF TimerInv, Linked, current
<1>4. CASE at # Len(list)
  <2>1. at \in 1 .. Len(list) - 1 /\ at + 1 \in 1 .. Len(list)
    BY <1>1, <1>2, <1>4
  <2> QED
    BY <1>1, <1>2, <1>4, <2>1 DEF TimerInv, Linked, current
<1> QED
  BY <1>2, <1>3, <1>4

\* The head of the list.
LEMMA HeadIs ==
  ASSUME TimerInv
  PROVE  /\ list = << >> <=> heap = NULL
         /\ heap # NULL => /\ 1 \in 1 .. Len(list) /\ heap = list[1]
                           /\ heap \in Timers
<1>1. /\ Len(list) \in Nat /\ \A n \in 1 .. Len(list) : list[n] \in Timers
      /\ list = << >> <=> Len(list) = 0
  BY ListIs DEF TimerInv
<1> QED
  BY <1>1, TimerAssumption DEF TimerInv, Linked

\* A loop goes on to the next node.
LEMMA AdvanceKeeps ==
  ASSUME TimerInv, TypeOK', op \in {"append", "find", "heapify"},
         current # NULL, advance, UNCHANGED <<expire, active>>,
         op = "find" => current # target,
         op = "heapify" => expire[current] >= expire[parent]
  PROVE  TimerInv'
<1>1. /\ UNCHANGED <<heap, next, list, op, target, expire, active>>
      /\ at' = at + 1 /\ parent' = current
  BY DEF advance
<1>2. /\ at \in 1 .. Len(list) /\ parent \in Timers /\ parent = list[at]
      /\ at + 1 \in 1 .. Len(list) /\ current = list[at + 1]
      /\ current \in Timers
  BY CurrentIs
<1>3. Linked' /\ Once'
  BY <1>1 DEF TimerInv, Linked, Once
<1>4. Place'
  BY <1>1, <1>2 DEF Place
<1>5. Members'
  <2>1. ASSUME op = "find"
        PROVE  \A n \in 1 .. at + 1 : list[n] # target
    <3>1. \A n \in 1 .. at + 1 : n \in 1 .. at \/ n = at + 1
      BY <1>2
    <3> QED
      BY <1>2, <2>1, <3>1 DEF TimerInv, Members
  <2> QED
    BY <1>1, <2>1 DEF TimerInv, Members, Holds
<1>6. Latest'
  <2>1. ASSUME op = "heapify"
        PROVE  \A n \in 1 .. at + 1 : expire[list[n]] <= expire[current]
    <3>1. \A n \in 1 .. at + 1 : n \in 1 .. at \/ n = at + 1
      BY <1>2
    <3>2. /\ Len(list) \in Nat
          /\ \A n \in 1 .. Len(list) : expire[list[n]] \in Int
      BY ListIs DEF TimerInv, TypeOK
    <3>3. \A n \in 1 .. at : expire[list[n]] <= expire[parent]
      BY <2>1 DEF TimerInv, Latest
    <3> QED
      BY <1>2, <2>1, <3>1, <3>2, <3>3
  <2> QED
    BY <1>1, <2>1 DEF TimerInv, Latest, LatestLast
<1> QED
  BY <1>3, <1>4, <1>5, <1>6 DEF TimerInv

\* heapify's loop is over.
LEMMA HeapifyEnds ==
  ASSUME TimerInv, TypeOK', op = "heapify", current = NULL, return,
         UNCHANGED <<heap, next, list, expire, active>>
  PROVE  TimerInv'
<1>1. /\ UNCHANGED <<heap, next, list, expire, active>>
      /\ op' = "idle"
  BY DEF return
<1>2. at = Len(list) /\ parent = list[at]
  BY CurrentIs, TimerAssumption
<1>3. Linked' /\ Once' /\ Place'
  BY <1>1 DEF TimerInv, Linked, Once, Place
<1>4. Members'
  BY <1>1 DEF TimerInv, Members, Holds
<1>5. Latest'
  BY <1>1, <1>2 DEF TimerInv, Latest, LatestLast
<1> QED
  BY <1>3, <1>4, <1>5 DEF TimerInv

\* deleteTimer's search has found nothing: the timer is not in the list.
LEMMA FindEnds ==
  ASSUME TimerInv, TypeOK', op = "find", current = NULL, return,
         UNCHANGED <<heap, next, list, expire, active>>
  PROVE  TimerInv'
<1>1. /\ UNCHANGED <<heap, next, list, expire, active>>
      /\ op' = "idle"
  BY DEF return
<1>2. at = Len(list)
  BY CurrentIs, TimerAssumption
<1>3. Linked' /\ Once' /\ Place'
  BY <1>1 DEF TimerInv, Linked, Once, Place
<1>4. Holds(active)
  <2>1. \A n \in 1 .. Len(list) : list[n] # target
    BY <1>2 DEF TimerInv, Members
  <2>2. ~Holds(active \cup {target})
    BY <2>1 DEF Holds
  <2> QED
    BY <2>2 DEF TimerInv, Members
<1>5. Members'
  BY <1>1, <1>4 DEF Members, Holds
<1>6. Latest'
  BY <1>1 DEF TimerInv, Latest, LatestLast
<1> QED
  BY <1>3, <1>5, <1>6 DEF TimerInv

\* heapify moves current to the front: every element is in the list as before.
LEMMA ToFrontKeeps ==
  ASSUME TimerInv, TypeOK', op = "heapify", current # NULL,
         expire[current] < expire[parent], toFront,
         UNCHANGED <<expire, active>>
  PROVE  TimerInv'
<1> DEFINE c == current
           Old(i) == IF i = 1 THEN at + 1 ELSE IF i <= at + 1 THEN i - 1 ELSE i
<1>1. /\ heap' = c /\ at' = at + 1 /\ list' = <<c>> \o RemoveAt(list, at + 1)
      /\ next' = [next EXCEPT ![parent] = next[c], ![c] = heap]
      /\ UNCHANGED <<op, parent, target, expire, active>>
  BY DEF toFront
<1>2. /\ at \in 1 .. Len(list) /\ parent \in Timers /\ parent = list[at]
      /\ at + 1 \in 1 .. Len(list) /\ c = list[at + 1] /\ c \in Timers
  BY CurrentIs
<1> HIDE DEF c
<1>3. /\ Len(list) \in Nat /\ list # << >>
      /\ \A n \in 1 .. Len(list) : list[n] \in Timers
  BY <1>2, ListIs DEF TimerInv
<1>4. /\ Len(list') = Len(list) /\ list'[1] = c
      /\ \A i \in 2 .. Len(list) :
           list'[i] = IF i <= at + 1 THEN list[i - 1] ELSE list[i]
  BY <1>1, <1>2, FrontedIs DEF TimerInv, TypeOK
<1>5. /\ parent # c
      /\ \A n \in 1 .. Len(list) :
           /\ list[n] = parent => n = at
           /\ list[n] = c => n = at + 1
  BY <1>2 DEF TimerInv, Once
<1>6. /\ next'[parent] = next[c] /\ next'[c] = heap
      /\ \A t \in Timers : t \notin {parent, c} => next'[t] = next[t]
  BY <1>1, <1>2, <1>5 DEF TimerInv, TypeOK
<1>7. /\ heap = list[1] /\ next[list[Len(list)]] = NULL
      /\ \A n \in 1 .. Len(list) - 1 : next[list[n]] = list[n + 1]
  BY <1>3 DEF TimerInv, Linked
<1>8. /\ \A i \in 1 .. Len(list) :
           Old(i) \in 1 .. Len(list) /\ list'[i] = list[Old(i)]
      /\ \A i, j \in 1 .. Len(list) : Old(i) = Old(j) => i = j
      /\ \A n \in 1 .. Len(list) :
           \E i \in 1 .. Len(list) : Old(i) = n
  <2>1. \A i \in 1 .. Len(list) :
          Old(i) \in 1 .. Len(list) /\ list'[i] = list[Old(i)]
    BY <1>2, <1>3, <1>4
  <2>2. \A i, j \in 1 .. Len(list) : Old(i) = Old(j) => i = j
    BY <1>2, <1>3
  <2>3. ASSUME NEW n \in 1 .. Len(list)
        PROVE  \E i \in 1 .. Len(list) : Old(i) = n
    <3>1. CASE n = at + 1
      BY <1>2, <3>1
    <3>2. CASE n <= at
      <4>1. n + 1 \in 1 .. Len(list) /\ Old(n + 1) = n
        BY <1>2, <1>3, <3>2
      <4> QED
        BY <4>1
    <3>3. CASE n > at + 1
      <4>1. Old(n) = n
        BY <1>2, <1>3, <3>3
      <4> QED
        BY <4>1
    <3> QED
      BY <1>2, <1>3, <3>1, <3>2, <3>3
  <2> QED
    BY <2>1, <2>2, <2>3
<1> HIDE DEF Old
<1>9. Linked'
  <2>1. list' # << >> /\ heap' = list'[1]
    BY <1>1, <1>3, <1>4, ListIs DEF TimerInv
  <2>2. next'[list'[Len(list')]] = NULL
    <3>1. CASE at + 1 = Len(list)
      BY <1>2, <1>3, <1>4, <1>6, <1>7, <3>1
    <3>2. CASE at + 1 # Len(list)
      <4>1. list'[Len(list)] = list[Len(list)] /\ Len(list) \in 1 .. Len(list)
        BY <1>2, <1>3, <1>4, <3>2
      <4> QED
        BY <1>2, <1>3, <1>4, <1>5, <1>6, <1>7, <3>2, <4>1
    <3> QED
      BY <3>1, <3>2
  <2>3. ASSUME NEW n \in 1 .. Len(list) - 1
        PROVE  next'[list'[n]] = list'[n + 1]
    <3>1. n \in 1 .. Len(list) /\ n + 1 \in 2 .. Len(list)
      BY <1>3
    <3>2. CASE n = 1
      BY <1>2, <1>3, <1>4, <1>6, <1>7, <3>1, <3>2
    <3>3. CASE n \in 2 .. at
      <4>1. /\ n - 1 \in 1 .. Len(list) - 1 /\ n - 1 \in 1 .. Len(list)
            /\ (n - 1) + 1 = n /\ (n + 1) - 1 = n
            /\ list'[n] = list[n - 1] /\ list'[n + 1] = list[n]
        BY <1>2, <1>3, <1>4, <3>1, <3>3
      <4>2. list[n - 1] \notin {parent, c}
        BY <1>2, <1>3, <1>5, <3>3, <4>1
      <4> QED
        BY <1>3, <1>6, <1>7, <4>1, <4>2
    <3>4. CASE n = at + 1
      <4>1. list'[n] = parent /\ list'[n + 1] = list[n + 1]
        BY <1>2, <1>3, <1>4, <3>1, <3>4
      <4> QED
        BY <1>2, <1>6, <1>7, <3>4, <4>1
    <3>5. CASE n > at + 1
      <4>1. list'[n] = list[n] /\ list'[n + 1] = list[n + 1]
        BY <1>2, <1>3, <1>4, <3>1, <3>5
      <4>2. list[n] \notin {parent, c}
        BY <1>2, <1>5, <3>1, <3>5
      <4> QED
        BY <1>3, <1>6, <1>7, <3>1, <4>1, <4>2
    <3> QED
      BY <1>2, <1>3, <3>2, <3>3, <3>4, <3>5
  <2> QED
    BY <1>4, <2>1, <2>2, <2>3 DEF Linked
<1>10. Once'
  <2> SUFFICES ASSUME NEW m \in 1 .. Len(list), NEW n \in 1 .. Len(list),
                      list'[m] = list'[n]
               PROVE  m = n
    BY <1>4 DEF Once
  <2>1. list[Old(m)] = list[Old(n)]
    BY <1>8
  <2>2. Old(m) = Old(n)
    BY <1>8, <2>1 DEF TimerInv, Once
  <2> QED
    BY <1>8, <2>2
<1>11. Place'
  <2>1. at + 1 \in 2 .. Len(list) /\ (at + 1) - 1 = at
    BY <1>2, <1>3
  <2> QED
    BY <1>1, <1>2, <1>4, <2>1 DEF Place
<1>12. Members'
  <2>1. {list'[n] : n \in 1 .. Len(list)} = {list[n] : n \in 1 .. Len(list)}
    <3>1. ASSUME NEW i \in 1 .. Len(list)
          PROVE  list'[i] \in {list[n] : n \in 1 .. Len(list)}
      BY <1>8
    <3>2. ASSUME NEW n \in 1 .. Len(list)
          PROVE  list[n] \in {list'[i] : i \in 1 .. Len(list)}
      <4>1. PICK i \in 1 .. Len(list) : Old(i) = n
        BY <1>8
      <4>2. list'[i] = list[n]
        BY <1>8, <4>1
      <4> QED
        BY <4>2
    <3> QED
      BY <3>1, <3>2
  <2> QED
    BY <1>1, <1>4, <2>1 DEF TimerInv, Members, Holds
<1>13. ASSUME NEW n \in 1 .. at + 1
       PROVE  expire[list'[n]] <= expire[parent]
  <2>1. \A m \in 1 .. at : expire[list[m]] <= expire[parent]
    BY DEF TimerInv, Latest
  <2>2. CASE n = 1
    <3>1. expire[c] \in Int /\ expire[parent] \in Int
      BY <1>2 DEF TimerInv, TypeOK
    <3>2. expire[c] < expire[parent]
      BY DEF c
    <3> QED
      BY <1>4, <2>2, <3>1, <3>2
  <2>3. CASE n # 1
    <3>1. list'[n] = list[n - 1] /\ n - 1 \in 1 .. at
      BY <1>2, <1>3, <1>4, <2>3
    <3> QED
      BY <2>1, <3>1
  <2> QED
    BY <2>2, <2>3
<1>14. Latest'
  BY <1>1, <1>13 DEF Latest
<1> QED
  BY <1>9, <1>10, <1>11, <1>12, <1>14 DEF TimerInv

\* deleteTimer unlinks the timer it has found, and heapify starts again.
LEMMA UnlinkKeeps ==
  ASSUME TimerInv, TypeOK', op = "find", current = target,
         next' = [next EXCEPT ![parent] = next[current]],
         list' = RemoveAt(list, at + 1), start("heapify", NULL),
         UNCHANGED <<heap, expire, active>>
  PROVE  TimerInv'
<1> DEFINE c == current
           Old(i) == IF i <= at THEN i ELSE i + 1
<1>1. /\ UNCHANGED <<heap, expire, active>> /\ op' = "heapify"
      /\ parent' = heap /\ at' = 1 /\ list' = RemoveAt(list, at + 1)
      /\ next' = [next EXCEPT ![parent] = next[c]]
  BY DEF start
<1>2. c = target /\ target \in Timers \ active
  BY DEF TimerInv, Members
<1>3. /\ at \in 1 .. Len(list) /\ parent \in Timers /\ parent = list[at]
      /\ at + 1 \in 1 .. Len(list) /\ c = list[at + 1]
  BY <1>2, CurrentIs, TimerAssumption
<1> HIDE DEF c
<1>4. /\ Len(list) \in Nat /\ list # << >>
      /\ \A n \in 1 .. Len(list) : list[n] \in Timers
  BY <1>3, ListIs DEF TimerInv
<1>5. /\ Len(list') = Len(list) - 1
      /\ \A i \in 1 .. Len(list) - 1 :
           list'[i] = IF i < at + 1 THEN list[i] ELSE list[i + 1]
  <2>1. list \in Seq(Timers)
    BY DEF TimerInv, TypeOK
  <2> QED
    BY <1>1, <1>3, <2>1, RemovedIs
<1>6. \A n \in 1 .. Len(list) : /\ list[n] = parent => n = at
                                /\ list[n] = c => n = at + 1
  BY <1>3 DEF TimerInv, Once
<1>7. /\ next'[parent] = next[c]
      /\ \A t \in Timers : t # parent => next'[t] = next[t]
  BY <1>1, <1>3 DEF TimerInv, TypeOK
<1>8. /\ heap = list[1] /\ next[list[Len(list)]] = NULL
      /\ \A n \in 1 .. Len(list) - 1 : next[list[n]] = list[n + 1]
  BY <1>4 DEF TimerInv, Linked
<1>9. /\ \A i \in 1 .. Len(list) - 1 :
           /\ Old(i) \in 1 .. Len(list) /\ Old(i) # at + 1
           /\ list'[i] = list[Old(i)]
      /\ \A i, j \in 1 .. Len(list) - 1 : Old(i) = Old(j) => i = j
  BY <1>3, <1>4, <1>5
<1>10. ASSUME NEW n \in 1 .. Len(list), n # at + 1
       PROVE  \E i \in 1 .. Len(list) - 1 : Old(i) = n
  <2>1. CASE n <= at
    <3>1. n \in 1 .. Len(list) - 1 /\ Old(n) = n
      BY <1>3, <1>4, <2>1
    <3> QED
      BY <3>1
  <2>2. CASE n > at
    <3>1. n - 1 \in 1 .. Len(list) - 1 /\ Old(n - 1) = n
      BY <1>3, <1>4, <1>10, <2>2
    <3> QED
      BY <3>1
  <2> QED
    BY <1>3, <2>1, <2>2
<1> HIDE DEF Old
<1>11. list' # << >> /\ 1 \in 1 .. Len(list') /\ list'[1] = list[1]
  <2>1. 1 \in 1 .. Len(list) - 1 /\ 1 < at + 1
    BY <1>3, <1>4
  <2>2. list' # << >>
    BY <1>4, <1>5, <2>1, EmptySeq DEF TypeOK
  <2> QED
    BY <1>5, <2>1, <2>2
<1>12. Linked'
  <2>1. next'[list'[Len(list')]] = NULL
    <3>1. CASE at + 1 = Len(list)
      <4>1. Len(list) - 1 = at /\ at \in 1 .. Len(list) - 1 /\ at < at + 1
        BY <1>3, <1>4, <3>1
      <4>2. list'[Len(list')] = parent
        BY <1>3, <1>5, <4>1
      <4> QED
        BY <1>3, <1>7, <1>8, <3>1, <4>2
    <3>2. CASE at + 1 # Len(list)
      <4>1. /\ Len(list) - 1 \in 1 .. Len(list) - 1
            /\ (Len(list) - 1) + 1 = Len(list) /\ ~(Len(list) - 1 < at + 1)
            /\ Len(list) \in 1 .. Len(list) /\ Len(list) # at
        BY <1>3, <1>4, <3>2
      <4>2. list'[Len(list')] = list[Len(list)]
        BY <1>5, <4>1
      <4>3. list[Len(list)] # parent /\ list[Len(list)] \in Timers
        BY <1>4, <1>6, <4>1
      <4> QED
        BY <1>7, <1>8, <4>2, <4>3
    <3> QED
      BY <3>1, <3>2
  <2>2. ASSUME NEW n \in 1 .. Len(list') - 1
        PROVE  next'[list'[n]] = list'[n + 1]
    <3>1. /\ n \in 1 .. Len(list) /\ n + 1 \in 1 .. Len(list) - 1
          /\ n \in 1 .. Len(list) - 1
      BY <1>4, <1>5
    <3>2. CASE n < at
      <4>1. list'[n] = list[n] /\ list'[n + 1] = list[n + 1]
        BY <1>3, <1>5, <3>1, <3>2
      <4>2. list[n] # parent /\ list[n] \in Timers
        BY <1>3, <1>4, <1>6, <3>1, <3>2
      <4> QED
        BY <1>7, <1>8, <3>1, <4>1, <4>2
    <3>3. CASE n = at
      <4>1. list'[n] = parent /\ list'[n + 1] = list[(at + 1) + 1]
        BY <1>3, <1>5, <3>1, <3>3
      <4> QED
        BY <1>3, <1>7, <1>8, <3>1, <3>3, <4>1
    <3>4. CASE n > at
      <4>1. list'[n] = list[n + 1] /\ list'[n + 1] = list[(n + 1) + 1]
        BY <1>3, <1>5, <3>1, <3>4
      <4>2. n + 1 \in 1 .. Len(list) /\ n + 1 # at
        BY <1>3, <3>1, <3>4
      <4> QED
        BY <1>4, <1>6, <1>7, <1>8, <3>1, <4>1, <4>2
    <3> QED
      BY <1>3, <3>2, <3>3, <3>4
  <2> QED
    BY <1>1, <1>8, <1>11, <2>1, <2>2 DEF Linked
<1>13. Once'
  BY <1>5, <1>9 DEF TimerInv, Once
<1>14. Place'
  BY <1>1, <1>8, <1>11 DEF Place
<1>15. Members'
  <2>1. Holds(active \cup {target})
    <3>1. target \in {list[n] : n \in 1 .. Len(list)}
      BY <1>2, <1>3
    <3> QED
      BY <1>2, <3>1 DEF TimerInv, Members, Holds
  <2>2. {list'[i] : i \in 1 .. Len(list) - 1}
          = {list[n] : n \in 1 .. Len(list)} \ {target}
    BY <1>2, <1>3, <1>6, <1>9, <1>10
  <2>3. Holds(active)'
    BY <1>1, <1>2, <1>5, <2>1, <2>2 DEF Holds
  <2> QED
    BY <1>1, <2>3 DEF Members, Holds
<1>16. Latest'
  <2>1. \A n \in 1 .. 1 : n = 1
    OBVIOUS
  <2>2. heap \in Timers /\ list'[1] = heap
    BY <1>4, <1>8, <1>11, HeadIs
  <2>3. expire[heap] \in Int
    BY <2>2 DEF TimerInv, TypeOK
  <2> QED
    BY <1>1, <2>1, <2>2, <2>3 DEF Latest
<1> QED
  BY <1>12, <1>13, <1>14, <1>15, <1>16 DEF TimerInv

\* addTimer links the timer behind the last one, and heapify starts.
LEMMA AppendKeeps ==
  ASSUME TimerInv, TypeOK', op = "append", current = NULL,
         next' = [next EXCEPT ![parent] = target],
         list' = Append(list, target), start("heapify", NULL),
         UNCHANGED <<heap, expire, active>>
  PROVE  TimerInv'
<1>1. /\ UNCHANGED <<heap, expire, active>> /\ op' = "heapify"
      /\ parent' = heap /\ at' = 1 /\ list' = Append(list, target)
      /\ next' = [next EXCEPT ![parent] = target]
  BY DEF start
<1>2. /\ at = Len(list) /\ Len(list) \in 1 .. Len(list)
      /\ parent \in Timers /\ parent = list[Len(list)]
  BY CurrentIs, TimerAssumption
<1>3. /\ Len(list) \in Nat /\ list # << >> /\ list \in Seq(Timers)
      /\ \A n \in 1 .. Len(list) : list[n] \in Timers
  BY <1>2, ListIs DEF TimerInv, TypeOK
<1>4. /\ target \in active /\ target \in Timers /\ next[target] = NULL
      /\ {list[n] : n \in 1 .. Len(list)} = active \ {target}
  BY DEF TimerInv, TypeOK, Members, Holds
<1>5. \A n \in 1 .. Len(list) : list[n] # target
  BY <1>4
<1>6. /\ Len(list') = Len(list) + 1 /\ list'[Len(list) + 1] = target
      /\ \A n \in 1 .. Len(list) : list'[n] = list[n]
  BY <1>1, <1>3, <1>4, AppendProperties
<1>7. /\ next'[parent] = target /\ next'[target] = NULL
      /\ \A t \in Timers : t # parent => next'[t] = next[t]
  BY <1>1, <1>2, <1>4, <1>5 DEF TimerInv, TypeOK
<1>8. /\ heap = list[1]
      /\ \A n \in 1 .. Len(list) - 1 : next[list[n]] = list[n + 1]
  BY <1>3 DEF TimerInv, Linked
<1>9. /\ 1 \in 1 .. Len(list) /\ 1 \in 1 .. Len(list') /\ list'[1] = heap
      /\ list' # << >>
  <2>1. 1 \in 1 .. Len(list) /\ 1 \in 1 .. Len(list')
    BY <1>2, <1>3, <1>6
  <2>2. list' # << >>
    BY <1>3, <1>6, EmptySeq DEF TypeOK
  <2> QED
    BY <1>6, <1>8, <2>1, <2>2
<1>10. Linked'
  <2>1. next'[list'[Len(list')]] = NULL
    BY <1>6, <1>7
  <2>2. ASSUME NEW n \in 1 .. Len(list') - 1
        PROVE  next'[list'[n]] = list'[n + 1]
    <3>1. n \in 1 .. Len(list) /\ list'[n] = list[n]
      BY <1>3, <1>6
    <3>2. CASE n = Len(list)
      BY <1>2, <1>6, <1>7, <3>1, <3>2
    <3>3. CASE n # Len(list)
      <4>1. n \in 1 .. Len(list) - 1 /\ n + 1 \in 1 .. Len(list)
        BY <1>3, <3>1, <3>3
      <4>2. list[n] # parent
        BY <1>2, <3>1, <3>3 DEF TimerInv, Once
      <4> QED
        BY <1>3, <1>6, <1>7, <1>8, <3>1, <4>1, <4>2
    <3> QED
      BY <3>2, <3>3
  <2> QED
    BY <1>1, <1>9, <2>1, <2>2 DEF Linked
<1>11. \A n \in 1 .. Len(list') : n \in 1 .. Len(list) \/ n = Len(list) + 1
  BY <1>3, <1>6
<1>12. Once'
  <2> SUFFICES ASSUME NEW m \in 1 .. Len(list'), NEW n \in 1 .. Len(list'),
                      list'[m] = list'[n]
               PROVE  m = n
    BY DEF Once
  <2> QED
    BY <1>5, <1>6, <1>11 DEF TimerInv, Once
<1>13. Place'
  BY <1>1, <1>9 DEF Place
<1>14. Members'
  <2>1. {list'[n] : n \in 1 .. Len(list')} = active
    <3>1. ASSUME NEW n \in 1 .. Len(list')
          PROVE  list'[n] \in active
      BY <1>4, <1>6, <1>11
    <3>2. ASSUME NEW t \in active
          PROVE  t \in {list'[n] : n \in 1 .. Len(list')}
      <4>1. CASE t = target
        <5>1. Len(list) + 1 \in 1 .. Len(list')
          BY <1>3, <1>6
        <5> QED
          BY <1>6, <4>1, <5>1
      <4>2. CASE t # target
        <5>1. PICK n \in 1 .. Len(list) : t = list[n]
          BY <1>4, <3>2, <4>2
        <5>2. n \in 1 .. Len(list') /\ list'[n] = t
          BY <1>3, <1>6, <5>1
        <5> QED
          BY <5>2
      <4> QED
        BY <4>1, <4>2
    <3> QED
      BY <3>1, <3>2
  <2> QED
    BY <1>1, <2>1 DEF Members, Holds
<1>15. Latest'
  <2>1. \A n \in 1 .. 1 : n = 1
    OBVIOUS
  <2>2. expire[heap] \in Int
    BY <1>3, <1>8, <1>9 DEF TimerInv, TypeOK
  <2> QED
    BY <1>1, <1>9, <2>1, <2>2 DEF Latest
<1> QED
  BY <1>10, <1>12, <1>13, <1>14, <1>15 DEF TimerInv

\* deleteTimer and executeTimers take the first timer off the list.
LEMMA PopKeeps ==
  ASSUME TimerInv, TypeOK', op \in {"idle", "execute"}, heap # NULL,
         heap' = next[heap], list' = Tail(list), active' = active \ {heap},
         UNCHANGED <<op, next, expire>>
  PROVE  TimerInv'
<1>1. /\ Len(list) \in Nat /\ list # << >> /\ 1 \in 1 .. Len(list)
      /\ heap = list[1] /\ list \in Seq(Timers)
      /\ \A n \in 1 .. Len(list) : list[n] \in Timers
  BY HeadIs, ListIs DEF TimerInv, TypeOK
<1>2. /\ Len(list') = Len(list) - 1
      /\ \A n \in 1 .. Len(list') : /\ n + 1 \in 1 .. Len(list)
                                   /\ list'[n] = list[n + 1]
  BY <1>1, TailIs
<1>3. list' = << >> <=> Len(list') = 0
  BY <1>1, <1>2, EmptySeq DEF TypeOK
<1>4. /\ next[list[Len(list)]] = NULL
      /\ \A n \in 1 .. Len(list) - 1 : next[list[n]] = list[n + 1]
  BY <1>1 DEF TimerInv, Linked
<1>5. Linked'
  <2>1. CASE Len(list) = 1
    BY <1>1, <1>2, <1>3, <1>4, <2>1 DEF Linked
  <2>2. CASE Len(list) # 1
    <3>1. /\ 1 \in 1 .. Len(list) - 1 /\ 1 \in 1 .. Len(list')
          /\ Len(list') \in 1 .. Len(list') /\ Len(list') + 1 = Len(list)
      BY <1>1, <1>2, <2>2
    <3>2. heap' = list'[1] /\ next'[list'[Len(list')]] = NULL
      BY <1>1, <1>2, <1>4, <3>1
    <3>3. ASSUME NEW n \in 1 .. Len(list') - 1
          PROVE  next'[list'[n]] = list'[n + 1]
      <4>1. /\ n \in 1 .. Len(list') /\ n + 1 \in 1 .. Len(list')
            /\ n + 1 \in 1 .. Len(list) - 1
        BY <1>1, <1>2
      <4> QED
        BY <1>2, <1>4, <4>1
    <3> QED
      BY <1>2, <1>3, <3>1, <3>2, <3>3 DEF Linked
  <2> QED
    BY <2>1, <2>2
<1>6. Once'
  <2> SUFFICES ASSUME NEW m \in 1 .. Len(list'), NEW n \in 1 .. Len(list'),
                      list'[m] = list'[n]
               PROVE  m = n
    BY DEF Once
  <2>1. m + 1 = n + 1
    BY <1>2 DEF TimerInv, Once
  <2> QED
    BY <2>1
<1>7. Place'
  BY DEF Place
<1>8. Members'
  <2>1. {list[n] : n \in 1 .. Len(list)} = active
    BY DEF TimerInv, Members, Holds
  <2>2. ASSUME NEW n \in 1 .. Len(list')
        PROVE  list'[n] \in active \ {heap}
    <3>1. list[n + 1] # list[1]
      BY <1>1, <1>2 DEF TimerInv, Once
    <3> QED
      BY <1>1, <1>2, <2>1, <3>1
  <2>3. ASSUME NEW t \in active \ {heap}
        PROVE  t \in {list'[n] : n \in 1 .. Len(list')}
    <3>1. PICK n \in 1 .. Len(list) : t = list[n]
      BY <2>1
    <3>2. n # 1
      BY <1>1, <3>1
    <3>3. n - 1 \in 1 .. Len(list') /\ (n - 1) + 1 = n
      BY <1>1, <1>2, <3>2
    <3>4. list'[n - 1] = t
      BY <1>2, <3>1, <3>3
    <3> QED
      BY <3>3, <3>4
  <2>4. {list'[n] : n \in 1 .. Len(list')} = active'
    BY <2>2, <2>3
  <2> QED
    BY <2>4 DEF Members, Holds
<1>9. Latest'
  <2>1. LatestLast
    BY DEF TimerInv, Latest
  <2>2. ASSUME NEW n \in 1 .. Len(list')
        PROVE  expire[list'[n]] <= expire[list'[Len(list')]]
    <3>1. Len(list') \in 1 .. Len(list') /\ Len(list') + 1 = Len(list)
      BY <1>1, <1>2
    <3>2. n + 1 \in 1 .. Len(list) /\ list'[n] = list[n + 1]
          /\ list'[Len(list')] = list[Len(list)]
      BY <1>2, <3>1
    <3> QED
      BY <2>1, <3>2 DEF LatestLast
  <2> QED
    BY <2>2 DEF Latest, LatestLast
<1> QED
  BY <1>5, <1>6, <1>7, <1>8, <1>9 DEF TimerInv

\* addTimer on an empty list.
LEMMA FirstKeeps ==
  ASSUME TimerInv, TypeOK', NEW t \in Timers, op = "idle", heap = NULL,
         next' = [next EXCEPT ![t] = NULL], active' = active \cup {t},
         heap' = t, list' = <<t>>, start("heapify", NULL)
  PROVE  TimerInv'
<1>1. Len(list') = 1 /\ list'[1] = t /\ list' # << >>
  OBVIOUS
<1>2. /\ op' = "heapify" /\ parent' = t /\ at' = 1
      /\ heap' = t /\ active' = active \cup {t} /\ next'[t] = NULL
      /\ expire'[t] \in Int
  BY DEF start, TimerInv, TypeOK
<1>3. list = << >> /\ Len(list) = 0
  BY HeadIs, ListIs DEF TimerInv
<1>4. active = {}
  BY <1>3 DEF TimerInv, Members, Holds
<1>5. /\ 1 .. Len(list') = {1} /\ 1 .. Len(list') - 1 = {}
      /\ 1 .. at' = {1}
  BY <1>1, <1>2
<1>6. Linked' /\ Once' /\ Place'
  BY <1>1, <1>2, <1>5 DEF Linked, Once, Place
<1>7. Members'
  BY <1>1, <1>2, <1>4, <1>5 DEF Members, Holds
<1>8. Latest'
  BY <1>1, <1>2, <1>5 DEF Latest
<1> QED
  BY <1>6, <1>7, <1>8 DEF TimerInv

\* addTimer on a list that is not empty starts its walk.
LEMMA WalkKeeps ==
  ASSUME TimerInv, TypeOK', NEW t \in Timers, NEW d \in Int,
         op = "idle", heap # NULL, t \notin active,
         next' = [next EXCEPT ![t] = NULL],
         expire' = [expire EXCEPT ![t] = d], active' = active \cup {t},
         start("append", t), UNCHANGED <<heap, list>>
  PROVE  TimerInv'
<1>1. /\ op' = "append" /\ target' = t /\ parent' = heap /\ at' = 1
      /\ UNCHANGED <<heap, list>> /\ active' = active \cup {t}
  BY DEF start
<1>2. Len(list) \in Nat /\ 1 \in 1 .. Len(list) /\ heap = list[1]
  BY HeadIs, ListIs DEF TimerInv
<1>3. {list[n] : n \in 1 .. Len(list)} = active
  BY DEF TimerInv, Members, Holds
<1>4. /\ next'[t] = NULL
      /\ \A n \in 1 .. Len(list) : next'[list[n]] = next[list[n]]
  BY <1>3 DEF TimerInv, TypeOK
<1>5. Linked'
  <2>1. Len(list) \in 1 .. Len(list)
    BY <1>2
  <2>2. \A n \in 1 .. Len(list) - 1 : n \in 1 .. Len(list)
    BY <1>2
  <2> QED
    BY <1>1, <1>4, <2>1, <2>2 DEF TimerInv, Linked
<1>6. Once' /\ Place'
  BY <1>1, <1>2 DEF TimerInv, Once, Place
<1>7. Members'
  BY <1>1, <1>3, <1>4 DEF Members, Holds
<1>8. Latest'
  BY <1>1 DEF Latest
<1> QED
  BY <1>5, <1>6, <1>7, <1>8 DEF TimerInv

\* deleteTimer starts its search behind the head.
LEMMA SearchKeeps ==
  ASSUME TimerInv, TypeOK', NEW t \in Timers, op = "idle",
         heap \notin {NULL, t}, active' = active \ {t}, start("find", t),
         UNCHANGED <<heap, list, next, expire>>
  PROVE  TimerInv'
<1>1. /\ op' = "find" /\ target' = t /\ parent' = heap /\ at' = 1
      /\ UNCHANGED <<heap, list, next, expire>> /\ active' = active \ {t}
  BY DEF start
<1>2. 1 \in 1 .. Len(list) /\ heap = list[1]
  BY HeadIs
<1>3. Linked' /\ Once' /\ Place'
  BY <1>1, <1>2 DEF TimerInv, Linked, Once, Place
<1>4. Members'
  <2>1. \A n \in 1 .. 1 : n = 1
    OBVIOUS
  <2>2. {list[n] : n \in 1 .. Len(list)} = active
    BY DEF TimerInv, Members, Holds
  <2>3. active = active \ {t} \/ active = (active \ {t}) \cup {t}
    OBVIOUS
  <2> QED
    BY <1>1, <1>2, <2>1, <2>2, <2>3 DEF Members, Holds
<1>5. Latest'
  BY <1>1 DEF TimerInv, Latest, LatestLast
<1> QED
  BY <1>3, <1>4, <1>5 DEF TimerInv

\* A step that leaves the list alone, when no loop walks it.
LEMMA SameList ==
  ASSUME TimerInv, TypeOK', UNCHANGED <<heap, next, list, expire, active>>,
         \/ op \in {"idle", "execute"} /\ op' \in {"idle", "execute"}
         \/ UNCHANGED <<op, parent, target, at>>
  PROVE  TimerInv'
<1>1. Linked' /\ Once' /\ Place'
  BY DEF TimerInv, Linked, Once, Place
<1>2. Members'
  BY DEF TimerInv, Members, Holds
<1>3. Latest'
  BY DEF TimerInv, Latest, LatestLast
<1> QED
  BY <1>1, <1>2, <1>3 DEF TimerInv

\* A second brings all timers of the list, and the one on its way into it,
\* nearer at once.
LEMMA TickIs ==
  ASSUME TimerInv, Tick
  PROVE  /\ expire' \in [Timers -> Int] /\ due' \in Int
         /\ \A t \in active : expire'[t] = expire[t] - 1
         /\ \A n \in 1 .. Len(list) :
              expire'[list[n]] = expire[list[n]] - 1
<1>1. /\ expire \in [Timers -> Int] /\ due \in Int /\ active \subseteq Timers
      /\ \A n \in 1 .. Len(list) : list[n] \in Timers
  BY ListIs DEF TimerInv, TypeOK
<1>2. /\ expire' = [t \in Timers |-> IF Kept(t) THEN expire[t] - 1
                                                ELSE expire[t]]
      /\ due' = IF op = "execute" THEN due - 1 ELSE due
  BY DEF Tick
<1>3. /\ \A t \in active : Kept(t)
      /\ \A n \in 1 .. Len(list) : Kept(list[n])
  BY DEF Kept
<1> QED
  BY <1>1, <1>2, <1>3

LEMMA TickKeeps ==
  ASSUME TimerInv, TypeOK', Tick
  PROVE  TimerInv'
<1>1. UNCHANGED <<heap, next, op, parent, target, at, active, list>>
  BY DEF Tick, locals
<1>2. /\ expire \in [Timers -> Int]
      /\ \A n \in 1 .. Len(list) :
           /\ list[n] \in Timers /\ expire'[list[n]] = expire[list[n]] - 1
  BY TickIs, ListIs DEF TimerInv, TypeOK
<1>3. Linked' /\ Once' /\ Place'
  BY <1>1 DEF TimerInv, Linked, Once, Place
<1>4. Members'
  BY <1>1 DEF TimerInv, Members, Holds
<1>5. ASSUME LatestLast
      PROVE  LatestLast'
  <2>1. ASSUME NEW n \in 1 .. Len(list)
        PROVE  expire'[list[n]] <= expire'[list[Len(list)]]
    <3>1. Len(list) \in 1 .. Len(list)
      BY ListIs DEF TimerInv
    <3>2. expire[list[n]] <= expire[list[Len(list)]]
      BY <1>5 DEF LatestLast
    <3> QED
      BY <1>2, <3>1, <3>2
  <2> QED
    BY <1>1, <2>1 DEF LatestLast
<1>6. ASSUME op = "heapify", NEW n \in 1 .. at
      PROVE  expire'[list[n]] <= expire'[parent]
  <2>1. at \in 1 .. Len(list) /\ n \in 1 .. Len(list) /\ parent = list[at]
    BY <1>6, ListIs DEF TimerInv, Place
  <2>2. expire[list[n]] <= expire[list[at]]
    BY <1>6, <2>1 DEF TimerInv, Latest
  <2> QED
    BY <1>2, <2>1, <2>2
<1>7. Latest'
  BY <1>1, <1>5, <1>6 DEF TimerInv, Latest
<1> QED
  BY <1>3, <1>4, <1>7 DEF TimerInv

-----------------------------------------------------------------------------
(* The invariant.                                                           *)

LEMMA Initially == Init => TimerInv
<1> SUFFICES ASSUME Init
             PROVE  TimerInv
  OBVIOUS
<1>1. TypeOK
  <2>1. list \in Seq(Timers)
    BY EmptySeq DEF Init
  <2> QED
    BY <2>1 DEF Init, TypeOK
<1>2. 1 .. Len(list) = {} /\ 1 .. Len(list) - 1 = {} /\ list = << >>
  BY ListIs, <1>1 DEF Init
<1> QED
  BY <1>1, <1>2 DEF Init, TimerInv, Linked, Once, Place, Members, Holds,
                    Latest, LatestLast

\* The types, one action at a time.
LEMMA Types ==
  ASSUME TimerInv, [Next]_vars
  PROVE  TypeOK'
<1> USE DEF TimerInv, TypeOK
<1>1. CASE append
  <2>1. CASE current # NULL /\ advance
    <3>1. current \in Timers
      BY <1>1, <2>1, CurrentIs DEF append
    <3> QED
      BY <1>1, <2>1, <3>1 DEF append, advance
  <2>2. CASE ~(current # NULL /\ advance)
    <3>1. target \in Timers
      BY <1>1 DEF append, Members
    <3>2. /\ list' = Append(list, target)
          /\ next' = [next EXCEPT ![parent] = target]
          /\ start("heapify", NULL)
          /\ UNCHANGED <<heap, expire, due, used, active>>
      BY <1>1, <2>2 DEF append
    <3>3. list' \in Seq(Timers)
      BY <3>1, <3>2, AppendProperties
    <3> QED
      BY <3>1, <3>2, <3>3 DEF start
  <2> QED
    BY <2>1, <2>2
<1>2. CASE find
  <2>1. CASE advance
    <3>1. current \in Timers \cup {NULL}
      BY <1>2, CurrentIs DEF find
    <3> QED
      BY <1>2, <2>1, <3>1 DEF find, advance
  <2>2. CASE return /\ UNCHANGED <<heap, next, list>>
    BY <1>2, <2>2 DEF find, return
  <2>3. CASE ~advance /\ ~(return /\ UNCHANGED <<heap, next, list>>)
    <3>1. /\ target \in Timers /\ current = target
          /\ list' = RemoveAt(list, at + 1)
          /\ next' = [next EXCEPT ![parent] = next[current]]
          /\ start("heapify", NULL)
          /\ UNCHANGED <<heap, expire, due, used, active>>
      BY <1>2, <2>3 DEF find, Members
    <3>2. at + 1 \in 1 .. Len(list)
      BY <1>2, <3>1, CurrentIs, TimerAssumption DEF find
    <3>3. list' \in Seq(Timers)
      BY <3>1, <3>2, RemovedIs
    <3> QED
      BY <3>1, <3>3 DEF start
  <2> QED
    BY <2>1, <2>2, <2>3
<1>3. CASE heapify
  <2>1. CASE current # NULL /\ advance
    <3>1. current \in Timers
      BY <1>3, <2>1, CurrentIs DEF heapify
    <3> QED
      BY <1>3, <2>1, <3>1 DEF heapify, advance
  <2>2. CASE current # NULL /\ toFront
    <3>1. /\ current \in Timers /\ at + 1 \in 1 .. Len(list)
      BY <1>3, <2>2, CurrentIs DEF heapify
    <3>2. list' \in Seq(Timers)
      BY <2>2, <3>1, FrontedIs DEF toFront
    <3>3. next' \in [Timers -> Timers \cup {NULL}]
      BY <2>2, <3>1 DEF toFront
    <3> QED
      <4>1. /\ UNCHANGED <<op, parent, target, expire, due, used, active>>
            /\ heap' = current /\ at' = at + 1
        BY <1>3, <2>2 DEF heapify, toFront
      <4> QED
        BY <3>1, <3>2, <3>3, <4>1
  <2>3. CASE return /\ UNCHANGED <<heap, next, list>>
    BY <1>3, <2>3 DEF heapify, return
  <2> QED
    BY <1>3, <2>1, <2>2, <2>3 DEF heapify
<1>4. CASE execute
  <2>1. CASE HeadDue(due)
    <3>1. /\ UNCHANGED <<op, parent, target, at, due, next, expire, used>>
          /\ heap' = next[heap] /\ active' = active \ {heap}
          /\ list' = Tail(list) /\ heap # NULL
      BY <1>4, <2>1 DEF execute, HeadDue, locals
    <3>2. list' \in Seq(Timers) /\ heap \in Timers
      BY <3>1, HeadIs, TailIs
    <3> QED
      BY <3>1, <3>2
  <2>2. CASE ~HeadDue(due)
    BY <1>4, <2>2 DEF execute, return
  <2> QED
    BY <2>1, <2>2
<1>5. CASE executeTimers
  BY <1>5 DEF executeTimers
<1>6. CASE Tick
  BY <1>6, TickIs DEF Tick, locals
<1>7. ASSUME NEW t \in Timers, deleteTimer(t)
      PROVE  TypeOK'
  <2>1. CASE heap = t
    <3>1. /\ UNCHANGED <<op, parent, target, at, due, next, expire, used>>
          /\ heap' = next[t] /\ active' = active \ {t}
          /\ list' = Tail(list) /\ heap # NULL
      BY <1>7, <2>1, TimerAssumption DEF deleteTimer, locals
    <3>2. list' \in Seq(Timers)
      BY <3>1, HeadIs, TailIs
    <3> QED
      BY <3>1, <3>2
  <2>2. CASE heap # t
    BY <1>7, <2>2 DEF deleteTimer, start, locals
  <2> QED
    BY <2>1, <2>2
<1>8. ASSUME NEW t \in Timers, NEW i \in Intervals, addTimer(t, i)
      PROVE  TypeOK'
  <2>1. /\ UNCHANGED <<due, used>> /\ active' = active \cup {t}
        /\ expire' = [expire EXCEPT ![t] = i]
        /\ next' = [next EXCEPT ![t] = NULL]
    BY <1>8 DEF addTimer
  <2>2. i \in Int
    BY TimerAssumption
  <2>3. /\ list' \in Seq(Timers) /\ heap' \in Timers \cup {NULL}
    <3>1. <<t>> \in Seq(Timers)
      OBVIOUS
    <3>2. list' \in {<<t>>, list} /\ heap' \in {t, heap}
      BY <1>8 DEF addTimer
    <3> QED
      BY <3>1, <3>2
  <2>4. /\ op' \in {"append", "heapify"} /\ parent' = heap' /\ at' = 1
        /\ target' \in {t, NULL}
    BY <1>8 DEF addTimer, start
  <2> QED
    BY <2>1, <2>2, <2>3, <2>4
<1>9. CASE UNCHANGED vars
  BY <1>9 DEF vars, locals
<1> QED
  BY <1>1, <1>2, <1>3, <1>4, <1>5, <1>6, <1>7, <1>8, <1>9 DEF Next, Loop

LEMMA StepKeeps ==
  ASSUME TimerInv, [Next]_vars
  PROVE  TimerInv'
<1> USE Types
<1>1. CASE append
  BY <1>1, AdvanceKeeps, AppendKeeps DEF append
<1>2. CASE find
  BY <1>2, AdvanceKeeps, FindEnds, UnlinkKeeps DEF find
<1>3. CASE heapify
  BY <1>3, AdvanceKeeps, ToFrontKeeps, HeapifyEnds DEF heapify
<1>4. CASE execute
  <2>1. CASE HeadDue(due)
    BY <1>4, <2>1, PopKeeps DEF execute, HeadDue, locals
  <2>2. CASE ~HeadDue(due)
    BY <1>4, <2>2, SameList DEF execute, return
  <2> QED
    BY <2>1, <2>2
<1>5. CASE executeTimers
  BY <1>5, SameList DEF executeTimers
<1>6. CASE Tick
  BY <1>6, TickKeeps
<1>7. ASSUME NEW t \in Timers, deleteTimer(t)
      PROVE  TimerInv'
  <2>1. CASE heap = NULL
    <3>1. active = {}
      <4>1. list = << >> /\ Len(list) = 0
        BY <2>1, HeadIs, ListIs DEF TimerInv
      <4> QED
        BY <1>7, <4>1 DEF deleteTimer, TimerInv, Members, Holds
    <3>2. /\ UNCHANGED <<heap, next, list, expire, op, parent, target, at>>
          /\ active' = active
      BY <1>7, <2>1, <3>1, TimerAssumption DEF deleteTimer, start, locals
    <3> QED
      BY <3>2, SameList
  <2>2. CASE heap = t
    BY <1>7, <2>2, PopKeeps, TimerAssumption DEF deleteTimer, locals
  <2>3. CASE heap \notin {NULL, t}
    BY <1>7, <2>3, SearchKeeps DEF deleteTimer
  <2> QED
    BY <2>1, <2>2, <2>3
<1>8. ASSUME NEW t \in Timers, NEW i \in Intervals, addTimer(t, i)
      PROVE  TimerInv'
  <2>1. i \in Int
    BY TimerAssumption
  <2>2. CASE heap = NULL
    BY <1>8, <2>2, FirstKeeps DEF addTimer
  <2>3. CASE heap # NULL
    BY <1>8, <2>1, <2>3, WalkKeeps DEF addTimer
  <2> QED
    BY <2>2, <2>3
<1>9. CASE UNCHANGED vars
  BY <1>9, SameList DEF vars, locals
<1> QED
  BY <1>1, <1>2, <1>3, <1>4, <1>5, <1>6, <1>7, <1>8, <1>9 DEF Next, Loop

LEMMA TimersSound == Spec => []TimerInv
<1> QED
  BY Initially, StepKeeps, PTL DEF Spec

\* Whatever the calls and however the clock runs, heapify, addTimer and
\* deleteTimer neither lose a timer nor link one twice, and the timer at the
\* end of the list expires last.
THEOREM TimersKept == Spec => []ListSound
<1>1. TimerInv => ListSound
  BY DEF TimerInv, ListSound, Members, Latest
<1> QED
  BY <1>1, TimersSound, PTL

-----------------------------------------------------------------------------
(* One interval for all timers.                                             *)

LEMMA SortedInitially == Init => Sorted
<1> SUFFICES ASSUME Init
             PROVE  Sorted
  OBVIOUS
<1>1. 1 .. Len(list) = {}
  BY Initially, ListIs DEF Init, TimerInv
<1> QED
  BY <1>1 DEF Init, Sorted, InTurn

\* heapify finds nothing to move.
LEMMA NothingToMove ==
  ASSUME TimerInv, NEW i \in Intervals, InTurn(i), op = "heapify",
         current # NULL
  PROVE  ~(expire[current] < expire[parent])
<1>1. /\ at \in 1 .. Len(list) /\ at + 1 \in 1 .. Len(list)
      /\ parent = list[at] /\ current = list[at + 1] /\ at <= at + 1
      /\ parent \in Timers /\ current \in Timers
  BY CurrentIs
<1>2. expire[list[at]] <= expire[list[at + 1]]
  BY <1>1 DEF InTurn
<1> QED
  BY <1>1, <1>2 DEF TimerInv, TypeOK

\* What is in the list in place m was in it before, and in the same order.
LEMMA ShorterKeeps ==
  ASSUME TimerInv, NEW i \in Intervals, InTurn(i), NEW Old,
         op' # "append", active' \subseteq active,
         UNCHANGED expire,
         \A m \in 1 .. Len(list') :
           Old[m] \in 1 .. Len(list) /\ list'[m] = list[Old[m]],
         \A m, n \in 1 .. Len(list') : m <= n => Old[m] <= Old[n]
  PROVE  InTurn(i)'
<1>1. ASSUME NEW m \in 1 .. Len(list'), NEW n \in 1 .. Len(list'), m <= n
      PROVE  expire'[list'[m]] <= expire'[list'[n]]
  BY <1>1 DEF InTurn
<1>2. ASSUME NEW t \in active'
      PROVE  expire'[t] <= i
  BY <1>2 DEF InTurn
<1> QED
  BY <1>1, <1>2 DEF InTurn

\* A step that leaves the list and the timers alone.
LEMMA SameTurn ==
  ASSUME TimerInv, NEW i \in Intervals, InTurn(i),
         UNCHANGED <<list, expire>>, active' \subseteq active,
         op' = "append" => op = "append" /\ UNCHANGED target
  PROVE  InTurn(i)'
<1>1. ASSUME NEW t \in active'
      PROVE  expire'[t] <= i
  BY <1>1 DEF InTurn
<1> QED
  BY <1>1 DEF InTurn

\* A second changes nothing in the order.
LEMMA TickInTurn ==
  ASSUME TimerInv, NEW i \in Intervals, InTurn(i), Tick
  PROVE  InTurn(i)'
<1>1. UNCHANGED <<op, target, active, list>>
  BY DEF Tick, locals
<1>2. /\ \A t \in active : expire[t] \in Int /\ expire'[t] = expire[t] - 1
      /\ \A n \in 1 .. Len(list) :
           /\ expire[list[n]] \in Int
           /\ expire'[list[n]] = expire[list[n]] - 1
  BY TickIs, ListIs DEF TimerInv, TypeOK
<1>3. i \in Int
  BY TimerAssumption
<1>4. \A t \in active : expire'[t] <= i
  BY <1>2, <1>3 DEF InTurn
<1>5. ASSUME NEW m \in 1 .. Len(list), NEW n \in 1 .. Len(list), m <= n
      PROVE  expire'[list[m]] <= expire'[list[n]]
  BY <1>2, <1>5 DEF InTurn
<1>6. ASSUME op = "append", NEW n \in 1 .. Len(list)
      PROVE  expire'[list[n]] <= expire'[target]
  <2>1. target \in active
    BY <1>6 DEF TimerInv, Members
  <2>2. expire[list[n]] <= expire[target]
    BY <1>6 DEF InTurn
  <2> QED
    BY <1>2, <2>1, <2>2
<1> QED
  BY <1>1, <1>4, <1>5, <1>6 DEF InTurn

\* addTimer links a timer that expires last.
LEMMA AppendInTurn ==
  ASSUME TimerInv, NEW i \in Intervals, InTurn(i), op = "append",
         list' = Append(list, target), op' = "heapify",
         UNCHANGED <<expire, active>>
  PROVE  InTurn(i)'
<1>1. /\ Len(list) \in Nat /\ list \in Seq(Timers) /\ target \in Timers
  BY ListIs DEF TimerInv, TypeOK, Members
<1>2. /\ Len(list') = Len(list) + 1 /\ list'[Len(list) + 1] = target
      /\ \A n \in 1 .. Len(list) : list'[n] = list[n]
  BY <1>1, AppendProperties
<1>3. \A n \in 1 .. Len(list') : n \in 1 .. Len(list) \/ n = Len(list) + 1
  BY <1>1, <1>2
<1>4. expire[target] \in Int
  BY <1>1 DEF TimerInv, TypeOK
<1>5. ASSUME NEW m \in 1 .. Len(list'), NEW n \in 1 .. Len(list'), m <= n
      PROVE  expire'[list'[m]] <= expire'[list'[n]]
  <2>1. CASE n \in 1 .. Len(list)
    <3>1. m \in 1 .. Len(list)
      BY <1>1, <1>3, <1>5, <2>1
    <3> QED
      BY <1>2, <1>5, <2>1, <3>1 DEF InTurn
  <2>2. CASE n = Len(list) + 1
    <3>1. CASE m \in 1 .. Len(list)
      BY <1>2, <2>2, <3>1 DEF InTurn
    <3>2. CASE m = Len(list) + 1
      BY <1>2, <1>4, <2>2, <3>2
    <3> QED
      BY <1>3, <3>1, <3>2
  <2> QED
    BY <1>3, <2>1, <2>2
<1> QED
  BY <1>5 DEF InTurn

\* addTimer gives its timer the latest time of all.
LEMMA AddInTurn ==
  ASSUME TimerInv, TimerInv', NEW i \in Intervals, InTurn(i), used = {i},
         NEW t \in Timers, NEW d \in Intervals, addTimer(t, d)
  PROVE  InTurn(i)'
<1>1. /\ d = i /\ t \notin active /\ op = "idle" /\ active' = active \cup {t}
      /\ expire' = [expire EXCEPT ![t] = i]
  BY DEF addTimer
<1>2. {list[n] : n \in 1 .. Len(list)} = active
  BY <1>1 DEF TimerInv, Members, Holds
<1>3. /\ expire \in [Timers -> Int] /\ active \subseteq Timers
      /\ i \in Int
  BY TimerAssumption DEF TimerInv, TypeOK
<1>4. /\ expire'[t] = i
      /\ \A u \in active : expire'[u] = expire[u] /\ expire[u] <= i
  BY <1>1, <1>3 DEF InTurn
<1>5. \A u \in active' : expire'[u] <= i
  BY <1>1, <1>3, <1>4
<1>6. CASE heap = NULL
  <2>1. list' = <<t>> /\ op' = "heapify"
    BY <1>6 DEF addTimer, start
  <2>2. Len(list') = 1 /\ list'[1] = t
    BY <2>1
  <2>3. 1 .. Len(list') = {1}
    BY <2>2
  <2> QED
    BY <1>3, <1>4, <1>5, <2>1, <2>2, <2>3 DEF InTurn
<1>7. CASE heap # NULL
  <2>1. list' = list /\ op' = "append" /\ target' = t
    BY <1>7 DEF addTimer, start
  <2>2. \A n \in 1 .. Len(list) : list[n] \in active
    BY <1>2
  <2>3. ASSUME NEW m \in 1 .. Len(list), NEW n \in 1 .. Len(list), m <= n
        PROVE  expire'[list[m]] <= expire'[list[n]]
    BY <1>4, <2>2, <2>3 DEF InTurn
  <2>4. \A n \in 1 .. Len(list) : expire'[list[n]] <= expire'[t]
    BY <1>4, <2>2
  <2> QED
    BY <1>5, <2>1, <2>3, <2>4 DEF InTurn
<1> QED
  BY <1>6, <1>7

LEMMA SortedKept ==
  ASSUME TimerInv, TimerInv', Sorted, [Next]_vars
  PROVE  Sorted'
<1> SUFFICES ASSUME NEW i \in Intervals, used' = {i}
             PROVE  InTurn(i)'
  BY DEF Sorted
<1>1. UNCHANGED used
  BY DEF Next, Loop, append, find, heapify, execute, executeTimers, Tick,
         deleteTimer, addTimer, vars
<1>2. used = {i} /\ InTurn(i)
  BY <1>1 DEF Sorted
<1>3. Len(list) \in Nat
  BY ListIs DEF TimerInv
<1>4. CASE append
  <2>1. CASE advance
    BY <1>2, <1>4, <2>1, SameTurn DEF append, advance
  <2>2. CASE ~advance
    BY <1>2, <1>4, <2>2, AppendInTurn DEF append, start
  <2> QED
    BY <2>1, <2>2
<1>5. CASE find
  <2>1. CASE advance \/ (return /\ UNCHANGED list)
    BY <1>2, <1>5, <2>1, SameTurn DEF find, advance, return
  <2>2. CASE ~advance /\ ~(return /\ UNCHANGED list)
    <3>1. /\ op = "find" /\ current = target /\ list' = RemoveAt(list, at + 1)
          /\ op' = "heapify" /\ UNCHANGED <<expire, active>>
      BY <1>5, <2>2 DEF find, start
    <3>2. at \in 1 .. Len(list) /\ at + 1 \in 1 .. Len(list)
      <4>1. target # NULL
        BY <3>1, TimerAssumption DEF TimerInv, Members
      <4> QED
        BY <3>1, <4>1, CurrentIs
    <3>3. /\ Len(list') = Len(list) - 1
          /\ \A m \in 1 .. Len(list) - 1 :
               list'[m] = IF m < at + 1 THEN list[m] ELSE list[m + 1]
      <4>1. list \in Seq(Timers)
        BY DEF TimerInv, TypeOK
      <4> QED
        BY <3>1, <3>2, <4>1, RemovedIs
    <3> DEFINE Old == [m \in 1 .. Len(list') |->
                         IF m < at + 1 THEN m ELSE m + 1]
    <3>4. /\ \A m \in 1 .. Len(list') :
               Old[m] \in 1 .. Len(list) /\ list'[m] = list[Old[m]]
          /\ \A m, n \in 1 .. Len(list') : m <= n => Old[m] <= Old[n]
      BY <1>3, <3>2, <3>3
    <3> HIDE DEF Old
    <3> QED
      BY <1>2, <3>1, <3>4, ShorterKeeps
  <2> QED
    BY <2>1, <2>2
<1>6. CASE heapify
  <2>1. current # NULL => ~(expire[current] < expire[parent])
    BY <1>2, <1>6, NothingToMove DEF heapify
  <2>2. /\ UNCHANGED <<list, expire, active>>
        /\ op' \in {"heapify", "idle"}
    BY <1>6, <2>1 DEF heapify, advance, return
  <2> QED
    BY <1>2, <2>2, SameTurn
<1> DEFINE Next1 == [m \in 1 .. Len(list') |-> m + 1]
<1>7. ASSUME list # << >>, list' = Tail(list)
      PROVE  /\ \A m \in 1 .. Len(list') :
                  Next1[m] \in 1 .. Len(list) /\ list'[m] = list[Next1[m]]
             /\ \A m, n \in 1 .. Len(list') : m <= n => Next1[m] <= Next1[n]
  <2>1. /\ Len(list') = Len(list) - 1
        /\ \A m \in 1 .. Len(list) - 1 : list'[m] = list[m + 1]
    BY <1>7, TailIs DEF TimerInv, TypeOK
  <2> QED
    BY <1>3, <2>1
<1> HIDE DEF Next1
<1>8. CASE execute
  <2>1. CASE HeadDue(due)
    <3>1. /\ op' = "execute" /\ list' = Tail(list) /\ active' \subseteq active
          /\ heap # NULL /\ UNCHANGED <<expire>>
      BY <1>8, <2>1 DEF execute, HeadDue, locals
    <3>2. list # << >>
      BY <3>1, HeadIs
    <3> QED
      BY <1>2, <1>7, <3>1, <3>2, ShorterKeeps
  <2>2. CASE ~HeadDue(due)
    BY <1>2, <1>8, <2>2, SameTurn DEF execute, return
  <2> QED
    BY <2>1, <2>2
<1>9. CASE executeTimers
  BY <1>2, <1>9, SameTurn DEF executeTimers
<1>10. CASE Tick
  BY <1>2, <1>10, TickInTurn
<1>11. ASSUME NEW t \in Timers, deleteTimer(t)
       PROVE  InTurn(i)'
  <2>1. CASE heap = t
    <3>1. /\ op' = "idle" /\ list' = Tail(list) /\ active' \subseteq active
          /\ heap # NULL /\ UNCHANGED <<expire>>
      BY <1>11, <2>1, TimerAssumption DEF deleteTimer, locals
    <3>2. list # << >>
      BY <3>1, HeadIs
    <3> QED
      BY <1>2, <1>7, <3>1, <3>2, ShorterKeeps
  <2>2. CASE heap # t
    <3>1. /\ op' \in {"idle", "find"} /\ list' = list
          /\ active' \subseteq active
          /\ UNCHANGED <<expire>>
      BY <1>11, <2>2 DEF deleteTimer, start, locals
    <3> QED
      BY <1>2, <3>1, SameTurn
  <2> QED
    BY <2>1, <2>2
<1>12. ASSUME NEW t \in Timers, NEW d \in Intervals, addTimer(t, d)
       PROVE  InTurn(i)'
  BY <1>2, <1>12, AddInTurn
<1>13. CASE UNCHANGED vars
  BY <1>2, <1>13, SameTurn DEF vars, locals
<1> QED
  BY <1>4, <1>5, <1>6, <1>8, <1>9, <1>10, <1>11, <1>12, <1>13 DEF Next, Loop

\* When executeTimers ends, the head of a list in order is not due.
LEMMA LeavesNothing ==
  ASSUME TimerInv, Sorted, NEW i \in Intervals, used = {i}, [Next]_vars,
         op = "execute", op' = "idle"
  PROVE  \A t \in active' : expire[t] > due
<1>1. /\ ~HeadDue(due) /\ UNCHANGED active
  BY DEF Next, Loop, append, find, heapify, execute, executeTimers, Tick,
         deleteTimer, addTimer, vars, locals
<1>2. {list[n] : n \in 1 .. Len(list)} = active
  BY DEF TimerInv, Members, Holds
<1>3. Len(list) \in Nat
  BY ListIs DEF TimerInv
<1> SUFFICES ASSUME NEW t \in active
             PROVE  expire[t] > due
  BY <1>1
<1>4. PICK n \in 1 .. Len(list) : t = list[n]
  BY <1>2
<1>5. list # << >>
  BY <1>3, <1>4, ListIs DEF TimerInv
<1>6. heap # NULL /\ 1 \in 1 .. Len(list) /\ heap = list[1] /\ heap \in Timers
  BY <1>5, HeadIs
<1>7. expire[list[1]] <= expire[list[n]]
  BY <1>3, <1>4, <1>6 DEF Sorted, InTurn
<1> QED
  BY <1>1, <1>4, <1>6, <1>7 DEF HeadDue, TimerInv, TypeOK

\* When all intervals are the same, as in the server, executeTimers leaves no
\* timer that was due when it began, however the clock goes on meanwhile.
THEOREM NothingOverdue == Spec => NoneOverdue
<1>1. TimerInv /\ Sorted /\ [Next]_vars
        => [op = "execute" /\ op' = "idle" /\ OneInterval
              => \A t \in active' : expire[t] > due]_vars
  BY LeavesNothing DEF OneInterval
<1>2. TimerInv /\ TimerInv' /\ Sorted /\ [Next]_vars => Sorted'
  BY SortedKept
<1> QED
  BY <1>1, <1>2, TimersSound, SortedInitially, PTL DEF Spec, NoneOverdue
=============================================================================

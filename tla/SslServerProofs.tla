--------------------------- MODULE SslServerProofs ---------------------------
(***************************************************************************)
(* Proofs about module SslServer: the search in the list of sessions, and  *)
(* what the edges lose, for any number of connections and descriptors.     *)
(***************************************************************************)
EXTENDS SslServer, FiniteSetTheorems, SequenceTheorems,
        WellFoundedInduction, TLAPS

Node == [fd : Fds, ssl : Conns]

\* The nodes are the open connections, each once and with its descriptor.
ListSound ==
  /\ list \in Seq(Node)
  /\ \A n \in 1 .. Len(list) :
       st[list[n].ssl] = "open" /\ list[n].fd = fd[list[n].ssl]
  /\ \A m, n \in 1 .. Len(list) : list[m].ssl = list[n].ssl => m = n
  /\ \A c \in In("open") : \E n \in 1 .. Len(list) : list[n].ssl = c

\* Two connections never have the same descriptor.
DescriptorsApart ==
  /\ \A c \in In("open") \cup In("stray") : fd[c] \in Fds
  /\ \A c, d \in In("open") \cup In("stray") : fd[c] = fd[d] => c = d

SslInv == TypeOK /\ ListSound /\ DescriptorsApart

-----------------------------------------------------------------------------
(* The list.                                                                *)

\* Linking a node moves the others one place back.
LEMMA LinkedIs ==
  ASSUME list \in Seq(Node), NEW c \in Conns, NEW f \in Fds
  PROVE  /\ Linked(c, f) \in Seq(Node) /\ Len(Linked(c, f)) = Len(list) + 1
         /\ Linked(c, f)[1].fd = f /\ Linked(c, f)[1].ssl = c
         /\ \A n \in 1 .. Len(list) : Linked(c, f)[n + 1] = list[n]
<1> DEFINE node == [fd |-> f, ssl |-> c]
<1>1. node \in Node /\ node.fd = f /\ node.ssl = c
  BY DEF Node
<1> HIDE DEF node
<1>2. <<node>> \in Seq(Node) /\ Len(<<node>>) = 1 /\ <<node>>[1] = node
  BY <1>1
<1>3. /\ <<node>> \o list \in Seq(Node)
      /\ Len(<<node>> \o list) = 1 + Len(list)
      /\ \A i \in 1 .. 1 + Len(list) :
           (<<node>> \o list)[i] = IF i <= 1 THEN <<node>>[i] ELSE list[i - 1]
  BY <1>2, ConcatProperties
<1>4. Linked(c, f) = <<node>> \o list
  BY DEF Linked, node
<1>5. Len(list) \in Nat
  BY LenProperties
<1> QED
  BY <1>1, <1>2, <1>3, <1>4, <1>5

\* The chain the search follows: the dummy, and then the list.
LEMMA ChainIs ==
  ASSUME list \in Seq(Node), dummy \in Fds \cup {0}
  PROVE  /\ Len(Chain) = Len(list) + 1
         /\ Chain[1].fd = dummy /\ Chain[1].ssl = None
         /\ \A n \in 1 .. Len(list) : Chain[n + 1] = list[n]
         /\ Len(Front(Chain)) = Len(list)
         /\ \A n \in 1 .. Len(list) : Front(Chain)[n] = Chain[n]
<1> DEFINE AnyNode == [fd : Fds \cup {0}, ssl : Conns \cup {None}]
           node == [fd |-> dummy, ssl |-> None]
<1>1. node \in AnyNode /\ node.fd = dummy /\ node.ssl = None
  OBVIOUS
<1>2. list \in Seq(AnyNode)
  <2>1. Node \subseteq AnyNode
    BY DEF Node
  <2> HIDE DEF AnyNode
  <2> QED
    BY <2>1
<1> HIDE DEF node, AnyNode
<1>3. <<node>> \in Seq(AnyNode) /\ Len(<<node>>) = 1 /\ <<node>>[1] = node
  BY <1>1
<1>4. /\ <<node>> \o list \in Seq(AnyNode)
      /\ Len(<<node>> \o list) = 1 + Len(list)
      /\ \A i \in 1 .. 1 + Len(list) :
           (<<node>> \o list)[i] = IF i <= 1 THEN <<node>>[i] ELSE list[i - 1]
  BY <1>2, <1>3, ConcatProperties
<1>5. Chain = <<node>> \o list
  BY DEF Chain, node
<1>6. Len(list) \in Nat
  BY <1>2, LenProperties
<1>7. /\ Chain \in Seq(AnyNode) /\ Len(Chain) = Len(list) + 1
      /\ Chain[1].fd = dummy /\ Chain[1].ssl = None
      /\ \A n \in 1 .. Len(list) : Chain[n + 1] = list[n]
  BY <1>1, <1>3, <1>4, <1>5, <1>6
<1>8. Front(Chain) = SubSeq(Chain, 1, Len(list))
  BY <1>6, <1>7 DEF Front
<1>9. \A i \in 1 .. Len(list) : Chain[i] \in AnyNode
  BY <1>6, <1>7, ElementOfSeq
<1>10. /\ Len(Front(Chain)) = Len(list)
       /\ \A n \in 1 .. Len(list) : Front(Chain)[n] = Chain[n]
  BY <1>6, <1>8, <1>9, SubSeqProperties
<1> QED
  BY <1>7, <1>10

\* The search for the descriptor of a node ends at the node, unless the dummy
\* holds the same number.
LEMMA FoundIs ==
  ASSUME ListSound, DescriptorsApart, dummy \in Fds \cup {0},
         NEW n \in 1 .. Len(list), NEW f, f = list[n].fd
  PROVE  Found(f) = IF dummy = f THEN 1 ELSE n + 1
<1> DEFINE I == {i \in 1 .. Len(list) : Chain[i].fd = f}
<1>1. /\ Len(Chain) = Len(list) + 1 /\ Chain[1].fd = dummy
      /\ \A m \in 1 .. Len(list) : Chain[m + 1] = list[m]
      /\ Len(Front(Chain)) = Len(list)
      /\ \A m \in 1 .. Len(list) : Front(Chain)[m] = Chain[m]
      /\ Len(list) \in Nat
  BY ChainIs, LenProperties DEF ListSound
<1>2. I = {i \in 1 .. Len(Front(Chain)) : Front(Chain)[i].fd = f}
  BY <1>1
<1>3. SelectInSeq(Front(Chain), LAMBDA node : node.fd = f) =
        IF I # {} THEN Min(I) ELSE 0
  BY <1>2 DEF SelectInSeq
<1>4. Found(f) = IF I # {} THEN (IF Min(I) > 0 THEN Min(I) ELSE Len(Chain))
                           ELSE Len(Chain)
  BY <1>3 DEF Found
<1>5. \A m \in 1 .. Len(list) : list[m].fd = f => m = n
  <2> SUFFICES ASSUME NEW m \in 1 .. Len(list), list[m].fd = f PROVE m = n
    OBVIOUS
  <2>1. list[m] \in Node /\ list[n] \in Node
    BY ElementOfSeq DEF ListSound
  <2>2. list[m].ssl \in In("open") /\ list[n].ssl \in In("open")
    BY <2>1 DEF Node, In, ListSound
  <2>3. fd[list[m].ssl] = fd[list[n].ssl]
    BY DEF ListSound
  <2> QED
    BY <2>2, <2>3 DEF ListSound, DescriptorsApart
<1>6. CASE dummy = f
  <2>1. 1 \in I /\ \A i \in I : i \in Nat /\ 1 <= i
    BY <1>1, <1>6
  <2>2. Min(I) = 1
    <3> HIDE DEF I
    <3> QED
      BY <2>1 DEF Min
  <2> QED
    BY <1>4, <1>6, <2>1, <2>2
<1>7. CASE dummy # f /\ n < Len(list)
  <2>1. I = {n + 1}
    <3>1. ASSUME NEW i \in I PROVE i = n + 1
      <4>1. i # 1 /\ i \in 1 .. Len(list)
        BY <1>1, <1>7
      <4>2. i - 1 \in 1 .. Len(list) /\ Chain[i] = list[i - 1]
        BY <1>1, <4>1
      <4> QED
        BY <1>5, <4>1, <4>2
    <3>2. n + 1 \in I
      BY <1>1, <1>7
    <3> QED
      BY <3>1, <3>2
  <2>2. Min(I) = n + 1
    <3> HIDE DEF I
    <3> QED
      BY <2>1 DEF Min
  <2> QED
    BY <1>4, <1>7, <2>1, <2>2
<1>8. CASE dummy # f /\ n = Len(list)
  <2>1. ASSUME NEW i \in I PROVE FALSE
    <3>1. i # 1 /\ i \in 1 .. Len(list)
      BY <1>1, <1>8
    <3>2. i - 1 \in 1 .. Len(list) /\ Chain[i] = list[i - 1]
      BY <1>1, <3>1
    <3> QED
      BY <1>5, <1>8, <3>1, <3>2
  <2> QED
    BY <1>1, <1>4, <1>8, <2>1
<1> QED
  BY <1>1, <1>6, <1>7, <1>8

\* Unlinking a node moves those behind it one place forward.
LEMMA RemovedIs ==
  ASSUME list \in Seq(Node), NEW n \in 1 .. Len(list)
  PROVE  /\ RemoveAt(list, n) \in Seq(Node)
         /\ Len(RemoveAt(list, n)) = Len(list) - 1
         /\ \A i \in 1 .. Len(list) - 1 :
              RemoveAt(list, n)[i] = IF i < n THEN list[i] ELSE list[i + 1]
<1> DEFINE a == SubSeq(list, 1, n - 1)
           b == SubSeq(list, n + 1, Len(list))
<1>1. Len(list) \in Nat /\ \A i \in 1 .. Len(list) : list[i] \in Node
  BY LenProperties, ElementOfSeq
<1>2. /\ a \in Seq(Node) /\ Len(a) = n - 1
      /\ \A i \in 1 .. n - 1 : a[i] = list[i]
  <2>1. \A i \in 1 .. n - 1 : list[i] \in Node
    BY <1>1
  <2>2. /\ a \in Seq(Node)
        /\ Len(a) = IF 1 <= n - 1 THEN (n - 1) - 1 + 1 ELSE 0
        /\ \A i \in 1 .. (n - 1) - 1 + 1 : a[i] = list[1 + i - 1]
    BY <1>1, <2>1, SubSeqProperties
  <2> HIDE DEF a
  <2> QED
    BY <1>1, <2>2
<1>3. /\ b \in Seq(Node) /\ Len(b) = Len(list) - n
      /\ \A i \in 1 .. Len(list) - n : b[i] = list[n + i]
  <2>1. \A i \in n + 1 .. Len(list) : list[i] \in Node
    BY <1>1
  <2>2. /\ b \in Seq(Node)
        /\ Len(b) = IF n + 1 <= Len(list) THEN Len(list) - (n + 1) + 1 ELSE 0
        /\ \A i \in 1 .. Len(list) - (n + 1) + 1 : b[i] = list[(n + 1) + i - 1]
    BY <1>1, <2>1, SubSeqProperties
  <2> HIDE DEF b
  <2> QED
    BY <1>1, <2>2
<1> HIDE DEF a, b
<1>4. RemoveAt(list, n) = a \o b
  BY DEF RemoveAt, a, b
<1>5. /\ a \o b \in Seq(Node) /\ Len(a \o b) = Len(a) + Len(b)
      /\ \A i \in 1 .. Len(a) + Len(b) :
           (a \o b)[i] = IF i <= Len(a) THEN a[i] ELSE b[i - Len(a)]
  BY <1>2, <1>3, ConcatProperties
<1>6. ASSUME NEW i \in 1 .. Len(list) - 1
      PROVE  (a \o b)[i] = IF i < n THEN list[i] ELSE list[i + 1]
  <2>1. CASE i < n
    BY <1>1, <1>2, <1>3, <1>5, <2>1
  <2>2. CASE i >= n
    <3>1. (a \o b)[i] = b[i - (n - 1)]
      BY <1>1, <1>2, <1>3, <1>5, <2>2
    <3>2. i - (n - 1) \in 1 .. Len(list) - n
      BY <1>1, <2>2
    <3>3. b[i - (n - 1)] = list[n + (i - (n - 1))]
      BY <1>3, <3>2
    <3>4. n + (i - (n - 1)) = i + 1
      BY <1>1
    <3> QED
      BY <1>1, <2>2, <3>1, <3>3, <3>4
  <2>3. i < n \/ i >= n
    BY <1>1
  <2> QED
    BY <2>1, <2>2, <2>3
<1> QED
  BY <1>1, <1>2, <1>3, <1>4, <1>5, <1>6

\* An open connection has a node, and the search finds it or the dummy.
LEMMA FindsNode ==
  ASSUME SslInv, NEW c \in Conns, st[c] = "open"
  PROVE  \E n \in 1 .. Len(list) :
           /\ list[n].ssl = c /\ list[n].fd = fd[c]
           /\ Found(fd[c]) = (IF dummy = fd[c] THEN 1 ELSE n + 1)
           /\ Chain[n + 1] = list[n] /\ Chain[1].ssl = None
<1>1. PICK n \in 1 .. Len(list) : list[n].ssl = c
  BY DEF SslInv, ListSound, In
<1>2. list[n].fd = fd[c]
  BY <1>1 DEF SslInv, ListSound
<1>3. Found(fd[c]) = IF dummy = fd[c] THEN 1 ELSE n + 1
  BY <1>2, FoundIs DEF SslInv, TypeOK
<1>4. Chain[n + 1] = list[n] /\ Chain[1].ssl = None
  BY ChainIs DEF SslInv, TypeOK, ListSound
<1> QED
  BY <1>1, <1>2, <1>3, <1>4

\* The lowest free descriptor is a free one.
LEMMA LowestIsFree ==
  ASSUME FreeFds # {}
  PROVE  (CHOOSE x \in FreeFds : \A y \in FreeFds : x <= y) \in FreeFds
<1>1. FreeFds \in SUBSET Nat
  BY SslAssumption DEF FreeFds
<1> DEFINE Less == {ss \in Nat \X Nat : ss[1] < ss[2]}
<1>2. IsWellFoundedOn(Less, Nat)
  BY NatLessThanWellFounded DEF OpToRel
<1>3. \E x \in FreeFds : \A y \in FreeFds : ~ (<<y, x>> \in Less)
  <2> HIDE DEF Less
  <2> QED
    BY <1>1, <1>2, WFMin
<1>4. \A x, y \in Nat : y < x => <<y, x>> \in Less
  OBVIOUS
<1> HIDE DEF Less
<1>5. \E x \in FreeFds : \A y \in FreeFds : x <= y
  <2>1. PICK x \in FreeFds : \A y \in FreeFds : ~ (<<y, x>> \in Less)
    BY <1>3
  <2>2. \A y \in FreeFds : ~ (y < x) /\ x \in Nat /\ y \in Nat
    BY <1>1, <1>4, <2>1
  <2> QED
    BY <2>2
<1> QED
  BY <1>5

-----------------------------------------------------------------------------
(* The invariant.                                                           *)

\* What the type invariant says of the nodes follows from ListSound.
LEMMA NodeTypes ==
  ASSUME ListSound
  PROVE  \A n \in DOMAIN list : list[n].fd \in Fds /\ list[n].ssl \in Conns
<1>1. DOMAIN list = 1 .. Len(list)
  BY LenProperties DEF ListSound
<1> SUFFICES ASSUME NEW n \in 1 .. Len(list)
             PROVE  list[n].fd \in Fds /\ list[n].ssl \in Conns
  BY <1>1
<1>2. list[n] \in Node
  BY ElementOfSeq DEF ListSound
<1> QED
  BY <1>2 DEF Node

\* The types but for those of the nodes.
Types ==
  /\ pc \in {"loop", "cleanup", "returned", "crashed"}
  /\ dummy \in Fds \cup {0}
  /\ ready \cup evs \subseteq In("open") \cup {serfd}
  /\ hup \subseteq Conns /\ hups \subseteq hup
  /\ st \in [Conns -> {"idle", "waiting", "open", "stray", "closed"}]
  /\ fd \in [Conns -> Fds \cup {0}] /\ inbox \in [Conns -> 0 .. MaxRecords]
  /\ shared \in [Sockets -> Nat]

\* The invariant with these.
LEMMA Parts == SslInv <=> Types /\ ListSound /\ DescriptorsApart
BY NodeTypes DEF SslInv, TypeOK, Types

\* The start: no list, no connection.
LEMMA InitInv == Init => SslInv
<1> SUFFICES ASSUME Init PROVE SslInv
  OBVIOUS
<1>1. Types
  <2>1. /\ pc = "loop" /\ dummy \in Fds \cup {0} /\ evs = {} /\ hups = {}
        /\ shared = [x \in Sockets |-> 0]
        /\ ready = {} /\ hup = {} /\ st = [c \in Conns |-> "idle"]
        /\ fd = [c \in Conns |-> 0] /\ inbox = [c \in Conns |-> 0]
    BY DEF Init
  <2>2. 0 \in 0 .. MaxRecords
    BY SslAssumption
  <2> QED
    BY <2>1, <2>2 DEF Types
<1>2. In("open") = {} /\ In("stray") = {}
  BY DEF Init, In
<1>3. list \in Seq(Node) /\ Len(list) = 0
  BY DEF Init
<1>4. ListSound
  BY <1>2, <1>3 DEF ListSound
<1>5. DescriptorsApart
  BY <1>2 DEF DescriptorsApart
<1> QED
  BY <1>1, <1>4, <1>5, Parts

\* Steps that leave the list and the descriptors alone, and open or forget no
\* connection.
LEMMA SameList ==
  ASSUME SslInv, Types', UNCHANGED <<list, fd>>,
         In("open")' = In("open"), In("stray")' = In("stray")
  PROVE  SslInv'
<1>1. ListSound'
  <2>1. \A n \in 1 .. Len(list) : list[n].ssl \in In("open")'
    <3>1. \A n \in 1 .. Len(list) : list[n].ssl \in In("open")
      BY NodeTypes, LenProperties DEF SslInv, ListSound, In
    <3> QED
      BY <3>1
  <2>2. \A n \in 1 .. Len(list) : st'[list[n].ssl] = "open"
    BY <2>1 DEF In
  <2> QED
    BY <2>2 DEF SslInv, ListSound
<1>2. DescriptorsApart'
  BY DEF SslInv, DescriptorsApart
<1>3. Types' /\ ListSound' /\ DescriptorsApart' => SslInv'
  BY Parts, PTL
<1> QED
  BY <1>1, <1>2, <1>3

\* What arrives makes an edge.
LEMMA ArrivesTypes ==
  ASSUME SslInv, NEW x \in Sockets, Arrives(x)
  PROVE  /\ ready' = ready \cup {x}
         /\ shared' \in [Sockets -> Nat]
BY DEF Arrives, SslInv, TypeOK

\* A client connects, sends, or resets.
LEMMA ClientInv ==
  ASSUME SslInv, NEW c \in Conns,
         Arrive(c) \/ Send(c) \/ Part(c) \/ Reset(c)
  PROVE  SslInv'
<1>1. CASE Arrive(c)
  <2>1. /\ UNCHANGED <<pc, dummy, list, evs, hups, fd, inbox, hup>>
        /\ st[c] = "idle"
        /\ st' \in [Conns -> {"idle", "waiting", "open", "stray", "closed"}]
        /\ st'[c] = "waiting" /\ \A d \in Conns \ {c} : st'[d] = st[d]
    BY <1>1 DEF Arrive, Becomes, SslInv, TypeOK
  <2>2. In("open")' = In("open") /\ In("stray")' = In("stray")
    BY <2>1 DEF In
  <2>3. ready' = ready \cup {serfd} /\ shared' \in [Sockets -> Nat]
    BY <1>1, ArrivesTypes DEF Arrive, Sockets
  <2>4. Types'
    BY <2>1, <2>2, <2>3 DEF SslInv, TypeOK, Types
  <2> QED
    BY <2>1, <2>2, <2>4, SameList
<1>2. CASE Send(c)
  <2>1. UNCHANGED <<pc, dummy, list, evs, hups, fd, st, hup>> /\ st[c] = "open"
    BY <1>2 DEF Send
  <2>2. In("open")' = In("open") /\ In("stray")' = In("stray")
    BY <2>1 DEF In
  <2>3. inbox' \in [Conns -> 0 .. MaxRecords]
    <3>1. inbox[c] \in Nat /\ shared[c] \in Nat
      BY SslAssumption DEF SslInv, TypeOK, Sockets
    <3>2. inbox[c] + 1 \in 0 .. MaxRecords
      BY <1>2, <3>1, SslAssumption DEF Send
    <3> QED
      BY <1>2, <3>2 DEF Send, SslInv, TypeOK
  <2>4. ready' = ready \cup {c} /\ shared' \in [Sockets -> Nat]
    BY <1>2, ArrivesTypes DEF Send, Sockets
  <2>5. c \in In("open")
    BY <2>1 DEF In
  <2>6. Types'
    BY <2>1, <2>2, <2>3, <2>4, <2>5 DEF SslInv, TypeOK, Types
  <2> QED
    BY <2>1, <2>2, <2>6, SameList
<1>3. CASE Part(c) \/ Reset(c)
  <2>1. /\ UNCHANGED <<pc, dummy, list, evs, hups, fd, st, inbox, shared>>
        /\ st[c] = "open" /\ hup' \in {hup, hup \cup {c}}
        /\ ready' = ready \cup {c}
    BY <1>3 DEF Part, Reset
  <2>2. In("open")' = In("open") /\ In("stray")' = In("stray")
    BY <2>1 DEF In
  <2>3. c \in In("open")
    BY <2>1 DEF In
  <2>4. Types'
    BY <2>1, <2>2, <2>3 DEF SslInv, TypeOK, Types
  <2> QED
    BY <2>1, <2>2, <2>4, SameList
<1> QED
  BY <1>1, <1>2, <1>3

\* Nothing the connections know of changes.
LEMMA LoopInv ==
  ASSUME SslInv,
         \/ EpollWait \/ AcceptFails \/ WaitFails \/ Cleanup
         \/ UNCHANGED vars \/ \E c \in Conns : Crash(c)
  PROVE  SslInv'
<1>1. UNCHANGED <<dummy, list, st, fd, inbox, hup>>
  BY DEF EpollWait, AcceptFails, WaitFails, Cleanup, Crash, vars
<1>2. In("open")' = In("open") /\ In("stray")' = In("stray")
  BY <1>1 DEF In
<1>3. /\ pc' \in {"loop", "cleanup", "returned", "crashed"}
      /\ ready' \cup evs' \subseteq ready \cup evs /\ hups' \subseteq hup
  BY DEF EpollWait, AcceptFails, WaitFails, Cleanup, Crash, vars, epollVars,
         SslInv, TypeOK
<1>4. shared' \in [Sockets -> Nat]
  <2>1. \/ UNCHANGED shared
        \/ shared' = [shared EXCEPT ![serfd] = @ + 1]
    BY DEF EpollWait, AcceptFails, WaitFails, Cleanup, Crash, vars
  <2> QED
    BY <2>1 DEF SslInv, TypeOK
<1>5. Types'
  BY <1>1, <1>2, <1>3, <1>4 DEF SslInv, TypeOK, Types
<1> QED
  BY <1>1, <1>2, <1>5, SameList

\* An accepted connection gets a descriptor of its own, and a node when it is
\* served.
LEMMA AcceptInv ==
  ASSUME SslInv, NEW c \in Conns, Accept(c)
  PROVE  SslInv'
<1> DEFINE f == CHOOSE x \in FreeFds : \A y \in FreeFds : x <= y
<1>1. f \in FreeFds
  BY LowestIsFree DEF Accept
<1>2. /\ fd' = [fd EXCEPT ![c] = f]
      /\ \/ Becomes(c, "open") /\ list' = Linked(c, f)
         \/ Becomes(c, "closed") /\ UNCHANGED list
         \/ Becomes(c, "stray") /\ UNCHANGED list
  BY DEF Accept
<1> HIDE DEF f
<1>3. /\ f \in Fds
      /\ \A d \in In("open") \cup In("stray") : fd[d] # f
  BY <1>1 DEF FreeFds
<1>4. /\ fd' \in [Conns -> Fds \cup {0}] /\ fd'[c] = f
      /\ \A d \in Conns \ {c} : fd'[d] = fd[d]
  BY <1>2, <1>3 DEF SslInv, TypeOK
<1>5. /\ st' \in [Conns -> {"idle", "waiting", "open", "stray", "closed"}]
      /\ st[c] = "waiting" /\ st'[c] \in {"open", "closed", "stray"}
      /\ \A d \in Conns \ {c} : st'[d] = st[d]
  BY <1>2 DEF Accept, Becomes, SslInv, TypeOK
<1>6. /\ UNCHANGED <<pc, dummy, ready, hups, inbox, hup, shared>>
      /\ evs' \subseteq evs
  BY DEF Accept
<1>7. Types'
  <2>1. (ready \cup evs)' \subseteq In("open")' \cup {serfd}
    BY <1>5, <1>6 DEF SslInv, TypeOK, In
  <2> QED
    BY <1>4, <1>5, <1>6, <2>1 DEF SslInv, TypeOK, Types
<1>8. DescriptorsApart'
  <2>1. \A d \in (In("open") \cup In("stray"))' :
          d = c \/ d \in In("open") \cup In("stray")
    BY <1>5 DEF In
  <2>2. \A d \in (In("open") \cup In("stray"))' : d \in Conns
    BY DEF In
  <2> QED
    BY <1>3, <1>4, <2>1, <2>2 DEF SslInv, DescriptorsApart
<1>9. ListSound'
  <2>1. \A n \in 1 .. Len(list) :
          /\ list[n].ssl \in Conns \ {c} /\ st'[list[n].ssl] = "open"
          /\ list[n].fd = fd'[list[n].ssl]
    <3> SUFFICES ASSUME NEW n \in 1 .. Len(list)
                 PROVE  /\ list[n].ssl \in Conns \ {c}
                        /\ st'[list[n].ssl] = "open"
                        /\ list[n].fd = fd'[list[n].ssl]
      OBVIOUS
    <3>1. list[n].ssl \in Conns
      BY NodeTypes, LenProperties DEF SslInv, ListSound
    <3>2. st[list[n].ssl] = "open" /\ list[n].fd = fd[list[n].ssl]
      BY DEF SslInv, ListSound
    <3> QED
      BY <1>4, <1>5, <3>1, <3>2
  <2>2. /\ list \in Seq(Node) /\ Len(list) \in Nat
        /\ \A m, n \in 1 .. Len(list) : list[m].ssl = list[n].ssl => m = n
        /\ \A d \in In("open") : \E n \in 1 .. Len(list) : list[n].ssl = d
    BY LenProperties DEF SslInv, ListSound
  <2>3. CASE Becomes(c, "open") /\ list' = Linked(c, f)
    <3>1. /\ list' \in Seq(Node) /\ Len(list') = Len(list) + 1
          /\ list'[1].fd = f /\ list'[1].ssl = c
          /\ \A n \in 1 .. Len(list) : list'[n + 1] = list[n]
      BY <1>3, <2>2, <2>3, LinkedIs
    <3>2. st'[c] = "open"
      BY <2>3 DEF Becomes, SslInv, TypeOK
    <3>3. \A n \in 1 .. Len(list') : n = 1 \/ n - 1 \in 1 .. Len(list)
      BY <2>2, <3>1
    <3>4. \A n \in 1 .. Len(list') : n # 1 => list'[n] = list[n - 1]
      <4> SUFFICES ASSUME NEW n \in 1 .. Len(list'), n # 1
                   PROVE  list'[n] = list[n - 1]
        OBVIOUS
      <4>1. n - 1 \in 1 .. Len(list) /\ (n - 1) + 1 = n
        BY <2>2, <3>1
      <4> QED
        BY <3>1, <4>1
    <3>5. \A n \in 1 .. Len(list') :
            st'[list'[n].ssl] = "open" /\ list'[n].fd = fd'[list'[n].ssl]
      <4> SUFFICES ASSUME NEW n \in 1 .. Len(list')
                   PROVE  /\ st'[list'[n].ssl] = "open"
                          /\ list'[n].fd = fd'[list'[n].ssl]
        OBVIOUS
      <4>1. CASE n = 1
        BY <1>4, <3>1, <3>2, <4>1
      <4>2. CASE n # 1
        <5>1. n - 1 \in 1 .. Len(list) /\ list'[n] = list[n - 1]
          BY <3>3, <3>4, <4>2
        <5> QED
          BY <2>1, <5>1
      <4> QED
        BY <4>1, <4>2
    <3>6. ASSUME NEW m \in 1 .. Len(list'), NEW n \in 1 .. Len(list'),
                 list'[m].ssl = list'[n].ssl
          PROVE  m = n
      <4>1. CASE m = 1 \/ n = 1
        <5>1. ASSUME NEW k \in 1 .. Len(list'), k # 1
              PROVE  list'[k].ssl # c
          <6>1. k - 1 \in 1 .. Len(list) /\ list'[k] = list[k - 1]
            BY <3>3, <3>4, <5>1
          <6> QED
            BY <2>1, <6>1
        <5> QED
          BY <3>1, <3>6, <4>1, <5>1
      <4>2. CASE m # 1 /\ n # 1
        <5>1. m - 1 = n - 1
          BY <2>2, <3>3, <3>4, <3>6, <4>2
        <5> QED
          BY <2>2, <3>1, <5>1
      <4> QED
        BY <4>1, <4>2
    <3>7. ASSUME NEW d \in In("open")'
          PROVE  \E n \in 1 .. Len(list') : list'[n].ssl = d
      <4>1. CASE d = c
        BY <2>2, <3>1, <4>1
      <4>2. CASE d # c
        <5>1. d \in In("open")
          BY <1>5, <4>2 DEF In
        <5>2. PICK n \in 1 .. Len(list) : list[n].ssl = d
          BY <2>2, <5>1
        <5>3. n + 1 \in 1 .. Len(list') /\ list'[n + 1].ssl = d
          BY <2>2, <3>1, <5>2
        <5> QED
          BY <5>3
      <4> QED
        BY <4>1, <4>2
    <3> QED
      BY <3>1, <3>5, <3>6, <3>7 DEF ListSound
  <2>4. CASE (Becomes(c, "closed") \/ Becomes(c, "stray")) /\ UNCHANGED list
    <3>1. \A d \in In("open")' : d \in In("open")
      BY <1>5, <2>4 DEF In, Becomes, SslInv, TypeOK
    <3> QED
      BY <2>1, <2>2, <2>4, <3>1 DEF ListSound
  <2> QED
    BY <1>2, <2>3, <2>4
<1>10. Types' /\ ListSound' /\ DescriptorsApart' => SslInv'
  BY Parts, PTL
<1> QED
  BY <1>7, <1>8, <1>9, <1>10

\* An event that does not end in undefined behaviour found the connection's own
\* node.
LEMMA OwnNode ==
  ASSUME SslInv, NEW c \in Conns, c \in evs, ~ Stray(c)
  PROVE  /\ st[c] = "open" /\ dummy # fd[c]
         /\ \E n \in 1 .. Len(list) :
              /\ list[n].ssl = c /\ Found(fd[c]) = n + 1
              /\ Chain[Found(fd[c])].ssl = c
<1>1. st[c] = "open"
  BY SslAssumption DEF SslInv, TypeOK, In
<1>2. PICK n \in 1 .. Len(list) :
        /\ list[n].ssl = c /\ list[n].fd = fd[c]
        /\ Found(fd[c]) = (IF dummy = fd[c] THEN 1 ELSE n + 1)
        /\ Chain[n + 1] = list[n] /\ Chain[1].ssl = None
  BY <1>1, FindsNode
<1>3. dummy # fd[c]
  BY <1>2 DEF Stray
<1> QED
  BY <1>1, <1>2, <1>3

\* One read takes a record from the connection itself.
LEMMA ReadInv ==
  ASSUME SslInv, NEW c \in Conns, Read(c)
  PROVE  SslInv' /\ inbox' = [inbox EXCEPT ![c] = IF @ > 0 THEN @ - 1 ELSE 0]
<1>1. /\ UNCHANGED <<pc, dummy, list, ready, hups, st, fd, hup, shared>>
      /\ evs' = evs \ {c} /\ c \in evs /\ ~ Stray(c)
      /\ inbox' = [inbox EXCEPT ![Chain[Found(fd[c])].ssl] =
                     IF @ > 0 THEN @ - 1 ELSE 0]
  BY DEF Read, Event
<1>2. Chain[Found(fd[c])].ssl = c
  BY <1>1, OwnNode
<1>3. inbox' = [inbox EXCEPT ![c] = IF @ > 0 THEN @ - 1 ELSE 0]
  BY <1>1, <1>2
<1>4. inbox' \in [Conns -> 0 .. MaxRecords]
  <2>1. inbox \in [Conns -> 0 .. MaxRecords]
    BY DEF SslInv, TypeOK
  <2> QED
    BY <1>3, <2>1, SslAssumption
<1>5. In("open")' = In("open") /\ In("stray")' = In("stray")
  BY <1>1 DEF In
<1>6. Types'
  BY <1>1, <1>4, <1>5 DEF SslInv, TypeOK, Types
<1> QED
  BY <1>1, <1>3, <1>5, <1>6, SameList

\* A connection that is closed takes its node along, and no other.
LEMMA QuitInv ==
  ASSUME SslInv, NEW c \in Conns, Quit(c)
  PROVE  SslInv'
<1>1. /\ UNCHANGED <<pc, dummy, hups, fd, inbox, hup, shared>>
      /\ ready' = ready \ {c} /\ evs' = evs \ {c} /\ c \in evs /\ ~ Stray(c)
      /\ list' = RemoveAt(list, Found(fd[c]) - 1)
  BY DEF Quit, Event
<1>2. PICK n \in 1 .. Len(list) : list[n].ssl = c /\ Found(fd[c]) = n + 1
  BY <1>1, OwnNode
<1>3. /\ list \in Seq(Node) /\ Len(list) \in Nat
      /\ \A m, k \in 1 .. Len(list) : list[m].ssl = list[k].ssl => m = k
      /\ \A d \in In("open") : \E m \in 1 .. Len(list) : list[m].ssl = d
  BY LenProperties DEF SslInv, ListSound
<1>4. /\ list' \in Seq(Node) /\ Len(list') = Len(list) - 1
      /\ \A i \in 1 .. Len(list) - 1 :
           list'[i] = IF i < n THEN list[i] ELSE list[i + 1]
  <2>1. list' = RemoveAt(list, n)
    BY <1>1, <1>2
  <2> QED
    BY <1>3, <2>1, RemovedIs
<1>5. /\ st' \in [Conns -> {"idle", "waiting", "open", "stray", "closed"}]
      /\ st[c] = "open" /\ st'[c] = "closed"
      /\ \A d \in Conns \ {c} : st'[d] = st[d]
  BY <1>1, OwnNode DEF Quit, Becomes, SslInv, TypeOK
<1>6. In("open")' = In("open") \ {c} /\ In("stray")' = In("stray")
  BY <1>5 DEF In
<1>7. Types'
  BY <1>1, <1>5, <1>6 DEF SslInv, TypeOK, Types
<1>8. DescriptorsApart'
  BY <1>1, <1>6 DEF SslInv, DescriptorsApart
<1> DEFINE Old(i) == IF i < n THEN i ELSE i + 1
<1>9. \A i \in 1 .. Len(list') :
        Old(i) \in 1 .. Len(list) /\ Old(i) # n /\ list'[i] = list[Old(i)]
  BY <1>3, <1>4
<1>10. \A i, j \in 1 .. Len(list') : Old(i) = Old(j) => i = j
  BY <1>3, <1>4
<1>11. \A m \in 1 .. Len(list) :
         m # n => \E i \in 1 .. Len(list') : Old(i) = m
  <2> SUFFICES ASSUME NEW m \in 1 .. Len(list), m # n
               PROVE  \E i \in 1 .. Len(list') : Old(i) = m
    OBVIOUS
  <2>1. CASE m < n
    BY <1>3, <1>4, <2>1
  <2>2. CASE m > n
    <3>1. m - 1 \in 1 .. Len(list') /\ Old(m - 1) = m
      BY <1>3, <1>4, <2>2
    <3> QED
      BY <3>1
  <2>3. m < n \/ m > n
    BY <1>3
  <2> QED
    BY <2>1, <2>2, <2>3
<1> HIDE DEF Old
<1>12. ListSound'
  <2>1. \A m \in 1 .. Len(list) :
          m # n => /\ list[m].ssl \in Conns \ {c}
                   /\ st'[list[m].ssl] = "open"
                   /\ list[m].fd = fd'[list[m].ssl]
    <3> SUFFICES ASSUME NEW m \in 1 .. Len(list), m # n
                 PROVE  /\ list[m].ssl \in Conns \ {c}
                        /\ st'[list[m].ssl] = "open"
                        /\ list[m].fd = fd'[list[m].ssl]
      OBVIOUS
    <3>1. list[m].ssl \in Conns
      BY NodeTypes, LenProperties DEF SslInv, ListSound
    <3>2. st[list[m].ssl] = "open" /\ list[m].fd = fd[list[m].ssl]
      BY DEF SslInv, ListSound
    <3>3. list[m].ssl # c
      BY <1>2, <1>3
    <3> QED
      BY <1>1, <1>5, <3>1, <3>2, <3>3
  <2>2. \A i \in 1 .. Len(list') :
          st'[list'[i].ssl] = "open" /\ list'[i].fd = fd'[list'[i].ssl]
    BY <1>9, <2>1
  <2>3. \A i, j \in 1 .. Len(list') : list'[i].ssl = list'[j].ssl => i = j
    BY <1>3, <1>9, <1>10
  <2>4. ASSUME NEW d \in In("open")'
        PROVE  \E i \in 1 .. Len(list') : list'[i].ssl = d
    <3>1. d \in In("open") /\ d # c
      BY <1>6, <2>4
    <3>2. PICK m \in 1 .. Len(list) : list[m].ssl = d
      BY <1>3, <3>1
    <3>3. PICK i \in 1 .. Len(list') : Old(i) = m
      BY <1>2, <1>11, <3>1, <3>2
    <3> QED
      BY <1>9, <3>2, <3>3
  <2> QED
    BY <1>4, <2>2, <2>3, <2>4 DEF ListSound
<1>13. Types' /\ ListSound' /\ DescriptorsApart' => SslInv'
  BY Parts, PTL
<1> QED
  BY <1>7, <1>8, <1>12, <1>13

\* Every step keeps the invariant.
LEMMA StepInv == SslInv /\ [Next]_vars => SslInv'
BY ClientInv, LoopInv, AcceptInv, ReadInv, QuitInv DEF Next

\* The inductive invariant of the TLS server: its list is the open connections.
THEOREM SslInvariance == Spec => []SslInv
<1>1. Init => SslInv
  BY InitInv
<1>2. SslInv /\ [Next]_vars => SslInv'
  BY StepInv
<1> QED
  BY <1>1, <1>2, PTL DEF Spec

-----------------------------------------------------------------------------
(* The results.                                                             *)

\* The search of handle_read and ssl_quit finds a connection's own session,
\* wherever in the list its node is and whichever descriptors are used again,
\* unless the dummy holds the same number.
THEOREM SearchSound == Spec => []FindsOwnSession
<1>1. SslInv => FindsOwnSession
  <2> SUFFICES ASSUME SslInv, NEW c \in In("open")
               PROVE  Chain[Found(fd[c])].ssl =
                        IF dummy = fd[c] THEN None ELSE c
    BY DEF SslInv, FindsOwnSession
  <2>1. c \in Conns /\ st[c] = "open"
    BY DEF In
  <2>2. PICK n \in 1 .. Len(list) :
          /\ list[n].ssl = c /\ list[n].fd = fd[c]
          /\ Found(fd[c]) = (IF dummy = fd[c] THEN 1 ELSE n + 1)
          /\ Chain[n + 1] = list[n] /\ Chain[1].ssl = None
    BY <2>1, FindsNode
  <2> QED
    BY <2>2
<1> QED
  BY <1>1, SslInvariance, PTL

-----------------------------------------------------------------------------
(* What the edges lose.                                                     *)

AcceptBooks == Cardinality(In("waiting")) = shared[serfd] + Edges(serfd)
ReadBooks == \A c \in In("open") : inbox[c] <= shared[c] + Edges(c)

\* A connection has sent nothing before it is accepted.
NothingEarly ==
  \A c \in Conns : st[c] \in {"idle", "waiting"} => inbox[c] = 0

LagInv == AcceptBooks /\ ReadBooks /\ NothingEarly

\* The connections that wait can be counted.
LEMMA WaitingCount ==
  /\ IsFiniteSet(In("waiting")) /\ Cardinality(In("waiting")) \in Nat
  /\ \A c \in Conns \ In("waiting") :
       Cardinality(In("waiting") \cup {c}) = Cardinality(In("waiting")) + 1
  /\ \A c \in In("waiting") :
       Cardinality(In("waiting") \ {c}) = Cardinality(In("waiting")) - 1
<1>1. In("waiting") \subseteq Conns
  BY DEF In
<1>2. IsFiniteSet(In("waiting"))
  BY <1>1, SslAssumption, FS_Subset
<1>3. Cardinality(In("waiting")) \in Nat
  BY <1>2, FS_CardinalityType
<1>4. ASSUME NEW c \in Conns \ In("waiting")
      PROVE  Cardinality(In("waiting") \cup {c}) =
               Cardinality(In("waiting")) + 1
  BY <1>2, <1>4, FS_AddElement
<1>5. ASSUME NEW c \in In("waiting")
      PROVE  Cardinality(In("waiting") \ {c}) = Cardinality(In("waiting")) - 1
  BY <1>2, <1>5, FS_RemoveElement
<1> QED
  BY <1>2, <1>3, <1>4, <1>5

\* The start: nobody waits and nothing is ready.
LEMMA InitLag == Init => LagInv
<1> SUFFICES ASSUME Init PROVE LagInv
  OBVIOUS
<1>1. In("waiting") = {} /\ In("open") = {}
  BY DEF Init, In
<1>2. Edges(serfd) = 0 /\ shared[serfd] = 0
  BY DEF Init, Edges, Sockets
<1>3. AcceptBooks
  BY <1>1, <1>2, FS_EmptySet DEF AcceptBooks
<1>4. NothingEarly
  BY DEF Init, NothingEarly
<1> QED
  BY <1>1, <1>3, <1>4 DEF LagInv, ReadBooks

\* An arrival is an edge, or shares one.
LEMMA ArrivesBooks ==
  ASSUME SslInv, NEW x \in Sockets, Arrives(x), UNCHANGED evs
  PROVE  /\ shared'[x] + Edges(x)' = shared[x] + Edges(x) + 1
         /\ \A y \in Sockets : y # x => /\ shared'[y] = shared[y]
                                        /\ Edges(y)' = Edges(y)
<1>1. /\ shared \in [Sockets -> Nat] /\ ready' = ready \cup {x}
      /\ shared' = [shared EXCEPT ![x] = IF x \in ready THEN @ + 1 ELSE @]
  BY DEF Arrives, SslInv, TypeOK
<1>2. shared[x] \in Nat
      /\ shared'[x] = IF x \in ready THEN shared[x] + 1 ELSE shared[x]
  BY <1>1
<1>3. shared'[x] + Edges(x)' = shared[x] + Edges(x) + 1
  <2>1. CASE x \in ready
    BY <1>1, <1>2, <2>1 DEF Edges
  <2>2. CASE x \notin ready
    BY <1>1, <1>2, <2>2 DEF Edges
  <2> QED
    BY <2>1, <2>2
<1>4. \A y \in Sockets : y # x => /\ shared'[y] = shared[y]
                                  /\ Edges(y)' = Edges(y)
  BY <1>1 DEF Edges
<1> QED
  BY <1>3, <1>4

\* Steps that open no connection and keep the books of the listening socket and
\* of every other.
LEMMA SameBooks ==
  ASSUME SslInv, SslInv', LagInv,
         In("waiting")' = In("waiting"), UNCHANGED inbox,
         shared'[serfd] + Edges(serfd)' = shared[serfd] + Edges(serfd),
         \A c \in In("open")' :
           /\ c \in In("open")
           /\ shared'[c] + Edges(c)' >= shared[c] + Edges(c),
         \A c \in Conns : st'[c] = "idle" => st[c] = "idle"
  PROVE  LagInv'
<1>1. AcceptBooks'
  BY DEF LagInv, AcceptBooks
<1>2. ReadBooks'
  <2>1. SUFFICES ASSUME NEW c \in In("open")'
                 PROVE  inbox[c] <= shared'[c] + Edges(c)'
    BY DEF ReadBooks
  <2>2. /\ c \in Conns /\ inbox[c] <= shared[c] + Edges(c)
        /\ shared'[c] + Edges(c)' >= shared[c] + Edges(c)
    BY <2>1 DEF LagInv, ReadBooks, In
  <2>3. inbox[c] \in Nat /\ shared[c] \in Nat /\ Edges(c) \in Nat
    BY <2>2, SslAssumption DEF SslInv, TypeOK, Sockets, Edges
  <2>4. shared'[c] \in Nat /\ Edges(c)' \in Nat
    BY <2>2 DEF SslInv, TypeOK, Sockets, Edges
  <2> QED
    BY <2>2, <2>3, <2>4
<1>3. NothingEarly'
  BY DEF LagInv, NothingEarly, In
<1> QED
  BY <1>1, <1>2, <1>3 DEF LagInv

\* A client that connects waits, for an edge of its own or a shared one.
LEMMA ArriveLag ==
  ASSUME SslInv, LagInv, NEW c \in Conns, Arrive(c)
  PROVE  LagInv'
<1>1. /\ st[c] = "idle" /\ UNCHANGED <<evs, inbox>> /\ Arrives(serfd)
      /\ st'[c] = "waiting" /\ \A d \in Conns \ {c} : st'[d] = st[d]
  BY DEF Arrive, Becomes, SslInv, TypeOK
<1>2. serfd \in Sockets /\ \A d \in Conns : d \in Sockets /\ d # serfd
  BY SslAssumption DEF Sockets
<1>3. AcceptBooks'
  <2>1. c \in Conns \ In("waiting") /\ In("waiting")' = In("waiting") \cup {c}
    BY <1>1 DEF In
  <2>2. Cardinality(In("waiting")') = Cardinality(In("waiting")) + 1
    BY <2>1, WaitingCount
  <2>3. shared'[serfd] + Edges(serfd)' = shared[serfd] + Edges(serfd) + 1
    BY <1>1, <1>2, ArrivesBooks
  <2> QED
    BY <2>2, <2>3 DEF LagInv, AcceptBooks
<1>4. ReadBooks'
  <2>1. \A d \in Conns : shared'[d] = shared[d] /\ Edges(d)' = Edges(d)
    BY <1>1, <1>2, ArrivesBooks
  <2>2. \A d \in In("open")' : d \in In("open")
    BY <1>1 DEF In
  <2> QED
    BY <1>1, <2>1, <2>2 DEF LagInv, ReadBooks, In
<1>5. NothingEarly'
  BY <1>1 DEF LagInv, NothingEarly
<1> QED
  BY <1>3, <1>4, <1>5 DEF LagInv

\* So does a record.
LEMMA SendLag ==
  ASSUME SslInv, LagInv, NEW c \in Conns, Send(c)
  PROVE  LagInv'
<1>1. /\ st[c] = "open" /\ UNCHANGED <<evs, st>> /\ Arrives(c)
      /\ inbox'[c] = inbox[c] + 1
      /\ \A d \in Conns \ {c} : inbox'[d] = inbox[d]
  BY DEF Send, SslInv, TypeOK
<1>2. serfd \in Sockets /\ \A d \in Conns : d \in Sockets /\ d # serfd
  BY SslAssumption DEF Sockets
<1>3. /\ shared'[c] + Edges(c)' = shared[c] + Edges(c) + 1
      /\ \A d \in Sockets \ {c} : shared'[d] = shared[d]
                                   /\ Edges(d)' = Edges(d)
  BY <1>1, <1>2, ArrivesBooks
<1>4. AcceptBooks'
  <2>1. shared'[serfd] = shared[serfd] /\ Edges(serfd)' = Edges(serfd)
    BY <1>2, <1>3
  <2>2. In("waiting")' = In("waiting")
    BY <1>1 DEF In
  <2> QED
    BY <2>1, <2>2 DEF LagInv, AcceptBooks
<1>5. ReadBooks'
  <2>1. SUFFICES ASSUME NEW d \in In("open")'
                 PROVE  inbox'[d] <= shared'[d] + Edges(d)'
    BY DEF ReadBooks
  <2>2. d \in Conns /\ inbox[d] <= shared[d] + Edges(d)
    BY <1>1, <2>1 DEF In, LagInv, ReadBooks
  <2>3. inbox[d] \in Nat /\ shared[d] \in Nat /\ Edges(d) \in Nat
    BY <2>2, SslAssumption DEF SslInv, TypeOK, Sockets, Edges
  <2> QED
    BY <1>1, <1>2, <1>3, <2>2, <2>3
<1>6. NothingEarly'
  BY <1>1 DEF LagInv, NothingEarly
<1> QED
  BY <1>4, <1>5, <1>6 DEF LagInv

\* One edge of the listening socket is one connection that waits no more.
LEMMA AcceptLag ==
  ASSUME SslInv, LagInv, NEW c \in Conns, Accept(c)
  PROVE  LagInv'
<1>1. /\ st[c] = "waiting" /\ UNCHANGED <<ready, inbox, shared>>
      /\ serfd \in evs /\ evs' = evs \ {serfd}
      /\ st'[c] \in {"open", "closed", "stray"}
      /\ \A d \in Conns \ {c} : st'[d] = st[d]
  BY DEF Accept, Event, Becomes, SslInv, TypeOK
<1>2. serfd \in Sockets /\ \A d \in Conns : d \in Sockets /\ d # serfd
  BY SslAssumption DEF Sockets
<1>3. AcceptBooks'
  <2>1. c \in In("waiting") /\ In("waiting")' = In("waiting") \ {c}
    BY <1>1 DEF In
  <2>2. Cardinality(In("waiting")') = Cardinality(In("waiting")) - 1
    BY <2>1, WaitingCount
  <2>3. Edges(serfd)' = Edges(serfd) - 1
    BY <1>1 DEF Edges
  <2>4. shared[serfd] \in Nat /\ Edges(serfd) \in Nat
    BY <1>2 DEF SslInv, TypeOK, Edges
  <2> QED
    BY <1>1, <2>2, <2>3, <2>4 DEF LagInv, AcceptBooks
<1>4. ReadBooks'
  <2>1. SUFFICES ASSUME NEW d \in In("open")'
                 PROVE  inbox[d] <= shared[d] + Edges(d)'
    BY <1>1 DEF ReadBooks
  <2>2. d \in Conns /\ Edges(d)' = Edges(d)
    BY <1>1, <1>2, <2>1 DEF In, Edges
  <2>3. CASE d = c
    <3>1. inbox[d] = 0
      BY <1>1, <2>3 DEF LagInv, NothingEarly
    <3>2. shared[d] \in Nat /\ Edges(d) \in Nat
      BY <2>2 DEF SslInv, TypeOK, Sockets, Edges
    <3> QED
      BY <2>2, <3>1, <3>2
  <2>4. CASE d # c
    <3>1. d \in In("open")
      BY <1>1, <2>1, <2>2, <2>4 DEF In
    <3> QED
      BY <2>2, <3>1 DEF LagInv, ReadBooks
  <2> QED
    BY <2>3, <2>4
<1>5. NothingEarly'
  BY <1>1 DEF LagInv, NothingEarly
<1> QED
  BY <1>3, <1>4, <1>5 DEF LagInv

\* One edge of a connection is one record read from it, or none is there.
LEMMA ReadLag ==
  ASSUME SslInv, LagInv, NEW c \in Conns, Read(c)
  PROVE  LagInv'
<1>1. /\ UNCHANGED <<st, ready, shared>> /\ c \in evs /\ evs' = evs \ {c}
      /\ inbox'[c] = IF inbox[c] > 0 THEN inbox[c] - 1 ELSE 0
      /\ \A d \in Conns \ {c} : inbox'[d] = inbox[d]
  <2>1. inbox' = [inbox EXCEPT ![c] = IF @ > 0 THEN @ - 1 ELSE 0]
    BY ReadInv
  <2>2. inbox \in [Conns -> 0 .. MaxRecords]
    BY DEF SslInv, TypeOK
  <2> QED
    BY <2>1, <2>2 DEF Read, Event
<1>2. serfd \in Sockets /\ \A d \in Conns : d \in Sockets /\ d # serfd
  BY SslAssumption DEF Sockets
<1>3. \A x \in Sockets : Edges(x)' = IF x = c THEN Edges(x) - 1 ELSE Edges(x)
  BY <1>1 DEF Edges
<1>4. AcceptBooks'
  <2>1. In("waiting")' = In("waiting") /\ Edges(serfd)' = Edges(serfd)
    BY <1>1, <1>2, <1>3 DEF In
  <2> QED
    BY <1>1, <2>1 DEF LagInv, AcceptBooks
<1>5. ReadBooks'
  <2>1. SUFFICES ASSUME NEW d \in In("open")'
                 PROVE  inbox'[d] <= shared[d] + Edges(d)'
    BY <1>1 DEF ReadBooks
  <2>2. d \in Conns /\ inbox[d] <= shared[d] + Edges(d)
    BY <1>1, <2>1 DEF In, LagInv, ReadBooks
  <2>3. inbox[d] \in Nat /\ shared[d] \in Nat /\ Edges(d) \in Nat
    BY <2>2, SslAssumption DEF SslInv, TypeOK, Sockets, Edges
  <2>4. d = c => Edges(d) >= 1
    BY <1>1 DEF Edges
  <2> QED
    BY <1>1, <1>2, <1>3, <2>2, <2>3, <2>4
<1>6. NothingEarly'
  BY <1>1 DEF LagInv, NothingEarly
<1> QED
  BY <1>4, <1>5, <1>6 DEF LagInv

\* The other steps leave the books as they are: epoll_wait moves edges, a
\* failed accept() enters the edge it spent, and a reset closes its own
\* connection.
LEMMA OthersLag ==
  ASSUME SslInv, SslInv', LagInv,
         \/ EpollWait \/ AcceptFails \/ WaitFails \/ Cleanup
         \/ UNCHANGED vars
         \/ \E c \in Conns : Part(c) \/ Reset(c) \/ Crash(c) \/ Quit(c)
  PROVE  LagInv'
<1>1. serfd \in Sockets /\ \A d \in Conns : d \in Sockets /\ d # serfd
  BY SslAssumption DEF Sockets
<1>2. shared \in [Sockets -> Nat]
  BY DEF SslInv, TypeOK
<1>3. \A x \in Sockets : Edges(x) \in Nat /\ Edges(x)' \in Nat
  BY DEF Edges
<1>4. ASSUME UNCHANGED <<st, inbox>>,
             \A x \in Sockets :
               shared'[x] + Edges(x)' = shared[x] + Edges(x)
      PROVE  LagInv'
  <2>1. In("waiting")' = In("waiting") /\ In("open")' = In("open")
    BY <1>4 DEF In
  <2>2. \A c \in In("open")' :
          /\ c \in In("open")
          /\ shared'[c] + Edges(c)' >= shared[c] + Edges(c)
    <3>1. \A c \in In("open")' : c \in Sockets /\ c \in In("open")
      BY <1>1, <2>1 DEF In
    <3> QED
      BY <1>2, <1>3, <1>4, <3>1
  <2> QED
    BY <1>1, <1>4, <2>1, <2>2, SameBooks
<1>5. CASE EpollWait
  <2>1. PICK S \in SUBSET ready :
          evs' = S /\ ready' = ready \ S /\ evs = {}
    BY <1>5 DEF EpollWait
  <2>2. \A x \in Sockets : Edges(x)' = Edges(x)
    BY <2>1 DEF Edges
  <2> QED
    BY <1>4, <1>5, <2>2 DEF EpollWait
<1>6. CASE AcceptFails
  <2>1. /\ UNCHANGED <<st, inbox, ready>> /\ serfd \in evs
        /\ evs' = evs \ {serfd}
        /\ shared' = [shared EXCEPT ![serfd] = @ + 1]
    BY <1>6 DEF AcceptFails, Event
  <2>2. \A x \in Sockets :
          /\ Edges(x)' = IF x = serfd THEN Edges(x) - 1 ELSE Edges(x)
          /\ shared'[x] = IF x = serfd THEN shared[x] + 1 ELSE shared[x]
    BY <1>1, <1>2, <2>1 DEF Edges
  <2>3. \A x \in Sockets :
          shared'[x] + Edges(x)' = shared[x] + Edges(x)
    BY <1>2, <1>3, <2>2
  <2> QED
    BY <1>4, <2>1, <2>3
<1>7. CASE WaitFails \/ Cleanup \/ UNCHANGED vars \/ \E c \in Conns : Crash(c)
  <2>1. UNCHANGED <<st, inbox, shared, ready, evs>>
    BY <1>7 DEF WaitFails, Cleanup, Crash, vars, epollVars
  <2>2. \A x \in Sockets : Edges(x)' = Edges(x)
    BY <2>1 DEF Edges
  <2> QED
    BY <1>4, <2>1, <2>2
<1>8. ASSUME NEW c \in Conns, Part(c) \/ Reset(c)
      PROVE  LagInv'
  <2>1. UNCHANGED <<st, inbox, shared, evs>> /\ ready' = ready \cup {c}
    BY <1>8 DEF Part, Reset
  <2>2. In("waiting")' = In("waiting") /\ In("open")' = In("open")
    BY <2>1 DEF In
  <2>3. Edges(serfd)' = Edges(serfd)
    BY <1>1, <2>1 DEF Edges
  <2>4. \A d \in Sockets : Edges(d)' >= Edges(d)
    BY <2>1 DEF Edges
  <2>5. \A d \in In("open")' :
          d \in In("open") /\ shared'[d] + Edges(d)' >= shared[d] + Edges(d)
    <3>1. \A d \in In("open")' : d \in Sockets /\ d \in In("open")
      BY <1>1, <2>2 DEF In
    <3> QED
      BY <1>2, <1>3, <2>1, <2>4, <3>1
  <2> QED
    BY <2>1, <2>2, <2>3, <2>5, SameBooks
<1>9. ASSUME NEW c \in Conns, Quit(c)
      PROVE  LagInv'
  <2>1. /\ UNCHANGED <<inbox, shared>> /\ st[c] = "open"
        /\ evs' = evs \ {c} /\ ready' = ready \ {c}
        /\ st'[c] = "closed" /\ \A d \in Conns \ {c} : st'[d] = st[d]
    BY <1>9, OwnNode DEF Quit, Event, Becomes, SslInv, TypeOK
  <2>2. In("waiting")' = In("waiting") /\ In("open")' = In("open") \ {c}
    BY <2>1 DEF In
  <2>3. \A x \in Sockets : x # c => Edges(x)' = Edges(x)
    BY <2>1 DEF Edges
  <2>4. \A d \in In("open")' :
          d \in In("open") /\ shared'[d] + Edges(d)' >= shared[d] + Edges(d)
    <3>1. \A d \in In("open")' : d \in Sockets /\ d \in In("open") /\ d # c
      BY <1>1, <2>2 DEF In
    <3> QED
      BY <1>2, <1>3, <2>1, <2>3, <3>1
  <2>5. Edges(serfd)' = Edges(serfd)
    BY <1>1, <2>3
  <2> QED
    BY <2>1, <2>2, <2>4, <2>5, SameBooks
<1> QED
  BY <1>5, <1>6, <1>7, <1>8, <1>9

\* Every connection that waits shared an edge or has one coming, and so has
\* every record that is not read: no handler spends an edge on anything else.
THEOREM LagIsExplained == Spec => []LagExplained
<1>1. SslInv /\ LagInv /\ [Next]_vars => LagInv'
  <2> SUFFICES ASSUME SslInv, LagInv, [Next]_vars PROVE LagInv'
    OBVIOUS
  <2>1. SslInv'
    BY StepInv
  <2> QED
    BY <2>1, ArriveLag, SendLag, AcceptLag, ReadLag, OthersLag DEF Next
<1>2. LagInv => LagExplained
  BY DEF LagInv, AcceptBooks, ReadBooks, LagExplained
<1> QED
  BY <1>1, <1>2, InitLag, SslInvariance, PTL DEF Spec
=============================================================================

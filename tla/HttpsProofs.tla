---------------------------- MODULE HttpsProofs ----------------------------
(***************************************************************************)
(* Module Https, proved for any number of connections, tries, descriptors  *)
(* and records, and any of the faults.                                     *)
(***************************************************************************)
EXTENDS Https, FiniteSetTheorems, TLAPS

\* The connections that have arrived.
Arrived == {c \in Conns : st[c] # "idle"}

\* Every call of event_accept_https took an edge that an arrival made, so there
\* are no more calls than connections.
CallsArePaid == k + (IF edge THEN 1 ELSE 0) <= Cardinality(Arrived)

\* The call in progress has an SSL object that is not freed; in a handshake it
\* holds the newest connection, which has not made one before; and before the
\* first handshake has been made no other connection shares it.
CallInProgress ==
  /\ pc \in {"accept", "handshake"} => k # 0 /\ k \notin freed
  /\ pc = "handshake" => /\ cur \in Conns /\ st[cur] = "open"
                         /\ call[cur] = k /\ sslFd[k] = cur
                         /\ keyed[k] # cur
  /\ pc = "accept" /\ keyed[k] = None => \A d \in Conns : call[d] # k
  /\ pc = "handshake" /\ keyed[k] = None
       => \A d \in Conns : call[d] = k => d = cur

\* An SSL object speaks to, and has the keys of, connections of its own call.
\* One that was freed never made a handshake; one that makes a handshake and
\* then keeps its descriptor serves a single connection.
SharedObjects ==
  /\ \A c \in Conns : /\ call[c] <= k
                      /\ st[c] \in {"idle", "waiting"} => call[c] = 0
                      /\ st[c] = "open" => call[c] # 0
  /\ \A r \in Calls : /\ keyed[r] # None => r # 0 /\ call[keyed[r]] = r
                      /\ sslFd[r] # None => r # 0 /\ call[sslFd[r]] = r
                      /\ r \in freed => r <= k /\ keyed[r] = None
  /\ \A c, d \in Conns : /\ keyed[call[c]] = c /\ sslFd[call[c]] = c
                         /\ call[d] = call[c]
                         => d = c

\* The handlers get events of registered connections, whose object has made a
\* handshake.
EventsRegistered ==
  \A c \in Conns : /\ Registered(c) => /\ keyed[call[c]] # None
                                       /\ sslFd[call[c]] # None
                   /\ c \in ready /\ pc # "dead" => Registered(c)

HttpsInv ==
  /\ TypeOK
  /\ CallsArePaid
  /\ CallInProgress
  /\ SharedObjects
  /\ EventsRegistered

-----------------------------------------------------------------------------
\* Sets of connections have a size.
LEMMA SetSizes ==
  ASSUME NEW S \in SUBSET Conns
  PROVE  /\ IsFiniteSet(S) /\ Cardinality(S) \in Nat
         /\ Cardinality(S) <= Cardinality(Conns)
         /\ Cardinality(Conns) \in Nat
BY HttpsAssumption, FS_Subset, FS_CardinalityType

\* The calls of event_accept_https are among those the model numbers.
LEMMA CallNumbers ==
  ASSUME k \in Nat, edge \in BOOLEAN, CallsArePaid
  PROVE  k \in Calls /\ (edge => k + 1 \in Calls)
<1>1. Arrived \in SUBSET Conns
  BY DEF Arrived
<1>2. /\ Cardinality(Arrived) \in Nat /\ Cardinality(Conns) \in Nat
      /\ Cardinality(Arrived) <= Cardinality(Conns)
  BY <1>1, SetSizes
<1> QED
  BY <1>2 DEF CallsArePaid, Calls

\* There is a descriptor, so client_socket has leaked fewer than there are.
LEMMA LeakBound ==
  ASSUME leak \in Nat, Held < MaxOpen
  PROVE  leak + 1 \in 0 .. MaxOpen
<1> DEFINE S == {c \in Conns : st[c] \in {"open", "stray"}}
<1>1. Cardinality(S) \in Nat
  BY SetSizes
<1>2. Held = Cardinality(S) + leak
  BY DEF Held
<1> HIDE DEF S
<1> QED
  BY <1>1, <1>2, HttpsAssumption

\* Nothing has happened when the worker starts.
LEMMA InitInv == Init => HttpsInv
<1> SUFFICES ASSUME Init PROVE HttpsInv
  OBVIOUS
<1>1. Cardinality(Conns) \in Nat
  BY SetSizes
<1>2. 0 \in Calls
  BY <1>1 DEF Calls
<1>3. TypeOK
  <2>1. edge \in BOOLEAN
    BY DEF Init
  <2>2. /\ 0 \in 0 .. MaxTries /\ 0 \in 0 .. MaxOpen
        /\ 0 \in 0 .. MaxRecords /\ 0 \in Nat
    BY HttpsAssumption
  <2> QED
    BY <1>2, <2>1, <2>2 DEF Init, TypeOK
<1>4. CallsArePaid
  <2>1. Arrived = {}
    BY DEF Init, Arrived
  <2> QED
    BY <2>1, FS_EmptySet DEF Init, CallsArePaid
<1>5. CallInProgress
  BY DEF Init, CallInProgress
<1>6. SharedObjects
  BY <1>2, HttpsAssumption DEF Init, SharedObjects
<1>7. EventsRegistered
  BY DEF Init, EventsRegistered, Registered
<1> QED
  BY <1>3, <1>4, <1>5, <1>6, <1>7 DEF HttpsInv

\* A step that leaves the calls, the SSL objects and the connections alone,
\* and makes events for registered connections only.
LEMMA SameObjects ==
  ASSUME HttpsInv, TypeOK',
         UNCHANGED <<edge, k, sslFd, keyed, freed, st, call>>,
         \/ UNCHANGED <<pc, cur>>
         \/ /\ pc \in {"loop", "accept", "backend"}
            /\ pc' \in {"loop", "backend"},
         \A c \in Conns : c \in ready' /\ pc # "dead"
                            => c \in ready \/ Registered(c)
  PROVE  HttpsInv'
<1>1. CallsArePaid'
  BY DEF HttpsInv, CallsArePaid, Arrived
<1>2. CallInProgress'
  BY DEF HttpsInv, CallInProgress
<1>3. SharedObjects'
  BY DEF HttpsInv, SharedObjects
<1>4. EventsRegistered'
  BY DEF HttpsInv, EventsRegistered, Registered
<1> QED
  BY <1>1, <1>2, <1>3, <1>4 DEF HttpsInv

\* A client that arrives pays for a call.
LEMMA ArriveInv ==
  ASSUME HttpsInv, NEW c \in Conns, Arrive(c)
  PROVE  HttpsInv'
<1>1. /\ st[c] = "idle" /\ st' = [st EXCEPT ![c] = "waiting"] /\ edge' = TRUE
      /\ UNCHANGED <<pc, cur, leak, call, answers, k, retryTimes, ended,
                     sslFd, keyed, freed, ready, inbox, fin,
                     sent>>
  BY DEF Arrive, Becomes, callVars, sslVars, netVars
<1>2. TypeOK'
  BY <1>1 DEF HttpsInv, TypeOK
<1>3. CallsArePaid'
  <2>1. Arrived \in SUBSET Conns
    BY DEF Arrived
  <2>2. Arrived' = Arrived \cup {c} /\ c \notin Arrived
    BY <1>1 DEF Arrived, HttpsInv, TypeOK
  <2>3. Cardinality(Arrived) \in Nat /\ IsFiniteSet(Arrived)
    BY <2>1, SetSizes
  <2>4. Cardinality(Arrived') = Cardinality(Arrived) + 1
    BY <2>2, <2>3, FS_AddElement
  <2>5. k \in Nat /\ edge \in BOOLEAN
    BY DEF HttpsInv, TypeOK, Calls
  <2> QED
    BY <1>1, <2>3, <2>4, <2>5 DEF HttpsInv, CallsArePaid
<1>4. CallInProgress'
  BY <1>1 DEF HttpsInv, CallInProgress, TypeOK
<1>5. SharedObjects'
  BY <1>1 DEF HttpsInv, SharedObjects, TypeOK
<1>6. EventsRegistered'
  BY <1>1 DEF HttpsInv, EventsRegistered, Registered, TypeOK
<1> QED
  BY <1>2, <1>3, <1>4, <1>5, <1>6 DEF HttpsInv

\* Requests and ends are events of registered connections.
LEMMA ClientInv ==
  ASSUME HttpsInv, NEW c \in Conns, Send(c) \/ Hangup(c)
  PROVE  HttpsInv'
<1>1. UNCHANGED <<pc, edge, cur, leak, st, call, answers, k, retryTimes,
                  ended, sslFd, keyed, freed>>
  BY DEF Send, Hangup, callVars, sslVars
<1>2. Send(c) => Registered(c)
  BY DEF Send, Registered, HttpsInv, CallInProgress
<1>3. ready' \subseteq ready \cup {c} /\ (c \in ready' => c \in ready
                                                          \/ Registered(c))
  BY <1>2 DEF Send, Hangup
<1>4. TypeOK'
  <2>1. /\ inbox' \in [Conns -> Nat] /\ fin' \subseteq Conns
        /\ sent' \in [Conns -> 0 .. MaxRecords]
    BY HttpsAssumption DEF Send, Hangup, HttpsInv, TypeOK
  <2> QED
    BY <1>1, <1>3, <2>1 DEF HttpsInv, TypeOK
<1> QED
  BY <1>1, <1>3, <1>4, SameObjects

\* A new call has a new object, which no connection was given to.
LEMMA event_accept_httpsInv ==
  ASSUME HttpsInv, event_accept_https
  PROVE  HttpsInv'
<1>1. /\ pc = "loop" /\ edge /\ edge' = FALSE /\ k' = k + 1
      /\ retryTimes' = 0 /\ pc' = "accept"
      /\ UNCHANGED <<cur, leak, st, call, answers, sslFd, keyed, freed,
                     ready, inbox, fin, sent>>
  BY DEF event_accept_https, sslVars, netVars
<1>2. k \in Nat /\ edge \in BOOLEAN
  BY DEF HttpsInv, TypeOK, Calls
<1>3. k + 1 \in Calls
  BY <1>1, <1>2, CallNumbers DEF HttpsInv
<1>4. TypeOK'
  <2>1. edge' \in BOOLEAN
    BY <1>1
  <2>2. 0 \in 0 .. MaxTries
    BY HttpsAssumption
  <2> QED
    BY <1>1, <1>3, <2>1, <2>2 DEF HttpsInv, TypeOK
<1>5. CallsArePaid'
  <2>1. Arrived' = Arrived
    BY <1>1 DEF Arrived
  <2>2. Arrived \in SUBSET Conns
    BY DEF Arrived
  <2>3. Cardinality(Arrived) \in Nat
    BY <2>2, SetSizes
  <2> QED
    BY <1>1, <1>2, <2>1, <2>3 DEF HttpsInv, CallsArePaid
<1>6. \A d \in Conns : call[d] \in Nat /\ call[d] < k + 1
  BY <1>2 DEF HttpsInv, SharedObjects, TypeOK, Calls
<1>7. k + 1 \notin freed /\ \A r \in freed : r \in Nat /\ r <= k
  BY <1>2 DEF HttpsInv, SharedObjects, TypeOK, Calls
<1>8. CallInProgress'
  BY <1>1, <1>2, <1>6, <1>7 DEF CallInProgress
<1>9. SharedObjects'
  BY <1>1, <1>2, <1>6, <1>7 DEF HttpsInv, SharedObjects
<1>10. EventsRegistered'
  BY <1>1 DEF HttpsInv, EventsRegistered, Registered
<1> QED
  BY <1>4, <1>5, <1>8, <1>9, <1>10 DEF HttpsInv

\* The end of the loop, and another try of SSL_accept.
LEMMA AcceptEndsInv ==
  ASSUME HttpsInv, AcceptEnds \/ Retry
  PROVE  HttpsInv'
<1>1. /\ UNCHANGED <<edge, cur, leak, st, call, answers, k, sslFd, keyed,
                     freed, ready, inbox, fin, sent>>
      /\ UNCHANGED pc \/ (pc = "accept" /\ pc' = "loop")
  BY DEF AcceptEnds, Retry, Returns, sslVars, netVars
<1>2. retryTimes' \in 0 .. MaxTries
  BY HttpsAssumption DEF AcceptEnds, Retry, HttpsInv, TypeOK
<1>3. TypeOK'
  BY <1>1, <1>2 DEF HttpsInv, TypeOK
<1> QED
  BY <1>1, <1>3, SameObjects

\* The object of the call is turned to the new connection, away from the one
\* it made a handshake with.
LEMMA AcceptInv ==
  ASSUME HttpsInv, NEW c \in Conns, Accept(c)
  PROVE  HttpsInv'
<1>1. /\ pc = "accept" /\ st[c] = "waiting"
      /\ UNCHANGED <<edge, leak, answers, k, retryTimes, keyed, freed, ready,
                     inbox, fin, sent>>
  BY DEF Accept, Waiting, netVars
<1>2. k \in Calls /\ k # 0 /\ k \notin freed /\ call[c] = 0
  BY <1>1 DEF HttpsInv, TypeOK, CallInProgress, SharedObjects
<1>3. \A s \in {"stray", "open"} :
        st' = [st EXCEPT ![c] = s] => CallsArePaid'
  BY <1>1 DEF HttpsInv, CallsArePaid, Arrived, TypeOK
<1>4. CASE /\ st' = [st EXCEPT ![c] = "stray"] /\ pc' = "loop"
           /\ UNCHANGED <<call, sslFd, cur>>
  <2>1. TypeOK'
    BY <1>1, <1>4 DEF HttpsInv, TypeOK
  <2>2. CallInProgress' /\ SharedObjects'
    BY <1>1, <1>2, <1>4 DEF HttpsInv, CallInProgress, SharedObjects, TypeOK
  <2>3. EventsRegistered'
    BY <1>1, <1>4 DEF HttpsInv, EventsRegistered, Registered, TypeOK
  <2> QED
    BY <1>3, <1>4, <2>1, <2>2, <2>3 DEF HttpsInv
<1>5. CASE /\ call' = [call EXCEPT ![c] = k]
           /\ sslFd' = [sslFd EXCEPT ![k] = c]
           /\ cur' = c /\ pc' = "handshake"
           /\ st' = [st EXCEPT ![c] = "open"]
  <2>1. TypeOK'
    BY <1>1, <1>2, <1>5 DEF HttpsInv, TypeOK
  <2>2. keyed[k] # c
    BY <1>2, HttpsAssumption DEF HttpsInv, SharedObjects
  <2>3. \A d \in Conns : d # c => call'[d] = call[d] /\ st'[d] = st[d]
    BY <1>5 DEF HttpsInv, TypeOK
  <2>4. call'[c] = k /\ st'[c] = "open" /\ sslFd'[k] = c
    BY <1>2, <1>5 DEF HttpsInv, TypeOK
  <2>5. \A r \in Calls : r # k => sslFd'[r] = sslFd[r]
    BY <1>5 DEF HttpsInv, TypeOK
  <2>6. \A r \in Calls : keyed[r] # c /\ (r # k => sslFd[r] # c)
    BY <1>2, HttpsAssumption DEF HttpsInv, SharedObjects
  <2>7. /\ \A r \in Calls : keyed[r] \in Conns \cup {None}
                            /\ sslFd[r] \in Conns \cup {None}
        /\ \A d \in Conns : call[d] \in Calls
    BY DEF HttpsInv, TypeOK
  <2>8. CallInProgress'
    BY <1>1, <1>2, <1>5, <2>2, <2>3, <2>4 DEF HttpsInv, CallInProgress
  <2>9. SharedObjects'
    <3>1. \A d \in Conns : /\ call'[d] <= k'
                           /\ st'[d] \in {"idle", "waiting"} => call'[d] = 0
                           /\ st'[d] = "open" => call'[d] # 0
      <4>1. k <= k
        BY <1>2 DEF Calls
      <4> QED
        BY <1>1, <1>2, <2>3, <2>4, <4>1 DEF HttpsInv, SharedObjects
    <3>2. \A r \in Calls :
            /\ keyed'[r] # None => r # 0 /\ call'[keyed'[r]] = r
            /\ sslFd'[r] # None => r # 0 /\ call'[sslFd'[r]] = r
            /\ r \in freed' => r <= k' /\ keyed'[r] = None
      BY <1>1, <1>2, <2>3, <2>4, <2>5, <2>6, <2>7
      DEF HttpsInv, SharedObjects
    <3>3. \A e, d \in Conns :
            /\ keyed'[call'[e]] = e /\ sslFd'[call'[e]] = e
            /\ call'[d] = call'[e]
            => d = e
      <4>1. SUFFICES ASSUME NEW e \in Conns, NEW d \in Conns,
                            keyed[call'[e]] = e, sslFd'[call'[e]] = e,
                            call'[d] = call'[e]
                     PROVE  d = e
        BY <1>1
      <4>2. e # c /\ call'[e] = call[e] /\ call[e] # k
        BY <1>2, <2>2, <2>3, <2>4, <4>1
      <4>3. d # c /\ call[d] = call[e] /\ sslFd[call[e]] = e
        BY <2>3, <2>4, <2>5, <2>7, <4>1, <4>2
      <4> QED
        BY <4>1, <4>2, <4>3 DEF HttpsInv, SharedObjects
    <3> QED
      BY <3>1, <3>2, <3>3 DEF SharedObjects
  <2>10. EventsRegistered'
    <3>1. \A d \in Conns : d # c => (Registered(d)' <=> Registered(d))
      BY <1>1, <1>5, <2>3 DEF Registered
    <3>2. ~ Registered(c)' /\ ~ Registered(c) /\ c \notin ready
      BY <1>1, <1>5 DEF Registered, HttpsInv, EventsRegistered
    <3>3. \A d \in Conns : d # c => /\ keyed'[call'[d]] = keyed[call[d]]
                                    /\ sslFd[call[d]] # None
                                         => sslFd'[call'[d]] # None
      BY <1>1, <2>3, <2>4, <2>5, <2>7, HttpsAssumption
    <3> QED
      BY <1>1, <3>1, <3>2, <3>3 DEF HttpsInv, EventsRegistered
  <2> QED
    BY <1>3, <1>5, <2>1, <2>8, <2>9, <2>10 DEF HttpsInv
<1> QED
  BY <1>4, <1>5 DEF Accept, Becomes, Returns

\* After the first handshake of a call its object has keys; those after it are
\* none, and leave the keys as they are.
LEMMA ShakenInv ==
  ASSUME HttpsInv, Shaken
  PROVE  HttpsInv'
<1>1. /\ pc = "handshake" /\ pc' = "accept" /\ cur' = None
      /\ UNCHANGED <<edge, leak, call, answers, k, retryTimes, sslFd, freed,
                     fin, sent>>
  BY DEF Shaken, Registers, callVars
<1>2. /\ k \in Calls /\ k # 0 /\ k \notin freed
      /\ cur \in Conns /\ st[cur] = "open" /\ call[cur] = k
      /\ sslFd[k] = cur /\ keyed[k] # cur
      /\ keyed[k] = None => \A d \in Conns : call[d] = k => d = cur
  BY <1>1 DEF HttpsInv, TypeOK, CallInProgress
<1>3. \/ keyed[k] = None /\ keyed' = [keyed EXCEPT ![k] = cur]
      \/ keyed[k] # None /\ UNCHANGED keyed
  BY DEF Shaken
<1>4. /\ keyed' \in [Calls -> Conns \cup {None}]
      /\ \A r \in Calls : r # k => keyed'[r] = keyed[r]
      /\ keyed'[k] # None
      /\ keyed'[k] = IF keyed[k] = None THEN cur ELSE keyed[k]
  BY <1>2, <1>3, HttpsAssumption DEF HttpsInv, TypeOK
<1>5. \/ UNCHANGED st /\ ready' \subseteq ready \cup {cur}
      \/ st' = [st EXCEPT ![cur] = "stray"] /\ UNCHANGED ready
  BY DEF Shaken, Registers, Becomes
<1>6. /\ \A d \in Conns : d # cur => st'[d] = st[d]
      /\ st'[cur] \in {"open", "stray"}
      /\ st' \in [Conns -> {"idle", "waiting", "open", "stray", "closed"}]
  BY <1>2, <1>5 DEF HttpsInv, TypeOK
<1>7. TypeOK'
  <2>1. inbox' \in [Conns -> Nat]
    BY <1>2, HttpsAssumption DEF Shaken, HttpsInv, TypeOK
  <2>2. ready' \subseteq Conns
    BY <1>2, <1>5 DEF HttpsInv, TypeOK
  <2> QED
    BY <1>1, <1>4, <1>6, <2>1, <2>2 DEF HttpsInv, TypeOK
<1>8. CallsArePaid'
  <2>1. Arrived' = Arrived
    BY <1>2, <1>6 DEF Arrived
  <2> QED
    BY <1>1, <2>1 DEF HttpsInv, CallsArePaid
<1>9. CallInProgress'
  BY <1>1, <1>2, <1>4 DEF CallInProgress
<1>10. SharedObjects'
  <2>1. \A d \in Conns : /\ call'[d] <= k'
                         /\ st'[d] \in {"idle", "waiting"} => call'[d] = 0
                         /\ st'[d] = "open" => call'[d] # 0
    BY <1>1, <1>2, <1>6 DEF HttpsInv, SharedObjects
  <2>2. \A r \in Calls :
          /\ keyed'[r] # None => r # 0 /\ call'[keyed'[r]] = r
          /\ sslFd'[r] # None => r # 0 /\ call'[sslFd'[r]] = r
          /\ r \in freed' => r <= k' /\ keyed'[r] = None
    BY <1>1, <1>2, <1>4 DEF HttpsInv, SharedObjects
  <2>3. \A c, d \in Conns : /\ keyed'[call'[c]] = c /\ sslFd'[call'[c]] = c
                            /\ call'[d] = call'[c]
                            => d = c
    <3>1. SUFFICES ASSUME NEW c \in Conns, NEW d \in Conns,
                          keyed'[call[c]] = c, sslFd[call[c]] = c,
                          call[d] = call[c]
                   PROVE  d = c
      BY <1>1
    <3>2. call[c] \in Calls
      BY DEF HttpsInv, TypeOK
    <3>3. CASE call[c] = k
      BY <1>2, <1>4, <3>1, <3>3
    <3>4. CASE call[c] # k
      BY <1>4, <3>1, <3>2, <3>4 DEF HttpsInv, SharedObjects
    <3> QED
      BY <3>3, <3>4
  <2> QED
    BY <2>1, <2>2, <2>3 DEF SharedObjects
<1>11. EventsRegistered'
  <2>1. \A d \in Conns : d # cur => (Registered(d)' <=> Registered(d))
    BY <1>1, <1>6 DEF Registered
  <2>2. Registered(cur) = FALSE /\ cur \notin ready
    BY <1>1, <1>2 DEF Registered, HttpsInv, EventsRegistered
  <2>3. cur \in ready' => st'[cur] = "open"
    BY <1>2, <1>5, <2>2
  <2>4. \A d \in Conns : call[d] \in Calls
    BY DEF HttpsInv, TypeOK
  <2>5. \A d \in Conns : keyed[call[d]] # None => keyed'[call[d]] # None
    BY <1>4, <2>4
  <2>6. ASSUME NEW d \in Conns
        PROVE  /\ Registered(d)' => /\ keyed'[call'[d]] # None
                                    /\ sslFd'[call'[d]] # None
               /\ d \in ready' /\ pc' # "dead" => Registered(d)'
    <3>1. CASE d = cur
      BY <1>1, <1>2, <1>4, <2>3, <3>1, HttpsAssumption DEF Registered
    <3>2. CASE d # cur
      <4>1. d \in ready' => d \in ready
        BY <1>5, <3>2
      <4> QED
        BY <1>1, <2>1, <2>5, <3>2, <4>1 DEF HttpsInv, EventsRegistered
    <3> QED
      BY <3>1, <3>2
  <2> QED
    BY <2>6 DEF EventsRegistered
<1> QED
  BY <1>7, <1>8, <1>9, <1>10, <1>11 DEF HttpsInv

\* The object that is freed is one no registered connection was given to: the
\* handshake that fails is the first of its call.
LEMMA ShakeFailsInv ==
  ASSUME HttpsInv, ShakeFails
  PROVE  HttpsInv'
<1>1. /\ pc = "handshake" /\ keyed[k] = None /\ pc' = "loop" /\ cur' = None
      /\ st' = [st EXCEPT ![cur] = "closed"] /\ freed' = freed \cup {k}
      /\ UNCHANGED <<edge, leak, call, answers, k, retryTimes, sslFd, keyed,
                     ready, inbox, fin, sent>>
  BY DEF ShakeFails, Returns, Becomes, netVars
<1>2. /\ k \in Calls /\ cur \in Conns /\ st[cur] = "open" /\ call[cur] = k
  BY <1>1 DEF HttpsInv, TypeOK, CallInProgress
<1>3. TypeOK'
  BY <1>1, <1>2 DEF HttpsInv, TypeOK
<1>4. CallsArePaid'
  <2>1. Arrived' = Arrived
    BY <1>1, <1>2 DEF Arrived, HttpsInv, TypeOK
  <2> QED
    BY <1>1, <2>1 DEF HttpsInv, CallsArePaid
<1>5. CallInProgress'
  BY <1>1 DEF CallInProgress
<1>6. SharedObjects'
  <2>1. k <= k
    BY <1>2 DEF Calls
  <2> QED
    BY <1>1, <1>2, <2>1 DEF HttpsInv, SharedObjects, TypeOK
<1>7. EventsRegistered'
  BY <1>1, <1>2 DEF HttpsInv, EventsRegistered, Registered, TypeOK
<1> QED
  BY <1>3, <1>4, <1>5, <1>6, <1>7 DEF HttpsInv

\* The handlers read from the socket of some connection, and forward or answer
\* what they read.
LEMMA HandlesInv ==
  ASSUME HttpsInv, NEW c \in Conns, Handles(c)
  PROVE  HttpsInv'
<1>1. /\ pc = "loop" /\ c \in ready /\ ready' = ready \ {c}
      /\ inbox' = [inbox EXCEPT ![Target(c)] = IF @ > 0 THEN @ - 1 ELSE 0]
      /\ pc' \in {"loop", "backend"}
      /\ UNCHANGED <<edge, st, call, k, retryTimes, sslFd, keyed, freed, fin,
                     sent>>
  BY DEF Handles, handle_https_read_write, event_https_reverse, SSL_read,
         callVars, sslVars
<1>2. Target(c) \in Conns
  BY <1>1, HttpsAssumption
  DEF Target, HttpsInv, TypeOK, EventsRegistered
<1>3. TypeOK'
  <2>1. inbox' \in [Conns -> Nat]
    BY <1>1, <1>2, HttpsAssumption DEF HttpsInv, TypeOK
  <2>2. leak' \in 0 .. MaxOpen
    <3>1. leak \in 0 .. MaxOpen
      BY DEF HttpsInv, TypeOK
    <3>2. leak' = leak \/ (Held < MaxOpen /\ leak' = leak + 1)
      BY DEF Handles, handle_https_read_write, event_https_reverse
    <3> QED
      BY <3>1, <3>2, LeakBound
  <2>3. cur' \in Conns \cup {None} /\ answers' \in [Conns -> Nat]
    BY <1>2 DEF Handles, handle_https_read_write, event_https_reverse,
                HttpsInv, TypeOK
  <2> QED
    BY <1>1, <2>1, <2>2, <2>3 DEF HttpsInv, TypeOK
<1> QED
  BY <1>1, <1>3, SameObjects

\* The back end answers, or does not.
LEMMA BackendAnswersInv ==
  ASSUME HttpsInv, BackendAnswers
  PROVE  HttpsInv'
<1>1. /\ pc = "backend" /\ pc' = "loop" /\ cur' = None
      /\ UNCHANGED <<edge, leak, st, call, k, retryTimes, sslFd, keyed, freed,
                     ready, inbox, fin, sent>>
      /\ \/ UNCHANGED answers
         \/ cur # None /\ answers' = [answers EXCEPT ![cur] = @ + 1]
  BY DEF BackendAnswers, callVars, sslVars, netVars
<1>2. TypeOK'
  BY <1>1 DEF HttpsInv, TypeOK
<1> QED
  BY <1>1, <1>2, SameObjects

\* The worker dies of an error event.
LEMMA ErrorEventInv ==
  ASSUME HttpsInv, NEW c \in Conns, ErrorEvent(c)
  PROVE  HttpsInv'
<1>1. /\ pc = "loop" /\ st[c] = "open" /\ pc' = "dead"
      /\ st' = [st EXCEPT ![Target(c)] = "closed"]
      /\ UNCHANGED <<edge, cur, leak, call, answers, k, retryTimes, sslFd,
                     keyed, freed, ready, inbox, fin, sent>>
  BY DEF ErrorEvent, Becomes, callVars, sslVars, netVars
<1>2. Target(c) \in Conns /\ call[c] # 0 /\ call[Target(c)] = call[c]
  BY <1>1 DEF Target, HttpsInv, TypeOK, EventsRegistered, Registered,
              SharedObjects
<1>3. TypeOK'
  BY <1>1, <1>2 DEF HttpsInv, TypeOK
<1>4. CallsArePaid'
  <2>1. st[Target(c)] # "idle"
    BY <1>2 DEF HttpsInv, SharedObjects
  <2>2. Arrived' = Arrived
    BY <1>1, <1>2, <2>1 DEF Arrived, HttpsInv, TypeOK
  <2> QED
    BY <1>1, <2>2 DEF HttpsInv, CallsArePaid
<1>5. CallInProgress'
  BY <1>1 DEF CallInProgress
<1>6. SharedObjects'
  BY <1>1, <1>2 DEF HttpsInv, SharedObjects, TypeOK
<1>7. EventsRegistered'
  BY <1>1, <1>2 DEF HttpsInv, EventsRegistered, Registered, TypeOK
<1> QED
  BY <1>3, <1>4, <1>5, <1>6, <1>7 DEF HttpsInv

\* Every step keeps the invariant.
LEMMA StepInv == HttpsInv /\ [Next]_vars => HttpsInv'
<1> SUFFICES ASSUME HttpsInv, [Next]_vars PROVE HttpsInv'
  OBVIOUS
<1>1. CASE UNCHANGED vars
  <2>1. TypeOK'
    BY <1>1 DEF vars, HttpsInv, TypeOK
  <2> QED
    BY <1>1, <2>1, SameObjects DEF vars
<1>2. CASE Accepts
  BY <1>2, event_accept_httpsInv, AcceptEndsInv, ShakenInv, ShakeFailsInv,
     AcceptInv
  DEF Accepts
<1> QED
  BY <1>1, <1>2, BackendAnswersInv, HandlesInv, ErrorEventInv, ArriveInv,
     ClientInv
  DEF Next

\* The inductive invariant holds in every state of every behaviour.
THEOREM HttpsInvariance == Spec => []HttpsInv
<1> QED
  BY InitInv, StepInv, PTL DEF Spec

\* The invariant says what a handler finds behind req->ssl.
LEMMA InvSessions == HttpsInv => SessionsSound
<1> SUFFICES ASSUME HttpsInv PROVE SessionsSound
  OBVIOUS
<1>1. TypeOK
  BY DEF HttpsInv
<1>2. NoFreedSession
  BY DEF NoFreedSession, HttpsInv, EventsRegistered, SharedObjects, TypeOK
<1>3. OwnSession
  <2>1. SUFFICES ASSUME NEW c \in Conns, Registered(c)
                 PROVE  Target(c) = c /\ keyed[call[c]] = c <=> Alone(c)
    BY DEF OwnSession
  <2>2. /\ call[c] \in Calls
        /\ keyed[call[c]] \in Conns /\ sslFd[call[c]] \in Conns
    BY <2>1 DEF HttpsInv, TypeOK, EventsRegistered
  <2>3. /\ call[keyed[call[c]]] = call[c] /\ call[sslFd[call[c]]] = call[c]
    BY <2>1, <2>2, HttpsAssumption
    DEF HttpsInv, EventsRegistered, SharedObjects
  <2>4. ASSUME Alone(c) PROVE Target(c) = c /\ keyed[call[c]] = c
    BY <2>2, <2>3, <2>4 DEF Alone, Target
  <2>5. ASSUME Target(c) = c, keyed[call[c]] = c PROVE Alone(c)
    BY <2>5 DEF Alone, Target, HttpsInv, SharedObjects
  <2> QED
    BY <2>4, <2>5
<1> QED
  BY <1>1, <1>2, <1>3 DEF SessionsSound

\* However many connections wait together and whichever handshakes fail, a
\* handler finds a live SSL object, its own exactly if it was accepted alone.
THEOREM HttpsSessions == Spec => []SessionsSound
<1> QED
  BY InvSessions, HttpsInvariance, PTL

\* A connection is left in the queue with its edge spent only by a call of
\* event_accept_https that gave up.
THEOREM HttpsStranded == Spec => []StrandedOnlyByFailure
<1>1. Init => StrandedOnlyByFailure
  BY DEF Init, StrandedOnlyByFailure, Waiting
<1>2. HttpsInv /\ StrandedOnlyByFailure /\ [Next]_vars
        => StrandedOnlyByFailure'
  <2> SUFFICES ASSUME HttpsInv, StrandedOnlyByFailure, [Next]_vars
               PROVE  StrandedOnlyByFailure'
    OBVIOUS
  <2>1. CASE UNCHANGED vars
    BY <2>1 DEF vars, StrandedOnlyByFailure, Waiting
  <2>2. CASE event_accept_https \/ Shaken \/ \E c \in Conns : ErrorEvent(c)
    <3>1. pc' \in {"accept", "dead"}
      BY <2>2 DEF event_accept_https, Shaken, Registers, ErrorEvent
    <3> QED
      BY <3>1 DEF StrandedOnlyByFailure
  <2>3. CASE AcceptEnds
    <3>1. ended' # "drained" \/ Waiting' = {}
      BY <2>3 DEF AcceptEnds, Returns, Waiting
    <3> QED
      BY <3>1 DEF StrandedOnlyByFailure
  <2>4. CASE Retry \/ ShakeFails \/ \E c \in Conns : Accept(c)
    <3>1. pc' = "handshake" \/ ended' # "drained"
      BY <2>4 DEF Retry, ShakeFails, Returns, Accept
    <3> QED
      BY <3>1 DEF StrandedOnlyByFailure
  <2>5. CASE BackendAnswers \/ \E c \in Conns : Handles(c)
    <3>1. pc \in {"loop", "backend"} /\ UNCHANGED <<st, edge, ended>>
      BY <2>5 DEF BackendAnswers, Handles, handle_https_read_write,
                  event_https_reverse, SSL_read, callVars
    <3> QED
      BY <3>1 DEF StrandedOnlyByFailure, Waiting
  <2>6. CASE \E c \in Conns : Arrive(c)
    BY <2>6 DEF Arrive, StrandedOnlyByFailure
  <2>7. CASE \E c \in Conns : Send(c) \/ Hangup(c)
    BY <2>7 DEF Send, Hangup, callVars, StrandedOnlyByFailure, Waiting
  <2> QED
    BY <2>1, <2>2, <2>3, <2>4, <2>5, <2>6, <2>7 DEF Next, Accepts
<1> QED
  BY <1>1, <1>2, HttpsInvariance, PTL DEF Spec

-----------------------------------------------------------------------------
(* The answers and the requests.                                            *)

\* Nothing is sent before a connection is accepted, and nothing is answered
\* while its call of event_accept_https lasts, so that what a companion joins
\* has no answers yet; and what waits for the back end was accepted alone.
Answering ==
  /\ \A c \in Conns : st[c] \in {"idle", "waiting"} =>
                         inbox[c] = 0 /\ sent[c] = 0 /\ answers[c] = 0
  /\ pc \in {"accept", "handshake"} =>
       \A c \in Conns : call[c] = k => answers[c] = 0
  /\ pc = "backend" => /\ type = "HTTPS_PROXY"
                       /\ cur # None => Alone(cur) /\ st[cur] = "open"

MatchInv == AnswersMatchRequests /\ Answering

\* Nothing has been sent when the worker starts.
LEMMA InitMatch == Init => MatchInv
BY DEF Init, MatchInv, AnswersMatchRequests, Answering

\* A step that leaves calls and requests alone, and gives no connection to the
\* server.
LEMMA SameRequests ==
  ASSUME HttpsInv, MatchInv,
         UNCHANGED <<type, call, answers, sent>>,
         pc' # "backend", pc # "backend",
         pc' \in {"accept", "handshake"}
           => k' = k /\ pc \in {"accept", "handshake"},
         \A c \in Conns : /\ st'[c] = "open" => st[c] = "open"
                          /\ st'[c] \in {"idle", "waiting"}
                               => st[c] \in {"idle", "waiting"}
                          /\ inbox'[c] = inbox[c]
                               \/ (st[c] = "open" /\ ~ Alone(c))
  PROVE  MatchInv'
<1>1. \A c \in Conns : Alone(c)' <=> Alone(c)
  BY DEF Alone
<1>2. AnswersMatchRequests'
  BY <1>1 DEF MatchInv, AnswersMatchRequests, Forwarded
<1>3. Answering'
  BY DEF MatchInv, Answering
<1> QED
  BY <1>2, <1>3 DEF MatchInv

\* The clients: who arrives has sent nothing, and each record that is sent lies
\* in the socket.
LEMMA ClientMatch ==
  ASSUME HttpsInv, MatchInv, NEW c \in Conns,
         Arrive(c) \/ Send(c) \/ Hangup(c)
  PROVE  MatchInv'
<1>1. /\ UNCHANGED <<type, pc, cur, k, call, answers>>
      /\ inbox \in [Conns -> Nat] /\ sent \in [Conns -> Nat]
      /\ st \in [Conns -> {"idle", "waiting", "open", "stray", "closed"}]
      /\ answers \in [Conns -> Nat]
  BY DEF Arrive, Send, Hangup, callVars, HttpsInv, TypeOK
<1>2. \A d \in Conns : /\ Alone(d)' <=> Alone(d)
                       /\ Forwarded(d)' = Forwarded(d)
                       /\ Forwarded(d) \in {0, 1}
  BY <1>1 DEF Alone, Forwarded
<1>3. CASE UNCHANGED <<inbox, sent>>
  <2>1. \A d \in Conns : /\ st'[d] = "open" <=> st[d] = "open"
                         /\ st'[d] \in {"idle", "waiting"}
                              => st[d] \in {"idle", "waiting"}
    BY <1>1 DEF Arrive, Send, Hangup, Becomes
  <2>2. AnswersMatchRequests'
    BY <1>1, <1>2, <1>3, <2>1 DEF MatchInv, AnswersMatchRequests
  <2>3. cur \in Conns \cup {None}
    BY DEF HttpsInv, TypeOK
  <2>4. pc = "backend" /\ cur # None => Alone(cur) /\ st'[cur] = "open"
    BY <2>1, <2>3 DEF MatchInv, Answering
  <2>5. Answering'
    BY <1>1, <1>3, <2>1, <2>4 DEF MatchInv, Answering, Alone
  <2> QED
    BY <2>2, <2>5 DEF MatchInv
<1>4. CASE /\ sent' = [sent EXCEPT ![c] = @ + 1]
           /\ inbox' = [inbox EXCEPT ![c] = @ + 1]
           /\ UNCHANGED st /\ st[c] = "open"
  <2>1. \A d \in Conns :
          /\ d # c => inbox'[d] = inbox[d] /\ sent'[d] = sent[d]
          /\ d = c => /\ inbox'[d] = inbox[d] + 1 /\ sent'[d] = sent[d] + 1
    BY <1>1, <1>4
  <2>2. ASSUME NEW d \in Conns, st[d] = "open"
        PROVE  IF Alone(d)
               THEN /\ answers[d] + Forwarded(d) + inbox'[d] <= sent'[d]
                    /\ type = "HTTPS" => answers[d] + inbox'[d] = sent'[d]
               ELSE answers[d] = 0
    BY <1>1, <1>2, <2>1, <2>2 DEF MatchInv, AnswersMatchRequests
  <2>3. AnswersMatchRequests'
    BY <1>1, <1>2, <1>4, <2>2 DEF AnswersMatchRequests
  <2>4. Answering'
    BY <1>1, <1>2, <1>4, <2>1, HttpsAssumption
    DEF MatchInv, Answering, HttpsInv, TypeOK
  <2> QED
    BY <2>3, <2>4 DEF MatchInv
<1>5. UNCHANGED <<inbox, sent>>
      \/ /\ sent' = [sent EXCEPT ![c] = @ + 1]
         /\ inbox' = [inbox EXCEPT ![c] = @ + 1]
         /\ UNCHANGED st /\ st[c] = "open"
  BY DEF Arrive, Send, Hangup, netVars
<1> QED
  BY <1>3, <1>4, <1>5

\* The connection that joins a call has sent nothing, and those it joins have
\* no answers.
LEMMA AcceptMatch ==
  ASSUME HttpsInv, MatchInv, NEW c \in Conns, Accept(c)
  PROVE  MatchInv'
<1>1. /\ pc = "accept" /\ st[c] = "waiting" /\ pc' \in {"loop", "handshake"}
      /\ UNCHANGED <<type, k, answers, inbox, sent>>
  BY DEF Accept, Waiting, Returns, netVars
<1>2. /\ st \in [Conns -> {"idle", "waiting", "open", "stray", "closed"}]
      /\ call \in [Conns -> Calls]
  BY DEF HttpsInv, TypeOK
<1>3. CASE st' = [st EXCEPT ![c] = "stray"] /\ pc' = "loop" /\ UNCHANGED call
  BY <1>1, <1>2, <1>3, SameRequests
<1>4. CASE /\ call' = [call EXCEPT ![c] = k] /\ pc' = "handshake"
           /\ st' = [st EXCEPT ![c] = "open"]
  <2>1. /\ call'[c] = k /\ st'[c] = "open"
        /\ \A d \in Conns : d # c => call'[d] = call[d] /\ st'[d] = st[d]
    BY <1>2, <1>4
  <2>2. inbox[c] = 0 /\ sent[c] = 0 /\ answers[c] = 0 /\ call[c] = 0
    BY <1>1 DEF MatchInv, Answering, HttpsInv, SharedObjects
  <2>3. \A d \in Conns : call'[d] = k => answers[d] = 0
    BY <1>1, <2>1, <2>2 DEF MatchInv, Answering
  <2>4. ASSUME NEW d \in Conns, st'[d] = "open"
        PROVE  IF Alone(d)'
               THEN /\ answers[d] + Forwarded(d)' + inbox[d] <= sent[d]
                    /\ type = "HTTPS" => answers[d] + inbox[d] = sent[d]
               ELSE answers[d] = 0
    <3>1. Forwarded(d)' = 0 /\ Forwarded(d) = 0
      BY <1>1 DEF Forwarded
    <3>2. CASE d = c
      BY <2>2, <3>1, <3>2
    <3>3. CASE d # c /\ Alone(d)'
      <4>1. call[d] # 0
        BY <2>1, <2>4, <3>3 DEF HttpsInv, SharedObjects
      <4>2. Alone(d)
        BY <2>1, <2>2, <3>3, <4>1 DEF Alone
      <4> QED
        BY <2>1, <2>4, <3>1, <3>3, <4>2 DEF MatchInv, AnswersMatchRequests
    <3>4. CASE d # c /\ ~ Alone(d)'
      <4>1. CASE call[d] = k
        BY <2>1, <2>3, <3>4, <4>1
      <4>2. CASE call[d] # k
        <5>1. ~ Alone(d)
          BY <2>1, <3>4, <4>2 DEF Alone
        <5> QED
          BY <2>1, <2>4, <3>4, <5>1 DEF MatchInv, AnswersMatchRequests
      <4> QED
        BY <4>1, <4>2
    <3> QED
      BY <3>2, <3>3, <3>4
  <2>5. AnswersMatchRequests'
    BY <1>1, <2>4 DEF AnswersMatchRequests
  <2>6. Answering'
    BY <1>1, <1>4, <2>1, <2>2, <2>3 DEF MatchInv, Answering
  <2> QED
    BY <2>5, <2>6 DEF MatchInv
<1> QED
  BY <1>1, <1>3, <1>4 DEF Accept, Becomes, Returns

\* The other steps of event_accept_https and an error event send and answer
\* nothing; a hello is left behind only by a connection that is not alone.
LEMMA AcceptsMatch ==
  ASSUME HttpsInv, MatchInv,
         \/ event_accept_https \/ AcceptEnds \/ Shaken \/ Retry \/ ShakeFails
         \/ \E c \in Conns : ErrorEvent(c)
  PROVE  MatchInv'
<1>1. st \in [Conns -> {"idle", "waiting", "open", "stray", "closed"}]
  BY DEF HttpsInv, TypeOK
<1>2. CASE event_accept_https
  <2>1. /\ UNCHANGED <<type, call, answers, sent, inbox, st>>
        /\ pc = "loop" /\ pc' = "accept" /\ k' = k + 1
    BY <1>2 DEF event_accept_https, netVars
  <2>2. \A c \in Conns : call[c] # k + 1
    BY DEF HttpsInv, SharedObjects, TypeOK, Calls
  <2>3. \A c \in Conns : (Alone(c)' <=> Alone(c)) /\ Forwarded(c)' = 0
                         /\ Forwarded(c) = 0
    BY <2>1 DEF Alone, Forwarded
  <2>4. AnswersMatchRequests'
    BY <2>1, <2>3 DEF MatchInv, AnswersMatchRequests
  <2>5. Answering'
    BY <2>1, <2>2 DEF MatchInv, Answering
  <2> QED
    BY <2>4, <2>5 DEF MatchInv
<1>3. CASE AcceptEnds \/ Retry
  BY <1>3, SameRequests DEF AcceptEnds, Retry, Returns, netVars
<1>4. CASE Shaken
  <2>1. /\ pc = "handshake" /\ pc' = "accept"
        /\ UNCHANGED <<type, k, call, answers, sent>>
    BY <1>4 DEF Shaken, Registers, callVars
  <2>2. UNCHANGED st \/ st' = [st EXCEPT ![cur] = "stray"]
    BY <1>4 DEF Shaken, Registers, Becomes
  <2>3. /\ cur \in Conns /\ k \in Calls /\ st[cur] = "open"
        /\ call[cur] = k /\ keyed[k] # cur
    BY <2>1 DEF HttpsInv, TypeOK, CallInProgress
  <2>4. UNCHANGED inbox \/ (/\ keyed[k] # None
                            /\ inbox' = [inbox EXCEPT ![cur] = 1])
    BY <1>4 DEF Shaken
  <2>5. keyed[k] # None => ~ Alone(cur)
    BY <2>3, HttpsAssumption DEF Alone, HttpsInv, SharedObjects, TypeOK
  <2>6. \A c \in Conns : inbox'[c] = inbox[c]
                         \/ (st[c] = "open" /\ ~ Alone(c))
    BY <2>3, <2>4, <2>5 DEF HttpsInv, TypeOK
  <2>7. \A c \in Conns : /\ st'[c] = "open" => st[c] = "open"
                         /\ st'[c] \in {"idle", "waiting"}
                              => st[c] \in {"idle", "waiting"}
    BY <1>1, <2>2
  <2> QED
    BY <2>1, <2>6, <2>7, SameRequests
<1>5. CASE ShakeFails
  <2>1. /\ pc = "handshake" /\ pc' = "loop"
        /\ UNCHANGED <<type, k, call, answers, sent, inbox>>
        /\ st' = [st EXCEPT ![cur] = "closed"]
    BY <1>5 DEF ShakeFails, Returns, Becomes, netVars
  <2> QED
    BY <1>1, <2>1, SameRequests
<1>6. CASE \E c \in Conns : ErrorEvent(c)
  <2>1. PICK c \in Conns : ErrorEvent(c)
    BY <1>6
  <2>2. /\ pc = "loop" /\ pc' = "dead"
        /\ UNCHANGED <<type, k, call, answers, sent, inbox>>
        /\ st' = [st EXCEPT ![Target(c)] = "closed"]
    BY <2>1 DEF ErrorEvent, Becomes, callVars, netVars
  <2> QED
    BY <1>1, <2>2, SameRequests
<1> QED
  BY <1>2, <1>3, <1>4, <1>5, <1>6

\* The handler of an event reads from its own connection when that was accepted
\* alone; if not, from one that was not either, and without its keys.
LEMMA ReadsOwn ==
  ASSUME HttpsInv, NEW c \in Conns, pc = "loop", c \in ready
  PROVE  /\ Target(c) \in Conns
         /\ Alone(c) => /\ Target(c) = c
                        /\ (Readable(c) <=> inbox[c] > 0)
         /\ ~ Alone(c) => ~ Alone(Target(c)) /\ ~ Readable(c)
<1>1. Registered(c)
  BY DEF HttpsInv, EventsRegistered
<1>2. Target(c) \in Conns /\ call[Target(c)] = call[c] /\ call[c] \notin freed
  BY <1>1, HttpsAssumption
  DEF Target, HttpsInv, TypeOK, EventsRegistered, SharedObjects
<1>3. Target(c) = c /\ keyed[call[c]] = c <=> Alone(c)
  BY <1>1, InvSessions DEF SessionsSound, OwnSession
<1>4. ASSUME Alone(c)
      PROVE  Target(c) = c /\ (Readable(c) <=> inbox[c] > 0)
  BY <1>2, <1>3, <1>4 DEF Readable
<1>5. ASSUME ~ Alone(c) PROVE ~ Alone(Target(c)) /\ ~ Readable(c)
  <2>1. PICK d \in Conns : call[d] = call[c] /\ d # c
    BY <1>5 DEF Alone
  <2>2. ~ Alone(Target(c))
    BY <1>2, <2>1 DEF Alone
  <2>3. ASSUME Readable(c) PROVE FALSE
    <3>1. keyed[call[c]] = Target(c) /\ sslFd[call[c]] = Target(c)
      BY <2>3 DEF Readable, Target
    <3>2. d = Target(c) /\ c = Target(c)
      BY <1>2, <2>1, <3>1 DEF HttpsInv, SharedObjects
    <3> QED
      BY <2>1, <3>2
  <2> QED
    BY <2>2, <2>3
<1> QED
  BY <1>2, <1>4, <1>5

\* A request that is read is answered, or forwarded.
LEMMA HandlesMatch ==
  ASSUME HttpsInv, MatchInv, NEW c \in Conns, Handles(c)
  PROVE  MatchInv'
<1>1. /\ pc = "loop" /\ c \in ready
      /\ inbox' = [inbox EXCEPT ![Target(c)] = IF @ > 0 THEN @ - 1 ELSE 0]
      /\ UNCHANGED <<type, st, call, sent>>
  BY DEF Handles, handle_https_read_write, event_https_reverse, SSL_read,
         callVars
<1>2. PICK t \in Conns : t = Target(c)
  BY <1>1, ReadsOwn
<1>3. /\ Alone(c) => t = c /\ (Readable(c) <=> inbox[t] > 0)
      /\ ~ Alone(c) => ~ Alone(t) /\ ~ Readable(c)
  BY <1>1, <1>2, ReadsOwn
<1>4. /\ inbox \in [Conns -> Nat] /\ sent \in [Conns -> Nat]
      /\ answers \in [Conns -> Nat] /\ st[c] = "open"
  BY <1>1 DEF HttpsInv, TypeOK, EventsRegistered, Registered
<1>5. /\ inbox'[t] = IF inbox[t] > 0 THEN inbox[t] - 1 ELSE 0
      /\ \A d \in Conns : d # t => inbox'[d] = inbox[d]
  BY <1>1, <1>2, <1>4
<1>6. \A d \in Conns : (Alone(d)' <=> Alone(d)) /\ Forwarded(d) = 0
  BY <1>1 DEF Alone, Forwarded
<1>7. t \in Conns /\ st[t] \notin {"idle", "waiting"}
  <2>1. call[t] = call[c] /\ call[c] # 0
    BY <1>1, <1>2, <1>4, HttpsAssumption
    DEF Target, HttpsInv, TypeOK, EventsRegistered, SharedObjects
  <2> QED
    BY <1>2, <2>1 DEF HttpsInv, SharedObjects
<1>8. \A d \in Conns : st[d] \in {"idle", "waiting"}
                         => inbox'[d] = 0 /\ sent[d] = 0 /\ answers[d] = 0
  BY <1>5, <1>7 DEF MatchInv, Answering
<1>9. CASE handle_https_read_write(c)
  <2>1. /\ type = "HTTPS" /\ UNCHANGED <<pc, cur>>
        /\ answers' = IF Readable(c) THEN [answers EXCEPT ![t] = @ + 1]
                                     ELSE answers
    BY <1>2, <1>9 DEF handle_https_read_write
  <2>2. /\ answers'[t] = IF Readable(c) THEN answers[t] + 1 ELSE answers[t]
        /\ \A d \in Conns : d # t => answers'[d] = answers[d]
    BY <1>2, <1>4, <2>1
  <2>3. \A d \in Conns : Forwarded(d)' = 0
    BY <1>1, <2>1 DEF Forwarded
  <2>4. ASSUME NEW d \in Conns, st[d] = "open"
        PROVE  IF Alone(d)
               THEN answers'[d] + inbox'[d] = sent[d]
               ELSE answers'[d] = 0
    <3>1. IF Alone(d) THEN answers[d] + inbox[d] = sent[d] ELSE answers[d] = 0
      BY <2>1, <2>4 DEF MatchInv, AnswersMatchRequests
    <3> QED
      BY <1>3, <1>4, <1>5, <2>2, <3>1
  <2>5. answers' \in [Conns -> Nat] /\ inbox' \in [Conns -> Nat]
    BY <1>1, <1>2, <1>4, <2>1
  <2>6. AnswersMatchRequests'
    BY <1>1, <1>4, <1>6, <2>1, <2>3, <2>4, <2>5 DEF AnswersMatchRequests
  <2>7. Answering'
    BY <1>1, <1>7, <1>8, <2>1, <2>2 DEF Answering
  <2> QED
    BY <2>6, <2>7 DEF MatchInv
<1>10. CASE event_https_reverse(c)
  <2>1. /\ type = "HTTPS_PROXY" /\ UNCHANGED answers
        /\ \/ UNCHANGED <<pc, cur>>
           \/ pc' = "backend" /\ cur' = IF Readable(c) THEN t ELSE None
    BY <1>2, <1>10 DEF event_https_reverse
  <2>2. \A d \in Conns :
          Forwarded(d)' = 0 \/ (Forwarded(d)' = 1 /\ d = t /\ Readable(c))
    BY <1>1, <2>1, HttpsAssumption DEF Forwarded
  <2>3. ASSUME NEW d \in Conns, st[d] = "open"
        PROVE  IF Alone(d)
               THEN answers[d] + Forwarded(d)' + inbox'[d] <= sent[d]
               ELSE answers[d] = 0
    <3>1. IF Alone(d) THEN answers[d] + inbox[d] <= sent[d]
                      ELSE answers[d] = 0
      BY <1>4, <1>6, <2>3 DEF MatchInv, AnswersMatchRequests
    <3> QED
      BY <1>3, <1>4, <1>5, <2>2, <3>1
  <2>4. AnswersMatchRequests'
    BY <1>1, <1>6, <2>1, <2>3 DEF AnswersMatchRequests
  <2>5. Answering'
    <3>1. pc' = "backend" /\ cur' # None
            => cur' = t /\ Alone(t) /\ st[t] = "open"
      BY <1>1, <1>3, <1>4, <2>1
    <3> QED
      BY <1>1, <1>8, <2>1, <3>1 DEF Answering, Alone
  <2> QED
    BY <2>4, <2>5 DEF MatchInv
<1> QED
  BY <1>9, <1>10 DEF Handles

\* The request that was forwarded is one of a connection accepted alone.
LEMMA BackendMatch ==
  ASSUME HttpsInv, MatchInv, BackendAnswers
  PROVE  MatchInv'
<1>1. /\ pc = "backend" /\ pc' = "loop" /\ type = "HTTPS_PROXY"
      /\ UNCHANGED <<type, st, call, inbox, sent>>
      /\ \/ UNCHANGED answers
         \/ cur # None /\ answers' = [answers EXCEPT ![cur] = @ + 1]
  BY DEF BackendAnswers, callVars, netVars, MatchInv, Answering
<1>2. /\ inbox \in [Conns -> Nat] /\ sent \in [Conns -> Nat]
      /\ answers \in [Conns -> Nat] /\ cur \in Conns \cup {None}
  BY DEF HttpsInv, TypeOK
<1>3. \A d \in Conns : (Alone(d)' <=> Alone(d)) /\ Forwarded(d)' = 0
  BY <1>1 DEF Alone, Forwarded
<1>4. \A d \in Conns :
        \/ answers'[d] = answers[d]
        \/ answers'[d] = answers[d] + 1 /\ d = cur /\ Alone(d)
  BY <1>1, <1>2 DEF MatchInv, Answering
<1>5. ASSUME NEW d \in Conns, st[d] = "open"
      PROVE  IF Alone(d) THEN answers'[d] + inbox[d] <= sent[d]
                         ELSE answers'[d] = 0
  <2>1. Forwarded(d) = IF d = cur THEN 1 ELSE 0
    BY <1>1 DEF Forwarded
  <2>2. IF Alone(d) THEN answers[d] + Forwarded(d) + inbox[d] <= sent[d]
                    ELSE answers[d] = 0
    BY <1>5 DEF MatchInv, AnswersMatchRequests
  <2> QED
    BY <1>2, <1>4, <2>1, <2>2
<1>6. \A d \in Conns : answers'[d] \in Nat
  BY <1>2, <1>4
<1>7. AnswersMatchRequests'
  BY <1>1, <1>2, <1>3, <1>5, <1>6 DEF AnswersMatchRequests
<1>8. \A d \in Conns : st[d] \in {"idle", "waiting"} => answers'[d] = 0
  <2>1. cur # None => st[cur] = "open"
    BY <1>1 DEF MatchInv, Answering
  <2> QED
    BY <1>4, <2>1, HttpsAssumption DEF MatchInv, Answering
<1>9. Answering'
  BY <1>1, <1>8 DEF MatchInv, Answering
<1> QED
  BY <1>7, <1>9 DEF MatchInv

\* On every connection that was accepted alone the requests, the answers and
\* what is unread add up, whichever handlers ran and whichever handshakes
\* failed; one that shared a call is never answered.
THEOREM HttpsAnswers == Spec => []AnswersMatchRequests
<1>1. HttpsInv /\ MatchInv /\ [Next]_vars => MatchInv'
  <2> SUFFICES ASSUME HttpsInv, MatchInv, [Next]_vars PROVE MatchInv'
    OBVIOUS
  <2>1. CASE UNCHANGED vars
    BY <2>1
    DEF vars, MatchInv, AnswersMatchRequests, Answering, Forwarded, Alone
  <2> QED
    BY <2>1, AcceptsMatch, AcceptMatch, HandlesMatch, BackendMatch,
       ClientMatch
    DEF Next, Accepts
<1>2. MatchInv => AnswersMatchRequests
  BY DEF MatchInv
<1> QED
  BY <1>1, <1>2, InitMatch, HttpsInvariance, PTL DEF Spec
=============================================================================

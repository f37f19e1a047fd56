----------------------- MODULE NotificationPreviewProofs -----------------------
(* Proofs about the banners: the queue, who asks for the next notification,  *)
(* and the transient notification that leaving its banner closes.            *)
EXTENDS NotificationPreviewPresenter, SequenceTheorems, TLAPS

-----------------------------------------------------------------------------
(* Sequences that hold each element once *)

LEMMA ElementsOf ==
  ASSUME NEW S, NEW q \in Seq(S)
  PROVE  /\ DOMAIN q = 1 .. Len(q) /\ Len(q) \in Nat
         /\ \A x : x \in ToSet(q) <=> \E i \in 1 .. Len(q) : q[i] = x
         /\ IsInjective(q) <=> \A i, j \in 1 .. Len(q) : q[i] = q[j] => i = j
         /\ ToSet(q) \subseteq S
<1>1. DOMAIN q = 1 .. Len(q) /\ Len(q) \in Nat /\ \A i \in 1 .. Len(q) : q[i] \in S
  BY LenProperties, ElementOfSeq
<1>. QED BY <1>1 DEF ToSet, IsInjective

LEMMA AppendedOnce ==
  ASSUME NEW S, NEW q \in Seq(S), IsInjective(q), NEW e \in S, e \notin ToSet(q)
  PROVE  /\ Append(q, e) \in Seq(S) /\ IsInjective(Append(q, e))
         /\ ToSet(Append(q, e)) = ToSet(q) \cup {e}
<1>. DEFINE r == Append(q, e)
<1>1. /\ r \in Seq(S) /\ Len(r) = Len(q) + 1 /\ Len(q) \in Nat
      /\ \A i \in 1 .. Len(q) : r[i] = q[i]
      /\ r[Len(q) + 1] = e
  BY AppendProperties, LenProperties
<1>. HIDE DEF r
<1>2. /\ \A i \in 1 .. Len(r) : i \in 1 .. Len(q) \/ i = Len(q) + 1
      /\ Len(q) + 1 \in 1 .. Len(r) /\ \A i \in 1 .. Len(q) : i \in 1 .. Len(r)
  BY <1>1
<1>3. \A x : x \in ToSet(r) <=> x \in ToSet(q) \/ x = e
  BY <1>1, <1>2, ElementsOf
<1>4. \A i, j \in 1 .. Len(r) : r[i] = r[j] => i = j
  <2>1. /\ \A i, j \in 1 .. Len(q) : q[i] = q[j] => i = j
        /\ \A i \in 1 .. Len(q) : q[i] # e
    BY ElementsOf
  <2>. QED BY <1>1, <1>2, <2>1
<1>5. IsInjective(r)
  BY <1>1, <1>4, ElementsOf
<1>. QED BY <1>1, <1>3, <1>5 DEF r

(* What is left of a queue behind one of its elements. *)
LEMMA RestAfter ==
  ASSUME NEW S, NEW q \in Seq(S), IsInjective(q), NEW n \in 0 .. Len(q), n < Len(q)
  PROVE  LET r == SubSeq(q, n + 2, Len(q))
         IN  /\ r \in Seq(S) /\ IsInjective(r)
             /\ ToSet(r) \subseteq ToSet(q)
             /\ q[n + 1] \in ToSet(q) /\ q[n + 1] \notin ToSet(r)
<1>. DEFINE r == SubSeq(q, n + 2, Len(q))
<1>1. Len(q) \in Nat /\ n \in Nat /\ \A i \in 1 .. Len(q) : q[i] \in S
  BY LenProperties, ElementOfSeq
<1>2. \A i \in n + 2 .. Len(q) : q[i] \in S
  BY <1>1
<1>3. /\ r \in Seq(S)
      /\ Len(r) = IF n + 2 <= Len(q) THEN Len(q) - (n + 2) + 1 ELSE 0
      /\ \A i \in 1 .. Len(q) - (n + 2) + 1 : r[i] = q[n + 2 + i - 1]
  BY <1>1, <1>2, SubSeqProperties
<1>. HIDE DEF r
<1>4. \A i \in 1 .. Len(r) : /\ i \in 1 .. Len(q) - (n + 2) + 1
                             /\ n + 2 + i - 1 = i + n + 1
                             /\ i + n + 1 \in 1 .. Len(q) /\ i + n + 1 # n + 1
  BY <1>1, <1>3
<1>5. \A i \in 1 .. Len(r) : r[i] = q[i + n + 1] /\ i + n + 1 \in 1 .. Len(q) /\ i + n + 1 # n + 1
  BY <1>3, <1>4
<1>6. n + 1 \in 1 .. Len(q) /\ \A i, j \in 1 .. Len(q) : q[i] = q[j] => i = j
  BY <1>1, ElementsOf
<1>7. \A i, j \in 1 .. Len(r) : r[i] = r[j] => i = j
  <2>1. \A i, j \in 1 .. Len(r) : i + n + 1 = j + n + 1 => i = j
    BY <1>1
  <2>. QED BY <1>5, <1>6, <2>1
<1>8. IsInjective(r)
  BY <1>3, <1>7, ElementsOf
<1>9. ToSet(r) \subseteq ToSet(q) /\ q[n + 1] \in ToSet(q) /\ q[n + 1] \notin ToSet(r)
  <2>1. \A x \in ToSet(r) : x \in ToSet(q) /\ x # q[n + 1]
    <3>. SUFFICES ASSUME NEW i \in 1 .. Len(r) PROVE r[i] \in ToSet(q) /\ r[i] # q[n + 1]
      BY <1>3, ElementsOf
    <3>1. q[i + n + 1] # q[n + 1]
      BY <1>5, <1>6
    <3>. QED BY <1>5, <3>1, ElementsOf
  <2>2. q[n + 1] \in ToSet(q)
    BY <1>6, ElementsOf
  <2>. QED BY <2>1, <2>2
<1>. QED BY <1>3, <1>8, <1>9 DEF r

LEMMA RemovedOnce ==
  ASSUME NEW S, NEW q \in Seq(S), IsInjective(q), NEW i \in DOMAIN q
  PROVE  /\ RemoveAt(q, i) \in Seq(S) /\ IsInjective(RemoveAt(q, i))
         /\ ToSet(RemoveAt(q, i)) \subseteq ToSet(q) \ {q[i]}
<1>. DEFINE a == SubSeq(q, 1, i - 1)
            b == SubSeq(q, i + 1, Len(q))
            r == a \o b
<1>0. Len(q) \in Nat /\ i \in 1 .. Len(q) /\ \A j \in 1 .. Len(q) : q[j] \in S
  BY LenProperties, ElementOfSeq
<1>1. a \in Seq(S) /\ Len(a) = i - 1 /\ \A j \in 1 .. i - 1 : a[j] = q[j]
  BY <1>0, SubSeqProperties
<1>2. b \in Seq(S) /\ Len(b) = Len(q) - i /\ \A j \in 1 .. Len(q) - i : b[j] = q[j + i]
  <2>1. \A j \in i + 1 .. Len(q) : q[j] \in S
    BY <1>0
  <2>2. /\ b \in Seq(S)
        /\ Len(b) = IF i + 1 <= Len(q) THEN Len(q) - (i + 1) + 1 ELSE 0
        /\ \A j \in 1 .. Len(q) - (i + 1) + 1 : b[j] = q[i + 1 + j - 1]
    BY <1>0, <2>1, SubSeqProperties
  <2>3. \A j \in 1 .. Len(q) - i : b[j] = q[j + i]
    <3>1. \A j \in 1 .. Len(q) - i : j \in 1 .. Len(q) - (i + 1) + 1 /\ i + 1 + j - 1 = j + i
      BY <1>0
    <3>. QED BY <2>2, <3>1
  <2>4. Len(b) = Len(q) - i
    BY <1>0, <2>2
  <2>. QED BY <2>2, <2>3, <2>4
<1>. HIDE DEF a, b
<1>3. /\ r \in Seq(S) /\ Len(r) = Len(q) - 1
      /\ \A j \in 1 .. Len(q) - 1 : r[j] = IF j < i THEN q[j] ELSE q[j + 1]
  <2>1. /\ r \in Seq(S) /\ Len(r) = Len(a) + Len(b)
        /\ \A j \in 1 .. Len(a) + Len(b) : r[j] = IF j <= Len(a) THEN a[j] ELSE b[j - Len(a)]
    BY <1>1, <1>2, ConcatProperties
  <2>2. Len(a) + Len(b) = Len(q) - 1
    BY <1>0, <1>1, <1>2
  <2>3. ASSUME NEW j \in 1 .. Len(q) - 1 PROVE r[j] = IF j < i THEN q[j] ELSE q[j + 1]
    <3>1. CASE j < i
      BY <1>0, <1>1, <2>1, <2>2, <3>1
    <3>2. CASE ~(j < i)
      <4>1. j \in 1 .. Len(a) + Len(b) /\ ~(j <= Len(a)) /\ j - Len(a) \in 1 .. Len(q) - i
            /\ (j - Len(a)) + i = j + 1
        BY <1>0, <1>1, <2>2, <3>2
      <4>2. r[j] = b[j - Len(a)] /\ b[j - Len(a)] = q[(j - Len(a)) + i]
        BY <1>2, <2>1, <4>1
      <4>. QED BY <3>2, <4>1, <4>2
    <3>. QED BY <3>1, <3>2
  <2>. QED BY <2>1, <2>2, <2>3
<1>. HIDE DEF r
<1>. DEFINE at(j) == IF j < i THEN j ELSE j + 1
<1>4. /\ \A j \in 1 .. Len(r) : at(j) \in 1 .. Len(q) /\ at(j) # i
      /\ \A j, k \in 1 .. Len(r) : at(j) = at(k) => j = k
  BY <1>0, <1>3
<1>5. \A j \in 1 .. Len(r) : r[j] = q[at(j)]
  BY <1>3
<1>. HIDE DEF at
<1>6. \A j, k \in 1 .. Len(q) : q[j] = q[k] => j = k
  BY ElementsOf
<1>7. IsInjective(r)
  <2>1. \A j, k \in 1 .. Len(r) : r[j] = r[k] => j = k
    BY <1>4, <1>5, <1>6
  <2>. QED BY <1>3, <2>1, ElementsOf
<1>8. ToSet(r) \subseteq ToSet(q) \ {q[i]}
  <2>1. \A j \in 1 .. Len(r) : q[at(j)] # q[i]
    BY <1>0, <1>4, <1>6
  <2>. QED BY <1>3, <1>4, <1>5, <2>1, ElementsOf
<1>9. RemoveAt(q, i) = r
  BY DEF RemoveAt, r, a, b
<1>. QED BY <1>3, <1>7, <1>8, <1>9

-----------------------------------------------------------------------------
(* Who asks, and who is held *)

LEMMA Types ==
  ASSUME TypeOK
  PROVE  /\ inBackground \in BOOLEAN /\ timer \in BOOLEAN /\ windowVisible \in BOOLEAN
         /\ compositor \in BOOLEAN
BY DEF TypeOK

(* A store that lost nothing but what the presenter has let go of. *)
LEMMA StoreWithout ==
  ASSUME NEW store, DOMAIN store \subseteq Ids, store \in [DOMAIN store -> Contents], NEW T
  PROVE  /\ DOMAIN Without(store, T) = DOMAIN store \ T
         /\ DOMAIN Without(store, T) \subseteq Ids
         /\ Without(store, T) \in [DOMAIN Without(store, T) -> Contents]
BY DEF Without

(* Showing the next of some pending notifications that exist, that are      *)
(* pending once and of which none is current.                               *)
LEMMA ShowNextKeeps ==
  ASSUME TypeOK, NoDangling,
         NEW store, DOMAIN store \subseteq Ids, store \in [DOMAIN store -> Contents],
         DOMAIN notifications \subseteq DOMAIN store,
         NEW pending \in Seq(Ids), IsInjective(pending), ToSet(pending) \subseteq DOMAIN store,
         current \notin ToSet(pending),
         NEW running \in BOOLEAN, ShowNext(store, pending, running),
         compositor' = compositor, situation' = situation, retries' \in Nat
  PROVE  TypeOK' /\ NoDangling' /\ SomeoneAsks'
<1>. DEFINE closed == LeftTransient(store)
            store2 == Without(store, closed)
<1>1. closed \subseteq {current} \ {NoNotification}
  BY DEF LeftTransient
<1>2. /\ DOMAIN store2 = DOMAIN store \ closed /\ DOMAIN store2 \subseteq Ids
      /\ store2 \in [DOMAIN store2 -> Contents]
  BY StoreWithout
<1>3. ToSet(pending) \subseteq DOMAIN store2
  BY <1>1, <1>2
<1>4. PICK n \in 0 .. Len(pending) :
        /\ notifications' = store2
        /\ \/ /\ n = Len(pending)
              /\ queue' = <<>> /\ current' = NoNotification
              /\ inBackground' = (inBackground /\ current = NoNotification)
              /\ windowVisible' = FALSE
              /\ sounding' \subseteq sounding \ closed
              /\ timer' = running
           \/ /\ n < Len(pending)
              /\ queue' = SubSeq(pending, n + 2, Len(pending))
              /\ current' = pending[n + 1]
              /\ inBackground' = ~ShouldBeShown(store[pending[n + 1]])
              /\ windowVisible' = (windowVisible \/ ShouldBeShown(store[pending[n + 1]]))
              /\ timer' = (running \/ ~ShouldBeShown(store[pending[n + 1]]))
              /\ sounding' \subseteq (sounding \ closed) \cup {pending[n + 1]}
  BY DEF ShowNext
<1>5. sounding \subseteq Ids /\ sounding \subseteq DOMAIN store
  BY DEF TypeOK, NoDangling
<1>. HIDE DEF closed, store2
<1>6. CASE n = Len(pending)
  <2>0. Len(pending) \in Nat
    BY LenProperties
  <2>1. /\ notifications' = store2 /\ queue' = <<>> /\ current' = NoNotification
        /\ inBackground' = (inBackground /\ current = NoNotification)
        /\ windowVisible' = FALSE /\ sounding' \subseteq sounding \ closed /\ timer' = running
    BY <1>4, <1>6, <2>0
  <2>2. ToSet(<<>>) = {} /\ IsInjective(<<>>) /\ <<>> \in Seq(Ids)
    BY DEF ToSet, IsInjective
  <2>3. TypeOK'
    <3>1. (inBackground /\ current = NoNotification) \in BOOLEAN
      OBVIOUS
    <3>2. {inBackground', timer', windowVisible', compositor'} \subseteq BOOLEAN
      BY <2>1, <3>1, Types
    <3>3. situation \in Situations
      BY DEF TypeOK
    <3>. QED BY <1>2, <1>5, <2>1, <2>2, <3>2, <3>3 DEF TypeOK
  <2>4. NoDangling'
    BY <1>2, <1>5, <2>1, <2>2 DEF NoDangling
  <2>5. SomeoneAsks'
    BY <2>1 DEF SomeoneAsks
  <2>. QED BY <2>3, <2>4, <2>5
<1>7. CASE n < Len(pending)
  <2>0. Len(pending) \in Nat
    BY LenProperties
  <2>. DEFINE next == pending[n + 1]
              shown == ShouldBeShown(store[next])
              rest == SubSeq(pending, n + 2, Len(pending))
  <2>1. /\ notifications' = store2 /\ queue' = rest /\ current' = next
        /\ inBackground' = ~shown /\ windowVisible' = (windowVisible \/ shown)
        /\ timer' = (running \/ ~shown)
        /\ sounding' \subseteq (sounding \ closed) \cup {next}
    BY <1>4, <1>7, <2>0
  <2>2. /\ rest \in Seq(Ids) /\ IsInjective(rest) /\ ToSet(rest) \subseteq ToSet(pending)
        /\ next \in ToSet(pending) /\ next \notin ToSet(rest)
    BY <1>7, RestAfter
  <2>3. next \in DOMAIN store2 /\ next \in Ids
    BY <1>2, <1>3, <2>2
  <2>. HIDE DEF next, rest, shown
  <2>4. TypeOK'
    <3>1. /\ (~shown) \in BOOLEAN /\ (windowVisible \/ shown) \in BOOLEAN
          /\ (running \/ ~shown) \in BOOLEAN
      OBVIOUS
    <3>2. {inBackground', timer', windowVisible', compositor'} \subseteq BOOLEAN
      BY <2>1, <3>1, Types
    <3>3. situation \in Situations
      BY DEF TypeOK
    <3>. QED BY <1>2, <1>5, <2>1, <2>2, <2>3, <3>2, <3>3 DEF TypeOK
  <2>5. NoDangling'
    BY <1>2, <1>3, <1>5, <2>1, <2>2, <2>3 DEF NoDangling
  <2>6. SomeoneAsks'
    BY <2>1 DEF SomeoneAsks
  <2>. QED BY <2>4, <2>5, <2>6
<1>8. n = Len(pending) \/ n < Len(pending)
  BY LenProperties
<1>. QED BY <1>6, <1>7, <1>8

(* The same with the attempt that is put off until there is a compositor.   *)
LEMMA TryShowNextKeeps ==
  ASSUME TypeOK, NoDangling,
         NEW store, DOMAIN store \subseteq Ids, store \in [DOMAIN store -> Contents],
         DOMAIN notifications \subseteq DOMAIN store,
         NEW pending \in Seq(Ids), IsInjective(pending), ToSet(pending) \subseteq DOMAIN store,
         current \notin ToSet(pending),
         NEW waiting \in Nat, TryShowNext(store, pending, waiting),
         compositor' = compositor, situation' = situation
  PROVE  TypeOK' /\ NoDangling' /\ SomeoneAsks'
<1>1. CASE ~compositor /\ pending # <<>>
  <2>1. /\ queue' = pending /\ notifications' = store /\ retries' = waiting + 1
        /\ current' = current /\ inBackground' = inBackground /\ timer' = timer
        /\ windowVisible' = windowVisible /\ sounding' = sounding
    BY <1>1 DEF TryShowNext
  <2>2. /\ current \in Ids \cup {NoNotification} /\ sounding \subseteq Ids
        /\ situation \in Situations
        /\ sounding \subseteq DOMAIN store /\ {current} \ {NoNotification} \subseteq DOMAIN store
    BY DEF TypeOK, NoDangling
  <2>3. TypeOK'
    <3>1. {inBackground', timer', windowVisible', compositor'} \subseteq BOOLEAN
      BY <2>1, Types
    <3>. QED BY <2>1, <2>2, <3>1 DEF TypeOK
  <2>4. NoDangling'
    BY <2>1, <2>2 DEF NoDangling
  <2>5. SomeoneAsks'
    BY <2>1 DEF SomeoneAsks
  <2>. QED BY <2>3, <2>4, <2>5
<1>2. CASE ~(~compositor /\ pending # <<>>)
  <2>1. ShowNext(store, pending, timer) /\ retries' = waiting
    BY <1>2 DEF TryShowNext
  <2>. QED BY <2>1, ShowNextKeeps, Types
<1>. QED BY <1>1, <1>2

LEMMA PublishKeeps ==
  ASSUME QueueAlive, NEW id \in Ids, NEW content \in Contents, Publish(id, content)
  PROVE  QueueAlive'
<1>. DEFINE store == [x \in DOMAIN notifications \cup {id} |->
                        IF x = id THEN content ELSE notifications[x]]
<1>0. TypeOK /\ NoDangling /\ SomeoneAsks
  BY DEF QueueAlive
<1>1. /\ DOMAIN store = DOMAIN notifications \cup {id} /\ DOMAIN store \subseteq Ids
      /\ store \in [DOMAIN store -> Contents]
  BY <1>0 DEF TypeOK
<1>2. compositor' = compositor /\ situation' = situation
  BY DEF Publish
<1>3. /\ id = current \/ id \in ToSet(queue)
           => notifications' = store /\ UNCHANGED presenterVars
      /\ ~(id = current \/ id \in ToSet(queue)) /\ current = NoNotification
           => TryShowNext(store, Append(queue, id), retries)
      /\ ~(id = current \/ id \in ToSet(queue)) /\ current # NoNotification
           => /\ notifications' = store /\ queue' = Append(queue, id)
              /\ UNCHANGED <<current, inBackground, timer, windowVisible, sounding, retries>>
  BY DEF Publish
<1>. HIDE DEF store
<1>4. /\ queue \in Seq(Ids) /\ IsInjective(queue) /\ current \notin ToSet(queue)
      /\ ToSet(queue) \subseteq DOMAIN notifications /\ retries \in Nat
      /\ situation \in Situations /\ sounding \subseteq Ids
      /\ current \in Ids \cup {NoNotification} /\ {current} \ {NoNotification} \subseteq DOMAIN notifications
      /\ sounding \subseteq DOMAIN notifications
      /\ {inBackground, timer, windowVisible, compositor} \subseteq BOOLEAN
  BY <1>0 DEF TypeOK, NoDangling
<1>5. CASE id = current \/ id \in ToSet(queue)
  <2>1. /\ notifications' = store /\ queue' = queue /\ current' = current
        /\ inBackground' = inBackground /\ timer' = timer /\ windowVisible' = windowVisible
        /\ sounding' = sounding /\ retries' = retries
    BY <1>3, <1>5 DEF presenterVars
  <2>2. TypeOK'
    BY <1>1, <1>2, <1>4, <2>1 DEF TypeOK
  <2>3. NoDangling' /\ SomeoneAsks'
    BY <1>0, <1>1, <1>4, <2>1 DEF NoDangling, SomeoneAsks
  <2>. QED BY <2>2, <2>3 DEF QueueAlive
<1>6. ASSUME ~(id = current \/ id \in ToSet(queue)) PROVE QueueAlive'
  <2>1. /\ Append(queue, id) \in Seq(Ids) /\ IsInjective(Append(queue, id))
        /\ ToSet(Append(queue, id)) = ToSet(queue) \cup {id}
        /\ current \notin ToSet(Append(queue, id))
    BY <1>4, <1>6, AppendedOnce
  <2>2. CASE current = NoNotification
    BY <1>0, <1>1, <1>2, <1>3, <1>4, <1>6, <2>1, <2>2, TryShowNextKeeps DEF QueueAlive
  <2>3. CASE current # NoNotification
    <3>1. /\ notifications' = store /\ queue' = Append(queue, id) /\ current' = current
          /\ inBackground' = inBackground /\ timer' = timer /\ windowVisible' = windowVisible
          /\ sounding' = sounding /\ retries' = retries
      BY <1>3, <1>6, <2>3
    <3>2. TypeOK'
      BY <1>1, <1>2, <1>4, <2>1, <3>1 DEF TypeOK
    <3>3. NoDangling'
      BY <1>1, <1>4, <2>1, <3>1 DEF NoDangling
    <3>4. SomeoneAsks'
      BY <1>0, <2>3, <3>1 DEF SomeoneAsks
    <3>. QED BY <3>2, <3>3, <3>4 DEF QueueAlive
  <2>. QED BY <2>2, <2>3
<1>. QED BY <1>5, <1>6

LEMMA RemoveKeeps ==
  ASSUME QueueAlive, NEW id \in Ids, RemoveNotification(id)
  PROVE  QueueAlive'
<1>0. TypeOK /\ NoDangling /\ SomeoneAsks
  BY DEF QueueAlive
<1>1. /\ notifications' = Without(notifications, {id}) /\ RemovedFromQueue(id)
      /\ current' = (IF current = id THEN NoNotification ELSE current)
      /\ sounding' = sounding \ {id}
      /\ inBackground' = inBackground /\ timer' = timer /\ windowVisible' = windowVisible
      /\ retries' = retries /\ compositor' = compositor /\ situation' = situation
  BY DEF RemoveNotification
<1>2. /\ queue \in Seq(Ids) /\ IsInjective(queue) /\ current \notin ToSet(queue)
      /\ ToSet(queue) \subseteq DOMAIN notifications /\ retries \in Nat
      /\ situation \in Situations /\ sounding \subseteq Ids
      /\ current \in Ids \cup {NoNotification} /\ {current} \ {NoNotification} \subseteq DOMAIN notifications
      /\ sounding \subseteq DOMAIN notifications
      /\ {inBackground, timer, windowVisible, compositor} \subseteq BOOLEAN
      /\ DOMAIN notifications \subseteq Ids /\ notifications \in [DOMAIN notifications -> Contents]
  BY <1>0 DEF TypeOK, NoDangling
<1>3. /\ queue' \in Seq(Ids) /\ IsInjective(queue') /\ ToSet(queue') \subseteq ToSet(queue) \ {id}
      /\ queue' = <<>> \/ queue # <<>>
  <2>1. CASE id \notin ToSet(queue) /\ UNCHANGED queue
    BY <1>2, <2>1
  <2>2. ASSUME NEW i \in DOMAIN queue, queue[i] = id, queue' = RemoveAt(queue, i)
        PROVE  /\ queue' \in Seq(Ids) /\ IsInjective(queue')
               /\ ToSet(queue') \subseteq ToSet(queue) \ {id}
               /\ queue' = <<>> \/ queue # <<>>
    <3>1. queue # <<>>
      BY <2>2
    <3>. QED BY <1>2, <2>2, <3>1, RemovedOnce
  <2>. QED BY <1>1, <2>1, <2>2 DEF RemovedFromQueue
<1>4. /\ DOMAIN notifications' = DOMAIN notifications \ {id}
      /\ notifications' \in [DOMAIN notifications' -> Contents]
  BY <1>1, <1>2, StoreWithout
<1>5. TypeOK'
  BY <1>1, <1>2, <1>3, <1>4 DEF TypeOK
<1>6. NoDangling'
  <2>1. {current'} \ {NoNotification} \subseteq DOMAIN notifications' /\ current' \notin ToSet(queue')
    <3>1. NoNotification \notin ToSet(queue')
      BY <1>2, <1>3, PreviewAssumption
    <3>2. CASE current = id
      BY <1>1, <3>1, <3>2
    <3>3. CASE current # id
      BY <1>1, <1>2, <1>3, <1>4, <3>3
    <3>. QED BY <3>2, <3>3
  <2>2. ToSet(queue') \subseteq DOMAIN notifications' /\ sounding' \subseteq DOMAIN notifications'
    BY <1>1, <1>2, <1>3, <1>4
  <2>. QED BY <1>3, <2>1, <2>2 DEF NoDangling
<1>7. SomeoneAsks'
  <2>1. current' # NoNotification => current # NoNotification
    BY <1>1
  <2>. QED BY <1>0, <1>1, <1>3, <2>1 DEF SomeoneAsks
<1>. QED BY <1>5, <1>6, <1>7 DEF QueueAlive

(* For all notifications, lock states and window modes, in every             *)
(* interleaving of the manager, the timers and the user interface: the       *)
(* banners' queue holds existing notifications, once each and without the    *)
(* current one, and while there is one to present somebody will ask for it.  *)
THEOREM QueueIsAlive == Spec => []QueueAlive
<1>1. Init => QueueAlive
  <2>. SUFFICES ASSUME Init PROVE QueueAlive
    OBVIOUS
  <2>1. ToSet(<<>>) = {} /\ IsInjective(<<>>) /\ <<>> \in Seq(Ids)
    BY DEF ToSet, IsInjective
  <2>2. DOMAIN notifications = {} /\ notifications \in [{} -> Contents]
    BY DEF Init
  <2>3. TypeOK
    BY <2>1, <2>2 DEF Init, TypeOK
  <2>4. NoDangling /\ SomeoneAsks
    BY <2>1 DEF Init, NoDangling, SomeoneAsks
  <2>. QED BY <2>3, <2>4 DEF QueueAlive
<1>2. QueueAlive /\ [Next]_vars => QueueAlive'
  <2>. SUFFICES ASSUME QueueAlive, [Next]_vars PROVE QueueAlive'
    OBVIOUS
  <2>0. TypeOK /\ NoDangling /\ SomeoneAsks
    BY DEF QueueAlive
  <2>1. /\ queue \in Seq(Ids) /\ IsInjective(queue) /\ current \notin ToSet(queue)
        /\ ToSet(queue) \subseteq DOMAIN notifications /\ retries \in Nat
        /\ DOMAIN notifications \subseteq Ids /\ notifications \in [DOMAIN notifications -> Contents]
    BY <2>0 DEF TypeOK, NoDangling
  <2>2. ASSUME NEW id \in Ids, NEW content \in Contents, Publish(id, content) PROVE QueueAlive'
    BY <2>2, PublishKeeps
  <2>3. ASSUME NEW id \in Ids, RemoveNotification(id) PROVE QueueAlive'
    BY <2>3, RemoveKeeps
  <2>4. CASE BackgroundTimeout
    <3>1. /\ ShowNext(notifications, queue, FALSE) /\ retries' = retries
          /\ compositor' = compositor /\ situation' = situation
      BY <2>4 DEF BackgroundTimeout
    <3>. QED BY <2>0, <2>1, <3>1, ShowNextKeeps DEF QueueAlive
  <2>5. CASE BannerHidden
    <3>1. /\ TryShowNext(notifications, queue, retries)
          /\ compositor' = compositor /\ situation' = situation
      BY <2>5 DEF BannerHidden
    <3>. QED BY <2>0, <2>1, <3>1, TryShowNextKeeps DEF QueueAlive
  <2>6. CASE Retry
    <3>1. /\ TryShowNext(notifications, queue, retries - 1) /\ retries - 1 \in Nat
          /\ compositor' = compositor /\ situation' = situation
      BY <2>1, <2>6 DEF Retry
    <3>. QED BY <2>0, <2>1, <3>1, TryShowNextKeeps DEF QueueAlive
  <2>7. CASE CreateCompositor
    <3>1. /\ compositor' = TRUE /\ notifications' = notifications /\ queue' = queue
          /\ current' = current /\ inBackground' = inBackground /\ timer' = timer
          /\ windowVisible' = windowVisible /\ sounding' = sounding /\ retries' = retries
          /\ situation' = situation
      BY <2>7 DEF CreateCompositor, presenterVars
    <3>2. TypeOK'
      BY <2>0, <3>1 DEF TypeOK
    <3>3. NoDangling' /\ SomeoneAsks'
      BY <2>0, <3>1 DEF NoDangling, SomeoneAsks
    <3>. QED BY <3>2, <3>3 DEF QueueAlive
  <2>8. CASE ChangeSituation
    <3>1. /\ situation' \in Situations /\ notifications' = notifications /\ queue' = queue
          /\ current' = current /\ inBackground' = inBackground /\ timer' = timer
          /\ windowVisible' = windowVisible /\ sounding' = sounding /\ retries' = retries
          /\ compositor' = compositor
      BY <2>8 DEF ChangeSituation, presenterVars
    <3>2. TypeOK'
      BY <2>0, <3>1 DEF TypeOK
    <3>3. NoDangling' /\ SomeoneAsks'
      BY <2>0, <3>1 DEF NoDangling, SomeoneAsks
    <3>. QED BY <3>2, <3>3 DEF QueueAlive
  <2>9. CASE UNCHANGED vars
    <3>1. /\ situation' = situation /\ notifications' = notifications /\ queue' = queue
          /\ current' = current /\ inBackground' = inBackground /\ timer' = timer
          /\ windowVisible' = windowVisible /\ sounding' = sounding /\ retries' = retries
          /\ compositor' = compositor
      BY <2>9 DEF vars, presenterVars
    <3>2. TypeOK'
      BY <2>0, <3>1 DEF TypeOK
    <3>3. NoDangling' /\ SomeoneAsks'
      BY <2>0, <3>1 DEF NoDangling, SomeoneAsks
    <3>. QED BY <3>2, <3>3 DEF QueueAlive
  <2>. QED BY <2>2, <2>3, <2>4, <2>5, <2>6, <2>7, <2>8, <2>9 DEF Next
<1>. QED BY <1>1, <1>2, PTL DEF Spec

-----------------------------------------------------------------------------
(* The transient notification that is left *)

ClosesTransient ==
  \A id \in Ids :
    current = id /\ ~inBackground /\ notifications[id].transient /\ current' # id
      => id \notin DOMAIN notifications'

LEMMA ShowNextCloses ==
  ASSUME NEW store, NEW pending, NEW running, ShowNext(store, pending, running),
         current # NoNotification => store = notifications
  PROVE  ClosesTransient
<1>. SUFFICES ASSUME NEW id \in Ids, current = id, ~inBackground, notifications[id].transient
             PROVE  id \notin DOMAIN notifications'
  BY DEF ClosesTransient
<1>1. id # NoNotification
  BY PreviewAssumption
<1>2. id \in LeftTransient(store)
  BY <1>1 DEF LeftTransient
<1>3. notifications' = Without(store, LeftTransient(store))
  BY DEF ShowNext
<1>. QED BY <1>2, <1>3 DEF Without

LEMMA TryShowNextCloses ==
  ASSUME NEW store, NEW pending, NEW waiting, TryShowNext(store, pending, waiting),
         current # NoNotification => store = notifications
  PROVE  ClosesTransient
<1>1. CASE ~compositor /\ pending # <<>>
  BY <1>1 DEF TryShowNext, ClosesTransient
<1>2. CASE ~(~compositor /\ pending # <<>>)
  BY <1>2, ShowNextCloses DEF TryShowNext
<1>. QED BY <1>1, <1>2

(* For all notifications, lock states and window modes: whatever ends the    *)
(* banner of a transient notification, a hidden banner, a timeout, a retry   *)
(* or a new arrival, the step that leaves it closes it.                      *)
THEOREM LeftTransientIsClosed == Spec => TransientClosed
<1>1. [Next]_vars => ClosesTransient
  <2>. SUFFICES ASSUME [Next]_vars PROVE ClosesTransient
    OBVIOUS
  <2>1. ASSUME NEW id \in Ids, NEW content \in Contents, Publish(id, content)
        PROVE  ClosesTransient
    <3>1. CASE current' = current
      BY <3>1 DEF ClosesTransient
    <3>2. CASE current' # current
      <4>1. PICK store, pending : TryShowNext(store, pending, retries) /\ current = NoNotification
        BY <2>1, <3>2 DEF Publish, presenterVars
      <4>. QED BY <4>1, TryShowNextCloses
    <3>. QED BY <3>1, <3>2
  <2>2. ASSUME NEW id \in Ids, RemoveNotification(id) PROVE ClosesTransient
    BY <2>2 DEF RemoveNotification, Without, ClosesTransient
  <2>3. CASE BackgroundTimeout
    BY <2>3, ShowNextCloses DEF BackgroundTimeout
  <2>4. CASE BannerHidden
    BY <2>4, TryShowNextCloses DEF BannerHidden
  <2>5. CASE Retry
    BY <2>5, TryShowNextCloses DEF Retry
  <2>6. CASE CreateCompositor \/ ChangeSituation \/ UNCHANGED vars
    BY <2>6 DEF CreateCompositor, ChangeSituation, vars, presenterVars, ClosesTransient
  <2>. QED BY <2>1, <2>2, <2>3, <2>4, <2>5, <2>6 DEF Next
<1>. QED BY <1>1, PTL DEF Spec, TransientClosed, ClosesTransient
=============================================================================

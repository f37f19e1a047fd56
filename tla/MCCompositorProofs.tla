-------------------------- MODULE MCCompositorProofs --------------------------
(* Proofs about the compositor, for all windows, clients and bounds.         *)
EXTENDS MCCompositor, FiniteSetTheorems, SequenceTheorems, TLAPS

-----------------------------------------------------------------------------
(* Updates: who MCE is                                                       *)

BusEvents == [kind: {"owner", "call"}, sender: Nat, enabled: BOOLEAN, ambient: BOOLEAN]
QueuedCalls == [sender: Nat, enabled: BOOLEAN]

Owners(b) == {i \in 1 .. Len(b) : b[i].kind = "owner"}

(* What is known of a running MCE m, with the events b on their way: once it *)
(* has been announced or has called, nobody else is announced; and a call is *)
(* delivered only after MCE is known, or before anybody is.                  *)
Announced(b, m, owner, valid, called) ==
  /\ \A i \in 1 .. Len(b), j \in Owners(b) : b[i].sender = m /\ i < j => b[j].sender = m
  /\ owner = m \/ called => \A j \in Owners(b) : b[j].sender = m
  /\ \A k \in 1 .. Len(b) : b[k].sender = m =>
        \/ owner = m
        \/ \E i \in Owners(b) : i <= k /\ b[i].sender = m
        \/ ~valid /\ \A i \in Owners(b) : i > k
  /\ called => owner = m \/ ~valid
  /\ \/ owner = m
     \/ \E i \in Owners(b) : b[i].sender = m
     \/ ~valid /\ Owners(b) = {}

(* A further announcement of MCE, or a call of anybody.                      *)
LEMMA AnnouncedAppend ==
  ASSUME NEW b \in Seq(BusEvents), NEW m, NEW owner, NEW valid, NEW called,
         Announced(b, m, owner, valid, called),
         NEW e \in BusEvents, e.kind = "owner" => e.sender = m
  PROVE  Announced(Append(b, e), m, owner, valid, called)
<1>. DEFINE c == Append(b, e)
<1>1. /\ Len(c) = Len(b) + 1 /\ Len(b) \in Nat /\ c[Len(b) + 1] = e
      /\ \A i \in 1 .. Len(b) : c[i] = b[i]
  BY AppendProperties, LenProperties
<1>. HIDE DEF c
<1>2. /\ \A i \in Owners(b) : i \in Owners(c) /\ c[i] = b[i]
      /\ \A i \in Owners(c) : i \in Owners(b) \/ (i = Len(b) + 1 /\ e.kind = "owner" /\ c[i].sender = m)
  BY <1>1 DEF Owners
<1>3. \A i \in 1 .. Len(c), j \in Owners(c) : c[i].sender = m /\ i < j => c[j].sender = m
  <2>. SUFFICES ASSUME NEW i \in 1 .. Len(c), NEW j \in Owners(c), c[i].sender = m, i < j
                PROVE  c[j].sender = m
    OBVIOUS
  <2>1. CASE j \in Owners(b)
    <3>1. i \in 1 .. Len(b) /\ c[i] = b[i] /\ c[j] = b[j]
      BY <1>1, <1>2, <2>1 DEF Owners
    <3>. QED BY <2>1, <3>1 DEF Announced
  <2>. QED BY <1>2, <2>1
<1>4. owner = m \/ called => \A j \in Owners(c) : c[j].sender = m
  BY <1>2 DEF Announced
<1>5. \/ owner = m
      \/ \E i \in Owners(c) : c[i].sender = m
      \/ ~valid /\ Owners(c) = {}
  BY <1>2 DEF Announced
<1>6. \A k \in 1 .. Len(c) : c[k].sender = m =>
        \/ owner = m
        \/ \E i \in Owners(c) : i <= k /\ c[i].sender = m
        \/ ~valid /\ \A i \in Owners(c) : i > k
  <2>. SUFFICES ASSUME NEW k \in 1 .. Len(c), c[k].sender = m, owner # m
                PROVE  \/ \E i \in Owners(c) : i <= k /\ c[i].sender = m
                       \/ ~valid /\ \A i \in Owners(c) : i > k
    OBVIOUS
  <2>1. CASE k = Len(b) + 1
    <3>1. \A i \in Owners(c) : i <= k
      BY <1>1, <2>1 DEF Owners
    <3>. QED BY <1>5, <3>1
  <2>2. CASE k # Len(b) + 1
    <3>1. k \in 1 .. Len(b) /\ b[k].sender = m
      BY <1>1, <2>2
    <3>2. CASE \E i \in Owners(b) : i <= k /\ b[i].sender = m
      BY <1>2, <3>2
    <3>3. CASE ~valid /\ \A i \in Owners(b) : i > k
      BY <1>1, <1>2, <3>1, <3>3
    <3>. QED BY <3>1, <3>2, <3>3 DEF Announced
  <2>. QED BY <2>1, <2>2
<1>7. called => owner = m \/ ~valid
  BY DEF Announced
<1>. QED BY <1>3, <1>4, <1>5, <1>6, <1>7 DEF Announced, c

LEMMA TailIndices ==
  ASSUME NEW b \in Seq(BusEvents), b # <<>>
  PROVE  /\ Head(b) = b[1] /\ 1 \in 1 .. Len(b)
         /\ Tail(b) \in Seq(BusEvents) /\ Head(b) \in BusEvents
         /\ \A i \in 1 .. Len(Tail(b)) : i + 1 \in 1 .. Len(b) /\ Tail(b)[i] = b[i + 1]
         /\ \A i \in Owners(Tail(b)) : i + 1 \in Owners(b) /\ Tail(b)[i] = b[i + 1]
         /\ \A i \in Owners(b) : i # 1 => i - 1 \in Owners(Tail(b)) /\ Tail(b)[i - 1] = b[i]
<1>1. /\ Len(b) \in Nat \ {0} /\ Head(b) \in BusEvents /\ Tail(b) \in Seq(BusEvents)
      /\ Len(Tail(b)) = Len(b) - 1
      /\ \A i \in 1 .. Len(Tail(b)) : Tail(b)[i] = b[i + 1]
  BY HeadTailProperties, EmptySeq
<1>2. Head(b) = b[1]
  OBVIOUS
<1>. QED BY <1>1, <1>2 DEF Owners

(* An announcement is delivered.                                             *)
LEMMA AnnouncedOwner ==
  ASSUME NEW b \in Seq(BusEvents), b # <<>>, Head(b).kind = "owner",
         NEW m, NEW owner, NEW valid, NEW called, Announced(b, m, owner, valid, called),
         NEW now
  PROVE  Announced(Tail(b), m, Head(b).sender, now, called)
<1>. DEFINE t == Tail(b)
            first == Head(b).sender
<1>1. /\ 1 \in Owners(b) /\ b[1].sender = first /\ 1 \in 1 .. Len(b)
      /\ \A i \in 1 .. Len(t) : i + 1 \in 1 .. Len(b) /\ t[i] = b[i + 1] /\ i \in Nat /\ i > 0
      /\ \A i \in Owners(t) : i + 1 \in Owners(b) /\ t[i] = b[i + 1] /\ i \in Nat /\ i > 0
      /\ \A i \in Owners(b) : i \in Nat /\ i > 0
      /\ \A i \in Owners(b) : i # 1 => i - 1 \in Owners(t) /\ t[i - 1] = b[i]
  BY TailIndices DEF Owners
<1>. HIDE DEF t, first
<1>2. owner = m \/ called => first = m
  BY <1>1 DEF Announced
<1>3. first = m => \A j \in Owners(t) : t[j].sender = m
  BY <1>1 DEF Announced
<1>4. first = m \/ \E i \in Owners(t) : t[i].sender = m
  BY <1>1, <1>2 DEF Announced
<1>5. \A i \in 1 .. Len(t), j \in Owners(t) : t[i].sender = m /\ i < j => t[j].sender = m
  <2>. SUFFICES ASSUME NEW i \in 1 .. Len(t), NEW j \in Owners(t), t[i].sender = m, i < j
                PROVE  t[j].sender = m
    OBVIOUS
  <2>1. i + 1 \in 1 .. Len(b) /\ j + 1 \in Owners(b) /\ b[i + 1].sender = m /\ i + 1 < j + 1
    BY <1>1
  <2>. QED BY <1>1, <2>1 DEF Announced
<1>6. ASSUME NEW k \in 1 .. Len(t), t[k].sender = m, first # m
      PROVE  \E i \in Owners(t) : i <= k /\ t[i].sender = m
  <2>1. k + 1 \in 1 .. Len(b) /\ b[k + 1].sender = m /\ 1 <= k + 1 /\ k \in Nat
    BY <1>1, <1>6
  <2>2. \E i \in Owners(b) : i <= k + 1 /\ b[i].sender = m
    BY <1>1, <1>2, <1>6, <2>1 DEF Announced
  <2>3. PICK i \in Owners(b) : i <= k + 1 /\ b[i].sender = m
    BY <2>2
  <2>4. i # 1
    BY <1>1, <1>6, <2>3
  <2>5. i - 1 \in Owners(t) /\ t[i - 1] = b[i] /\ i \in Nat
    BY <1>1, <2>4
  <2>6. i - 1 <= k
    BY <2>1, <2>3, <2>5
  <2>. QED BY <2>3, <2>5, <2>6
<1>. QED BY <1>2, <1>3, <1>4, <1>5, <1>6 DEF Announced, t, first

(* A call is delivered.                                                      *)
LEMMA AnnouncedCall ==
  ASSUME NEW b \in Seq(BusEvents), b # <<>>, Head(b).kind = "call",
         NEW m, NEW owner, NEW valid, NEW called, Announced(b, m, owner, valid, called),
         NEW now, now => called \/ Head(b).sender = m
  PROVE  Announced(Tail(b), m, owner, valid, now)
<1>. DEFINE t == Tail(b)
<1>1. /\ 1 \notin Owners(b) /\ 1 \in 1 .. Len(b) /\ b[1] = Head(b)
      /\ \A i \in 1 .. Len(t) : i + 1 \in 1 .. Len(b) /\ t[i] = b[i + 1] /\ i \in Nat /\ i > 0
      /\ \A i \in Owners(t) : i + 1 \in Owners(b) /\ t[i] = b[i + 1] /\ i \in Nat /\ i > 0
      /\ \A i \in Owners(b) : i \in Nat /\ i > 1
      /\ \A i \in Owners(b) : i - 1 \in Owners(t) /\ t[i - 1] = b[i]
  BY TailIndices DEF Owners
<1>. HIDE DEF t
<1>2. now => owner = m \/ ~valid
  BY <1>1 DEF Announced
<1>3. owner = m \/ now => \A j \in Owners(t) : t[j].sender = m
  BY <1>1 DEF Announced
<1>4. \/ owner = m
      \/ \E i \in Owners(t) : t[i].sender = m
      \/ ~valid /\ Owners(t) = {}
  BY <1>1 DEF Announced
<1>5. \A i \in 1 .. Len(t), j \in Owners(t) : t[i].sender = m /\ i < j => t[j].sender = m
  <2>. SUFFICES ASSUME NEW i \in 1 .. Len(t), NEW j \in Owners(t), t[i].sender = m, i < j
                PROVE  t[j].sender = m
    OBVIOUS
  <2>1. i + 1 \in 1 .. Len(b) /\ j + 1 \in Owners(b) /\ b[i + 1].sender = m /\ i + 1 < j + 1
    BY <1>1
  <2>. QED BY <1>1, <2>1 DEF Announced
<1>6. ASSUME NEW k \in 1 .. Len(t), t[k].sender = m, owner # m
      PROVE  \/ \E i \in Owners(t) : i <= k /\ t[i].sender = m
             \/ ~valid /\ \A i \in Owners(t) : i > k
  <2>1. k + 1 \in 1 .. Len(b) /\ b[k + 1].sender = m /\ k \in Nat
    BY <1>1, <1>6
  <2>2. CASE \E i \in Owners(b) : i <= k + 1 /\ b[i].sender = m
    <3>1. PICK i \in Owners(b) : i <= k + 1 /\ b[i].sender = m
      BY <2>2
    <3>. QED BY <1>1, <2>1, <3>1
  <2>3. CASE ~valid /\ \A i \in Owners(b) : i > k + 1
    <3>1. \A i \in Owners(t) : i > k
      BY <1>1, <2>1, <2>3
    <3>. QED BY <2>3, <3>1
  <2>. QED BY <1>6, <2>1, <2>2, <2>3 DEF Announced
<1>. QED BY <1>2, <1>3, <1>4, <1>5, <1>6 DEF Announced, t

(* A new instance, whose name nothing on its way bears, announces itself.    *)
LEMMA AnnouncedNew ==
  ASSUME NEW b \in Seq(BusEvents), NEW m, NEW owner, NEW valid, owner # m,
         \A i \in 1 .. Len(b) : b[i].sender # m,
         NEW e \in BusEvents, e.kind = "owner", e.sender = m
  PROVE  Announced(Append(b, e), m, owner, valid, FALSE)
<1>. DEFINE c == Append(b, e)
<1>1. /\ Len(c) = Len(b) + 1 /\ Len(b) \in Nat /\ c[Len(b) + 1] = e
      /\ \A i \in 1 .. Len(b) : c[i] = b[i]
  BY AppendProperties, LenProperties
<1>. HIDE DEF c
<1>2. /\ Len(b) + 1 \in Owners(c)
      /\ \A i \in 1 .. Len(c) : c[i].sender = m => i = Len(b) + 1
      /\ \A i \in Owners(c) : i <= Len(b) + 1
  BY <1>1 DEF Owners
<1>3. \A i \in 1 .. Len(c), j \in Owners(c) : c[i].sender = m /\ i < j => c[j].sender = m
  BY <1>1, <1>2 DEF Owners
<1>4. \A k \in 1 .. Len(c) : c[k].sender = m => \E i \in Owners(c) : i <= k /\ c[i].sender = m
  BY <1>1, <1>2
<1>5. \E i \in Owners(c) : c[i].sender = m
  BY <1>1, <1>2
<1>. QED BY <1>3, <1>4, <1>5 DEF Announced, c

-----------------------------------------------------------------------------
(* Updates: what MCE asked for last                                          *)

CallsOf(q, m) == {i \in 1 .. Len(q) : q[i].sender = m}

(* The last call of m in the queue asks for v, and without any v is what has *)
(* been done.                                                                *)
AsksFor(q, m, v, done) ==
  /\ \A i \in CallsOf(q, m) : (\A j \in CallsOf(q, m) : j <= i) => q[i].enabled = v
  /\ CallsOf(q, m) = {} => done = v

LEMMA AsksAppend ==
  ASSUME NEW q \in Seq(QueuedCalls), NEW c \in QueuedCalls, NEW m, NEW v, NEW done,
         c.sender = m => c.enabled = v, c.sender # m => AsksFor(q, m, v, done)
  PROVE  AsksFor(Append(q, c), m, v, done)
<1>. DEFINE r == Append(q, c)
<1>1. /\ Len(r) = Len(q) + 1 /\ Len(q) \in Nat /\ r[Len(q) + 1] = c
      /\ \A i \in 1 .. Len(q) : r[i] = q[i]
  BY AppendProperties, LenProperties
<1>. HIDE DEF r
<1>2. CASE c.sender = m
  <2>1. Len(q) + 1 \in CallsOf(r, m) /\ \A i \in CallsOf(r, m) : i <= Len(q) + 1
    BY <1>1, <1>2 DEF CallsOf
  <2>2. \A i \in CallsOf(r, m) : (\A j \in CallsOf(r, m) : j <= i) => i = Len(q) + 1
    BY <1>1, <2>1 DEF CallsOf
  <2>. QED BY <1>1, <1>2, <2>1, <2>2 DEF AsksFor, r
<1>3. CASE c.sender # m
  <2>1. \A i : i \in CallsOf(r, m) <=> i \in CallsOf(q, m)
    BY <1>1, <1>3 DEF CallsOf
  <2>2. \A i \in CallsOf(r, m) : r[i] = q[i]
    BY <1>1, <2>1 DEF CallsOf
  <2>3. CallsOf(r, m) = {} => done = v
    BY <1>3, <2>1 DEF AsksFor
  <2>4. \A i \in CallsOf(r, m) : (\A j \in CallsOf(r, m) : j <= i) => r[i].enabled = v
    BY <1>3, <2>1, <2>2 DEF AsksFor
  <2>. QED BY <2>3, <2>4 DEF AsksFor, r
<1>. QED BY <1>2, <1>3

LEMMA AsksTail ==
  ASSUME NEW q \in Seq(QueuedCalls), q # <<>>, NEW m, NEW v, NEW done, AsksFor(q, m, v, done),
         NEW now, now = IF Head(q).sender = m THEN Head(q).enabled ELSE done
  PROVE  AsksFor(Tail(q), m, v, now)
<1>. DEFINE r == Tail(q)
<1>1. /\ Len(q) \in Nat \ {0} /\ Len(r) = Len(q) - 1 /\ Head(q) = q[1]
      /\ \A i \in 1 .. Len(r) : r[i] = q[i + 1]
  BY HeadTailProperties, EmptySeq
<1>. HIDE DEF r
<1>2. /\ \A i \in CallsOf(r, m) : i + 1 \in CallsOf(q, m) /\ r[i] = q[i + 1] /\ i \in Nat
      /\ \A i \in CallsOf(q, m) : i # 1 => i - 1 \in CallsOf(r, m) /\ i \in Nat
      /\ \A i \in CallsOf(q, m) : i \in Nat /\ i >= 1
      /\ 1 \in CallsOf(q, m) <=> Head(q).sender = m
  BY <1>1 DEF CallsOf
<1>3. ASSUME NEW i \in CallsOf(r, m), \A j \in CallsOf(r, m) : j <= i PROVE r[i].enabled = v
  <2>1. \A j \in CallsOf(q, m) : j <= i + 1
    <3>. SUFFICES ASSUME NEW j \in CallsOf(q, m) PROVE j <= i + 1
      OBVIOUS
    <3>1. CASE j = 1
      BY <1>2, <3>1
    <3>2. CASE j # 1
      <4>1. j - 1 <= i /\ j \in Nat /\ i \in Nat
        BY <1>2, <1>3, <3>2
      <4>. QED BY <4>1
    <3>. QED BY <3>1, <3>2
  <2>. QED BY <1>2, <2>1 DEF AsksFor
<1>4. ASSUME CallsOf(r, m) = {} PROVE now = v
  <2>1. \A j \in CallsOf(q, m) : j = 1
    BY <1>2, <1>4
  <2>2. CASE Head(q).sender = m
    <3>1. q[1].enabled = v
      BY <1>2, <2>1, <2>2 DEF AsksFor
    <3>. QED BY <1>1, <2>2, <3>1
  <2>3. CASE Head(q).sender # m
    BY <1>2, <2>1, <2>3 DEF AsksFor
  <2>. QED BY <2>2, <2>3
<1>. QED BY <1>3, <1>4 DEF AsksFor, r

-----------------------------------------------------------------------------
(* Updates: the invariant                                                    *)

UpdateTypes ==
  /\ mce \in Nat /\ instances \in Nat /\ nameOwner \in Nat
  /\ mce <= instances /\ nameOwner <= instances
  /\ bus \in Seq(BusEvents) /\ queue \in Seq(QueuedCalls)
  /\ updatesEnabled \in BOOLEAN

(* Names on the bus: of instances there have been, or a stranger's.          *)
Senders ==
  \A i \in 1 .. Len(bus) :
    /\ bus[i].kind = "owner" => bus[i].sender <= instances
    /\ bus[i].kind = "call" =>
         bus[i].sender # 0 /\ (bus[i].sender <= instances \/ bus[i].sender = Updates!Stranger)

MceFollowed ==
  /\ mce # 0 => Announced(bus, mce, nameOwner, ownerValid, lastCall # <<>>)
  /\ lastCall # <<>> =>
       mce # 0 /\ \E v \in BOOLEAN : lastCall = <<v>> /\ AsksFor(queue, mce, v, updatesEnabled)

FollowInv == UpdateTypes /\ Senders /\ MceFollowed

LEMMA StepTypes ==
  /\ \A kind \in {"owner", "call"}, s \in Nat, x, y \in BOOLEAN :
       LET e == Updates!Event(kind, s, x, y)
       IN  e \in BusEvents /\ e.kind = kind /\ e.sender = s
  /\ \A e \in BusEvents : /\ [sender |-> e.sender, enabled |-> e.enabled] \in QueuedCalls
                          /\ e.kind \in {"owner", "call"} /\ e.sender \in Nat
                          /\ e.enabled \in BOOLEAN
  /\ \A q \in QueuedCalls : q.sender \in Nat /\ q.enabled \in BOOLEAN
BY DEF Updates!Event, BusEvents, QueuedCalls

LEMMA SendersAppend ==
  ASSUME bus \in Seq(BusEvents), Senders, instances \in Nat, instances' \in Nat, instances <= instances',
         NEW e \in BusEvents, bus' = Append(bus, e),
         e.kind = "owner" => e.sender <= instances',
         e.kind = "call" => e.sender # 0 /\ (e.sender <= instances' \/ e.sender = Updates!Stranger)
  PROVE  Senders' /\ bus' \in Seq(BusEvents)
<1>1. /\ bus' \in Seq(BusEvents) /\ Len(bus') = Len(bus) + 1 /\ Len(bus) \in Nat
      /\ bus'[Len(bus) + 1] = e /\ \A i \in 1 .. Len(bus) : bus'[i] = bus[i]
  BY AppendProperties, LenProperties
<1>2. ASSUME NEW i \in 1 .. Len(bus'), i # Len(bus) + 1
      PROVE  i \in 1 .. Len(bus) /\ bus'[i] = bus[i] /\ bus[i].sender \in Nat
  <2>1. i \in 1 .. Len(bus)
    BY <1>1, <1>2
  <2>2. bus[i] \in BusEvents
    BY <2>1, ElementOfSeq
  <2>. QED BY <1>1, <2>1, <2>2, StepTypes
<1>3. ASSUME NEW i \in 1 .. Len(bus')
      PROVE  /\ bus'[i].kind = "owner" => bus'[i].sender <= instances'
             /\ bus'[i].kind = "call" => bus'[i].sender # 0
                  /\ (bus'[i].sender <= instances' \/ bus'[i].sender = Updates!Stranger)
  <2>1. CASE i = Len(bus) + 1
    BY <1>1, <2>1
  <2>2. CASE i # Len(bus) + 1
    BY <1>2, <2>2 DEF Senders
  <2>. QED BY <2>1, <2>2
<1>. QED BY <1>1, <1>3 DEF Senders, Updates!Stranger

LEMMA SendersTail ==
  ASSUME bus \in Seq(BusEvents), Senders, bus # <<>>, bus' = Tail(bus), instances' = instances
  PROVE  Senders' /\ bus' \in Seq(BusEvents) /\ Head(bus) \in BusEvents
         /\ (Head(bus).kind = "owner" => Head(bus).sender <= instances)
         /\ (Head(bus).kind = "call" => Head(bus).sender # 0)
<1>1. /\ \A i \in 1 .. Len(bus') : i + 1 \in 1 .. Len(bus) /\ bus'[i] = bus[i + 1]
      /\ bus' \in Seq(BusEvents) /\ Head(bus) = bus[1] /\ 1 \in 1 .. Len(bus) /\ Head(bus) \in BusEvents
  BY TailIndices
<1>. QED BY <1>1 DEF Senders, Updates!Stranger

LEMMA EnabledSet ==
  ASSUME NEW enabled \in BOOLEAN, NEW inAmbient \in BOOLEAN,
         Updates!SetUpdatesEnabledNow(enabled, inAmbient)
  PROVE  updatesEnabled' = IF inAmbient THEN updatesEnabled ELSE enabled
BY DEF Updates!SetUpdatesEnabledNow, Updates!enabledVars

LEMMA InitFollow == Updates!Init => FollowInv
<1>. SUFFICES ASSUME Updates!Init PROVE FollowInv
  OBVIOUS
<1>1. /\ mce \in {0, 1} /\ instances = 1 /\ bus = <<>> /\ queue = <<>> /\ nameOwner = 0
      /\ ownerValid = FALSE /\ lastCall = <<>> /\ updatesEnabled = FALSE
  BY DEF Updates!Init, Updates!None
<1>2. UpdateTypes
  <2>1. bus \in Seq(BusEvents) /\ queue \in Seq(QueuedCalls)
    BY <1>1, EmptySeq
  <2>2. updatesEnabled \in BOOLEAN
    BY <1>1
  <2>. QED BY <1>1, <2>1, <2>2 DEF UpdateTypes
<1>3. Len(bus) = 0 /\ Owners(bus) = {}
  BY <1>1 DEF Owners
<1>4. Senders
  BY <1>3 DEF Senders
<1>5. MceFollowed
  BY <1>1, <1>3 DEF MceFollowed, Announced
<1>. QED BY <1>2, <1>4, <1>5 DEF FollowInv

(* A step that concerns neither the bus, nor MCE, nor whether updates are on. *)
LEMMA FollowKept ==
  ASSUME FollowInv, mce' = mce, instances' = instances, lastCall' = lastCall, bus' = bus,
         nameOwner' = nameOwner, ownerValid' = ownerValid, queue' = queue,
         updatesEnabled' = updatesEnabled
  PROVE  FollowInv'
<1>1. UpdateTypes'
  BY DEF FollowInv, UpdateTypes, BusEvents, QueuedCalls
<1>2. Senders'
  BY DEF FollowInv, Senders, Updates!Stranger
<1>3. MceFollowed'
  <2>1. mce # 0 => Announced(bus, mce, nameOwner, ownerValid, lastCall # <<>>)'
    BY DEF FollowInv, MceFollowed, Announced, Owners
  <2>2. lastCall # <<>> =>
          mce # 0 /\ \E v \in BOOLEAN : lastCall = <<v>> /\ AsksFor(queue, mce, v, updatesEnabled)'
    BY DEF FollowInv, MceFollowed, AsksFor, CallsOf
  <2>. QED BY <2>1, <2>2 DEF MceFollowed
<1>. QED BY <1>1, <1>2, <1>3 DEF FollowInv

LEMMA ProcessFollows == FollowInv /\ Updates!ProcessQueued => FollowInv'
<1>. SUFFICES ASSUME FollowInv, Updates!ProcessQueued PROVE FollowInv'
  OBVIOUS
<1>1. /\ mce' = mce /\ instances' = instances /\ lastCall' = lastCall /\ bus' = bus
      /\ nameOwner' = nameOwner /\ ownerValid' = ownerValid
  BY DEF Updates!ProcessQueued, Updates!mceVars, Updates!ownerVars
<1>2. CASE ~(ownerValid /\ queue # <<>>)
  <2>1. queue' = queue /\ updatesEnabled' = updatesEnabled
    BY <1>2 DEF Updates!ProcessQueued, Updates!enabledVars
  <2>. QED BY <1>1, <2>1, FollowKept
<1>3. CASE ownerValid /\ queue # <<>>
  <2>1. queue \in Seq(QueuedCalls) /\ Head(queue) \in QueuedCalls /\ Tail(queue) \in Seq(QueuedCalls)
    BY <1>3, HeadTailProperties DEF FollowInv, UpdateTypes
  <2>2. Updates!ProcessOne
    BY <1>3 DEF Updates!ProcessQueued
  <2>3. queue' = Tail(queue)
    BY <2>2 DEF Updates!ProcessOne
  <2>4. updatesEnabled' = IF Head(queue).sender = nameOwner THEN Head(queue).enabled ELSE updatesEnabled
    <3>1. CASE Head(queue).sender = nameOwner
      <4>1. \A no \in BOOLEAN : no = FALSE => Updates!SetUpdatesEnabledNow(Head(queue).enabled, no)
        BY <2>2, <3>1 DEF Updates!ProcessOne, Updates!Accepted
      <4>2. Head(queue).enabled \in BOOLEAN
        BY <2>1, StepTypes
      <4>. QED BY <3>1, <4>1, <4>2, EnabledSet
    <3>2. CASE Head(queue).sender # nameOwner
      BY <2>2, <3>2 DEF Updates!ProcessOne, Updates!Accepted, Updates!enabledVars
    <3>. QED BY <3>1, <3>2
  <2>5. updatesEnabled' \in BOOLEAN
    BY <2>1, <2>4, StepTypes DEF FollowInv, UpdateTypes
  <2>6. UpdateTypes'
    BY <1>1, <2>1, <2>3, <2>5 DEF FollowInv, UpdateTypes, BusEvents, QueuedCalls
  <2>7. Senders'
    BY <1>1 DEF FollowInv, Senders, Updates!Stranger
  <2>8. MceFollowed'
    <3>1. (mce # 0 => Announced(bus, mce, nameOwner, ownerValid, lastCall # <<>>))'
      BY <1>1 DEF FollowInv, MceFollowed, Announced, Owners
    <3>2. ASSUME lastCall # <<>>
          PROVE  mce # 0 /\ \E v \in BOOLEAN : lastCall = <<v>> /\ AsksFor(queue', mce, v, updatesEnabled')
      <4>1. PICK v \in BOOLEAN : lastCall = <<v>> /\ AsksFor(queue, mce, v, updatesEnabled)
        BY <3>2 DEF FollowInv, MceFollowed
      <4>2. mce # 0 /\ nameOwner = mce
        BY <1>3, <3>2 DEF FollowInv, MceFollowed, Announced
      <4>3. AsksFor(Tail(queue), mce, v, updatesEnabled')
        BY <1>3, <2>1, <2>4, <4>1, <4>2, AsksTail
      <4>. QED BY <2>3, <4>1, <4>2, <4>3
    <3>3. (lastCall # <<>> =>
            mce # 0 /\ \E v \in BOOLEAN : lastCall = <<v>> /\ AsksFor(queue, mce, v, updatesEnabled))'
      BY <1>1, <3>2 DEF AsksFor, CallsOf
    <3>. QED BY <3>1, <3>3 DEF MceFollowed
  <2>. QED BY <2>6, <2>7, <2>8 DEF FollowInv
<1>. QED BY <1>2, <1>3

LEMMA DeliverFollows == FollowInv /\ Updates!Deliver => FollowInv'
<1>. SUFFICES ASSUME FollowInv, Updates!Deliver PROVE FollowInv'
  OBVIOUS
<1>. DEFINE event == Head(bus)
<1>1. /\ bus # <<>> /\ bus' = Tail(bus) /\ mce' = mce /\ instances' = instances
      /\ updatesEnabled' = updatesEnabled
  BY DEF Updates!Deliver, Updates!enabledVars
<1>2. /\ Senders' /\ bus' \in Seq(BusEvents) /\ event \in BusEvents
      /\ (event.kind = "owner" => event.sender <= instances)
      /\ (event.kind = "call" => event.sender # 0)
  BY <1>1, SendersTail DEF FollowInv, UpdateTypes
<1>3. /\ event.sender \in Nat /\ event.enabled \in BOOLEAN /\ event.kind \in {"owner", "call"}
      /\ [sender |-> event.sender, enabled |-> event.enabled] \in QueuedCalls
  BY <1>2, StepTypes
<1>4. CASE event.kind = "owner"
  <2>1. /\ nameOwner' = event.sender /\ queue' = queue /\ lastCall' = lastCall
    BY <1>4 DEF Updates!Deliver, Updates!OwnerChanged
  <2>2. UpdateTypes'
    BY <1>1, <1>2, <1>3, <1>4, <2>1 DEF FollowInv, UpdateTypes, BusEvents, QueuedCalls
  <2>3. ASSUME mce # 0 PROVE Announced(bus', mce, nameOwner', ownerValid', lastCall # <<>>)
    <3>1. Announced(bus, mce, nameOwner, ownerValid, lastCall # <<>>)
      BY <2>3 DEF FollowInv, MceFollowed
    <3>. QED BY <1>1, <1>4, <2>1, <3>1, AnnouncedOwner DEF FollowInv, UpdateTypes
  <2>4. (mce # 0 => Announced(bus, mce, nameOwner, ownerValid, lastCall # <<>>))'
    BY <1>1, <2>1, <2>3 DEF Announced, Owners
  <2>5. (lastCall # <<>> =>
          mce # 0 /\ \E v \in BOOLEAN : lastCall = <<v>> /\ AsksFor(queue, mce, v, updatesEnabled))'
    BY <1>1, <2>1 DEF FollowInv, MceFollowed, AsksFor, CallsOf
  <2>. QED BY <1>2, <2>2, <2>4, <2>5 DEF FollowInv, MceFollowed
<1>5. CASE event.kind = "call"
  <2>0. Updates!CallArrives(event)
    BY <1>5 DEF Updates!Deliver
  <2>1. nameOwner' = nameOwner /\ ownerValid' = ownerValid
    BY <2>0 DEF Updates!CallArrives
  <2>2. \/ queue' = queue /\ lastCall' = lastCall
        \/ /\ queue' = Append(queue, [sender |-> event.sender, enabled |-> event.enabled])
           /\ lastCall' = IF event.sender = mce THEN <<event.enabled>> ELSE lastCall
    BY <2>0 DEF Updates!CallArrives
  <2>3. UpdateTypes'
    <3>1. queue' \in Seq(QueuedCalls)
      BY <1>3, <2>2, AppendProperties DEF FollowInv, UpdateTypes
    <3>. QED BY <1>1, <1>2, <2>1, <3>1 DEF FollowInv, UpdateTypes, BusEvents, QueuedCalls
  <2>4. lastCall' # <<>> => lastCall # <<>> \/ event.sender = mce
    BY <2>2
  <2>5. ASSUME mce # 0 PROVE Announced(bus', mce, nameOwner, ownerValid, lastCall' # <<>>)
    <3>1. Announced(bus, mce, nameOwner, ownerValid, lastCall # <<>>)
      BY <2>5 DEF FollowInv, MceFollowed
    <3>. QED BY <1>1, <1>5, <2>4, <3>1, AnnouncedCall DEF FollowInv, UpdateTypes
  <2>6. (mce # 0 => Announced(bus, mce, nameOwner, ownerValid, lastCall # <<>>))'
    BY <1>1, <2>1, <2>5 DEF Announced, Owners
  <2>7. ASSUME lastCall' # <<>>
        PROVE  mce # 0 /\ \E v \in BOOLEAN : lastCall' = <<v>> /\ AsksFor(queue', mce, v, updatesEnabled)
    <3>1. CASE queue' = queue /\ lastCall' = lastCall
      BY <2>7, <3>1 DEF FollowInv, MceFollowed
    <3>2. CASE /\ queue' = Append(queue, [sender |-> event.sender, enabled |-> event.enabled])
               /\ lastCall' = IF event.sender = mce THEN <<event.enabled>> ELSE lastCall
      <4>. DEFINE call == [sender |-> event.sender, enabled |-> event.enabled]
      <4>1. call \in QueuedCalls /\ call.sender = event.sender /\ call.enabled = event.enabled
        BY <1>3
      <4>. HIDE DEF call
      <4>2. CASE event.sender = mce
        <5>1. mce # 0 /\ lastCall' = <<event.enabled>>
          BY <1>2, <1>5, <3>2, <4>2
        <5>2. AsksFor(Append(queue, call), mce, event.enabled, updatesEnabled)
          BY <4>1, <4>2, AsksAppend DEF FollowInv, UpdateTypes
        <5>. QED BY <1>3, <3>2, <5>1, <5>2 DEF call
      <4>3. CASE event.sender # mce
        <5>1. lastCall' = lastCall /\ mce # 0
          BY <2>7, <3>2, <4>3 DEF FollowInv, MceFollowed
        <5>2. PICK v \in BOOLEAN : lastCall = <<v>> /\ AsksFor(queue, mce, v, updatesEnabled)
          BY <2>7, <5>1 DEF FollowInv, MceFollowed
        <5>3. AsksFor(Append(queue, call), mce, v, updatesEnabled)
          BY <4>1, <4>3, <5>2, AsksAppend DEF FollowInv, UpdateTypes
        <5>. QED BY <3>2, <5>1, <5>2, <5>3 DEF call
      <4>. QED BY <4>2, <4>3
    <3>. QED BY <2>2, <3>1, <3>2
  <2>8. (lastCall # <<>> =>
          mce # 0 /\ \E v \in BOOLEAN : lastCall = <<v>> /\ AsksFor(queue, mce, v, updatesEnabled))'
    BY <1>1, <2>7 DEF AsksFor, CallsOf
  <2>. QED BY <1>2, <2>3, <2>6, <2>8 DEF FollowInv, MceFollowed
<1>. QED BY <1>3, <1>4, <1>5

(* What MCE and others send is appended to what the bus delivers.            *)
LEMMA BusAppended ==
  ASSUME FollowInv, NEW e \in BusEvents, bus' = Append(bus, e),
         mce' = mce, instances' = instances, lastCall' = lastCall,
         nameOwner' = nameOwner, ownerValid' = ownerValid, queue' = queue,
         updatesEnabled' = updatesEnabled,
         e.kind = "owner" => e.sender = mce,
         e.kind = "call" => e.sender # 0 /\ (e.sender <= instances \/ e.sender = Updates!Stranger)
  PROVE  FollowInv'
<1>1. Senders' /\ bus' \in Seq(BusEvents)
  <2>1. e.kind = "owner" => e.sender <= instances'
    BY DEF FollowInv, UpdateTypes
  <2>2. instances \in Nat /\ instances' \in Nat /\ instances <= instances' /\ bus \in Seq(BusEvents)
    BY DEF FollowInv, UpdateTypes
  <2>3. Senders
    BY DEF FollowInv
  <2>4. e.kind = "call" => e.sender # 0 /\ (e.sender <= instances' \/ e.sender = Updates!Stranger)
    OBVIOUS
  <2>. QED BY <2>1, <2>2, <2>3, <2>4, SendersAppend
<1>2. UpdateTypes'
  BY <1>1 DEF FollowInv, UpdateTypes, BusEvents, QueuedCalls
<1>3. ASSUME mce # 0 PROVE Announced(bus', mce, nameOwner, ownerValid, lastCall # <<>>)
  <2>1. Announced(bus, mce, nameOwner, ownerValid, lastCall # <<>>)
    BY <1>3 DEF FollowInv, MceFollowed
  <2>. QED BY <2>1, AnnouncedAppend DEF FollowInv, UpdateTypes
<1>4. (mce # 0 => Announced(bus, mce, nameOwner, ownerValid, lastCall # <<>>))'
  BY <1>3 DEF Announced, Owners
<1>5. (lastCall # <<>> =>
        mce # 0 /\ \E v \in BOOLEAN : lastCall = <<v>> /\ AsksFor(queue, mce, v, updatesEnabled))'
  BY DEF FollowInv, MceFollowed, AsksFor, CallsOf
<1>. QED BY <1>1, <1>2, <1>4, <1>5 DEF FollowInv, MceFollowed

LEMMA MceFollows ==
  ASSUME FollowInv, Updates!AnswerOwner \/ Updates!MceStops \/ Updates!MceStarts
  PROVE  FollowInv'
<1>0. UpdateTypes /\ Senders /\ mce \in Nat /\ instances \in Nat /\ mce <= instances
      /\ bus \in Seq(BusEvents)
  BY DEF FollowInv, UpdateTypes
<1>. DEFINE Owner(m) == Updates!Event("owner", m, FALSE, FALSE)
<1>1. \A m \in Nat : Owner(m) \in BusEvents /\ Owner(m).kind = "owner" /\ Owner(m).sender = m
  BY DEF Updates!Event, BusEvents
<1>. HIDE DEF Owner
<1>2. CASE Updates!AnswerOwner
  <2>1. /\ bus' = Append(bus, Owner(mce))
        /\ mce' = mce /\ instances' = instances /\ lastCall' = lastCall
        /\ nameOwner' = nameOwner /\ ownerValid' = ownerValid /\ queue' = queue
        /\ updatesEnabled' = updatesEnabled
    BY <1>2 DEF Updates!AnswerOwner, Updates!mceVars, Updates!enabledVars, Owner
  <2>. QED BY <1>0, <1>1, <2>1, BusAppended
<1>3. CASE Updates!MceStops
  <2>1. /\ bus' = Append(bus, Owner(0)) /\ mce' = 0 /\ lastCall' = <<>>
        /\ instances' = instances /\ nameOwner' = nameOwner /\ queue' = queue
        /\ updatesEnabled' = updatesEnabled
    BY <1>3 DEF Updates!MceStops, Updates!None, Updates!ownerVars, Updates!enabledVars, Owner
  <2>2. Senders' /\ bus' \in Seq(BusEvents)
    <3>1. Owner(0) \in BusEvents /\ Owner(0).kind = "owner" /\ Owner(0).sender <= instances
      BY <1>0, <1>1
    <3>. QED BY <1>0, <2>1, <3>1, SendersAppend
  <2>3. UpdateTypes'
    BY <1>0, <2>1, <2>2 DEF FollowInv, UpdateTypes, BusEvents, QueuedCalls
  <2>. QED BY <2>1, <2>2, <2>3 DEF FollowInv, MceFollowed
<1>4. CASE Updates!MceStarts
  <2>1. /\ mce = 0 /\ instances < MaxRestarts /\ instances' = instances + 1 /\ mce' = instances + 1
        /\ bus' = Append(bus, Owner(mce')) /\ lastCall' = <<>>
        /\ nameOwner' = nameOwner /\ ownerValid' = ownerValid /\ queue' = queue
        /\ updatesEnabled' = updatesEnabled
    BY <1>4 DEF Updates!MceStarts, Updates!None, Updates!ownerVars, Updates!enabledVars, Owner
  <2>2. mce' \in Nat /\ instances' \in Nat /\ mce' <= instances' /\ instances <= instances' /\ mce' # 0
    BY <1>0, <2>1
  <2>3. Owner(mce') \in BusEvents /\ Owner(mce').kind = "owner" /\ Owner(mce').sender = mce'
    BY <1>1, <2>2
  <2>4. Senders' /\ bus' \in Seq(BusEvents)
    BY <1>0, <2>1, <2>2, <2>3, SendersAppend
  <2>5. nameOwner \in Nat /\ nameOwner <= instances
    BY DEF FollowInv, UpdateTypes
  <2>6. UpdateTypes'
    <3>1. nameOwner' \in Nat /\ nameOwner' <= instances'
      BY <1>0, <2>1, <2>5
    <3>. QED BY <2>1, <2>2, <2>4, <3>1 DEF FollowInv, UpdateTypes, BusEvents, QueuedCalls
  <2>7. nameOwner # mce' /\ \A i \in 1 .. Len(bus) : bus[i].sender # mce'
    <3>1. nameOwner # mce'
      BY <1>0, <2>1, <2>5
    <3>2. ASSUME NEW i \in 1 .. Len(bus) PROVE bus[i].sender # mce'
      <4>1. bus[i] \in BusEvents
        BY <1>0, ElementOfSeq
      <4>2. bus[i].sender \in Nat /\ (bus[i].sender <= instances \/ bus[i].sender = MaxRestarts + 1)
        BY <1>0, <4>1, StepTypes DEF Senders, Updates!Stranger
      <4>3. MaxRestarts \in Nat
        BY CompositorAssumption
      <4>. QED BY <1>0, <2>1, <4>2, <4>3
    <3>. QED BY <3>1, <3>2
  <2>8. Announced(bus', mce', nameOwner, ownerValid, FALSE)
    BY <1>0, <2>1, <2>3, <2>7, AnnouncedNew
  <2>9. MceFollowed'
    BY <2>1, <2>8 DEF MceFollowed, Announced, Owners
  <2>. QED BY <2>4, <2>6, <2>9 DEF FollowInv
<1>. QED BY <1>2, <1>3, <1>4

LEMMA NextFollows == FollowInv /\ Updates!Next => FollowInv'
<1>. SUFFICES ASSUME FollowInv, Updates!Next PROVE FollowInv'
  OBVIOUS
<1>1. CASE Updates!ProcessQueued
  BY <1>1, ProcessFollows
<1>2. CASE Updates!Deliver
  BY <1>2, DeliverFollows
<1>3. CASE Updates!AnswerOwner \/ Updates!MceStops \/ Updates!MceStarts
  BY <1>3, MceFollows
<1>4. ASSUME NEW sender \in {mce, Updates!Stranger}, NEW enabled \in BOOLEAN,
             NEW inAmbient \in {FALSE, enabled}, Updates!Call(sender, enabled, inAmbient)
      PROVE  FollowInv'
  <2>1. /\ sender # 0 /\ bus' = Append(bus, Updates!Event("call", sender, enabled, inAmbient))
        /\ mce' = mce /\ instances' = instances /\ lastCall' = lastCall
        /\ nameOwner' = nameOwner /\ ownerValid' = ownerValid /\ queue' = queue
        /\ updatesEnabled' = updatesEnabled
    BY <1>4 DEF Updates!Call, Updates!mceVars, Updates!ownerVars, Updates!enabledVars, Updates!None
  <2>2. mce \in Nat /\ mce <= instances /\ MaxRestarts \in Nat
    BY CompositorAssumption DEF FollowInv, UpdateTypes
  <2>3. /\ sender \in Nat /\ (sender <= instances \/ sender = Updates!Stranger)
        /\ inAmbient \in BOOLEAN
    <3>1. sender = mce \/ sender = Updates!Stranger
      OBVIOUS
    <3>2. sender \in Nat /\ (sender <= instances \/ sender = Updates!Stranger)
      BY <2>2, <3>1 DEF Updates!Stranger
    <3>3. inAmbient = FALSE \/ inAmbient = enabled
      OBVIOUS
    <3>4. inAmbient \in BOOLEAN
      BY <3>3, Zenon
    <3>. QED BY <3>2, <3>4
  <2>. DEFINE e == Updates!Event("call", sender, enabled, inAmbient)
  <2>4. e \in BusEvents /\ e.kind = "call" /\ e.sender = sender
    BY <2>3, StepTypes
  <2>. HIDE DEF e
  <2>5. bus' = Append(bus, e)
    BY <2>1 DEF e
  <2>. QED BY <2>1, <2>3, <2>4, <2>5, BusAppended
<1>5. ASSUME NEW enabled \in BOOLEAN, Updates!SceneSetsAmbientUpdates(enabled) PROVE FollowInv'
  <2>1. \A yes \in BOOLEAN : yes = TRUE => Updates!SetUpdatesEnabledNow(enabled, yes)
    BY <1>5 DEF Updates!SceneSetsAmbientUpdates
  <2>2. updatesEnabled' = updatesEnabled
    BY <2>1, EnabledSet
  <2>. QED BY <1>5, <2>2, FollowKept DEF Updates!SceneSetsAmbientUpdates, Updates!SceneStep,
       Updates!busVars, Updates!mceVars, Updates!ownerVars
<1>6. ASSUME NEW w \in Windows, NEW takesFocus \in BOOLEAN, Updates!Raise(w, takesFocus) PROVE FollowInv'
  BY <1>6, FollowKept DEF Updates!Raise, Updates!SceneStep, Updates!busVars, Updates!mceVars,
     Updates!ownerVars
<1>7. ASSUME NEW w \in Windows, Updates!WindowGone(w) PROVE FollowInv'
  BY <1>7, FollowKept DEF Updates!WindowGone, Updates!SceneStep, Updates!busVars, Updates!mceVars,
     Updates!ownerVars
<1>8. CASE Updates!Switch
  BY <1>8, FollowKept DEF Updates!Switch, Updates!SceneStep, Updates!busVars, Updates!mceVars,
     Updates!ownerVars, Updates!enabledVars
<1>9. CASE Updates!Wakeup
  BY <1>9, FollowKept DEF Updates!Wakeup, Updates!SceneStep, Updates!busVars, Updates!mceVars,
     Updates!ownerVars
<1>. QED BY <1>1, <1>2, <1>3, <1>4, <1>5, <1>6, <1>7, <1>8, <1>9 DEF Updates!Next

-----------------------------------------------------------------------------
(* Updates: the focus, the wakeups and the queue                             *)

(* What takes the focus and what gives it back, and what is due of timed.    *)
EnabledInv ==
    /\ unfocusedId # 0 => shown = FALSE
    /\ shown \in BOOLEAN /\ updatesEnabled \in BOOLEAN
    /\ wakeups \in {0, 1}

LEMMA EnabledKept ==
  ASSUME EnabledInv, unfocusedId' = unfocusedId, shown' = shown,
         updatesEnabled' = updatesEnabled, wakeups' = wakeups
  PROVE  EnabledInv'
BY DEF EnabledInv

LEMMA SetKeeps ==
  ASSUME EnabledInv, NEW enabled \in BOOLEAN, NEW inAmbientMode \in BOOLEAN,
         Updates!SetUpdatesEnabledNow(enabled, inAmbientMode)
  PROVE  EnabledInv'
<1>1. CASE UNCHANGED Updates!enabledVars
  BY <1>1, EnabledKept DEF Updates!enabledVars
<1>2. CASE /\ updatesEnabled' = IF inAmbientMode THEN updatesEnabled ELSE enabled
           /\ IF enabled THEN Updates!Enable ELSE Updates!Disable
  <2>1. updatesEnabled' \in BOOLEAN
    BY <1>2, Zenon DEF EnabledInv
  <2>2. CASE enabled = TRUE
    BY <1>2, <2>1, <2>2 DEF EnabledInv, Updates!Enable, Updates!None
  <2>3. CASE enabled = FALSE
    <3>1. shown' = FALSE /\ Updates!ScheduleAmbientUpdate
      BY <1>2, <2>3 DEF Updates!Disable
    <3>2. wakeups' = wakeups \/ wakeups' = 1
      BY <3>1 DEF Updates!ScheduleAmbientUpdate
    <3>. QED BY <2>1, <3>1, <3>2 DEF EnabledInv
  <2>. QED BY <2>2, <2>3
<1>. QED BY <1>1, <1>2 DEF Updates!SetUpdatesEnabledNow

LEMMA NextKeepsEnabled ==
  ASSUME FollowInv, EnabledInv, Updates!Next
  PROVE  EnabledInv'
<1>1. CASE Updates!ProcessQueued
  <2>1. CASE UNCHANGED Updates!enabledVars
    BY <2>1, EnabledKept DEF Updates!enabledVars
  <2>2. CASE queue # <<>> /\ Updates!ProcessOne /\ ~ UNCHANGED Updates!enabledVars
    <3>1. Head(queue).enabled \in BOOLEAN
      <4>1. Head(queue) \in QueuedCalls
        BY <2>2, HeadTailProperties DEF FollowInv, UpdateTypes
      <4>. QED BY <4>1 DEF QueuedCalls
    <3>2. \A no \in BOOLEAN : no = FALSE =>
             Updates!SetUpdatesEnabledNow(Head(queue).enabled, no)
      BY <2>2 DEF Updates!ProcessOne
    <3>. QED BY <3>1, <3>2, SetKeeps
  <2>. QED BY <1>1, <2>1, <2>2 DEF Updates!ProcessQueued
<1>2. CASE Updates!Deliver \/ Updates!AnswerOwner \/ Updates!MceStops \/ Updates!MceStarts
  BY <1>2, EnabledKept DEF Updates!Deliver, Updates!AnswerOwner, Updates!MceStops,
     Updates!MceStarts, Updates!enabledVars
<1>3. ASSUME NEW sender \in {mce, Updates!Stranger}, NEW enabled \in BOOLEAN,
             NEW inAmbient \in {FALSE, enabled}, Updates!Call(sender, enabled, inAmbient)
      PROVE  EnabledInv'
  BY <1>3, EnabledKept DEF Updates!Call, Updates!enabledVars
<1>4. ASSUME NEW enabled \in BOOLEAN, Updates!SceneSetsAmbientUpdates(enabled) PROVE EnabledInv'
  <2>1. \A yes \in BOOLEAN : yes = TRUE => Updates!SetUpdatesEnabledNow(enabled, yes)
    BY <1>4 DEF Updates!SceneSetsAmbientUpdates
  <2>. QED BY <2>1, SetKeeps
<1>5. ASSUME NEW w \in Windows,
             Updates!Raise(w, TRUE) \/ Updates!Raise(w, FALSE) \/ Updates!WindowGone(w)
      PROVE  EnabledInv'
  BY <1>5, EnabledKept DEF Updates!Raise, Updates!WindowGone
<1>6. CASE Updates!Switch
  BY <1>6, EnabledKept DEF Updates!Switch, Updates!enabledVars
<1>7. CASE Updates!Wakeup
  <2>1. wakeups' = 0
    BY <1>7 DEF Updates!Wakeup, EnabledInv
  <2>. QED BY <1>7, <2>1 DEF Updates!Wakeup, EnabledInv
<1>. QED BY <1>1, <1>2, <1>3, <1>4, <1>5, <1>6, <1>7 DEF Updates!Next

QueueInv == Updates!QueueServed

LEMMA NextServesQueue ==
  ASSUME QueueInv, Updates!Next
  PROVE  QueueInv'
<1>. USE DEF QueueInv, Updates!QueueServed
<1>1. ASSUME UNCHANGED <<queue, processing, ownerValid>> PROVE QueueInv'
  BY <1>1
<1>2. CASE Updates!ProcessQueued
  BY <1>2 DEF Updates!ProcessQueued, Updates!ownerVars
<1>3. CASE Updates!Deliver
  <2>1. CASE Updates!OwnerChanged(Head(bus).sender)
    BY <2>1 DEF Updates!OwnerChanged
  <2>2. CASE Updates!CallArrives(Head(bus))
    BY <2>2 DEF Updates!CallArrives
  <2>. QED BY <1>3, <2>1, <2>2 DEF Updates!Deliver
<1>4. CASE Updates!AnswerOwner
  BY <1>1, <1>4 DEF Updates!AnswerOwner
<1>5. CASE Updates!MceStops \/ Updates!MceStarts
  BY <1>1, <1>5 DEF Updates!MceStops, Updates!MceStarts, Updates!ownerVars
<1>6. ASSUME NEW sender \in {mce, Updates!Stranger}, NEW enabled \in BOOLEAN,
             NEW inAmbient \in {FALSE, enabled}, Updates!Call(sender, enabled, inAmbient)
      PROVE  QueueInv'
  BY <1>1, <1>6 DEF Updates!Call, Updates!ownerVars
<1>7. CASE Updates!SceneStep
  BY <1>1, <1>7 DEF Updates!SceneStep, Updates!busVars, Updates!ownerVars
<1>. QED BY <1>2, <1>3, <1>4, <1>5, <1>6, <1>7 DEF Updates!Next, Updates!SceneSetsAmbientUpdates,
     Updates!Raise, Updates!WindowGone, Updates!Switch, Updates!Wakeup

-----------------------------------------------------------------------------
(* Updates: the theorems                                                     *)

UpdatesInv == FollowInv /\ EnabledInv /\ QueueInv

LEMMA UpdatesInductive == Spec => []UpdatesInv
<1>1. Init => UpdatesInv
  <2>1. Init => FollowInv
    BY InitFollow DEF Init
  <2>2. Init => EnabledInv
    BY DEF Init, Updates!Init, Updates!None, EnabledInv
  <2>3. Init => QueueInv
    BY DEF Init, Updates!Init, QueueInv, Updates!QueueServed
  <2>. QED BY <2>1, <2>2, <2>3 DEF UpdatesInv
<1>2. UpdatesInv /\ [Next]_vars => UpdatesInv'
  <2>1. ASSUME UpdatesInv, UNCHANGED updateVars PROVE UpdatesInv'
    <3>1. FollowInv'
      BY <2>1, FollowKept DEF UpdatesInv, updateVars
    <3>2. EnabledInv'
      BY <2>1, EnabledKept DEF UpdatesInv, updateVars
    <3>3. QueueInv'
      BY <2>1 DEF UpdatesInv, updateVars, QueueInv, Updates!QueueServed
    <3>. QED BY <3>1, <3>2, <3>3 DEF UpdatesInv
  <2>2. ASSUME UpdatesInv, Updates!Next PROVE UpdatesInv'
    BY <2>2, NextFollows, NextKeepsEnabled, NextServesQueue DEF UpdatesInv
  <2>. QED BY <2>1, <2>2 DEF Next, vars
<1>. QED BY <1>1, <1>2, PTL DEF Spec

(* With nothing under way the compositor does what the running MCE asked     *)
(* for last, however MCE restarts, strangers call and the bus answers late:  *)
(* setUpdatesEnabled() and processQueuedSetUpdatesEnabledCalls().            *)
THEOREM UpdatesAreMces == Spec => []UpdatesFollowMce
<1>1. UpdatesInv => UpdatesFollowMce
  <2>. SUFFICES ASSUME UpdatesInv PROVE UpdatesFollowMce
    OBVIOUS
  <2>1. ASSUME bus = <<>>, queue = <<>>, lastCall # <<>> PROVE updatesEnabled = Updates!Last(lastCall)
    <3>1. PICK v \in BOOLEAN : lastCall = <<v>> /\ AsksFor(queue, mce, v, updatesEnabled)
      BY <2>1 DEF UpdatesInv, FollowInv, MceFollowed
    <3>2. Updates!Last(lastCall) = v
      BY <3>1 DEF Updates!Last
    <3>3. updatesEnabled = v
      BY <2>1, <3>1 DEF AsksFor, CallsOf
    <3>. QED BY <3>2, <3>3
  <2>2. Updates!UpdatesFollowMce
    BY <2>1 DEF Updates!UpdatesFollowMce
  <2>3. Updates!OneWakeup
    BY DEF UpdatesInv, EnabledInv, Updates!OneWakeup
  <2>. QED BY <2>2, <2>3 DEF UpdatesFollowMce, UpdatesInv, QueueInv
<1>. QED BY <1>1, UpdatesInductive, PTL

(* A window that lost the focus with the display gets it back with the       *)
(* display or not at all: setUpdatesEnabledNow().                            *)
THEOREM FocusComesBackAtOnce == Spec => []NoLateFocus
<1>1. UpdatesInv => NoLateFocus
  BY DEF UpdatesInv, EnabledInv, NoLateFocus, Updates!NoLateFocus, Updates!None
<1>. QED BY <1>1, UpdatesInductive, PTL

-----------------------------------------------------------------------------
(* Windows: what surfaces and windows are                                    *)

SurfaceRecs ==
  [process: Nat \ {0}, alive: BOOLEAN, content: BOOLEAN, role: {"none", "popup", "cursor"},
   popup: Nat, doomed: BOOLEAN]
WindowRecs == [surface: Nat, process: Nat, mapped: BOOLEAN]

WindowTypes ==
  /\ surfaces \in Seq(SurfaceRecs)
  /\ nextWindowId \in Nat
  /\ windows \in [DOMAIN windows -> WindowRecs]
  /\ \A id \in DOMAIN windows : id \in Nat /\ id # 0 /\ id < nextWindowId
  /\ mappedSurfaces \subseteq DOMAIN windows /\ deleted \subseteq DOMAIN windows
  /\ nextWindowId # 0

(* A window shows a living surface of some client, and no other window shows *)
(* the same; a surface's popup is its window, unless that was doomed; and    *)
(* what is mapped has content, or is a cursor's by now.                      *)
ShowsLiving ==
  \A id \in DOMAIN windows : windows[id].surface # 0 =>
     /\ windows[id].surface \in DOMAIN surfaces
     /\ surfaces[windows[id].surface].alive = TRUE
     /\ windows[id].process # 0
ShownOnce ==
  \A i, j \in DOMAIN windows :
     windows[i].surface = windows[j].surface /\ windows[i].surface # 0 => i = j
PopupShown ==
  \A s \in DOMAIN surfaces :
     surfaces[s].alive = TRUE /\ surfaces[s].popup # 0 /\ surfaces[s].doomed = FALSE =>
     /\ surfaces[s].popup \in DOMAIN windows /\ surfaces[s].popup \notin deleted
     /\ windows[surfaces[s].popup].surface = s
MappedShown ==
  \A id \in mappedSurfaces : windows[id].surface # 0 =>
     /\ \/ surfaces[windows[id].surface].content = TRUE
        \/ surfaces[windows[id].surface].role = "cursor"
     /\ windows[id].mapped = TRUE

ViewsInv == ShowsLiving /\ ShownOnce /\ PopupShown /\ MappedShown

LEMMA ContentUpdates ==
  ASSUME NEW q \in Seq(SurfaceRecs), NEW s \in DOMAIN q, NEW c \in BOOLEAN
  PROVE  LET r == [q EXCEPT ![s].content = c]
         IN  /\ s \in Nat /\ s # 0
             /\ r \in Seq(SurfaceRecs) /\ DOMAIN r = DOMAIN q
             /\ \A t \in DOMAIN q : t # s => r[t] = q[t]
             /\ r[s].content = c /\ r[s].alive = q[s].alive /\ r[s].popup = q[s].popup
             /\ r[s].role = q[s].role /\ r[s].doomed = q[s].doomed /\ r[s].process = q[s].process
<1>. DEFINE e == [q[s] EXCEPT !.content = c]
            r == [q EXCEPT ![s].content = c]
<1>0. /\ DOMAIN q = 1 .. Len(q) /\ Len(q) \in Nat /\ s \in 1 .. Len(q)
      /\ q[s] \in SurfaceRecs
  BY LenProperties, ElementOfSeq
<1>1. r = [q EXCEPT ![s] = e]
  BY <1>0
<1>2. /\ e.content = c
      /\ e.alive = q[s].alive
      /\ e.popup = q[s].popup
      /\ e.role = q[s].role /\ e.doomed = q[s].doomed
      /\ e.process = q[s].process
  BY <1>0 DEF SurfaceRecs
<1>3. e \in SurfaceRecs
  BY <1>0 DEF SurfaceRecs
<1>. HIDE DEF e
<1>4. /\ r \in Seq(SurfaceRecs) /\ DOMAIN r = DOMAIN q /\ r[s] = e
      /\ \A t \in DOMAIN q : t # s => r[t] = q[t]
  BY <1>0, <1>1, <1>3, ExceptSeq, LenProperties
<1>. HIDE DEF r
<1>5. s \in Nat /\ s # 0
  BY <1>0
<1>. QED BY <1>2, <1>4, <1>5 DEF r

(* Surface s is replaced by e, another state of the same surface.            *)
LEMMA SurfaceReplaced ==
  ASSUME NEW q \in Seq(SurfaceRecs), NEW s \in DOMAIN q, NEW e \in SurfaceRecs
  PROVE  LET r == [q EXCEPT ![s] = e]
         IN  /\ s \in Nat /\ s # 0
             /\ r \in Seq(SurfaceRecs) /\ DOMAIN r = DOMAIN q
             /\ r[s] = e /\ \A t \in DOMAIN q : t # s => r[t] = q[t]
<1>0. /\ DOMAIN q = 1 .. Len(q) /\ Len(q) \in Nat /\ s \in 1 .. Len(q)
  BY LenProperties
<1>. QED BY <1>0, ExceptSeq, LenProperties

-----------------------------------------------------------------------------
(* Windows: what the model lists                                             *)

Holds(q, x) == \E i \in 1 .. Len(q) : q[i] = x
OnceEach(q) == \A i, j \in 1 .. Len(q) : q[i] = q[j] => i = j

ListInv ==
  /\ listed \in Seq(Nat) /\ complete \in BOOLEAN
  /\ complete = FALSE => listed = <<>>
  /\ complete = TRUE =>
        \A x \in Nat : Holds(listed, x) <=> x \in mappedSurfaces /\ windows[x].process # 0
  /\ OnceEach(listed)

LEMMA RemovedAt ==
  ASSUME NEW q \in Seq(Nat), OnceEach(q), NEW i \in 1 .. Len(q)
  PROVE  LET r == SubSeq(q, 1, i - 1) \o SubSeq(q, i + 1, Len(q))
         IN  /\ r \in Seq(Nat) /\ OnceEach(r)
             /\ \A x : Holds(r, x) <=> Holds(q, x) /\ x # q[i]
<1>. DEFINE a == SubSeq(q, 1, i - 1)
            b == SubSeq(q, i + 1, Len(q))
            r == a \o b
<1>0. Len(q) \in Nat /\ \A j \in 1 .. Len(q) : q[j] \in Nat
  BY LenProperties, ElementOfSeq
<1>1. a \in Seq(Nat) /\ Len(a) = i - 1 /\ \A j \in 1 .. i - 1 : a[j] = q[j]
  BY <1>0, SubSeqProperties
<1>2. b \in Seq(Nat) /\ Len(b) = Len(q) - i /\ \A j \in 1 .. Len(q) - i : b[j] = q[j + i]
  <2>1. \A j \in i + 1 .. Len(q) : q[j] \in Nat
    BY <1>0
  <2>2. /\ b \in Seq(Nat)
        /\ Len(b) = IF i + 1 <= Len(q) THEN Len(q) - (i + 1) + 1 ELSE 0
        /\ \A j \in 1 .. Len(q) - (i + 1) + 1 : b[j] = q[i + 1 + j - 1]
    BY <1>0, <2>1, SubSeqProperties
  <2>3. \A j \in 1 .. Len(q) - i : b[j] = q[j + i]
    <3>1. \A j \in 1 .. Len(q) - i : j \in 1 .. Len(q) - (i + 1) + 1 /\ i + 1 + j - 1 = j + i
      BY <1>0
    <3>. QED BY <2>2, <3>1
  <2>4. Len(b) = Len(q) - i
    BY <1>0, <2>2
  <2>. QED BY <2>2, <2>3, <2>4
<1>. HIDE DEF a, b
<1>3. /\ r \in Seq(Nat) /\ Len(r) = Len(q) - 1
      /\ \A j \in 1 .. Len(q) - 1 : r[j] = IF j < i THEN q[j] ELSE q[j + 1]
  <2>1. /\ r \in Seq(Nat) /\ Len(r) = Len(a) + Len(b)
        /\ \A j \in 1 .. Len(a) + Len(b) : r[j] = IF j <= Len(a) THEN a[j] ELSE b[j - Len(a)]
    BY <1>1, <1>2, ConcatProperties
  <2>2. Len(a) + Len(b) = Len(q) - 1
    BY <1>0, <1>1, <1>2
  <2>3. ASSUME NEW j \in 1 .. Len(q) - 1 PROVE r[j] = IF j < i THEN q[j] ELSE q[j + 1]
    <3>1. CASE j < i
      <4>1. j \in 1 .. i - 1 /\ j <= Len(a)
        BY <1>0, <1>1, <3>1
      <4>2. r[j] = a[j]
        BY <2>1, <2>2, <4>1
      <4>. QED BY <1>1, <3>1, <4>1, <4>2
    <3>2. CASE ~ j < i
      <4>1. j - Len(a) \in 1 .. Len(q) - i /\ ~ j <= Len(a) /\ j - Len(a) + i = j + 1
        BY <1>0, <1>1, <3>2
      <4>2. r[j] = b[j - Len(a)]
        BY <2>1, <2>2, <4>1
      <4>. QED BY <1>2, <3>2, <4>1, <4>2
    <3>. QED BY <3>1, <3>2
  <2>. QED BY <2>1, <2>2, <2>3
<1>. HIDE DEF r
<1>7. \A n \in 1 .. Len(r) :
         \/ n < i /\ n \in 1 .. Len(q) /\ r[n] = q[n]
         \/ n >= i /\ n + 1 \in 1 .. Len(q) /\ r[n] = q[n + 1]
  <2>. SUFFICES ASSUME NEW n \in 1 .. Len(r)
                PROVE  \/ n < i /\ n \in 1 .. Len(q) /\ r[n] = q[n]
                       \/ n >= i /\ n + 1 \in 1 .. Len(q) /\ r[n] = q[n + 1]
    OBVIOUS
  <2>1. n \in 1 .. Len(q) - 1 /\ n \in 1 .. Len(q) /\ n + 1 \in 1 .. Len(q)
    BY <1>0, <1>3
  <2>2. r[n] = IF n < i THEN q[n] ELSE q[n + 1]
    BY <1>3, <2>1
  <2>. QED BY <2>1, <2>2
<1>4. OnceEach(r)
  <2>. SUFFICES ASSUME NEW j \in 1 .. Len(r), NEW k \in 1 .. Len(r), r[j] = r[k]
                PROVE  j = k
    BY DEF OnceEach
  <2>0. j \in Int /\ k \in Int /\ i \in Int
    BY <1>0, <1>3
  <2>2. \A m, n \in 1 .. Len(q) : q[m] = q[n] => m = n
    BY DEF OnceEach
  <2>3. CASE j < i /\ k < i
    <3>1. /\ j \in 1 .. Len(q) /\ r[j] = q[j]
          /\ k \in 1 .. Len(q) /\ r[k] = q[k]
      BY <1>7, <2>0, <2>3
    <3>. QED BY <2>2, <3>1
  <2>4. CASE j < i /\ k >= i
    BY <1>7, <2>0, <2>2, <2>4
  <2>5. CASE j >= i /\ k < i
    BY <1>7, <2>0, <2>2, <2>5
  <2>6. CASE j >= i /\ k >= i
    <3>1. /\ j + 1 \in 1 .. Len(q) /\ r[j] = q[j + 1]
          /\ k + 1 \in 1 .. Len(q) /\ r[k] = q[k + 1]
      BY <1>7, <2>0, <2>6
    <3>2. j + 1 = k + 1
      BY <2>2, <3>1
    <3>. QED BY <2>0, <3>2
  <2>. QED BY <2>0, <2>3, <2>4, <2>5, <2>6
<1>5. ASSUME NEW x PROVE Holds(r, x) <=> Holds(q, x) /\ x # q[i]
  <2>1. ASSUME Holds(r, x) PROVE Holds(q, x) /\ x # q[i]
    <3>1. PICK j \in 1 .. Len(r) : r[j] = x
      BY <2>1 DEF Holds
    <3>2. CASE j < i
      <4>1. j \in 1 .. Len(q) /\ q[j] = x
        BY <1>7, <3>1, <3>2
      <4>. QED BY <3>2, <4>1 DEF Holds, OnceEach
    <3>3. CASE ~ j < i
      <4>1. j + 1 \in 1 .. Len(q) /\ q[j + 1] = x /\ j + 1 # i
        BY <1>0, <1>3, <1>7, <3>1, <3>3
      <4>. QED BY <4>1 DEF Holds, OnceEach
    <3>. QED BY <3>2, <3>3
  <2>2. ASSUME Holds(q, x), x # q[i] PROVE Holds(r, x)
    <3>1. PICK j \in 1 .. Len(q) : q[j] = x
      BY <2>2 DEF Holds
    <3>2. CASE j < i
      <4>1. j \in 1 .. Len(r) /\ r[j] = x
        BY <1>0, <1>3, <3>1, <3>2
      <4>. QED BY <4>1 DEF Holds
    <3>3. CASE j > i
      <4>1. j - 1 \in 1 .. Len(r) /\ ~ (j - 1 < i) /\ j - 1 + 1 = j
        BY <1>0, <1>3, <3>1, <3>3
      <4>2. r[j - 1] = x
        BY <1>3, <3>1, <4>1
      <4>. QED BY <4>1, <4>2 DEF Holds
    <3>4. j # i
      BY <2>2, <3>1
    <3>. QED BY <1>0, <3>2, <3>3, <3>4
  <2>. QED BY <2>1, <2>2
<1>. QED BY <1>3, <1>4, <1>5 DEF r, a, b

LEMMA AppendedOnce ==
  ASSUME NEW q \in Seq(Nat), OnceEach(q), NEW e \in Nat, ~Holds(q, e)
  PROVE  /\ Append(q, e) \in Seq(Nat) /\ OnceEach(Append(q, e))
         /\ \A x : Holds(Append(q, e), x) <=> Holds(q, x) \/ x = e
<1>. DEFINE r == Append(q, e)
<1>1. /\ r \in Seq(Nat) /\ Len(r) = Len(q) + 1 /\ Len(q) \in Nat
      /\ \A i \in 1 .. Len(q) : r[i] = q[i]
      /\ r[Len(q) + 1] = e
  BY AppendProperties, LenProperties
<1>. HIDE DEF r
<1>2. \A i \in 1 .. Len(r) : i \in 1 .. Len(q) \/ i = Len(q) + 1
  BY <1>1
<1>3. OnceEach(r)
  BY <1>1, <1>2 DEF OnceEach, Holds
<1>4. \A x : Holds(r, x) <=> Holds(q, x) \/ x = e
  <2>1. Len(q) + 1 \in 1 .. Len(r) /\ \A i \in 1 .. Len(q) : i \in 1 .. Len(r)
    BY <1>1
  <2>. QED BY <1>1, <1>2, <2>1 DEF Holds
<1>. QED BY <1>1, <1>3, <1>4 DEF r

LEMMA ListKept ==
  ASSUME ListInv, listed' = listed, complete' = complete,
         \A x \in Nat : (x \in mappedSurfaces' /\ windows'[x].process # 0)
                        <=> (x \in mappedSurfaces /\ windows[x].process # 0)
  PROVE  ListInv'
BY DEF ListInv, Holds, OnceEach

LEMMA ListRemoves ==
  ASSUME ListInv, NEW id, Views!RemItem(id), complete' = complete,
         mappedSurfaces' = mappedSurfaces \ {id},
         \A x \in mappedSurfaces \ {id} : windows'[x].process = windows[x].process
  PROVE  ListInv'
<1>0. DOMAIN listed = 1 .. Len(listed) /\ listed \in Seq(Nat) /\ OnceEach(listed)
  BY LenProperties DEF ListInv
<1>1. CASE id \notin Views!ToSet(listed) /\ UNCHANGED listed
  <2>1. ~Holds(listed, id)
    BY <1>0, <1>1 DEF Views!ToSet, Holds
  <2>. QED BY <1>1, <2>1 DEF ListInv
<1>2. ASSUME NEW i \in DOMAIN listed, listed[i] = id, listed' = Views!RemoveAt(listed, i)
      PROVE  ListInv'
  <2>1. /\ listed' \in Seq(Nat) /\ OnceEach(listed')
        /\ \A x : Holds(listed', x) <=> Holds(listed, x) /\ x # id
    BY <1>0, <1>2, RemovedAt DEF Views!RemoveAt
  <2>2. listed # <<>>
    BY <1>0
  <2>. QED BY <2>1, <2>2 DEF ListInv
<1>. QED BY <1>1, <1>2 DEF Views!RemItem

LEMMA ListAdds ==
  ASSUME ListInv, NEW id \in Nat, Views!AddItem(id), complete' = complete,
         mappedSurfaces' = mappedSurfaces \cup {id}, id \notin mappedSurfaces,
         windows'[id].process # 0,
         \A x \in mappedSurfaces : windows'[x].process = windows[x].process
  PROVE  ListInv'
<1>1. CASE complete = TRUE
  <2>1. ~Holds(listed, id) /\ listed \in Seq(Nat) /\ OnceEach(listed)
    BY <1>1 DEF ListInv
  <2>2. listed' = Append(listed, id)
    BY <1>1 DEF Views!AddItem
  <2>3. /\ listed' \in Seq(Nat) /\ OnceEach(listed')
        /\ \A x : Holds(listed', x) <=> Holds(listed, x) \/ x = id
    BY <2>1, <2>2, AppendedOnce
  <2>. QED BY <1>1, <2>3 DEF ListInv
<1>2. CASE complete = FALSE
  BY <1>2 DEF ListInv, Views!AddItem
<1>. QED BY <1>1, <1>2 DEF ListInv

-----------------------------------------------------------------------------
(* Windows: what the scene knows of them                                     *)

SceneInv ==
  /\ topmostWindowId \in Nat /\ topmostWindowId < nextWindowId
  /\ topmostWindowId \in DOMAIN windows => topmostProcessId = windows[topmostWindowId].process
  /\ pixmap \in [id: Nat, surface: Nat]
  /\ pixmap.surface # 0 =>
        /\ pixmap.id \in watched /\ pixmap.id \in DOMAIN windows
        /\ windows[pixmap.id].surface = pixmap.surface

WindowInv == WindowTypes /\ ViewsInv /\ ListInv /\ SceneInv

LEMMA SceneKept ==
  ASSUME SceneInv, WindowTypes, WindowTypes',
         topmostWindowId' = topmostWindowId, topmostProcessId' = topmostProcessId,
         pixmap' = pixmap, watched' = watched,
         nextWindowId <= nextWindowId',
         DOMAIN windows \subseteq DOMAIN windows',
         \A id \in DOMAIN windows' : id \in DOMAIN windows \/ id = nextWindowId,
         \A id \in DOMAIN windows : /\ windows'[id].process = windows[id].process
                                    /\ windows'[id].surface = windows[id].surface
  PROVE  SceneInv'
<1>1. topmostWindowId' \in Nat /\ topmostWindowId' < nextWindowId'
  BY DEF SceneInv, WindowTypes
<1>2. topmostWindowId' \in DOMAIN windows' => topmostWindowId \in DOMAIN windows
  BY DEF SceneInv, WindowTypes
<1>3. topmostWindowId' \in DOMAIN windows' => topmostProcessId' = windows'[topmostWindowId'].process
  BY <1>2 DEF SceneInv
<1>. QED BY <1>1, <1>3 DEF SceneInv

LEMMA WithWindowShape ==
  ASSUME WindowTypes, NEW w \in WindowRecs
  PROVE  LET v == Views!WithWindow(w)
         IN  /\ DOMAIN v = DOMAIN windows \cup {nextWindowId}
             /\ nextWindowId \notin DOMAIN windows
             /\ v[nextWindowId] = w /\ \A id \in DOMAIN windows : v[id] = windows[id]
             /\ v \in [DOMAIN v -> WindowRecs]
             /\ \A id \in DOMAIN v : id \in Nat /\ id # 0 /\ id < nextWindowId + 1
<1>. DEFINE v == Views!WithWindow(w)
<1>1. /\ nextWindowId \in Nat /\ nextWindowId # 0
      /\ \A id \in DOMAIN windows : id \in Nat /\ id # 0 /\ id < nextWindowId
      /\ \A id \in DOMAIN windows : windows[id] \in WindowRecs
  BY DEF WindowTypes
<1>2. nextWindowId \notin DOMAIN windows
  BY <1>1
<1>3. /\ DOMAIN v = DOMAIN windows \cup {nextWindowId}
      /\ v[nextWindowId] = w
      /\ \A id \in DOMAIN windows : v[id] = windows[id]
      /\ v = [id \in DOMAIN v |-> v[id]]
  BY <1>2 DEF Views!WithWindow
<1>. HIDE DEF v
<1>4. v \in [DOMAIN v -> WindowRecs]
  BY <1>1, <1>3
<1>5. \A id \in DOMAIN v : id \in Nat /\ id # 0 /\ id < nextWindowId + 1
  BY <1>1, <1>3
<1>. QED BY <1>2, <1>3, <1>4, <1>5 DEF v

-----------------------------------------------------------------------------
(* Windows: the steps                                                        *)

LEMMA SurfaceCreatedKeeps ==
  ASSUME WindowInv, NEW p \in Processes, Views!OnSurfaceCreated(p)
  PROVE  WindowInv'
<1>. DEFINE e == [process |-> p, alive |-> TRUE, content |-> FALSE, role |-> "none",
                  popup |-> 0, doomed |-> FALSE]
            s == Len(surfaces) + 1
            w == [surface |-> s, process |-> p, mapped |-> FALSE]
            n == nextWindowId
<1>0. p \in Nat /\ p # 0
  BY CompositorAssumption
<1>1. /\ e \in SurfaceRecs /\ e.alive = TRUE /\ e.content = FALSE /\ e.popup = 0 /\ e.process = p
  BY <1>0 DEF SurfaceRecs
<1>2. surfaces \in Seq(SurfaceRecs) /\ Len(surfaces) \in Nat /\ DOMAIN surfaces = 1 .. Len(surfaces)
  BY LenProperties DEF WindowInv, WindowTypes
<1>3. w \in WindowRecs /\ w.surface = s /\ w.process = p /\ w.mapped = FALSE
  BY <1>0, <1>2 DEF WindowRecs
<1>4. surfaces' = Append(surfaces, e)
  BY DEF Views!OnSurfaceCreated, Views!None
<1>. HIDE DEF e, w
<1>5. /\ surfaces' \in Seq(SurfaceRecs) /\ Len(surfaces') = s /\ surfaces'[s] = e
      /\ \A t \in DOMAIN surfaces : surfaces'[t] = surfaces[t]
      /\ DOMAIN surfaces' = 1 .. s
  BY <1>1, <1>2, <1>4, AppendProperties, LenProperties
<1>6. s \notin DOMAIN surfaces /\ DOMAIN surfaces' = DOMAIN surfaces \cup {s} /\ s # 0
  BY <1>2, <1>5
<1>7. windows' = Views!WithWindow(w) /\ nextWindowId' = n + 1
  BY <1>1, <1>5 DEF Views!OnSurfaceCreated, Views!CreateView, Views!WithView, w
<1>8. /\ DOMAIN windows' = DOMAIN windows \cup {n} /\ n \notin DOMAIN windows
      /\ windows'[n] = w /\ \A id \in DOMAIN windows : windows'[id] = windows[id]
      /\ windows' \in [DOMAIN windows' -> WindowRecs]
      /\ \A id \in DOMAIN windows' : id \in Nat /\ id # 0 /\ id < n + 1
  BY <1>3, <1>7, WithWindowShape DEF WindowInv
<1>9. /\ mappedSurfaces' = mappedSurfaces /\ listed' = listed /\ deleted' = deleted
      /\ complete' = complete /\ topmostWindowId' = topmostWindowId
      /\ topmostProcessId' = topmostProcessId /\ pixmap' = pixmap /\ watched' = watched
  BY DEF Views!OnSurfaceCreated, Views!sceneVars, Views!pixmapVars
<1>. HIDE DEF s
<1>10. n \in Nat /\ mappedSurfaces \subseteq DOMAIN windows /\ deleted \subseteq DOMAIN windows
  BY DEF WindowInv, WindowTypes
<1>11. WindowTypes'
  BY <1>5, <1>7, <1>8, <1>9, <1>10 DEF WindowTypes
<1>12. ShowsLiving'
  BY <1>0, <1>1, <1>3, <1>5, <1>6, <1>8 DEF WindowInv, ViewsInv, ShowsLiving
<1>13. ShownOnce'
  BY <1>3, <1>6, <1>8 DEF WindowInv, ViewsInv, ShowsLiving, ShownOnce
<1>14. PopupShown'
  <2>. SUFFICES ASSUME NEW t \in DOMAIN surfaces', surfaces'[t].alive = TRUE, surfaces'[t].popup # 0,
                       surfaces'[t].doomed = FALSE
                PROVE  /\ surfaces'[t].popup \in DOMAIN windows' /\ surfaces'[t].popup \notin deleted
                       /\ windows'[surfaces'[t].popup].surface = t
    BY <1>9 DEF PopupShown
  <2>1. t \in DOMAIN surfaces /\ surfaces'[t] = surfaces[t]
    BY <1>1, <1>5, <1>6
  <2>. QED BY <1>8, <2>1 DEF WindowInv, ViewsInv, PopupShown
<1>15. MappedShown'
  BY <1>5, <1>8, <1>9, <1>10 DEF WindowInv, ViewsInv, ShowsLiving, MappedShown
<1>16. ListInv'
  BY <1>8, <1>9, <1>10, ListKept DEF WindowInv
<1>17. SceneInv'
  BY <1>7, <1>8, <1>9, <1>10, <1>11, SceneKept DEF WindowInv
<1>. QED BY <1>11, <1>12, <1>13, <1>14, <1>15, <1>16, <1>17 DEF WindowInv, ViewsInv

(* A window of the surface, if it has one, is the only one.                  *)
LEMMA WindowsOfSurface ==
  ASSUME NEW s
  PROVE  /\ \A id : id \in Views!WindowsOf(s) <=> id \in DOMAIN windows /\ windows[id].surface = s
         /\ Views!WindowsOf(s) = {} => \A id \in DOMAIN windows : windows[id].surface # s
BY DEF Views!WindowsOf

LEMMA SceneStays ==
  ASSUME WindowInv, WindowTypes', UNCHANGED <<Views!sceneVars, Views!pixmapVars>>,
         nextWindowId' = nextWindowId, DOMAIN windows' = DOMAIN windows,
         \A id \in DOMAIN windows : /\ windows'[id].process = windows[id].process
                                    /\ windows'[id].surface = windows[id].surface
  PROVE  SceneInv'
BY SceneKept DEF WindowInv, Views!sceneVars, Views!pixmapVars, WindowTypes

LEMMA ContentKeeps ==
  ASSUME WindowInv, NEW s \in DOMAIN surfaces, Views!OnHasContentChanged(s)
  PROVE  WindowInv'
<1>. DEFINE n == nextWindowId
<1>0. surfaces \in Seq(SurfaceRecs) /\ surfaces[s] \in SurfaceRecs
  BY ElementOfSeq, LenProperties DEF WindowInv, WindowTypes
<1>1. PICK c \in BOOLEAN : surfaces' = [surfaces EXCEPT ![s].content = c]
  <2>1. surfaces' = [surfaces EXCEPT ![s].content = ~surfaces[s].content]
    BY DEF Views!OnHasContentChanged
  <2>2. (~surfaces[s].content) \in BOOLEAN
    BY Zenon
  <2>. QED BY <2>1, <2>2, Zenon
<1>2. /\ s \in Nat /\ s # 0
      /\ surfaces' \in Seq(SurfaceRecs) /\ DOMAIN surfaces' = DOMAIN surfaces
      /\ surfaces'[s].content = c
      /\ surfaces'[s].alive = surfaces[s].alive /\ surfaces'[s].popup = surfaces[s].popup
      /\ surfaces'[s].role = surfaces[s].role /\ surfaces'[s].doomed = surfaces[s].doomed
      /\ surfaces'[s].process = surfaces[s].process
      /\ \A t \in DOMAIN surfaces : t # s => surfaces'[t] = surfaces[t]
  <2>. DEFINE r == [surfaces EXCEPT ![s].content = c]
  <2>1. /\ s \in Nat /\ s # 0
        /\ r \in Seq(SurfaceRecs) /\ DOMAIN r = DOMAIN surfaces /\ r[s].content = c
        /\ r[s].alive = surfaces[s].alive /\ r[s].popup = surfaces[s].popup
        /\ r[s].role = surfaces[s].role /\ r[s].doomed = surfaces[s].doomed
        /\ r[s].process = surfaces[s].process
        /\ \A t \in DOMAIN surfaces : t # s => r[t] = surfaces[t]
    BY <1>0, ContentUpdates
  <2>2. surfaces' = r
    BY <1>1
  <2>. HIDE DEF r
  <2>. QED BY <2>1, <2>2
<1>3. /\ surfaces[s].alive = TRUE
      /\ surfaces[s].process \in Nat /\ surfaces[s].process # 0
  BY <1>0 DEF Views!OnHasContentChanged, Views!Living, SurfaceRecs
<1>4. deleted' = deleted /\ UNCHANGED <<Views!sceneVars, Views!pixmapVars>> /\ complete' = complete
  BY DEF Views!OnHasContentChanged, Views!sceneVars
<1>5. /\ \A t \in DOMAIN surfaces : /\ surfaces'[t].alive = surfaces[t].alive
                                    /\ surfaces'[t].popup = surfaces[t].popup
                                    /\ surfaces'[t].role = surfaces[t].role
                                    /\ surfaces'[t].doomed = surfaces[t].doomed
                                    /\ t # s => surfaces'[t].content = surfaces[t].content
  BY <1>2
<1>6. /\ n \in Nat /\ mappedSurfaces \subseteq DOMAIN windows /\ deleted \subseteq DOMAIN windows
      /\ \A id \in DOMAIN windows : windows[id] \in WindowRecs /\ id \in Nat
  BY DEF WindowInv, WindowTypes
<1>7. ASSUME windows' = windows, mappedSurfaces' = mappedSurfaces, listed' = listed, nextWindowId' = n,
             \A id \in mappedSurfaces : windows[id].surface = s => c = TRUE \/ surfaces[s].role = "cursor"
      PROVE  WindowInv'
  <2>1. WindowTypes'
    BY <1>2, <1>4, <1>7 DEF WindowInv, WindowTypes
  <2>2. ShowsLiving' /\ ShownOnce'
    BY <1>2, <1>5, <1>7 DEF WindowInv, ViewsInv, ShowsLiving, ShownOnce
  <2>3. PopupShown'
    BY <1>2, <1>4, <1>5, <1>7 DEF WindowInv, ViewsInv, PopupShown
  <2>4. MappedShown'
    BY <1>2, <1>5, <1>6, <1>7 DEF WindowInv, ViewsInv, ShowsLiving, MappedShown
  <2>5. ListInv'
    BY <1>4, <1>7, ListKept DEF WindowInv
  <2>6. SceneInv'
    BY <1>4, <1>7, <2>1, SceneStays
  <2>. QED BY <2>1, <2>2, <2>3, <2>4, <2>5, <2>6 DEF WindowInv, ViewsInv
<1>8. CASE surfaces[s].role = "cursor"
  <2>1. UNCHANGED Views!windowVars
    BY <1>8 DEF Views!OnHasContentChanged
  <2>. QED BY <1>7, <1>8, <2>1 DEF Views!windowVars
<1>9. ASSUME c = TRUE, NEW id \in DOMAIN windows, windows[id].surface = s,
             Views!SurfaceMapped(id, windows), nextWindowId' = n, surfaces[s].role # "cursor"
      PROVE  WindowInv'
  <2>1. CASE windows[id].mapped = TRUE
    BY <1>7, <1>9, <2>1 DEF Views!SurfaceMapped
  <2>2. CASE windows[id].mapped = FALSE
    <3>1. /\ windows' = [windows EXCEPT ![id].mapped = TRUE]
          /\ mappedSurfaces' = mappedSurfaces \cup {id} /\ Views!AddItem(id)
      BY <1>9, <2>2 DEF Views!SurfaceMapped
    <3>2. [windows[id] EXCEPT !.mapped = TRUE] \in WindowRecs
      BY <1>6 DEF WindowRecs
    <3>3. /\ DOMAIN windows' = DOMAIN windows
          /\ windows'[id].surface = windows[id].surface
          /\ windows'[id].process = windows[id].process
          /\ windows'[id].mapped = TRUE
          /\ \A i \in DOMAIN windows : i # id => windows'[i] = windows[i]
          /\ windows'[id] \in WindowRecs
          /\ windows' = [i \in DOMAIN windows' |-> windows'[i]]
      BY <1>6, <3>1, <3>2 DEF WindowRecs
    <3>4. windows' \in [DOMAIN windows' -> WindowRecs]
      BY <1>6, <3>3
    <3>5. WindowTypes'
      BY <1>2, <1>4, <1>6, <1>9, <3>1, <3>3, <3>4 DEF WindowInv, WindowTypes
    <3>6. \A i \in DOMAIN windows : /\ windows'[i].surface = windows[i].surface
                                    /\ windows'[i].process = windows[i].process
      BY <3>3
    <3>7. ShowsLiving' /\ ShownOnce'
      BY <1>2, <1>5, <3>3, <3>6 DEF WindowInv, ViewsInv, ShowsLiving, ShownOnce
    <3>8. PopupShown'
      BY <1>2, <1>4, <1>5, <3>3, <3>6 DEF WindowInv, ViewsInv, PopupShown
    <3>9. MappedShown'
      <4>. SUFFICES ASSUME NEW i \in mappedSurfaces', windows'[i].surface # 0
                    PROVE  /\ \/ surfaces'[windows'[i].surface].content = TRUE
                              \/ surfaces'[windows'[i].surface].role = "cursor"
                           /\ windows'[i].mapped = TRUE
        BY DEF MappedShown
      <4>1. CASE i = id
        BY <1>2, <1>9, <3>3, <4>1
      <4>2. CASE i # id
        <5>1. i \in mappedSurfaces /\ i \in DOMAIN windows /\ windows'[i] = windows[i]
          BY <1>6, <3>1, <3>3, <4>2
        <5>2. windows[i].surface \in DOMAIN surfaces /\ windows[i].surface # s
          BY <1>2, <1>9, <4>2, <5>1 DEF WindowInv, ViewsInv, ShowsLiving, ShownOnce
        <5>. QED BY <1>5, <5>1, <5>2 DEF WindowInv, ViewsInv, MappedShown
      <4>. QED BY <4>1, <4>2
    <3>10. ListInv'
      <4>1. id \notin mappedSurfaces /\ id \in Nat /\ windows'[id].process # 0
        BY <1>2, <1>6, <1>9, <2>2, <3>3 DEF WindowInv, ViewsInv, MappedShown, ShowsLiving
      <4>. QED BY <1>4, <1>6, <3>1, <3>6, <4>1, ListAdds DEF WindowInv
    <3>11. SceneInv'
      BY <1>4, <1>9, <3>3, <3>5, <3>6, SceneStays
    <3>. QED BY <3>5, <3>7, <3>8, <3>9, <3>10, <3>11 DEF WindowInv, ViewsInv
  <2>. QED BY <1>6, <2>1, <2>2 DEF WindowRecs
<1>10. ASSUME c = TRUE, Views!WindowsOf(s) = {}, nextWindowId' = n + 1,
              Views!SurfaceMapped(n, Views!WithView(s)), surfaces[s].role # "cursor"
       PROVE  WindowInv'
  <2>. DEFINE w == [surface |-> s, process |-> surfaces[s].process, mapped |-> FALSE]
              v == Views!WithWindow(w)
  <2>1. w \in WindowRecs /\ w.surface = s /\ w.process # 0 /\ w.mapped = FALSE
    BY <1>2, <1>3 DEF WindowRecs
  <2>2. Views!WithView(s) = v
    BY <1>2 DEF Views!WithView
  <2>. HIDE DEF w
  <2>3. /\ DOMAIN v = DOMAIN windows \cup {n} /\ n \notin DOMAIN windows
        /\ v[n] = w /\ \A id \in DOMAIN windows : v[id] = windows[id]
        /\ v \in [DOMAIN v -> WindowRecs]
        /\ \A id \in DOMAIN v : id \in Nat /\ id # 0 /\ id < n + 1
    BY <2>1, WithWindowShape DEF WindowInv
  <2>. HIDE DEF v
  <2>4. /\ windows' = [v EXCEPT ![n].mapped = TRUE]
        /\ mappedSurfaces' = mappedSurfaces \cup {n} /\ Views!AddItem(n)
    BY <1>10, <2>1, <2>2, <2>3 DEF Views!SurfaceMapped
  <2>5. [w EXCEPT !.mapped = TRUE] \in WindowRecs
    BY <2>1 DEF WindowRecs
  <2>6. /\ DOMAIN windows' = DOMAIN windows \cup {n}
        /\ windows'[n].surface = s /\ windows'[n].process # 0 /\ windows'[n].mapped = TRUE
        /\ windows'[n] \in WindowRecs
        /\ \A id \in DOMAIN windows : windows'[id] = windows[id]
        /\ windows' = [i \in DOMAIN windows' |-> windows'[i]]
    BY <2>1, <2>3, <2>4, <2>5 DEF WindowRecs
  <2>7. windows' \in [DOMAIN windows' -> WindowRecs]
    BY <1>6, <2>6
  <2>8. WindowTypes'
    BY <1>2, <1>4, <1>6, <1>10, <2>3, <2>4, <2>6, <2>7 DEF WindowInv, WindowTypes
  <2>9. \A id \in DOMAIN windows : windows[id].surface # s
    BY <1>10, WindowsOfSurface
  <2>10. ShowsLiving' /\ ShownOnce'
    <3>1. ShowsLiving'
      BY <1>2, <1>3, <1>5, <2>6 DEF WindowInv, ViewsInv, ShowsLiving
    <3>2. ShownOnce'
      BY <2>6, <2>9 DEF WindowInv, ViewsInv, ShownOnce
    <3>. QED BY <3>1, <3>2
  <2>11. PopupShown'
    BY <1>2, <1>4, <1>5, <2>6 DEF WindowInv, ViewsInv, PopupShown
  <2>12. MappedShown'
    <3>. SUFFICES ASSUME NEW i \in mappedSurfaces', windows'[i].surface # 0
                  PROVE  /\ \/ surfaces'[windows'[i].surface].content = TRUE
                            \/ surfaces'[windows'[i].surface].role = "cursor"
                         /\ windows'[i].mapped = TRUE
      BY DEF MappedShown
    <3>1. CASE i = n
      BY <1>2, <1>10, <2>6, <3>1
    <3>2. CASE i # n
      <4>1. i \in mappedSurfaces /\ i \in DOMAIN windows /\ windows'[i] = windows[i]
        BY <1>6, <2>4, <2>6, <3>2
      <4>2. windows[i].surface \in DOMAIN surfaces /\ windows[i].surface # s
        BY <2>9, <4>1 DEF WindowInv, ViewsInv, ShowsLiving
      <4>. QED BY <1>5, <4>1, <4>2 DEF WindowInv, ViewsInv, MappedShown
    <3>. QED BY <3>1, <3>2
  <2>13. ListInv'
    BY <1>4, <1>6, <2>3, <2>4, <2>6, ListAdds DEF WindowInv
  <2>14. SceneInv'
    BY <1>4, <1>6, <1>10, <2>6, <2>8, SceneKept DEF WindowInv, Views!sceneVars, Views!pixmapVars
  <2>. QED BY <2>8, <2>10, <2>11, <2>12, <2>13, <2>14 DEF WindowInv, ViewsInv
<1>11. ASSUME NEW id \in DOMAIN windows, windows[id].surface = s, Views!SurfaceUnmapped(id),
              windows' = windows, nextWindowId' = n
       PROVE  WindowInv'
  <2>1. mappedSurfaces' = mappedSurfaces \ {id} /\ Views!RemItem(id)
    BY <1>11 DEF Views!SurfaceUnmapped
  <2>2. WindowTypes'
    BY <1>2, <1>4, <1>11, <2>1 DEF WindowInv, WindowTypes
  <2>3. ShowsLiving' /\ ShownOnce'
    BY <1>2, <1>5, <1>11 DEF WindowInv, ViewsInv, ShowsLiving, ShownOnce
  <2>4. PopupShown'
    BY <1>2, <1>4, <1>5, <1>11 DEF WindowInv, ViewsInv, PopupShown
  <2>5. MappedShown'
    <3>. SUFFICES ASSUME NEW i \in mappedSurfaces', windows'[i].surface # 0
                  PROVE  /\ \/ surfaces'[windows'[i].surface].content = TRUE
                            \/ surfaces'[windows'[i].surface].role = "cursor"
                         /\ windows'[i].mapped = TRUE
      BY DEF MappedShown
    <3>1. i \in mappedSurfaces /\ i \in DOMAIN windows /\ i # id
      BY <1>6, <2>1
    <3>2. windows[i].surface \in DOMAIN surfaces /\ windows[i].surface # s
      BY <1>2, <1>11, <3>1 DEF WindowInv, ViewsInv, ShowsLiving, ShownOnce
    <3>. QED BY <1>5, <1>11, <3>1, <3>2 DEF WindowInv, ViewsInv, MappedShown
  <2>6. ListInv'
    BY <1>4, <1>11, <2>1, ListRemoves DEF WindowInv
  <2>7. SceneInv'
    BY <1>4, <1>11, <2>2, SceneStays
  <2>. QED BY <2>2, <2>3, <2>4, <2>5, <2>6, <2>7 DEF WindowInv, ViewsInv
<1>12. CASE surfaces[s].role # "cursor" /\ c = TRUE /\ Views!WindowsOf(s) # {}
  <2>1. \E id \in Views!WindowsOf(s) : Views!SurfaceMapped(id, windows) /\ UNCHANGED nextWindowId
    BY <1>2, <1>12 DEF Views!OnHasContentChanged
  <2>. QED BY <1>9, <1>12, <2>1, WindowsOfSurface
<1>13. CASE surfaces[s].role # "cursor" /\ c = TRUE /\ Views!WindowsOf(s) = {}
  <2>1. nextWindowId' = nextWindowId + 1 /\ Views!SurfaceMapped(nextWindowId, Views!WithView(s))
    BY <1>2, <1>13 DEF Views!OnHasContentChanged
  <2>. QED BY <1>10, <1>13, <2>1
<1>14. CASE surfaces[s].role # "cursor" /\ c = FALSE
  <2>1. /\ UNCHANGED <<windows, nextWindowId>>
        /\ IF Views!WindowsOf(s) = {} THEN UNCHANGED <<mappedSurfaces, listed>>
           ELSE \E id \in Views!WindowsOf(s) : Views!SurfaceUnmapped(id)
    BY <1>2, <1>14 DEF Views!OnHasContentChanged
  <2>2. CASE Views!WindowsOf(s) = {}
    BY <1>6, <1>7, <2>1, <2>2, WindowsOfSurface
  <2>3. CASE Views!WindowsOf(s) # {}
    BY <1>11, <2>1, <2>3, WindowsOfSurface
  <2>. QED BY <2>2, <2>3
<1>. QED BY <1>3, <1>8, <1>12, <1>13, <1>14

(* A step that changes only what surfaces are for, and what is to be deleted. *)
LEMMA RolesChange ==
  ASSUME WindowInv, surfaces' \in Seq(SurfaceRecs), DOMAIN surfaces' = DOMAIN surfaces,
         \A t \in DOMAIN surfaces : /\ surfaces'[t].alive = surfaces[t].alive
                                    /\ surfaces'[t].content = surfaces[t].content
                                    /\ surfaces[t].role = "cursor" => surfaces'[t].role = "cursor",
         UNCHANGED <<windows, mappedSurfaces, listed, nextWindowId, complete>>,
         UNCHANGED <<Views!sceneVars, Views!pixmapVars>>,
         deleted' \subseteq DOMAIN windows, PopupShown'
  PROVE  WindowInv'
<1>1. WindowTypes'
  BY DEF WindowInv, WindowTypes
<1>2. ShowsLiving' /\ ShownOnce'
  BY DEF WindowInv, ViewsInv, ShowsLiving, ShownOnce
<1>3. MappedShown'
  BY DEF WindowInv, WindowTypes, ViewsInv, ShowsLiving, MappedShown
<1>4. ListInv'
  BY ListKept DEF WindowInv
<1>5. SceneInv'
  BY <1>1, SceneStays
<1>. QED BY <1>1, <1>2, <1>3, <1>4, <1>5 DEF WindowInv, ViewsInv

LEMMA CursorKeeps ==
  ASSUME WindowInv, NEW s \in DOMAIN surfaces, Views!SetCursor(s)
  PROVE  WindowInv'
<1>. DEFINE e == [surfaces[s] EXCEPT !.role = "cursor"]
<1>1. surfaces \in Seq(SurfaceRecs) /\ surfaces[s] \in SurfaceRecs
  BY ElementOfSeq, LenProperties DEF WindowInv, WindowTypes
<1>2. /\ surfaces' = [surfaces EXCEPT ![s] = e]
      /\ UNCHANGED <<windows, mappedSurfaces, listed, nextWindowId, complete, deleted>>
      /\ UNCHANGED <<Views!sceneVars, Views!pixmapVars>>
  BY DEF Views!SetCursor, Views!windowVars, Views!sceneVars
<1>3. /\ e \in SurfaceRecs /\ e.role = "cursor" /\ e.alive = surfaces[s].alive
      /\ e.content = surfaces[s].content /\ e.popup = surfaces[s].popup /\ e.doomed = surfaces[s].doomed
  BY <1>1 DEF SurfaceRecs
<1>. HIDE DEF e
<1>4. /\ surfaces' \in Seq(SurfaceRecs) /\ DOMAIN surfaces' = DOMAIN surfaces
      /\ surfaces'[s] = e /\ \A t \in DOMAIN surfaces : t # s => surfaces'[t] = surfaces[t]
  <2>. DEFINE r == [surfaces EXCEPT ![s] = e]
  <2>1. /\ r \in Seq(SurfaceRecs) /\ DOMAIN r = DOMAIN surfaces
        /\ r[s] = e /\ \A t \in DOMAIN surfaces : t # s => r[t] = surfaces[t]
    BY <1>1, <1>3, SurfaceReplaced
  <2>. HIDE DEF r
  <2>. QED BY <1>2, <2>1 DEF r
<1>5. PopupShown'
  BY <1>2, <1>3, <1>4 DEF WindowInv, ViewsInv, PopupShown
<1>6. deleted' \subseteq DOMAIN windows
  BY <1>2 DEF WindowInv, WindowTypes
<1>. QED BY <1>2, <1>3, <1>4, <1>5, <1>6, RolesChange

LEMMA PopupCreatedKeeps ==
  ASSUME WindowInv, NEW s \in DOMAIN surfaces, Views!OnPopupCreated(s)
  PROVE  WindowInv'
<1>. DEFINE n == nextWindowId
<1>0. surfaces \in Seq(SurfaceRecs) /\ surfaces[s] \in SurfaceRecs
  BY ElementOfSeq, LenProperties DEF WindowInv, WindowTypes
<1>1. /\ surfaces[s].alive = TRUE /\ surfaces[s].process \in Nat /\ surfaces[s].process # 0
      /\ surfaces[s].role # "cursor"
  BY <1>0 DEF Views!OnPopupCreated, Views!Living, SurfaceRecs
<1>2. /\ mappedSurfaces' = mappedSurfaces /\ listed' = listed /\ deleted' = deleted
      /\ UNCHANGED <<Views!sceneVars, Views!pixmapVars>> /\ complete' = complete
  BY DEF Views!OnPopupCreated, Views!sceneVars
<1>3. /\ n \in Nat /\ mappedSurfaces \subseteq DOMAIN windows /\ deleted \subseteq DOMAIN windows
      /\ \A id \in DOMAIN windows : windows[id] \in WindowRecs /\ id \in Nat
  BY DEF WindowInv, WindowTypes
<1>4. ASSUME NEW p \in Nat, NEW d \in BOOLEAN, Views!MakePopup(s, p, d)
      PROVE  /\ s \in Nat /\ s # 0
             /\ surfaces' \in Seq(SurfaceRecs) /\ DOMAIN surfaces' = DOMAIN surfaces
             /\ surfaces'[s].popup = p /\ surfaces'[s].doomed = d
             /\ surfaces'[s].process = surfaces[s].process
             /\ \A t \in DOMAIN surfaces :
                   /\ surfaces'[t].alive = surfaces[t].alive
                   /\ surfaces'[t].content = surfaces[t].content
                   /\ surfaces[t].role = "cursor" => surfaces'[t].role = "cursor"
                   /\ t # s => surfaces'[t] = surfaces[t]
  <2>. DEFINE e == [surfaces[s] EXCEPT !.role = "popup", !.popup = p, !.doomed = d]
              r == [surfaces EXCEPT ![s] = e]
  <2>1. /\ e \in SurfaceRecs /\ e.popup = p /\ e.doomed = d /\ e.process = surfaces[s].process
        /\ e.alive = surfaces[s].alive /\ e.content = surfaces[s].content
    BY <1>0 DEF SurfaceRecs
  <2>2. surfaces' = r
    BY <1>0, <1>4 DEF Views!MakePopup
  <2>. HIDE DEF e
  <2>3. /\ s \in Nat /\ s # 0
        /\ r \in Seq(SurfaceRecs) /\ DOMAIN r = DOMAIN surfaces
        /\ r[s] = e /\ \A t \in DOMAIN surfaces : t # s => r[t] = surfaces[t]
    BY <1>0, <2>1, SurfaceReplaced
  <2>. HIDE DEF r
  <2>. QED BY <1>1, <2>1, <2>2, <2>3
<1>5. CASE Views!WindowsOf(s) = {} /\ Views!MakePopup(s, n, FALSE) /\ Views!CreateView(s)
  <2>1. windows' = Views!WithView(s) /\ nextWindowId' = n + 1
    BY <1>5 DEF Views!CreateView
  <2>2. /\ s \in Nat /\ s # 0
        /\ surfaces' \in Seq(SurfaceRecs) /\ DOMAIN surfaces' = DOMAIN surfaces
        /\ surfaces'[s].popup = n
        /\ surfaces'[s].process = surfaces[s].process
        /\ \A t \in DOMAIN surfaces : /\ surfaces'[t].alive = surfaces[t].alive
                                      /\ surfaces'[t].content = surfaces[t].content
                                      /\ surfaces[t].role = "cursor" => surfaces'[t].role = "cursor"
                                      /\ t # s => surfaces'[t] = surfaces[t]
    BY <1>3, <1>4, <1>5
  <2>. DEFINE w == [surface |-> s, process |-> surfaces[s].process, mapped |-> FALSE]
  <2>3. w \in WindowRecs /\ w.surface = s /\ w.process # 0 /\ w.mapped = FALSE
    BY <1>1, <2>2 DEF WindowRecs
  <2>4. windows' = Views!WithWindow(w)
    BY <2>1, <2>2 DEF Views!WithView
  <2>. HIDE DEF w
  <2>5. /\ DOMAIN windows' = DOMAIN windows \cup {n} /\ n \notin DOMAIN windows
        /\ windows'[n] = w /\ \A id \in DOMAIN windows : windows'[id] = windows[id]
        /\ windows' \in [DOMAIN windows' -> WindowRecs]
        /\ \A id \in DOMAIN windows' : id \in Nat /\ id # 0 /\ id < n + 1
    BY <2>3, <2>4, WithWindowShape DEF WindowInv
  <2>6. \A id \in DOMAIN windows : windows[id].surface # s
    BY <1>5, WindowsOfSurface
  <2>7. WindowTypes'
    BY <1>2, <1>3, <2>1, <2>2, <2>5 DEF WindowTypes
  <2>8. ShowsLiving'
    BY <1>1, <2>2, <2>3, <2>5 DEF WindowInv, ViewsInv, ShowsLiving
  <2>9. ShownOnce'
    BY <2>3, <2>5, <2>6 DEF WindowInv, ViewsInv, ShownOnce
  <2>10. PopupShown'
    <3>. SUFFICES ASSUME NEW t \in DOMAIN surfaces', surfaces'[t].alive = TRUE, surfaces'[t].popup # 0,
                         surfaces'[t].doomed = FALSE
                  PROVE  /\ surfaces'[t].popup \in DOMAIN windows' /\ surfaces'[t].popup \notin deleted
                         /\ windows'[surfaces'[t].popup].surface = t
      BY <1>2 DEF PopupShown
    <3>1. CASE t = s
      BY <1>3, <2>2, <2>3, <2>5, <3>1
    <3>2. CASE t # s
      BY <2>2, <2>5, <3>2 DEF WindowInv, ViewsInv, PopupShown
    <3>. QED BY <3>1, <3>2
  <2>11. MappedShown'
    <3>. SUFFICES ASSUME NEW id \in mappedSurfaces', windows'[id].surface # 0
                  PROVE  /\ \/ surfaces'[windows'[id].surface].content = TRUE
                            \/ surfaces'[windows'[id].surface].role = "cursor"
                         /\ windows'[id].mapped = TRUE
      BY DEF MappedShown
    <3>1. id \in mappedSurfaces /\ id \in DOMAIN windows
      BY <1>2, <1>3 DEF WindowInv, WindowTypes
    <3>2. windows'[id] = windows[id]
      BY <2>5, <3>1
    <3>3. /\ \/ surfaces[windows[id].surface].content = TRUE
             \/ surfaces[windows[id].surface].role = "cursor"
          /\ windows[id].mapped = TRUE /\ windows[id].surface \in DOMAIN surfaces
      BY <3>1, <3>2 DEF WindowInv, ViewsInv, ShowsLiving, MappedShown
    <3>. QED BY <2>2, <3>2, <3>3
  <2>12. ListInv'
    BY <1>2, <1>3, <2>5, ListKept DEF WindowInv
  <2>13. SceneInv'
    BY <1>2, <1>3, <2>1, <2>5, <2>7, SceneKept DEF WindowInv, Views!sceneVars, Views!pixmapVars
  <2>. QED BY <2>7, <2>8, <2>9, <2>10, <2>11, <2>12, <2>13 DEF WindowInv, ViewsInv
<1>6. ASSUME NEW p \in Views!WindowsOf(s), Views!MakePopup(s, p, p \in deleted),
             UNCHANGED <<windows, nextWindowId>>
      PROVE  WindowInv'
  <2>1. p \in DOMAIN windows /\ windows[p].surface = s /\ p \in Nat
    BY <1>3, <1>6, WindowsOfSurface
  <2>2. /\ surfaces' \in Seq(SurfaceRecs) /\ DOMAIN surfaces' = DOMAIN surfaces
        /\ surfaces'[s].popup = p /\ (surfaces'[s].doomed = FALSE => p \notin deleted)
        /\ \A t \in DOMAIN surfaces :
              /\ surfaces'[t].alive = surfaces[t].alive
              /\ surfaces'[t].content = surfaces[t].content
              /\ surfaces[t].role = "cursor" => surfaces'[t].role = "cursor"
              /\ t # s => surfaces'[t] = surfaces[t]
    <3>1. PICK d \in BOOLEAN : d <=> p \in deleted
      OBVIOUS
    <3>2. Views!MakePopup(s, p, d)
      BY <1>6, <3>1
    <3>. QED BY <1>4, <2>1, <3>1, <3>2
  <2>3. PopupShown'
    <3>. SUFFICES ASSUME NEW t \in DOMAIN surfaces', surfaces'[t].alive = TRUE, surfaces'[t].popup # 0,
                         surfaces'[t].doomed = FALSE
                  PROVE  /\ surfaces'[t].popup \in DOMAIN windows' /\ surfaces'[t].popup \notin deleted
                         /\ windows'[surfaces'[t].popup].surface = t
      BY <1>2 DEF PopupShown
    <3>1. CASE t = s
      BY <1>6, <2>1, <2>2, <3>1
    <3>2. CASE t # s
      BY <1>6, <2>2, <3>2 DEF WindowInv, ViewsInv, PopupShown
    <3>. QED BY <3>1, <3>2
  <2>. QED BY <1>2, <1>3, <1>6, <2>2, <2>3, RolesChange
<1>. QED BY <1>5, <1>6 DEF Views!OnPopupCreated

LEMMA PopupDestroyedKeeps ==
  ASSUME WindowInv, NEW s \in DOMAIN surfaces, Views!PopupDestroyed(s)
  PROVE  WindowInv'
<1>1. /\ surfaces \in Seq(SurfaceRecs) /\ DOMAIN surfaces = 1 .. Len(surfaces) /\ Len(surfaces) \in Nat
      /\ \A t \in DOMAIN surfaces : surfaces[t] \in SurfaceRecs
      /\ deleted \subseteq DOMAIN windows /\ 0 \notin DOMAIN windows
  BY ElementOfSeq, LenProperties DEF WindowInv, WindowTypes
<1>2. UNCHANGED <<windows, mappedSurfaces, listed, nextWindowId, complete>>
      /\ UNCHANGED <<Views!sceneVars, Views!pixmapVars>>
  BY DEF Views!PopupDestroyed, Views!windowVars, Views!sceneVars
<1>3. PICK hit \in DOMAIN windows \cup {0} :
         /\ deleted' = deleted \cup ({hit} \ {0})
         /\ surfaces' = [t \in DOMAIN surfaces |->
               IF t = s THEN [surfaces[t] EXCEPT !.popup = 0, !.doomed = FALSE]
               ELSE [surfaces[t] EXCEPT !.doomed = @ \/ (hit # 0 /\ surfaces[t].popup = hit)]]
  BY DEF Views!PopupDestroyed, Views!None
<1>4. ASSUME NEW t \in DOMAIN surfaces
      PROVE  /\ surfaces'[t] \in SurfaceRecs
             /\ surfaces'[t].alive = surfaces[t].alive /\ surfaces'[t].content = surfaces[t].content
             /\ surfaces'[t].role = surfaces[t].role
             /\ t = s => surfaces'[t].popup = 0
             /\ t # s => /\ surfaces'[t].popup = surfaces[t].popup
                         /\ surfaces'[t].doomed = FALSE =>
                               surfaces[t].doomed = FALSE /\ (hit = 0 \/ surfaces[t].popup # hit)
  <2>1. CASE t = s
    BY <1>1, <1>3, <2>1 DEF SurfaceRecs
  <2>2. CASE t # s
    <3>1. PICK d \in BOOLEAN : d = (surfaces[t].doomed \/ (hit # 0 /\ surfaces[t].popup = hit))
      BY Zenon
    <3>2. surfaces'[t] = [surfaces[t] EXCEPT !.doomed = d]
      BY <1>3, <2>2, <3>1
    <3>3. surfaces[t].doomed \in BOOLEAN
      BY <1>1 DEF SurfaceRecs
    <3>4. d = FALSE => surfaces[t].doomed = FALSE /\ (hit = 0 \/ surfaces[t].popup # hit)
      BY <3>1, <3>3
    <3>. QED BY <1>1, <2>2, <3>2, <3>4 DEF SurfaceRecs
  <2>. QED BY <2>1, <2>2
<1>5. DOMAIN surfaces' = DOMAIN surfaces /\ surfaces' \in Seq(SurfaceRecs)
  <2>1. surfaces' = [t \in 1 .. Len(surfaces) |-> surfaces'[t]]
    BY <1>1, <1>3
  <2>2. \A t \in 1 .. Len(surfaces) : surfaces'[t] \in SurfaceRecs
    BY <1>1, <1>4
  <2>. QED BY <1>1, <2>1, <2>2
<1>6. PopupShown'
  <2>. SUFFICES ASSUME NEW t \in DOMAIN surfaces', surfaces'[t].alive = TRUE, surfaces'[t].popup # 0,
                       surfaces'[t].doomed = FALSE
                PROVE  /\ surfaces'[t].popup \in DOMAIN windows' /\ surfaces'[t].popup \notin deleted'
                       /\ windows'[surfaces'[t].popup].surface = t
    BY DEF PopupShown
  <2>1. /\ t \in DOMAIN surfaces /\ t # s /\ surfaces[t].alive = TRUE
        /\ surfaces'[t].popup = surfaces[t].popup /\ surfaces[t].doomed = FALSE
        /\ hit = 0 \/ surfaces[t].popup # hit
    BY <1>4, <1>5
  <2>2. /\ surfaces[t].popup \in DOMAIN windows /\ surfaces[t].popup \notin deleted
        /\ windows[surfaces[t].popup].surface = t
    BY <2>1 DEF WindowInv, ViewsInv, PopupShown
  <2>3. windows' = windows /\ deleted' = deleted \cup ({hit} \ {0})
    BY <1>2, <1>3
  <2>. QED BY <2>1, <2>2, <2>3
<1>7. deleted' \subseteq DOMAIN windows
  BY <1>1, <1>3
<1>. QED BY <1>2, <1>4, <1>5, <1>6, <1>7, RolesChange

LEMMA SurfaceDestroyedKeeps ==
  ASSUME WindowInv, NEW s \in DOMAIN surfaces, Views!SurfaceDestroyed(s)
  PROVE  WindowInv'
<1>0. surfaces \in Seq(SurfaceRecs) /\ surfaces[s] \in SurfaceRecs
  BY ElementOfSeq, LenProperties DEF WindowInv, WindowTypes
<1>1. /\ surfaces' = [surfaces EXCEPT ![s].alive = FALSE, ![s].content = FALSE, ![s].role = "none"]
      /\ windows' = [id \in DOMAIN windows |->
                       IF windows[id].surface = s THEN [windows[id] EXCEPT !.surface = 0]
                       ELSE windows[id]]
      /\ deleted' = deleted \cup Views!WindowsOf(s)
      /\ pixmap' = IF pixmap.surface = s THEN [pixmap EXCEPT !.surface = 0] ELSE pixmap
  BY DEF Views!SurfaceDestroyed, Views!None
<1>2. /\ mappedSurfaces' = mappedSurfaces /\ listed' = listed /\ nextWindowId' = nextWindowId
      /\ topmostWindowId' = topmostWindowId /\ topmostProcessId' = topmostProcessId
      /\ watched' = watched /\ complete' = complete
  BY DEF Views!SurfaceDestroyed, Views!sceneVars
<1>. DEFINE e == [surfaces[s] EXCEPT !.alive = FALSE, !.content = FALSE, !.role = "none"]
            r == [surfaces EXCEPT ![s] = e]
<1>16. e \in SurfaceRecs /\ e.alive = FALSE
  BY <1>0 DEF SurfaceRecs
<1>4. surfaces' = r
  BY <1>0, <1>1
<1>. HIDE DEF e
<1>3. /\ s \in Nat /\ s # 0
      /\ r \in Seq(SurfaceRecs) /\ DOMAIN r = DOMAIN surfaces
      /\ r[s].alive = FALSE
      /\ \A t \in DOMAIN surfaces : t # s => r[t] = surfaces[t]
  BY <1>0, <1>16, SurfaceReplaced
<1>. HIDE DEF r
<1>5. /\ surfaces' \in Seq(SurfaceRecs) /\ DOMAIN surfaces' = DOMAIN surfaces
      /\ surfaces'[s].alive = FALSE
      /\ \A t \in DOMAIN surfaces : t # s => surfaces'[t] = surfaces[t]
  BY <1>3, <1>4
<1>6. \A id \in DOMAIN windows : windows[id] \in WindowRecs /\ id \in Nat
  BY DEF WindowInv, WindowTypes
<1>7. /\ DOMAIN windows' = DOMAIN windows
      /\ windows' = [id \in DOMAIN windows' |-> windows'[id]]
      /\ \A id \in DOMAIN windows :
            /\ windows[id].surface # s => windows'[id] = windows[id]
            /\ windows[id].surface = s => windows'[id].surface = 0
            /\ windows'[id].process = windows[id].process
            /\ windows'[id] \in WindowRecs
  <2>1. \A id \in DOMAIN windows :
           LET w == [windows[id] EXCEPT !.surface = 0]
           IN  w \in WindowRecs /\ w.surface = 0 /\ w.process = windows[id].process
    BY <1>6 DEF WindowRecs
  <2>. QED BY <1>1, <1>6, <2>1
<1>8. windows' \in [DOMAIN windows' -> WindowRecs]
  BY <1>7
<1>9. WindowTypes'
  BY <1>1, <1>2, <1>5, <1>7, <1>8, WindowsOfSurface DEF WindowInv, WindowTypes
<1>10. ShowsLiving'
  BY <1>3, <1>5, <1>7 DEF WindowInv, ViewsInv, ShowsLiving
<1>11. ShownOnce'
  BY <1>7 DEF WindowInv, ViewsInv, ShownOnce
<1>12. PopupShown'
  <2>. SUFFICES ASSUME NEW t \in DOMAIN surfaces', surfaces'[t].alive = TRUE, surfaces'[t].popup # 0,
                       surfaces'[t].doomed = FALSE
                PROVE  /\ surfaces'[t].popup \in DOMAIN windows' /\ surfaces'[t].popup \notin deleted'
                       /\ windows'[surfaces'[t].popup].surface = t
    BY DEF PopupShown
  <2>1. t \in DOMAIN surfaces /\ t # s /\ surfaces'[t] = surfaces[t]
    BY <1>5
  <2>2. /\ surfaces[t].popup \in DOMAIN windows /\ surfaces[t].popup \notin deleted
        /\ windows[surfaces[t].popup].surface = t
    BY <2>1 DEF WindowInv, ViewsInv, PopupShown
  <2>. QED BY <1>1, <1>7, <2>1, <2>2, WindowsOfSurface
<1>13. MappedShown'
  <2>. SUFFICES ASSUME NEW i \in mappedSurfaces', windows'[i].surface # 0
                PROVE  /\ \/ surfaces'[windows'[i].surface].content = TRUE
                          \/ surfaces'[windows'[i].surface].role = "cursor"
                       /\ windows'[i].mapped = TRUE
    BY DEF MappedShown
  <2>1. i \in mappedSurfaces /\ i \in DOMAIN windows
    BY <1>2 DEF WindowInv, WindowTypes
  <2>2. windows[i].surface # s /\ windows'[i] = windows[i]
    BY <1>7, <2>1
  <2>3. windows[i].surface \in DOMAIN surfaces
    BY <2>1, <2>2 DEF WindowInv, ViewsInv, ShowsLiving
  <2>. QED BY <1>5, <2>1, <2>2, <2>3 DEF WindowInv, ViewsInv, MappedShown
<1>14. ListInv'
  <2>1. mappedSurfaces \subseteq DOMAIN windows
    BY DEF WindowInv, WindowTypes
  <2>. QED BY <1>2, <1>7, <2>1, ListKept DEF WindowInv
<1>15. SceneInv'
  <2>1. /\ topmostWindowId' \in Nat /\ topmostWindowId' < nextWindowId'
        /\ topmostWindowId' \in DOMAIN windows' =>
             topmostProcessId' = windows'[topmostWindowId'].process
    BY <1>2, <1>7 DEF WindowInv, SceneInv
  <2>2. pixmap \in [id: Nat, surface: Nat]
    BY DEF WindowInv, SceneInv
  <2>3. CASE pixmap.surface = s
    BY <1>1, <2>1, <2>2, <2>3 DEF SceneInv
  <2>4. CASE pixmap.surface # s
    BY <1>1, <1>2, <1>7, <2>1, <2>2, <2>4 DEF WindowInv, SceneInv
  <2>. QED BY <2>3, <2>4
<1>. QED BY <1>9, <1>10, <1>11, <1>12, <1>13, <1>14, <1>15 DEF WindowInv, ViewsInv

LEMMA WindowDestroyedKeeps ==
  ASSUME WindowInv, NEW id \in deleted, Views!WindowDestroyed(id)
  PROVE  WindowInv'
<1>1. /\ deleted' = deleted \ {id}
      /\ windows' = [i \in DOMAIN windows \ {id} |-> windows[i]]
      /\ mappedSurfaces' = mappedSurfaces \ {id} /\ Views!RemItem(id)
      /\ pixmap' = IF id \in watched THEN [id |-> 0, surface |-> 0] ELSE pixmap
      /\ watched' = watched \ {id}
      /\ surfaces' = surfaces /\ nextWindowId' = nextWindowId /\ complete' = complete
      /\ topmostWindowId' = topmostWindowId /\ topmostProcessId' = topmostProcessId
  BY DEF Views!WindowDestroyed, Views!SurfaceUnmapped, Views!sceneVars, Views!None
<1>2. /\ DOMAIN windows' = DOMAIN windows \ {id}
      /\ \A i \in DOMAIN windows' : windows'[i] = windows[i]
      /\ windows' = [i \in DOMAIN windows' |-> windows'[i]]
      /\ \A i \in DOMAIN windows : windows[i] \in WindowRecs
      /\ mappedSurfaces \subseteq DOMAIN windows
  BY <1>1 DEF WindowInv, WindowTypes
<1>3. windows' \in [DOMAIN windows' -> WindowRecs]
  BY <1>2
<1>4. WindowTypes'
  BY <1>1, <1>2, <1>3 DEF WindowInv, WindowTypes
<1>5. ShowsLiving' /\ ShownOnce'
  BY <1>1, <1>2 DEF WindowInv, ViewsInv, ShowsLiving, ShownOnce
<1>6. PopupShown'
  BY <1>1, <1>2 DEF WindowInv, ViewsInv, PopupShown
<1>7. MappedShown'
  BY <1>1, <1>2 DEF WindowInv, ViewsInv, MappedShown
<1>8. ListInv'
  BY <1>1, <1>2, ListRemoves DEF WindowInv
<1>9. SceneInv'
  <2>1. /\ topmostWindowId' \in Nat /\ topmostWindowId' < nextWindowId'
        /\ topmostWindowId' \in DOMAIN windows' =>
             topmostProcessId' = windows'[topmostWindowId'].process
    BY <1>1, <1>2 DEF WindowInv, SceneInv
  <2>2. CASE id \in watched
    BY <1>1, <2>1, <2>2 DEF SceneInv
  <2>3. CASE id \notin watched
    BY <1>1, <1>2, <2>1, <2>3 DEF WindowInv, SceneInv
  <2>. QED BY <2>2, <2>3
<1>. QED BY <1>4, <1>5, <1>6, <1>7, <1>8, <1>9 DEF WindowInv, ViewsInv

LEMMA ProcWindowKeeps ==
  ASSUME WindowInv, Views!MapProcWindow
  PROVE  WindowInv'
<1>. DEFINE n == nextWindowId
            w == [surface |-> 0, process |-> 0, mapped |-> FALSE]
<1>1. w \in WindowRecs /\ w.surface = 0 /\ w.process = 0
  BY DEF WindowRecs
<1>2. /\ windows' = Views!WithWindow(w)
      /\ mappedSurfaces' = mappedSurfaces \cup {n} /\ nextWindowId' = n + 1
      /\ surfaces' = surfaces /\ deleted' = deleted /\ listed' = listed
      /\ complete' = complete /\ topmostWindowId' = topmostWindowId
      /\ topmostProcessId' = topmostProcessId /\ pixmap' = pixmap /\ watched' = watched
  BY DEF Views!MapProcWindow, Views!None, Views!sceneVars, Views!pixmapVars
<1>. HIDE DEF w
<1>3. /\ DOMAIN windows' = DOMAIN windows \cup {n} /\ n \notin DOMAIN windows
      /\ windows'[n] = w /\ \A id \in DOMAIN windows : windows'[id] = windows[id]
      /\ windows' \in [DOMAIN windows' -> WindowRecs]
      /\ \A id \in DOMAIN windows' : id \in Nat /\ id # 0 /\ id < n + 1
  BY <1>1, <1>2, WithWindowShape DEF WindowInv
<1>4. n \in Nat /\ mappedSurfaces \subseteq DOMAIN windows /\ deleted \subseteq DOMAIN windows
  BY DEF WindowInv, WindowTypes
<1>5. WindowTypes'
  BY <1>2, <1>3, <1>4 DEF WindowInv, WindowTypes
<1>6. ShowsLiving' /\ ShownOnce'
  BY <1>1, <1>2, <1>3 DEF WindowInv, ViewsInv, ShowsLiving, ShownOnce
<1>7. PopupShown'
  BY <1>2, <1>3 DEF WindowInv, ViewsInv, PopupShown
<1>8. MappedShown'
  BY <1>1, <1>2, <1>3, <1>4 DEF WindowInv, ViewsInv, MappedShown
<1>9. ListInv'
  <2>1. \A x \in Nat : (x \in mappedSurfaces' /\ windows'[x].process # 0)
                       <=> (x \in mappedSurfaces /\ windows[x].process # 0)
    BY <1>1, <1>2, <1>3, <1>4
  <2>. QED BY <1>2, <2>1, ListKept DEF WindowInv
<1>10. SceneInv'
  BY <1>2, <1>3, <1>4, <1>5, SceneKept DEF WindowInv
<1>. QED BY <1>5, <1>6, <1>7, <1>8, <1>9, <1>10 DEF WindowInv, ViewsInv

LEMMA HideKeeps ==
  ASSUME WindowInv, NEW id \in Views!Proc, Views!Hide(id)
  PROVE  WindowInv'
<1>1. /\ surfaces' = surfaces /\ windows' = windows /\ nextWindowId' = nextWindowId
      /\ deleted' = deleted /\ UNCHANGED <<Views!sceneVars, Views!pixmapVars>>
      /\ complete' = complete
      /\ mappedSurfaces' = mappedSurfaces \ {id} /\ Views!RemItem(id)
  BY DEF Views!Hide, Views!SurfaceUnmapped, Views!sceneVars
<1>2. WindowTypes'
  BY <1>1 DEF WindowInv, WindowTypes
<1>3. ViewsInv'
  BY <1>1 DEF WindowInv, ViewsInv, ShowsLiving, ShownOnce, PopupShown, MappedShown
<1>4. ListInv'
  BY <1>1, ListRemoves DEF WindowInv
<1>5. SceneInv'
  BY <1>1, <1>2, SceneStays
<1>. QED BY <1>2, <1>3, <1>4, <1>5 DEF WindowInv

LEMMA CardinalityOfViews ==
  ASSUME NEW S
  PROVE  Views!Cardinality(S) = Cardinality(S)
BY DEF Views!Cardinality, Cardinality

(* An enumeration of a finite set holds each of its members once.            *)
LEMMA EnumerationHolds ==
  ASSUME NEW S \in SUBSET Nat, IsFiniteSet(S), NEW q \in Views!SetToSeqs(S)
  PROVE  q \in Seq(Nat) /\ OnceEach(q) /\ \A x : Holds(q, x) <=> x \in S
<1>. DEFINE n == Cardinality(S)
<1>1. n \in Nat
  BY FS_CardinalityType
<1>2. q \in [1 .. n -> S] /\ \A i, j \in 1 .. n : i # j => q[i] # q[j]
  BY CardinalityOfViews DEF Views!SetToSeqs
<1>. HIDE DEF n
<1>3. q \in Seq(Nat) /\ Len(q) = n
  <2>1. q = [i \in 1 .. n |-> q[i]] /\ \A i \in 1 .. n : q[i] \in Nat
    BY <1>2
  <2>2. [i \in 1 .. n |-> q[i]] \in Seq(Nat) /\ Len([i \in 1 .. n |-> q[i]]) = n
    BY <1>1, <2>1
  <2>. QED BY <2>1, <2>2
<1>4. OnceEach(q)
  BY <1>2, <1>3 DEF OnceEach
<1>5. q \in Surjection(1 .. n, S)
  <2>1. q \in Injection(1 .. n, S)
    BY <1>2 DEF Injection, IsInjective
  <2>2. IsFiniteSet(1 .. n) /\ Cardinality(1 .. n) = Cardinality(S)
    BY <1>1, FS_Interval DEF n
  <2>. QED BY <2>1, <2>2, FS_Injection
<1>6. \A x : Holds(q, x) <=> x \in S
  <2>1. ASSUME NEW x, Holds(q, x) PROVE x \in S
    BY <1>2, <1>3, <2>1 DEF Holds
  <2>2. ASSUME NEW x \in S PROVE Holds(q, x)
    BY <1>3, <1>5 DEF Surjection, Holds
  <2>. QED BY <2>1, <2>2
<1>. QED BY <1>3, <1>4, <1>6

LEMMA CompleteKeeps ==
  ASSUME WindowInv, Views!ComponentComplete
  PROVE  WindowInv'
<1>. DEFINE S == {id \in mappedSurfaces : Views!Approved(id)}
<1>1. /\ surfaces' = surfaces /\ windows' = windows /\ nextWindowId' = nextWindowId
      /\ mappedSurfaces' = mappedSurfaces /\ deleted' = deleted
      /\ topmostWindowId' = topmostWindowId /\ topmostProcessId' = topmostProcessId
      /\ pixmap' = pixmap /\ watched' = watched
      /\ complete' = TRUE /\ listed' \in Views!SetToSeqs(S)
  BY DEF Views!ComponentComplete, Views!pixmapVars
<1>2. WindowTypes'
  BY <1>1 DEF WindowInv, WindowTypes
<1>3. ViewsInv'
  BY <1>1 DEF WindowInv, ViewsInv, ShowsLiving, ShownOnce, PopupShown, MappedShown
<1>4. \A id : id \in S <=> id \in mappedSurfaces /\ windows[id].process # 0
  BY DEF WindowInv, WindowTypes, ViewsInv, ShowsLiving, Views!Approved, Views!IsInProcess, Views!None
<1>5. S \in SUBSET Nat /\ IsFiniteSet(S)
  <2>1. S \subseteq Nat /\ nextWindowId \in Nat /\ \A id \in S : id <= nextWindowId
    BY DEF WindowInv, WindowTypes
  <2>. HIDE DEF S
  <2>. QED BY <2>1, FS_BoundedSetOfNaturals
<1>. HIDE DEF S
<1>6. listed' \in Seq(Nat) /\ OnceEach(listed') /\ \A x : Holds(listed', x) <=> x \in S
  BY <1>1, <1>5, EnumerationHolds
<1>7. ListInv'
  BY <1>1, <1>4, <1>6 DEF ListInv
<1>8. SceneInv'
  BY <1>1 DEF WindowInv, SceneInv
<1>. QED BY <1>2, <1>3, <1>7, <1>8 DEF WindowInv

LEMMA SelectionKeeps ==
  ASSUME WindowInv, NEW id \in DOMAIN windows \cup {Views!None},
         Views!SetTopmostWindowId(id) \/ Views!SetWindowId(id)
  PROVE  WindowInv'
<1>1. /\ surfaces' = surfaces /\ windows' = windows /\ nextWindowId' = nextWindowId
      /\ mappedSurfaces' = mappedSurfaces /\ deleted' = deleted /\ listed' = listed
      /\ complete' = complete
  BY DEF Views!SetTopmostWindowId, Views!SetWindowId, Views!windowVars
<1>2. WindowTypes'
  BY <1>1 DEF WindowInv, WindowTypes
<1>3. ViewsInv'
  BY <1>1 DEF WindowInv, ViewsInv, ShowsLiving, ShownOnce, PopupShown, MappedShown
<1>4. ListInv'
  BY <1>1, ListKept DEF WindowInv
<1>5. id \in Nat /\ id < nextWindowId
  BY DEF WindowInv, WindowTypes, Views!None
<1>6. ASSUME Views!SetTopmostWindowId(id) PROVE SceneInv'
  <2>1. /\ topmostWindowId' = id /\ pixmap' = pixmap /\ watched' = watched
        /\ id \in DOMAIN windows => topmostProcessId' = windows[id].process
    BY <1>6 DEF Views!SetTopmostWindowId, Views!pixmapVars
  <2>. QED BY <1>1, <1>5, <2>1 DEF WindowInv, SceneInv
<1>7. ASSUME Views!SetWindowId(id) PROVE SceneInv'
  <2>. DEFINE surface == IF id = 0 THEN 0 ELSE windows[id].surface
  <2>1. /\ pixmap' = [id |-> id, surface |-> surface]
        /\ watched' = IF surface = 0 THEN watched ELSE watched \cup {id}
        /\ topmostWindowId' = topmostWindowId /\ topmostProcessId' = topmostProcessId
    BY <1>7 DEF Views!SetWindowId, Views!None
  <2>2. surface \in Nat /\ (surface # 0 => id \in DOMAIN windows /\ windows[id].surface = surface)
    BY DEF WindowInv, WindowTypes, WindowRecs, Views!None
  <2>. HIDE DEF surface
  <2>3. pixmap'.id = id /\ pixmap'.surface = surface /\ pixmap' \in [id: Nat, surface: Nat]
    BY <1>5, <2>1, <2>2
  <2>4. surface # 0 => id \in watched'
    BY <2>1
  <2>. QED BY <1>1, <2>1, <2>2, <2>3, <2>4 DEF WindowInv, SceneInv
<1>8. SceneInv'
  BY <1>6, <1>7 DEF WindowInv
<1>. QED BY <1>2, <1>3, <1>4, <1>8 DEF WindowInv

-----------------------------------------------------------------------------
(* Windows: the theorem                                                      *)

LEMMA WindowKept ==
  ASSUME WindowInv, UNCHANGED windowVars
  PROVE  WindowInv'
<1>1. WindowTypes'
  BY DEF WindowInv, WindowTypes, windowVars
<1>2. ViewsInv'
  BY DEF WindowInv, ViewsInv, ShowsLiving, ShownOnce, PopupShown, MappedShown, windowVars
<1>3. ListInv'
  BY DEF WindowInv, ListInv, Holds, OnceEach, windowVars
<1>4. SceneInv'
  BY DEF WindowInv, SceneInv, windowVars
<1>. QED BY <1>1, <1>2, <1>3, <1>4 DEF WindowInv

LEMMA InitWindow == Views!Init => WindowInv
<1>. SUFFICES ASSUME Views!Init PROVE WindowInv
  OBVIOUS
<1>. USE DEF Views!Init, Views!None
<1>1. DOMAIN windows = {} /\ DOMAIN surfaces = {} /\ windows \in [DOMAIN windows -> WindowRecs]
  <2>1. windows = <<>> /\ surfaces = <<>>
    OBVIOUS
  <2>2. DOMAIN <<>> = {} /\ <<>> \in [{} -> WindowRecs]
    OBVIOUS
  <2>. QED BY <2>1, <2>2
<1>2. WindowTypes
  BY <1>1 DEF WindowTypes
<1>3. ViewsInv
  BY <1>1 DEF ViewsInv, ShowsLiving, ShownOnce, PopupShown, MappedShown
<1>4. ListInv
  <2>1. listed \in Seq(Nat) /\ Len(listed) = 0 /\ listed = <<>> /\ complete = FALSE
    BY EmptySeq
  <2>2. OnceEach(listed)
    BY <2>1 DEF OnceEach
  <2>. QED BY <2>1, <2>2 DEF ListInv
<1>5. SceneInv
  BY <1>1 DEF SceneInv
<1>. QED BY <1>2, <1>3, <1>4, <1>5 DEF WindowInv

LEMMA WindowsInductive == Spec => []WindowInv
<1>1. Init => WindowInv
  BY InitWindow DEF Init
<1>2. WindowInv /\ [Next]_vars => WindowInv'
  <2>1. ASSUME WindowInv, Views!Next PROVE WindowInv'
    <3>1. ASSUME NEW p \in Processes, Views!OnSurfaceCreated(p) PROVE WindowInv'
      BY <2>1, <3>1, SurfaceCreatedKeeps
    <3>2. ASSUME NEW s \in DOMAIN surfaces,
                 \/ Views!OnHasContentChanged(s) \/ Views!SetCursor(s) \/ Views!OnPopupCreated(s)
                 \/ Views!PopupDestroyed(s) \/ Views!SurfaceDestroyed(s)
          PROVE  WindowInv'
      BY <2>1, <3>2, ContentKeeps, CursorKeeps, PopupCreatedKeeps, PopupDestroyedKeeps,
         SurfaceDestroyedKeeps
    <3>3. ASSUME NEW id \in deleted, Views!WindowDestroyed(id) PROVE WindowInv'
      BY <2>1, <3>3, WindowDestroyedKeeps
    <3>4. CASE Views!MapProcWindow
      BY <2>1, <3>4, ProcWindowKeeps
    <3>5. ASSUME NEW id \in Views!Proc, Views!Hide(id) PROVE WindowInv'
      BY <2>1, <3>5, HideKeeps
    <3>6. CASE Views!ComponentComplete
      BY <2>1, <3>6, CompleteKeeps
    <3>7. ASSUME NEW id \in DOMAIN windows \cup {Views!None},
                 Views!SetTopmostWindowId(id) \/ Views!SetWindowId(id)
          PROVE  WindowInv'
      BY <2>1, <3>7, SelectionKeeps
    <3>. QED BY <2>1, <3>1, <3>2, <3>3, <3>4, <3>5, <3>6, <3>7 DEF Views!Next
  <2>. QED BY <2>1, WindowKept DEF Next, vars
<1>. QED BY <1>1, <1>2, PTL DEF Spec

(* The window model lists the mapped windows of clients, each once and no    *)
(* other; a surface has one window at most, and a popup the window it was    *)
(* made with, unless that was to be deleted already; the topmost process and *)
(* the pixmap are those of windows that exist: surfaceMapped(),              *)
(* surfaceUnmapped(), windowDestroyed(), the window model's refresh().       *)
THEOREM WindowsKeepAgreeing == Spec => []WindowsAgree
<1>1. WindowInv => WindowsAgree
  <2>. SUFFICES ASSUME WindowInv PROVE WindowsAgree
    OBVIOUS
  <2>1. Views!ModelAgrees
    <3>1. listed \in Seq(Nat) /\ DOMAIN listed = 1 .. Len(listed)
      BY LenProperties DEF WindowInv, ListInv
    <3>2. \A id \in mappedSurfaces : Views!Approved(id) <=> windows[id].process # 0
      BY DEF WindowInv, WindowTypes, ViewsInv, ShowsLiving, Views!Approved, Views!IsInProcess,
         Views!None
    <3>3. mappedSurfaces \subseteq DOMAIN windows /\ mappedSurfaces \subseteq Nat
      BY DEF WindowInv, WindowTypes
    <3>4. \A x : x \in Views!ToSet(listed) <=> Holds(listed, x)
      BY <3>1 DEF Views!ToSet, Holds
    <3>5. \A x : Holds(listed, x) => x \in Nat
      BY <3>1, ElementOfSeq DEF Holds
    <3>6. complete => Views!ToSet(listed) = {id \in mappedSurfaces : Views!Approved(id)}
      <4>. SUFFICES ASSUME complete = TRUE
                    PROVE  Views!ToSet(listed) = {id \in mappedSurfaces : Views!Approved(id)}
        BY DEF WindowInv, ListInv
      <4>1. \A x \in Nat : Holds(listed, x) <=> x \in mappedSurfaces /\ windows[x].process # 0
        BY DEF WindowInv, ListInv
      <4>. QED BY <3>2, <3>3, <3>4, <3>5, <4>1
    <3>7. Views!IsInjective(listed)
      BY <3>1 DEF Views!IsInjective, WindowInv, ListInv, OnceEach
    <3>. QED BY <3>3, <3>6, <3>7 DEF Views!ModelAgrees
  <2>2. Views!SurfaceHasView
    <3>0. \A s \in DOMAIN surfaces : surfaces[s] \in SurfaceRecs /\ s \in Nat /\ s # 0
      BY ElementOfSeq, LenProperties DEF WindowInv, WindowTypes
    <3>1. \A s \in Views!Living : s \in DOMAIN surfaces /\ surfaces[s].alive = TRUE /\ s # 0
      BY <3>0 DEF Views!Living, SurfaceRecs
    <3>2. ASSUME NEW s \in Views!Living PROVE Views!Cardinality(Views!WindowsOf(s)) <= 1
      <4>1. CASE Views!WindowsOf(s) = {}
        BY <4>1, CardinalityOfViews, FS_EmptySet
      <4>2. ASSUME NEW id \in Views!WindowsOf(s) PROVE Views!Cardinality(Views!WindowsOf(s)) <= 1
        <5>1. Views!WindowsOf(s) = {id}
          BY <3>1, <4>2, WindowsOfSurface DEF WindowInv, ViewsInv, ShownOnce
        <5>. QED BY <5>1, CardinalityOfViews, FS_Singleton
      <4>. QED BY <4>1, <4>2
    <3>3. ASSUME NEW s \in Views!Living, surfaces[s].popup # 0, ~surfaces[s].doomed
          PROVE  Views!WindowsOf(s) = {surfaces[s].popup}
      <4>0. surfaces[s].doomed = FALSE
        BY <3>0, <3>1, <3>3 DEF SurfaceRecs
      <4>1. surfaces[s].popup \in Views!WindowsOf(s)
        BY <3>1, <3>3, <4>0, WindowsOfSurface DEF WindowInv, ViewsInv, PopupShown
      <4>. QED BY <3>1, <4>1, WindowsOfSurface DEF WindowInv, ViewsInv, ShownOnce
    <3>4. \A id \in mappedSurfaces : windows[id].surface # 0 =>
             surfaces[windows[id].surface].content \/ surfaces[windows[id].surface].role = "cursor"
      BY DEF WindowInv, ViewsInv, MappedShown
    <3>. QED BY <3>2, <3>3, <3>4 DEF Views!SurfaceHasView, Views!None
  <2>3. Views!TopmostProcess /\ Views!NoDeadPixmap
    BY DEF WindowInv, SceneInv, Views!TopmostProcess, Views!NoDeadPixmap, Views!None
  <2>. QED BY <2>1, <2>2, <2>3 DEF WindowsAgree
<1>. QED BY <1>1, WindowsInductive, PTL
=============================================================================

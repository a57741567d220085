--------------------------- MODULE ChannelProofs ---------------------------
(***************************************************************************)
(* Proofs about Channel, for any set of senders and any capacity.          *)
(***************************************************************************)
EXTENDS Channel, SequenceTheorems, FiniteSetTheorems, TLAPS

\* Reverse keeps type and length and mirrors the positions.
LEMMA ReverseFacts ==
    ASSUME NEW V, NEW s \in Seq(V)
    PROVE  /\ Reverse(s) \in Seq(V)
           /\ Len(Reverse(s)) = Len(s)
           /\ \A i \in 1 .. Len(s) : Reverse(s)[i] = s[Len(s) - i + 1]
  BY DEF Reverse

\* Pushing at the back appends to the queue.
LEMMA PushAppends ==
    ASSUME NEW V, NEW f \in Seq(V), NEW b \in Seq(V), NEW v \in V
    PROVE  Reverse(f) \o Append(b, v) = Append(Reverse(f) \o b, v)
  BY ReverseFacts

\* Popping the last element of the front stack takes the head of the queue.
LEMMA PopTakesHead ==
    ASSUME NEW V, NEW f \in Seq(V), NEW b \in Seq(V), f # <<>>
    PROVE  /\ Reverse(f) \o b # <<>>
           /\ Last(f) = Head(Reverse(f) \o b)
           /\ Reverse(Front(f)) \o b = Tail(Reverse(f) \o b)
           /\ Front(f) \in Seq(V) /\ Last(f) \in V
           /\ Len(Front(f)) = Len(f) - 1
<1> DEFINE n == Len(f)
           q == Reverse(f) \o b
           rest == Reverse(Front(f)) \o b
<1>1. n \in Nat /\ n > 0 /\ \A i \in 1 .. n : f[i] \in V
  BY EmptySeq, ElementOfSeq
<1>2. /\ Front(f) \in Seq(V) /\ Len(Front(f)) = n - 1 /\ Last(f) \in V
      /\ \A i \in 1 .. n - 1 : Front(f)[i] = f[i]
  <2>1. n - 1 \in Int /\ \A i \in 1 .. n - 1 : f[i] \in V
    BY <1>1
  <2>2. /\ SubSeq(f, 1, n - 1) \in Seq(V)
        /\ Len(SubSeq(f, 1, n - 1)) = IF 1 <= n - 1 THEN n - 1 - 1 + 1 ELSE 0
        /\ \A i \in 1 .. n - 1 - 1 + 1 : SubSeq(f, 1, n - 1)[i] = f[1 + i - 1]
    BY <2>1, SubSeqProperties
  <2>3. Front(f) = SubSeq(f, 1, n - 1) /\ Last(f) = f[n]
    BY DEF Front, Last
  <2>4. \A i \in 1 .. n - 1 : SubSeq(f, 1, n - 1)[i] = f[i]
    BY <1>1, <2>2
  <2>5. Last(f) \in V
    BY <1>1, <2>3
  <2>6. Len(Front(f)) = n - 1
    <3> HIDE DEF n
    <3>1. Len(Front(f)) = IF 1 <= n - 1 THEN n - 1 - 1 + 1 ELSE 0
      BY <2>2, <2>3
    <3> QED
      BY <1>1, <3>1
  <2> QED
    BY <2>2, <2>3, <2>4, <2>5, <2>6
<1> HIDE DEF n
<1>3. /\ Reverse(f) \in Seq(V) /\ Len(Reverse(f)) = n
      /\ \A i \in 1 .. n : Reverse(f)[i] = f[n - i + 1]
  BY ReverseFacts DEF n
<1>4. /\ Reverse(Front(f)) \in Seq(V) /\ Len(Reverse(Front(f))) = n - 1
      /\ \A i \in 1 .. n - 1 : Reverse(Front(f))[i] = f[n - i]
  <2>1. \A i \in 1 .. n - 1 : Reverse(Front(f))[i] = Front(f)[n - 1 - i + 1]
    BY <1>2, ReverseFacts
  <2>2. \A i \in 1 .. n - 1 : n - 1 - i + 1 \in 1 .. n - 1 /\ n - 1 - i + 1 = n - i
    BY <1>1
  <2>3. Reverse(Front(f)) \in Seq(V) /\ Len(Reverse(Front(f))) = n - 1
    BY <1>2, ReverseFacts
  <2> QED
    BY <1>2, <2>1, <2>2, <2>3
<1>5. /\ q \in Seq(V) /\ Len(q) = n + Len(b)
      /\ \A i \in 1 .. n + Len(b) :
             q[i] = IF i <= n THEN Reverse(f)[i] ELSE b[i - n]
  BY <1>3, ConcatProperties
<1>6. /\ rest \in Seq(V) /\ Len(rest) = n - 1 + Len(b)
      /\ \A i \in 1 .. n - 1 + Len(b) :
             rest[i] = IF i <= n - 1 THEN Reverse(Front(f))[i] ELSE b[i - (n - 1)]
  <2> DEFINE g == Reverse(Front(f))
  <2>1. g \in Seq(V) /\ Len(g) = n - 1
    BY <1>4
  <2> HIDE DEF g
  <2>2. /\ g \o b \in Seq(V) /\ Len(g \o b) = Len(g) + Len(b)
        /\ \A i \in 1 .. Len(g) + Len(b) :
               (g \o b)[i] = IF i <= Len(g) THEN g[i] ELSE b[i - Len(g)]
    BY <2>1, ConcatProperties
  <2> QED
    BY <2>1, <2>2 DEF g
<1>b. Len(b) \in Nat
  OBVIOUS
<1> HIDE DEF q, rest
<1>7. q # <<>> /\ Head(q) = f[n]
  BY <1>1, <1>b, <1>3, <1>5
<1>8. /\ Tail(q) \in Seq(V) /\ Len(Tail(q)) = n + Len(b) - 1
      /\ \A i \in 1 .. n + Len(b) - 1 : Tail(q)[i] = q[i + 1]
  BY <1>1, <1>b, <1>5, <1>7, HeadTailProperties
<1>9. \A i \in 1 .. n - 1 + Len(b) : rest[i] = Tail(q)[i]
  <2> SUFFICES ASSUME NEW i \in 1 .. n - 1 + Len(b) PROVE rest[i] = Tail(q)[i]
    OBVIOUS
  <2> DEFINE j == i + 1
  <2>1. /\ j \in 1 .. n + Len(b) /\ i \in 1 .. n + Len(b) - 1
        /\ n - j + 1 = n - i /\ i - (n - 1) = j - n
        /\ i <= n - 1 <=> j <= n
        /\ i <= n - 1 => i \in 1 .. n - 1 /\ j \in 1 .. n
    BY <1>1, <1>b
  <2>2. Tail(q)[i] = q[j]
    BY <2>1, <1>8
  <2> HIDE DEF j
  <2>3. q[j] = IF j <= n THEN Reverse(f)[j] ELSE b[j - n]
    BY <2>1, <1>5
  <2>4. rest[i] = IF j <= n THEN Reverse(Front(f))[i] ELSE b[j - n]
    BY <2>1, <1>6
  <2>5. CASE j <= n
    <3>1. Reverse(f)[j] = f[n - i]
      BY <2>1, <2>5, <1>3
    <3>2. Reverse(Front(f))[i] = f[n - i]
      BY <2>1, <2>5, <1>4
    <3> QED
      BY <2>2, <2>3, <2>4, <2>5, <3>1, <3>2
  <2>6. CASE ~(j <= n)
    BY <2>2, <2>3, <2>4, <2>6
  <2> QED
    BY <2>5, <2>6
<1>10. rest = Tail(q)
  <2>1. Len(rest) = Len(Tail(q))
    BY <1>1, <1>b, <1>6, <1>8
  <2>2. \A i \in 1 .. Len(rest) : rest[i] = Tail(q)[i]
    BY <1>6, <1>9
  <2> QED
    BY <2>1, <2>2, <1>6, <1>8, SeqEqual
<1> QED
  BY <1>2, <1>7, <1>10 DEF q, rest, n, Last

\* Reversing twice changes nothing.
LEMMA ReverseTwice ==
    ASSUME NEW V, NEW s \in Seq(V)
    PROVE  Reverse(Reverse(s)) = s
<1> DEFINE n == Len(s)
           r == Reverse(s)
           rr == Reverse(r)
<1>1. n \in Nat
  OBVIOUS
<1>2. r \in Seq(V) /\ Len(r) = n /\ \A i \in 1 .. n : r[i] = s[n - i + 1]
  BY ReverseFacts
<1>3. rr \in Seq(V) /\ Len(rr) = Len(r) /\ \A i \in 1 .. Len(r) : rr[i] = r[Len(r) - i + 1]
  <2> HIDE DEF r
  <2> QED
    BY <1>2, ReverseFacts
<1> HIDE DEF n, r, rr
<1>4. \A i \in 1 .. n : n - i + 1 \in 1 .. n /\ n - (n - i + 1) + 1 = i
  BY <1>1
<1>5. \A i \in 1 .. n : rr[i] = s[i]
  <2> SUFFICES ASSUME NEW i \in 1 .. n PROVE rr[i] = s[i]
    OBVIOUS
  <2>1. rr[i] = r[n - i + 1]
    BY <1>2, <1>3
  <2>2. r[n - i + 1] = s[n - (n - i + 1) + 1]
    BY <1>2, <1>4
  <2> QED
    BY <1>4, <2>1, <2>2
<1>6. Len(rr) = Len(s) /\ \A i \in 1 .. Len(rr) : rr[i] = s[i]
  BY <1>2, <1>3, <1>5 DEF n
<1>7. rr = s
  BY <1>3, <1>6, SeqEqual
<1> QED
  BY <1>7 DEF r, rr

\* A sequence is a prefix of it followed by the rest.
LEMMA SplitSequence ==
    ASSUME NEW V, NEW b \in Seq(V), NEW m \in 0 .. Len(b)
    PROVE  /\ SubSeq(b, 1, m) \in Seq(V) /\ Len(SubSeq(b, 1, m)) = m
           /\ SubSeq(b, m + 1, Len(b)) \in Seq(V)
           /\ Len(SubSeq(b, m + 1, Len(b))) = Len(b) - m
           /\ SubSeq(b, 1, m) \o SubSeq(b, m + 1, Len(b)) = b
<1>1. Len(b) \in Nat /\ m \in Nat /\ m <= Len(b)
  OBVIOUS
<1>2. \A i \in 1 .. Len(b) : b[i] \in V
  BY ElementOfSeq
<1>3. SubSeq(b, 1, m) \in Seq(V) /\ Len(SubSeq(b, 1, m)) = m
  <2>1. \A i \in 1 .. m : b[i] \in V
    BY <1>1, <1>2
  <2>2. /\ SubSeq(b, 1, m) \in Seq(V)
        /\ Len(SubSeq(b, 1, m)) = IF 1 <= m THEN m - 1 + 1 ELSE 0
    BY <1>1, <2>1, SubSeqProperties
  <2> QED
    BY <1>1, <2>2
<1>4. /\ SubSeq(b, m + 1, Len(b)) \in Seq(V)
      /\ Len(SubSeq(b, m + 1, Len(b))) = Len(b) - m
  <2>1. m + 1 \in Int /\ Len(b) \in Int /\ \A i \in m + 1 .. Len(b) : b[i] \in V
    BY <1>1, <1>2
  <2>2. /\ SubSeq(b, m + 1, Len(b)) \in Seq(V)
        /\ Len(SubSeq(b, m + 1, Len(b)))
             = IF m + 1 <= Len(b) THEN Len(b) - (m + 1) + 1 ELSE 0
    BY <2>1, SubSeqProperties
  <2> QED
    BY <1>1, <2>2
<1>5. SubSeq(b, 1, m) \o SubSeq(b, m + 1, Len(b)) = b
  <2>1. 1 \in 1 .. Len(b) + 1 /\ m \in 1 - 1 .. Len(b) /\ Len(b) \in m .. Len(b)
    BY <1>1
  <2>2. SubSeq(b, 1, m) \o SubSeq(b, m + 1, Len(b)) = SubSeq(b, 1, Len(b))
    BY <2>1, ConcatAdjacentSubSeq
  <2> QED
    BY <2>2, SubSeqFull
<1> QED
  BY <1>3, <1>4, <1>5

\* A refill moves elements between the stacks without changing the queue.
LEMMA RefillKeepsQueue ==
    ASSUME NEW V, NEW b \in Seq(V)
    PROVE  /\ Moved(b) \in Seq(V) /\ Stays(b) \in Seq(V)
           /\ Reverse(Moved(b)) \o Stays(b) = b
           /\ Len(Moved(b)) + Len(Stays(b)) = Len(b)
           /\ b # <<>> => Moved(b) # <<>>
<1> DEFINE m == Len(b) - Kept(b)
           old == SubSeq(b, 1, m)
           new == SubSeq(b, m + 1, Len(b))
<1>1. Len(b) \in Nat /\ m \in 0 .. Len(b) /\ (Len(b) > 0 => m > 0)
  BY DEF Kept
<1>2. Moved(b) = Reverse(old) /\ Stays(b) = new
  BY DEF Moved, Stays
<1> HIDE DEF m
<1>3. /\ old \in Seq(V) /\ Len(old) = m /\ new \in Seq(V)
      /\ Len(new) = Len(b) - m /\ old \o new = b
  BY <1>1, SplitSequence
<1> HIDE DEF old, new
<1>4. Reverse(old) \in Seq(V) /\ Len(Reverse(old)) = m /\ Reverse(Reverse(old)) = old
  BY <1>3, ReverseFacts, ReverseTwice
<1>5. b # <<>> => Reverse(old) # <<>>
  BY <1>1, <1>4
<1>6. m + (Len(b) - m) = Len(b)
  BY <1>1
<1> QED
  BY <1>2, <1>3, <1>4, <1>5, <1>6

-----------------------------------------------------------------------------
(* The queue in one step.                                                  *)

\* What the types say of the queue.
LEMMA QueueFacts ==
    ASSUME TypeOK
    PROVE  /\ QueueLen \in Nat /\ Contents \in Seq(Values)
           /\ Len(Contents) = QueueLen
           /\ Len(front) \in Nat /\ Len(back) \in Nat
<1>1. front \in Seq(Values) /\ back \in Seq(Values)
  BY DEF TypeOK
<1>2. Reverse(front) \in Seq(Values) /\ Len(Reverse(front)) = Len(front)
  BY <1>1, ReverseFacts
<1>3. /\ Reverse(front) \o back \in Seq(Values)
      /\ Len(Reverse(front) \o back) = Len(Reverse(front)) + Len(back)
  BY <1>1, <1>2, ConcatProperties
<1> QED
  BY <1>1, <1>2, <1>3 DEF QueueLen, Contents

\* push_back puts a value at the end of the queue.
LEMMA PushStep ==
    ASSUME TypeOK, NEW v \in Values, back' = Append(back, v), front' = front
    PROVE  /\ front' \in Seq(Values) /\ back' \in Seq(Values)
           /\ Contents' = Append(Contents, v)
           /\ QueueLen' = QueueLen + 1
<1>1. front \in Seq(Values) /\ back \in Seq(Values)
  BY DEF TypeOK
<1>2. Append(back, v) \in Seq(Values) /\ Len(Append(back, v)) = Len(back) + 1
  BY <1>1, AppendProperties
<1>3. Reverse(front) \o Append(back, v) = Append(Reverse(front) \o back, v)
  BY <1>1, PushAppends
<1> QED
  BY <1>1, <1>2, <1>3 DEF Contents, QueueLen

\* pop_front takes the oldest value, whether it has to refill or not.
LEMMA PopStep ==
    ASSUME TypeOK, QueueLen > 0, front' = Front(RefilledFront),
           back' = RefilledBack, got' = Append(got, Last(RefilledFront))
    PROVE  /\ front' \in Seq(Values) /\ back' \in Seq(Values)
           /\ got' \in Seq(Values)
           /\ Contents # <<>> /\ got' = Append(got, Head(Contents))
           /\ Contents' = Tail(Contents)
           /\ QueueLen' = QueueLen - 1
<1> DEFINE f == RefilledFront
           b == RefilledBack
<1>1. front \in Seq(Values) /\ back \in Seq(Values) /\ got \in Seq(Values)
  BY DEF TypeOK
<1>2. /\ f \in Seq(Values) /\ b \in Seq(Values) /\ f # <<>>
      /\ Reverse(f) \o b = Contents
      /\ Len(f) + Len(b) = QueueLen
  <2>1. CASE front = <<>>
    <3>1. f = Moved(back) /\ b = Stays(back)
      BY <2>1 DEF RefilledFront, RefilledBack
    <3>2. Len(front) = 0 /\ QueueLen = Len(back)
      BY <1>1, <2>1 DEF QueueLen
    <3>3. back # <<>>
      BY <3>2, EmptySeq
    <3>4. Reverse(front) = <<>>
      <4>1. Reverse(front) \in Seq(Values) /\ Len(Reverse(front)) = 0
        BY <1>1, <3>2, ReverseFacts
      <4> QED
        BY <4>1, EmptySeq
    <3>5. Contents = back
      BY <1>1, <3>4, ConcatEmptySeq DEF Contents
    <3> QED
      BY <1>1, <3>1, <3>2, <3>3, <3>5, RefillKeepsQueue
  <2>2. CASE front # <<>>
    BY <1>1, <2>2 DEF RefilledFront, RefilledBack, Contents, QueueLen
  <2> QED
    BY <2>1, <2>2
<1>3. front' = Front(f) /\ back' = b /\ got' = Append(got, Last(f))
  OBVIOUS
<1> HIDE DEF f, b
<1>4. /\ Reverse(f) \o b # <<>>
      /\ Last(f) = Head(Reverse(f) \o b)
      /\ Reverse(Front(f)) \o b = Tail(Reverse(f) \o b)
      /\ Front(f) \in Seq(Values) /\ Last(f) \in Values
      /\ Len(Front(f)) = Len(f) - 1
  BY <1>2, PopTakesHead
<1>5. Append(got, Last(f)) \in Seq(Values)
  BY <1>1, <1>4, AppendProperties
<1>6. Contents' = Reverse(Front(f)) \o b
  BY <1>3 DEF Contents
<1>7. QueueLen' = QueueLen - 1
  <2>1. QueueLen' = Len(Front(f)) + Len(b)
    BY <1>3 DEF QueueLen
  <2>2. Len(f) \in Nat /\ Len(b) \in Nat
    BY <1>2
  <2> QED
    BY <2>1, <2>2, <1>2, <1>4
<1> QED
  BY <1>2, <1>3, <1>4, <1>5, <1>6, <1>7

-----------------------------------------------------------------------------
(* The inductive invariant.                                                *)

\* A thread blocked in send or recv keeps its endpoint, and a blocked sender has
\* a value to send.
BlockedHolds ==
    \A t \in Threads : pc[t] = "blocked" =>
        handle[t] = "held" /\ (t \in Senders => sent[t] > 0)

IInv == TypeOK /\ CountsAreExact /\ NoLostReceiverWake /\ BlockedHolds

Held == {s \in Senders : handle[s] = "held"}

\* The set of the holders is finite and its size a number; it is empty exactly
\* when there is none, and one holder of one is the only one.
LEMMA HeldFacts ==
    /\ IsFiniteSet(Held) /\ Cardinality(Held) \in Nat
    /\ \A s \in Held : Cardinality(Held) > 0
    /\ \A s, t \in Held : Cardinality(Held) = 1 => s = t
<1>1. IsFiniteSet(Held)
  BY ChannelAssumption, FS_Subset DEF Held
<1>2. Cardinality(Held) \in Nat /\ (Cardinality(Held) = 0 <=> Held = {})
  BY <1>1, FS_CardinalityType, FS_EmptySet
<1>3. Cardinality(Held) = 1 => \E x : Held = {x}
  BY <1>1, FS_Singleton
<1> QED
  BY <1>1, <1>2, <1>3

\* One more holder.
LEMMA HeldGrows ==
    ASSUME TypeOK, NEW t \in Senders, handle[t] = "none",
           handle' = [handle EXCEPT ![t] = "held"]
    PROVE  Cardinality(Held') = Cardinality(Held) + 1
<1>1. Held' = Held \cup {t} /\ t \notin Held
  BY DEF Held, TypeOK, Threads
<1> QED
  BY <1>1, HeldFacts, FS_AddElement

\* One holder less.
LEMMA HeldShrinks ==
    ASSUME TypeOK, NEW s \in Senders, handle[s] = "held",
           handle' = [handle EXCEPT ![s] = "gone"]
    PROVE  Cardinality(Held') = Cardinality(Held) - 1
<1>1. Held' = Held \ {s} /\ s \in Held
  BY DEF Held, TypeOK, Threads
<1> QED
  BY <1>1, HeldFacts, FS_RemoveElement

\* The counters in terms of the holders.
Counts ==
    /\ senders = Cardinality(Held)
    /\ receivers = IF handle[Receiver] = "held" THEN 1 ELSE 0
    /\ closed = 1 <=> senders = 0 \/ receivers = 0

\* They are the counters of the channel.
LEMMA CountsDef == CountsAreExact <=> Counts
  BY DEF CountsAreExact, Counts, Held

\* The steps of send preserve the invariant.
LEMMA SendKeeps ==
    ASSUME IInv, NEW s \in Senders, SendLoop(s) \/ (closed = 1 /\ Refuse(s)),
           sent' \in [Senders -> 0 .. MaxSends], sent'[s] > 0,
           \A u \in Senders \ {s} : sent'[u] = sent[u],
           UNCHANGED <<closed, count_vars, got>>, s \notin notFull,
           handle[s] = "held"
    PROVE  IInv'
<1> USE ChannelAssumption DEF Threads, count_vars
<1>1. Value(s) \in Values
  BY DEF Value, Values
<1>2. CASE Refuse(s)
  <2>1. TypeOK'
    BY <1>1, <1>2 DEF IInv, TypeOK, Refuse, queue_vars
  <2>2. NoLostReceiverWake' /\ BlockedHolds'
    BY <1>2 DEF IInv, TypeOK, NoLostReceiverWake, BlockedHolds, Refuse, queue_vars, QueueLen
  <2>3. CountsAreExact'
    BY DEF IInv, CountsAreExact
  <2> QED
    BY <2>1, <2>2, <2>3 DEF IInv
<1>3. CASE closed = 0 /\ WaitNotFull(s)
  <2>1. TypeOK'
    BY <1>3 DEF IInv, TypeOK, WaitNotFull, queue_vars
  <2>2. NoLostReceiverWake' /\ BlockedHolds'
    BY <1>3 DEF IInv, TypeOK, NoLostReceiverWake, BlockedHolds, WaitNotFull, queue_vars, QueueLen
  <2>3. CountsAreExact'
    BY DEF IInv, CountsAreExact
  <2> QED
    BY <2>1, <2>2, <2>3 DEF IInv
<1>4. CASE Push(s)
  <2>0. notEmpty' = {} /\ notFull' = notFull
    BY <1>4 DEF Push, AfterPush, NotifyOne, IInv, TypeOK
  <2>1. front' \in Seq(Values) /\ back' \in Seq(Values)
    BY <1>1, <1>4, PushStep DEF Push, IInv
  <2>2. TypeOK'
    BY <1>4, <2>0, <2>1 DEF IInv, TypeOK, Push
  <2>3. NoLostReceiverWake' /\ BlockedHolds'
    BY <1>4, <2>0 DEF IInv, TypeOK, NoLostReceiverWake, BlockedHolds, Push
  <2>4. CountsAreExact'
    BY DEF IInv, CountsAreExact
  <2> QED
    BY <2>2, <2>3, <2>4 DEF IInv
<1> QED
  BY <1>2, <1>3, <1>4 DEF SendLoop

\* The steps of recv preserve the invariant.
LEMMA RecvKeeps ==
    ASSUME IInv, RecvLoop, handle[Receiver] = "held",
           UNCHANGED <<closed, count_vars, sent, refused>>
    PROVE  IInv'
<1> USE ChannelAssumption DEF Threads, count_vars
<1>1. CountsAreExact'
  BY DEF IInv, CountsAreExact
<1>2. CASE QueueLen > 0 /\ Pop
  <2>1. /\ front' \in Seq(Values) /\ back' \in Seq(Values) /\ got' \in Seq(Values)
        /\ QueueLen' = QueueLen - 1
    BY <1>2, PopStep DEF Pop, IInv
  <2>2. notFull' \subseteq notFull /\ notEmpty' = notEmpty
    BY <1>2 DEF Pop, AfterPop, NotifyOne
  <2>3. Receiver \notin notEmpty
    BY <1>2, QueueFacts DEF IInv, NoLostReceiverWake
  <2>4. TypeOK'
    BY <1>2, <2>1, <2>2, <2>3 DEF IInv, TypeOK, Pop
  <2>5. NoLostReceiverWake' /\ BlockedHolds'
    BY <1>2, <2>2, <2>3 DEF IInv, TypeOK, NoLostReceiverWake, BlockedHolds, Pop
  <2> QED
    BY <1>1, <2>4, <2>5 DEF IInv
<1>3. CASE closed = 1 /\ RecvReturnsNone
  <2>1. Receiver \notin notEmpty
    BY <1>3 DEF IInv, NoLostReceiverWake
  <2>2. TypeOK'
    BY <1>3, <2>1 DEF IInv, TypeOK, RecvReturnsNone, queue_vars
  <2>3. NoLostReceiverWake' /\ BlockedHolds'
    BY <1>3, <2>1 DEF IInv, TypeOK, NoLostReceiverWake, BlockedHolds, RecvReturnsNone
  <2> QED
    BY <1>1, <2>2, <2>3 DEF IInv
<1>4. CASE QueueLen = 0 /\ closed = 0 /\ WaitNotEmpty
  <2>1. TypeOK'
    BY <1>4 DEF IInv, TypeOK, WaitNotEmpty, queue_vars
  <2>2. NoLostReceiverWake' /\ BlockedHolds'
    BY <1>4 DEF IInv, TypeOK, NoLostReceiverWake, BlockedHolds, WaitNotEmpty, queue_vars, QueueLen
  <2> QED
    BY <1>1, <2>1, <2>2 DEF IInv
<1> QED
  BY <1>2, <1>3, <1>4 DEF RecvLoop

\* The invariant holds at the start.
LEMMA InitIInv == Init => IInv
<1> SUFFICES ASSUME Init PROVE IInv
  OBVIOUS
<1> USE ChannelAssumption DEF Threads
<1>1. TypeOK
  BY EmptySeq DEF Init, TypeOK, Values
<1>2. CountsAreExact
  <2>1. Held = {First}
    BY DEF Init, Held
  <2>2. Cardinality(Held) = 1
    BY <2>1, FS_Singleton
  <2> QED
    BY <2>2, CountsDef DEF Init, Counts
<1>3. NoLostReceiverWake /\ BlockedHolds
  BY DEF Init, NoLostReceiverWake, BlockedHolds
<1> QED
  BY <1>1, <1>2, <1>3 DEF IInv

\* Every step preserves the invariant.
LEMMA NextIInv == IInv /\ [Next]_vars => IInv'
<1> SUFFICES ASSUME IInv, [Next]_vars PROVE IInv'
  OBVIOUS
<1> USE ChannelAssumption
<1>1. CASE \E s \in Senders : Send(s)
  <2> PICK s \in Senders : Send(s)
    BY <1>1
  <2>1. /\ sent' \in [Senders -> 0 .. MaxSends] /\ sent'[s] > 0
        /\ \A u \in Senders \ {s} : sent'[u] = sent[u]
    BY DEF Send, IInv, TypeOK
  <2>2. s \notin notFull /\ handle[s] = "held"
    BY DEF Send, Holds, IInv, TypeOK
  <2> QED
    BY <2>1, <2>2, SendKeeps DEF Send
<1>2. CASE \E s \in Senders : ResumeSend(s)
  <2> PICK s \in Senders : ResumeSend(s)
    BY <1>2
  <2>1. /\ sent' \in [Senders -> 0 .. MaxSends] /\ sent'[s] > 0
        /\ \A u \in Senders \ {s} : sent'[u] = sent[u]
    BY DEF ResumeSend, Woken, IInv, TypeOK, BlockedHolds, Threads
  <2>2. s \notin notFull /\ handle[s] = "held"
    BY DEF ResumeSend, Woken, IInv, BlockedHolds, Threads
  <2> QED
    BY <2>1, <2>2, SendKeeps DEF ResumeSend
<1>3. CASE \E s \in Senders : DropSender(s)
  <2> PICK s \in Senders : DropSender(s)
    BY <1>3
  <2>1. Cardinality(Held') = Cardinality(Held) - 1
    BY HeldShrinks DEF DropSender, Holds, IInv
  <2>2. senders = Cardinality(Held) /\ senders \in Nat /\ senders > 0
    BY CountsDef, HeldFacts DEF IInv, Counts, DropSender, Holds, Held
  <2>3. TypeOK'
    BY <2>2 DEF IInv, TypeOK, DropSender, Holds, Threads, queue_vars, LastSender
  <2>4. Counts'
    <3>1. closed = 1 <=> receivers = 0
      BY <2>2, CountsDef DEF IInv, Counts
    <3>2. receivers' = IF handle'[Receiver] = "held" THEN 1 ELSE 0
      BY CountsDef DEF IInv, Counts, DropSender, TypeOK, Threads
    <3>3. senders' = Cardinality(Held')
      BY <2>1, <2>2 DEF DropSender
    <3>4. closed' = 1 <=> senders' = 0 \/ receivers' = 0
      BY <2>2, <3>1 DEF DropSender, LastSender
    <3> QED
      BY <3>2, <3>3, <3>4 DEF Counts
  <2>5. NoLostReceiverWake' /\ BlockedHolds'
    BY DEF IInv, TypeOK, NoLostReceiverWake, BlockedHolds, DropSender, Holds,
           queue_vars, QueueLen, Threads, LastSender
  <2> QED
    BY <2>3, <2>4, <2>5, CountsDef, PTL DEF IInv
<1>4. CASE \E s, t \in Senders : Clone(s, t)
  <2> PICK s \in Senders, t \in Senders : Clone(s, t)
    BY <1>4
  <2>1. Cardinality(Held') = Cardinality(Held) + 1
    BY HeldGrows DEF Clone, IInv
  <2>2. senders = Cardinality(Held) /\ senders \in Nat /\ senders > 0
    BY CountsDef, HeldFacts DEF IInv, Counts, Clone, Holds, Held
  <2>3. TypeOK'
    BY <2>2 DEF IInv, TypeOK, Clone, Holds, Threads, queue_vars, Acquired
  <2>4. Counts'
    BY <2>1, <2>2, CountsDef DEF IInv, Counts, Clone, Acquired, TypeOK, Threads
  <2>5. NoLostReceiverWake' /\ BlockedHolds'
    BY DEF IInv, TypeOK, NoLostReceiverWake, BlockedHolds, Clone, queue_vars,
           QueueLen, Threads
  <2> QED
    BY <2>3, <2>4, <2>5, CountsDef, PTL DEF IInv
<1>5. CASE Recv \/ TryRecv
  BY <1>5, RecvKeeps DEF Recv, TryRecv, Holds, RecvLoop
<1>6. CASE ResumeRecv
  <2>1. handle[Receiver] = "held"
    BY <1>6 DEF ResumeRecv, Woken, IInv, BlockedHolds, Threads
  <2> QED
    BY <1>6, <2>1, RecvKeeps DEF ResumeRecv
<1>7. CASE DropReceiver
  <2>1. receivers = 1 /\ Receiver \notin notEmpty
    BY <1>7 DEF IInv, TypeOK, CountsAreExact, DropReceiver, Holds
  <2>2. TypeOK'
    BY <1>7, <2>1 DEF IInv, TypeOK, DropReceiver, Holds, Threads, queue_vars, WakeSenders
  <2>3. Counts'
    <3>1. Held' = Held
      BY <1>7 DEF DropReceiver, Held, IInv, TypeOK, Threads
    <3>2. receivers' = 0 /\ closed' = 1 /\ senders' = senders
      BY <1>7, <2>1 DEF DropReceiver
    <3>3. handle'[Receiver] = "gone"
      BY <1>7 DEF DropReceiver, IInv, TypeOK, Threads
    <3> QED
      BY <3>1, <3>2, <3>3, CountsDef DEF IInv, Counts
  <2>4. NoLostReceiverWake' /\ BlockedHolds'
    BY <1>7, <2>1 DEF IInv, TypeOK, NoLostReceiverWake, BlockedHolds, DropReceiver,
           Holds, Threads
  <2> QED
    BY <2>2, <2>3, <2>4, CountsDef, PTL DEF IInv
<1>8. CASE SpuriousWake
  <2>1. TypeOK'
    BY <1>8 DEF IInv, TypeOK, SpuriousWake, count_vars, queue_vars, Threads
  <2>2. NoLostReceiverWake' /\ BlockedHolds' /\ CountsAreExact'
    BY <1>8 DEF IInv, NoLostReceiverWake, BlockedHolds, CountsAreExact, SpuriousWake,
           count_vars, queue_vars, QueueLen
  <2> QED
    BY <2>1, <2>2 DEF IInv
<1>9. CASE UNCHANGED vars
  BY <1>9 DEF IInv, TypeOK, NoLostReceiverWake, BlockedHolds, CountsAreExact, vars,
         count_vars, queue_vars, QueueLen
<1> QED
  BY <1>1, <1>2, <1>3, <1>4, <1>5, <1>6, <1>7, <1>8, <1>9 DEF Next

\* The invariant holds in every reachable state.
LEMMA IInvHolds == Spec => []IInv
  BY InitIInv, NextIInv, PTL DEF Spec

-----------------------------------------------------------------------------
(* Theorems.                                                               *)

\* For any senders and any capacity the channel's state has its type.
THEOREM TypeCorrect == Spec => []TypeOK
  BY IInvHolds, PTL DEF IInv

\* The counts of the endpoints are exact, so that no assertion of clone and drop
\* fails, and closed says exactly that one side is gone.
THEOREM EndpointCounts == Spec => []CountsAreExact
  BY IInvHolds, PTL DEF IInv

\* recv never sleeps over a value or over the end of the channel.
THEOREM ReceiverIsWoken == Spec => []NoLostReceiverWake
  BY IInvHolds, PTL DEF IInv

\* The first state of a channel is the first state of the bounded queue.
LEMMA InitFifo == Init => Fifo!Init
<1> SUFFICES ASSUME Init PROVE Fifo!Init
  OBVIOUS
<1>1. Reverse(front) \o back = <<>>
  <2>1. front \in Seq(Values) /\ back \in Seq(Values) /\ Len(front) = 0 /\ back = <<>>
    BY EmptySeq DEF Init
  <2>2. Reverse(front) \in Seq(Values) /\ Len(Reverse(front)) = 0
    BY <2>1, ReverseFacts
  <2>3. Reverse(front) = <<>>
    BY <2>2, EmptySeq
  <2> QED
    BY <2>1, <2>3, ConcatEmptySeq
<1> QED
  BY <1>1 DEF Init, Fifo!Init, Contents

\* A step of send is a Put or leaves the bounded queue alone.
LEMMA SendFifo ==
    ASSUME IInv, NEW s \in Senders, SendLoop(s) \/ Refuse(s), Value(s) \in Values,
           UNCHANGED <<closed, count_vars, got>>
    PROVE  Fifo!Next \/ UNCHANGED Fifo!vars
<1>1. CASE ~Full /\ Push(s)
  <2>1. Contents' = Append(Contents, Value(s))
    BY <1>1, PushStep DEF Push, IInv
  <2>2. Capacity < 0 \/ Len(Contents) < Capacity
    BY <1>1, QueueFacts, ChannelAssumption DEF Full, IInv
  <2>3. Fifo!Put(Value(s))
    BY <2>1, <2>2 DEF Fifo!Put
  <2> QED
    BY <2>3 DEF Fifo!Next
<1>2. CASE Refuse(s) \/ WaitNotFull(s)
  BY <1>2 DEF Refuse, WaitNotFull, queue_vars, Fifo!vars, Contents
<1> QED
  BY <1>1, <1>2 DEF SendLoop

\* A step of recv is a Take or leaves the bounded queue alone.
LEMMA RecvFifo ==
    ASSUME IInv, RecvLoop, UNCHANGED <<closed, count_vars, sent, refused>>
    PROVE  Fifo!Next \/ UNCHANGED Fifo!vars
<1>1. CASE QueueLen > 0 /\ Pop
  <2>1. /\ Contents # <<>> /\ got' = Append(got, Head(Contents))
        /\ Contents' = Tail(Contents)
    BY <1>1, PopStep DEF Pop, IInv
  <2>2. Fifo!Take
    BY <2>1 DEF Fifo!Take
  <2> QED
    BY <2>2 DEF Fifo!Next
<1>2. CASE RecvReturnsNone \/ WaitNotEmpty
  BY <1>2 DEF RecvReturnsNone, WaitNotEmpty, queue_vars, Fifo!vars, Contents
<1> QED
  BY <1>1, <1>2 DEF RecvLoop

\* Every step of the channel is a step of the bounded queue, or none.
LEMMA NextFifo == IInv /\ IInv' /\ [Next]_vars => [Fifo!Next]_(Fifo!vars)
<1> SUFFICES ASSUME IInv, IInv', [Next]_vars PROVE Fifo!Next \/ UNCHANGED Fifo!vars
  OBVIOUS
<1>1. ASSUME NEW s \in Senders, Send(s) \/ ResumeSend(s)
      PROVE  Fifo!Next \/ UNCHANGED Fifo!vars
  <2>1. Value(s) \in Values
    <3>1. sent' \in [Senders -> 0 .. MaxSends]
      BY DEF IInv, TypeOK
    <3>2. sent'[s] > 0
      BY <1>1 DEF Send, ResumeSend, Woken, IInv, TypeOK, BlockedHolds, Threads
    <3> QED
      BY <3>1, <3>2, ChannelAssumption DEF Value, Values
  <2> QED
    BY <1>1, <2>1, SendFifo DEF Send, ResumeSend
<1>2. ASSUME NEW s \in Senders, DropSender(s)
      PROVE  Fifo!Next \/ UNCHANGED Fifo!vars
  BY <1>2 DEF DropSender, queue_vars, Contents, Fifo!Next, Fifo!Close, Fifo!vars
<1>3. ASSUME NEW s \in Senders, NEW t \in Senders, Clone(s, t)
      PROVE  UNCHANGED Fifo!vars
  BY <1>3 DEF Clone, queue_vars, Contents, Fifo!vars
<1>4. CASE Recv \/ ResumeRecv \/ TryRecv
  BY <1>4, RecvFifo DEF Recv, ResumeRecv, TryRecv, RecvLoop
<1>5. CASE DropReceiver
  BY <1>5 DEF DropReceiver, queue_vars, Contents, Fifo!Next, Fifo!Close, Fifo!vars
<1>6. CASE SpuriousWake \/ UNCHANGED vars
  BY <1>6 DEF SpuriousWake, vars, queue_vars, Contents, Fifo!vars
<1> QED
  BY <1>1, <1>2, <1>3, <1>4, <1>5, <1>6 DEF Next

\* Two stacks, a mutex and two condition variables implement one bounded FIFO
\* queue: what recv returns is what send accepted, in that order.
THEOREM Refinement == Spec => ImplementsFifo
  BY IInvHolds, InitFifo, NextFifo, PTL DEF Spec, ImplementsFifo, Fifo!Spec

-----------------------------------------------------------------------------
(* Senders are woken.                                                      *)

\* The woken senders can be counted, and one more or one less counts as one.
LEMMA WokenFacts ==
    /\ IsFiniteSet(WokenSenders) /\ Cardinality(WokenSenders) \in Nat
    /\ \A t : Cardinality(WokenSenders \ {t})
                = IF t \in WokenSenders THEN Cardinality(WokenSenders) - 1
                                        ELSE Cardinality(WokenSenders)
    /\ \A t : Cardinality(WokenSenders \cup {t})
                = IF t \in WokenSenders THEN Cardinality(WokenSenders)
                                        ELSE Cardinality(WokenSenders) + 1
<1>1. IsFiniteSet(WokenSenders)
  BY ChannelAssumption, FS_Subset DEF WokenSenders
<1> QED
  BY <1>1, FS_CardinalityType, FS_RemoveElement, FS_AddElement

\* While no room appears and no woken sender goes away, the claims stand.
LEMMA ClaimsStand ==
    ASSUME IInv, IInv', FreePlacesAreClaimed, closed' = closed,
           QueueLen' >= QueueLen, notFull' \subseteq notFull,
           WokenSenders \subseteq WokenSenders'
    PROVE  FreePlacesAreClaimed'
<1>1. QueueLen \in Nat /\ QueueLen' \in Nat
  <2>1. QueueLen \in Nat
    BY QueueFacts DEF IInv
  <2>2. Len(front') \in Nat /\ Len(back') \in Nat
    BY DEF IInv, TypeOK
  <2> QED
    BY <2>1, <2>2 DEF QueueLen
<1>2. IsFiniteSet(WokenSenders')
  BY ChannelAssumption, FS_Subset DEF WokenSenders
<1>3. /\ Cardinality(WokenSenders) \in Nat /\ Cardinality(WokenSenders') \in Nat
      /\ Cardinality(WokenSenders) <= Cardinality(WokenSenders')
  BY <1>2, WokenFacts, FS_Subset, FS_CardinalityType
<1> QED
  BY <1>1, <1>3, ChannelAssumption DEF FreePlacesAreClaimed

\* A step of send keeps the claims: a place it takes was free or its own.
LEMMA SendClaims ==
    ASSUME IInv, IInv', FreePlacesAreClaimed, NEW s \in Senders, Value(s) \in Values,
           SendLoop(s) \/ (closed = 1 /\ Refuse(s)),
           UNCHANGED <<closed, count_vars, got>>
    PROVE  FreePlacesAreClaimed'
<1> USE ChannelAssumption DEF Threads
<1>q. QueueLen \in Nat /\ QueueLen' \in Nat
  <2>1. QueueLen \in Nat
    BY QueueFacts DEF IInv
  <2>2. Len(front') \in Nat /\ Len(back') \in Nat
    BY DEF IInv, TypeOK
  <2> QED
    BY <2>1, <2>2 DEF QueueLen
<1>1. CASE closed = 1 /\ Refuse(s)
  BY <1>1 DEF Refuse, FreePlacesAreClaimed
<1>2. CASE Full /\ closed = 0 /\ WaitNotFull(s)
  <2>1. QueueLen' = QueueLen
    BY <1>2 DEF WaitNotFull, queue_vars, QueueLen
  <2>2. IsFiniteSet(WokenSenders')
    BY FS_Subset DEF WokenSenders
  <2>3. Cardinality(WokenSenders') \in Nat
    BY <2>2, FS_CardinalityType
  <2> QED
    BY <1>q, <1>2, <2>1, <2>3 DEF Full, FreePlacesAreClaimed
<1>3. CASE Push(s)
  <2>1. QueueLen' = QueueLen + 1
    BY <1>3, PushStep DEF Push, IInv
  <2>2. WokenSenders' = WokenSenders \ {s}
    BY <1>3 DEF Push, AfterPush, NotifyOne, WokenSenders, Woken, IInv, TypeOK
  <2>3. Cardinality(WokenSenders') >= Cardinality(WokenSenders) - 1
    BY <2>2, WokenFacts
  <2>4. Cardinality(WokenSenders') \in Nat
    <3>1. IsFiniteSet(WokenSenders \ {s})
      BY WokenFacts, FS_RemoveElement
    <3> QED
      BY <2>2, <3>1, FS_CardinalityType
  <2>5. notFull' = notFull
    BY <1>3 DEF Push
  <2> QED
    BY <1>q, <2>1, <2>3, <2>4, <2>5, WokenFacts DEF FreePlacesAreClaimed
<1> QED
  BY <1>1, <1>2, <1>3 DEF SendLoop

\* A step of recv keeps the claims: for the place it frees it wakes a sender.
LEMMA RecvClaims ==
    ASSUME IInv, IInv', FreePlacesAreClaimed, RecvLoop,
           UNCHANGED <<closed, count_vars, sent, refused>>
    PROVE  FreePlacesAreClaimed'
<1> USE ChannelAssumption DEF Threads
<1>1. CASE QueueLen > 0 /\ Pop
  <2>q. QueueLen \in Nat /\ QueueLen' = QueueLen - 1
    BY <1>1, QueueFacts, PopStep DEF Pop, IInv
  <2>w. Cardinality(WokenSenders) \in Nat
    BY WokenFacts
  <2>1. CASE Capacity < 0
    <3>1. notFull' = notFull
      BY <1>1, <2>1 DEF Pop, AfterPop
    <3>2. WokenSenders' = WokenSenders
      BY <1>1, <3>1 DEF Pop, WokenSenders, Woken, IInv, TypeOK
    <3> QED
      BY <2>1, <2>q, <2>w, <3>1, <3>2, <1>1 DEF FreePlacesAreClaimed
  <2>2. CASE Capacity >= 0 /\ notFull = {}
    BY <1>1, <2>2 DEF Pop, AfterPop, NotifyOne, FreePlacesAreClaimed
  <2>3. CASE Capacity >= 0 /\ notFull # {}
    <3>1. PICK t \in notFull : notFull' = notFull \ {t}
      BY <1>1, <2>3 DEF Pop, AfterPop, NotifyOne
    <3>2. WokenSenders' = WokenSenders \cup {t} /\ t \notin WokenSenders
      BY <1>1, <3>1 DEF Pop, WokenSenders, Woken, IInv, TypeOK
    <3>3. Cardinality(WokenSenders') = Cardinality(WokenSenders) + 1
      BY <3>2, WokenFacts
    <3> QED
      BY <2>3, <2>q, <2>w, <3>3 DEF FreePlacesAreClaimed
  <2> QED
    BY <2>1, <2>2, <2>3
<1>2. CASE RecvReturnsNone \/ WaitNotEmpty
  <2>1. QueueLen' = QueueLen /\ notFull' = notFull /\ QueueLen \in Nat
    BY <1>2, QueueFacts DEF RecvReturnsNone, WaitNotEmpty, queue_vars, QueueLen, IInv
  <2>2. WokenSenders' = WokenSenders
    BY <1>2 DEF RecvReturnsNone, WaitNotEmpty, WokenSenders, Woken, IInv, TypeOK
  <2> QED
    BY <2>1, <2>2, ClaimsStand
<1> QED
  BY <1>1, <1>2 DEF RecvLoop

\* Every step keeps the claims.
LEMMA NextClaims ==
    IInv /\ IInv' /\ FreePlacesAreClaimed /\ [Next]_vars => FreePlacesAreClaimed'
<1> SUFFICES ASSUME IInv, IInv', FreePlacesAreClaimed, [Next]_vars
             PROVE  FreePlacesAreClaimed'
  OBVIOUS
<1> USE ChannelAssumption
<1>q. QueueLen \in Nat
  BY QueueFacts DEF IInv
<1>1. ASSUME NEW s \in Senders, Send(s) \/ ResumeSend(s)
      PROVE  FreePlacesAreClaimed'
  <2>1. sent' \in [Senders -> 0 .. MaxSends]
    BY DEF IInv, TypeOK
  <2>2. sent'[s] > 0
    BY <1>1 DEF Send, ResumeSend, Woken, IInv, TypeOK, BlockedHolds, Threads
  <2>3. Value(s) \in Values
    BY <2>1, <2>2 DEF Value, Values
  <2> QED
    BY <1>1, <2>3, SendClaims DEF Send, ResumeSend
<1>2. ASSUME NEW s \in Senders, DropSender(s)
      PROVE  FreePlacesAreClaimed'
  <2>1. QueueLen' = QueueLen /\ notFull' = notFull /\ pc' = pc
    BY <1>2 DEF DropSender, queue_vars, QueueLen
  <2>2. WokenSenders' = WokenSenders
    BY <1>2 DEF DropSender, WokenSenders, Woken, IInv, TypeOK
  <2>3. CASE LastSender
    <3>1. Cardinality(Held) = 1 /\ s \in Held /\ pc[s] = "idle"
      BY <1>2, <2>3, CountsDef DEF LastSender, IInv, Counts, DropSender, Holds, Held
    <3>2. \A t \in notFull : t \in Held /\ t # s
      BY <3>1 DEF IInv, TypeOK, BlockedHolds, Held, Threads
    <3>3. notFull = {}
      BY <3>1, <3>2, HeldFacts
    <3> QED
      BY <2>1, <3>3 DEF FreePlacesAreClaimed
  <2>4. CASE ~LastSender
    <3>1. closed' = closed
      BY <1>2, <2>4 DEF DropSender
    <3> QED
      BY <1>q, <2>1, <2>2, <3>1, ClaimsStand
  <2> QED
    BY <2>3, <2>4
<1>3. ASSUME NEW s \in Senders, NEW t \in Senders, Clone(s, t)
      PROVE  FreePlacesAreClaimed'
  BY <1>3 DEF Clone, queue_vars, QueueLen, WokenSenders, Woken, FreePlacesAreClaimed
<1>4. CASE Recv \/ ResumeRecv \/ TryRecv
  BY <1>4, RecvClaims DEF Recv, ResumeRecv, TryRecv, RecvLoop
<1>5. CASE DropReceiver
  <2>1. receivers = 1
    BY <1>5 DEF IInv, CountsAreExact, DropReceiver, Holds
  <2> QED
    BY <1>5, <2>1 DEF DropReceiver, WakeSenders, FreePlacesAreClaimed
<1>6. CASE SpuriousWake
  <2>1. QueueLen' = QueueLen /\ notFull' \subseteq notFull /\ closed' = closed
    BY <1>6 DEF SpuriousWake, queue_vars, QueueLen
  <2>2. WokenSenders \subseteq WokenSenders'
    BY <1>6 DEF SpuriousWake, WokenSenders, Woken
  <2> QED
    BY <1>q, <2>1, <2>2, ClaimsStand
<1>7. CASE UNCHANGED vars
  BY <1>7 DEF vars, queue_vars, QueueLen, WokenSenders, Woken, FreePlacesAreClaimed
<1> QED
  BY <1>1, <1>2, <1>3, <1>4, <1>5, <1>6, <1>7 DEF Next

\* While senders sleep in send, every free place has a woken sender on its way,
\* for any number of senders and any capacity.
THEOREM SendersAreWoken == Spec => []FreePlacesAreClaimed
<1>1. Init => FreePlacesAreClaimed
  BY DEF Init, FreePlacesAreClaimed
<1> QED
  BY <1>1, IInvHolds, NextClaims, PTL DEF Spec
-----------------------------------------------------------------------------
(* Every value is in one place.                                            *)

\* A sequence without repetitions.
Once(s) == \A i, j \in 1 .. Len(s) : s[i] = s[j] => i = j

LEMMA ToSetIs ==
    ASSUME NEW V, NEW s \in Seq(V)
    PROVE  ToSet(s) = {s[i] : i \in 1 .. Len(s)} /\ DOMAIN s = 1 .. Len(s) /\ Len(s) \in Nat
<1>1. DOMAIN s = 1 .. Len(s) /\ Len(s) \in Nat
  BY LenProperties
<1> QED
  BY <1>1 DEF ToSet

LEMMA AppendOnce ==
    ASSUME NEW V, NEW s \in Seq(V), NEW v \in V, Once(s), v \notin ToSet(s)
    PROVE  Once(Append(s, v)) /\ ToSet(Append(s, v)) = ToSet(s) \cup {v}
<1>1. PICK r : r = Append(s, v)
  OBVIOUS
<1>2. /\ r \in Seq(V) /\ Len(r) = Len(s) + 1 /\ Len(s) \in Nat
      /\ \A i \in 1 .. Len(s) : r[i] = s[i]
      /\ r[Len(s) + 1] = v
  BY <1>1, AppendProperties, LenProperties
<1>3. ToSet(s) = {s[i] : i \in 1 .. Len(s)} /\ ToSet(r) = {r[i] : i \in 1 .. Len(r)}
  BY <1>2, ToSetIs
<1>4. \A i \in 1 .. Len(r) : i \in 1 .. Len(s) \/ i = Len(s) + 1
  BY <1>2
<1>5. 1 .. Len(s) \subseteq 1 .. Len(r) /\ Len(s) + 1 \in 1 .. Len(r)
  BY <1>2
<1>6. Once(r)
  <2> SUFFICES ASSUME NEW i \in 1 .. Len(r), NEW j \in 1 .. Len(r), r[i] = r[j] PROVE i = j
    BY DEF Once
  <2>1. \A k \in 1 .. Len(s) : s[k] # v
    BY <1>3
  <2> QED
    BY <1>2, <1>4, <2>1 DEF Once
<1>7. ToSet(r) = ToSet(s) \cup {v}
  BY <1>2, <1>3, <1>4, <1>5
<1> QED
  BY <1>1, <1>6, <1>7

LEMMA TailOnce ==
    ASSUME NEW V, NEW s \in Seq(V), s # <<>>, Once(s)
    PROVE  /\ Once(Tail(s)) /\ ToSet(Tail(s)) = ToSet(s) \ {Head(s)}
           /\ Head(s) \in ToSet(s) /\ Head(s) \in V
<1>1. PICK r : r = Tail(s)
  OBVIOUS
<1>2. /\ r \in Seq(V) /\ Len(r) = Len(s) - 1 /\ Len(s) \in Nat \ {0} /\ Head(s) \in V
      /\ \A i \in 1 .. Len(r) : r[i] = s[i + 1]
  BY <1>1, HeadTailProperties, EmptySeq
<1>3. ToSet(s) = {s[i] : i \in 1 .. Len(s)} /\ ToSet(r) = {r[i] : i \in 1 .. Len(r)}
  BY <1>2, ToSetIs
<1>4. Head(s) = s[1] /\ 1 \in 1 .. Len(s)
  BY <1>2
<1>5. \A i \in 1 .. Len(r) : i + 1 \in 1 .. Len(s) /\ i + 1 # 1
  BY <1>2
<1>6. \A i \in 1 .. Len(s) : i # 1 => i - 1 \in 1 .. Len(r) /\ (i - 1) + 1 = i
  BY <1>2
<1>7. Once(r)
  <2> SUFFICES ASSUME NEW i \in 1 .. Len(r), NEW j \in 1 .. Len(r), r[i] = r[j] PROVE i = j
    BY DEF Once
  <2>1. i + 1 = j + 1
    BY <1>2, <1>5 DEF Once
  <2> QED
    BY <1>2, <2>1
<1>8. ToSet(r) = ToSet(s) \ {Head(s)}
  <2>1. ASSUME NEW x \in ToSet(r) PROVE x \in ToSet(s) /\ x # Head(s)
    <3>1. PICK i \in 1 .. Len(r) : x = r[i]
      BY <1>3
    <3>2. x = s[i + 1] /\ i + 1 \in 1 .. Len(s) /\ i + 1 # 1
      BY <1>2, <1>5, <3>1
    <3> QED
      BY <1>3, <1>4, <3>2 DEF Once
  <2>2. ASSUME NEW x \in ToSet(s), x # Head(s) PROVE x \in ToSet(r)
    <3>1. PICK i \in 1 .. Len(s) : x = s[i]
      BY <1>3
    <3>2. i # 1
      BY <1>4, <2>2, <3>1
    <3>3. i - 1 \in 1 .. Len(r) /\ r[i - 1] = x
      BY <1>2, <1>6, <3>1, <3>2
    <3> QED
      BY <1>3, <3>3
  <2> QED
    BY <2>1, <2>2
<1> QED
  BY <1>1, <1>2, <1>3, <1>4, <1>7, <1>8

LEMMA ConcatOnce ==
    ASSUME NEW V, NEW s \in Seq(V), NEW t \in Seq(V), Once(s), Once(t),
           ToSet(s) \cap ToSet(t) = {}
    PROVE  /\ ToSet(s \o t) = ToSet(s) \cup ToSet(t)
           /\ \A i, j \in DOMAIN (s \o t) : (s \o t)[i] = (s \o t)[j] => i = j
<1>1. PICK r : r = s \o t
  OBVIOUS
<1>2. /\ r \in Seq(V) /\ Len(r) = Len(s) + Len(t) /\ Len(s) \in Nat /\ Len(t) \in Nat
      /\ \A i \in 1 .. Len(s) + Len(t) : r[i] = IF i <= Len(s) THEN s[i] ELSE t[i - Len(s)]
  BY <1>1, ConcatProperties, LenProperties
<1>3. /\ ToSet(s) = {s[i] : i \in 1 .. Len(s)} /\ ToSet(r) = {r[i] : i \in 1 .. Len(r)}
      /\ ToSet(t) = {t[i] : i \in 1 .. Len(t)} /\ DOMAIN r = 1 .. Len(r)
  BY <1>2, ToSetIs
<1>4. \A i \in 1 .. Len(r) : \/ i \in 1 .. Len(s) /\ r[i] = s[i]
                             \/ i - Len(s) \in 1 .. Len(t) /\ r[i] = t[i - Len(s)]
  BY <1>2
<1>5. \A i \in 1 .. Len(s) : i \in 1 .. Len(r) /\ r[i] = s[i]
  BY <1>2
<1>6. \A i \in 1 .. Len(t) : i + Len(s) \in 1 .. Len(r) /\ r[i + Len(s)] = t[i]
  <2> SUFFICES ASSUME NEW i \in 1 .. Len(t)
               PROVE  i + Len(s) \in 1 .. Len(r) /\ r[i + Len(s)] = t[i]
    OBVIOUS
  <2>1. i + Len(s) \in 1 .. Len(s) + Len(t) /\ ~(i + Len(s) <= Len(s)) /\ (i + Len(s)) - Len(s) = i
    BY <1>2
  <2> QED
    BY <1>2, <2>1
<1>7. ASSUME NEW i \in 1 .. Len(r), NEW j \in 1 .. Len(r), r[i] = r[j] PROVE i = j
  <2>1. \A k \in 1 .. Len(s), l \in 1 .. Len(t) : s[k] # t[l]
    BY <1>3
  <2>2. CASE i \in 1 .. Len(s) /\ j \in 1 .. Len(s)
    BY <1>5, <1>7, <2>2 DEF Once
  <2>3. CASE i - Len(s) \in 1 .. Len(t) /\ j - Len(s) \in 1 .. Len(t)
    <3>1. ~(i \in 1 .. Len(s)) /\ ~(j \in 1 .. Len(s))
      BY <1>2, <2>3
    <3>2. t[i - Len(s)] = t[j - Len(s)]
      BY <1>4, <1>7, <3>1
    <3>3. i - Len(s) = j - Len(s)
      BY <2>3, <3>2 DEF Once
    <3> QED
      BY <1>2, <3>3
  <2> QED
    BY <1>4, <1>7, <2>1, <2>2, <2>3
<1>8. ToSet(r) = ToSet(s) \cup ToSet(t)
  <2>1. ASSUME NEW x \in ToSet(r) PROVE x \in ToSet(s) \cup ToSet(t)
    <3>1. PICK i \in 1 .. Len(r) : x = r[i]
      BY <1>3
    <3> QED
      BY <1>3, <1>4, <3>1
  <2>2. ASSUME NEW x \in ToSet(s) PROVE x \in ToSet(r)
    <3>1. PICK i \in 1 .. Len(s) : x = s[i]
      BY <1>3
    <3> QED
      BY <1>3, <1>5, <3>1
  <2>3. ASSUME NEW x \in ToSet(t) PROVE x \in ToSet(r)
    <3>1. PICK i \in 1 .. Len(t) : x = t[i]
      BY <1>3
    <3> QED
      BY <1>3, <1>6, <3>1
  <2> QED
    BY <2>1, <2>2, <2>3
<1> QED
  BY <1>1, <1>3, <1>7, <1>8

\* The values that were passed to send.
Sent == {v \in Values : v[2] <= sent[v[1]]}

\* The four places of a value are disjoint and hold what was sent; neither the
\* queue nor the receiver has a value twice.
Places(inQueue, taken, dropped, blocked, all) ==
    /\ inQueue \cap taken = {} /\ inQueue \cap dropped = {} /\ inQueue \cap blocked = {}
    /\ taken \cap dropped = {} /\ taken \cap blocked = {} /\ dropped \cap blocked = {}
    /\ inQueue \cup taken \cup dropped \cup blocked = all
OnceInv ==
    /\ Once(Contents) /\ Once(got)
    /\ Places(ToSet(Contents), ToSet(got), refused, InFlight, Sent)

\* A value is named by its sender and by the number of the call: a new call of send
\* has a new value, which joins those in flight if the call blocks.
LEMMA NewValue ==
    ASSUME TypeOK, NEW s \in Senders, pc[s] = "idle", sent[s] < MaxSends,
           sent' = [sent EXCEPT ![s] = @ + 1]
    PROVE  /\ Value(s) \in Values /\ Value(s) \notin Sent /\ Sent' = Sent \cup {Value(s)}
           /\ pc' = [pc EXCEPT ![s] = "idle"] => InFlight' = InFlight
           /\ pc' = [pc EXCEPT ![s] = "blocked"] => InFlight' = InFlight \cup {Value(s)}
<1>1. /\ sent \in [Senders -> 0 .. MaxSends] /\ pc \in [Threads -> {"idle", "blocked"}]
      /\ MaxSends \in Nat /\ Senders \subseteq Threads
  BY ChannelAssumption DEF TypeOK, Threads
<1>2. sent'[s] = sent[s] + 1 /\ sent[s] \in 0 .. MaxSends /\ Value(s) = <<s, sent[s] + 1>>
  BY <1>1 DEF Value
<1>3. \A u \in Senders : u # s => sent'[u] = sent[u]
  BY <1>1
<1>4. Value(s) \in Values /\ Value(s) \notin Sent
  BY <1>1, <1>2 DEF Values, Sent
<1>5. Sent' = Sent \cup {Value(s)}
  <2>1. ASSUME NEW v \in Values PROVE v[2] <= sent'[v[1]] <=> v[2] <= sent[v[1]] \/ v = Value(s)
    <3>1. PICK u \in Senders, n \in 1 .. MaxSends : v = <<u, n>>
      BY DEF Values
    <3>2. CASE u = s
      BY <1>1, <1>2, <3>1, <3>2
    <3>3. CASE u # s
      BY <1>2, <1>3, <3>1, <3>3
    <3> QED
      BY <3>2, <3>3
  <2> QED
    BY <1>4, <2>1 DEF Sent
<1>6. ASSUME pc' = [pc EXCEPT ![s] = "idle"] PROVE InFlight' = InFlight
  <2>1. pc' = pc
    BY <1>1, <1>6
  <2> QED
    BY <1>3, <2>1 DEF InFlight
<1>7. ASSUME pc' = [pc EXCEPT ![s] = "blocked"] PROVE InFlight' = InFlight \cup {Value(s)}
  <2>1. pc'[s] = "blocked" /\ \A u \in Senders : u # s => pc'[u] = pc[u]
    BY <1>1, <1>7
  <2> QED
    BY <1>2, <1>3, <2>1 DEF InFlight
<1> QED
  BY <1>4, <1>5, <1>6, <1>7

\* A call that resumes has its value in flight, and takes it along when it ends.
LEMMA OldValue ==
    ASSUME TypeOK, NEW s \in Senders, pc[s] = "blocked", sent' = sent, sent[s] > 0
    PROVE  /\ Value(s) \in Values /\ Value(s) \in InFlight /\ Sent' = Sent
           /\ pc' = [pc EXCEPT ![s] = "idle"] => InFlight' = InFlight \ {Value(s)}
           /\ pc' = [pc EXCEPT ![s] = "blocked"] => InFlight' = InFlight
<1>1. /\ sent \in [Senders -> 0 .. MaxSends] /\ pc \in [Threads -> {"idle", "blocked"}]
      /\ MaxSends \in Nat /\ Senders \subseteq Threads
  BY ChannelAssumption DEF TypeOK, Threads
<1>2. Value(s) = <<s, sent[s]>>
  BY DEF Value
<1>3. Value(s) \in Values /\ Value(s) \in InFlight /\ Sent' = Sent
  BY <1>1, <1>2 DEF Values, InFlight, Sent
<1>4. ASSUME pc' = [pc EXCEPT ![s] = "idle"] PROVE InFlight' = InFlight \ {Value(s)}
  <2>1. pc'[s] # "blocked" /\ \A u \in Senders : u # s => pc'[u] = pc[u]
    BY <1>1, <1>4
  <2> QED
    BY <1>2, <2>1 DEF InFlight
<1>5. ASSUME pc' = [pc EXCEPT ![s] = "blocked"] PROVE InFlight' = InFlight
  <2>1. pc' = pc
    BY <1>1, <1>5
  <2> QED
    BY <2>1 DEF InFlight
<1> QED
  BY <1>3, <1>4, <1>5

\* A step of send: the value goes into the queue, is dropped, or stays or gets in
\* flight.
LEMMA SendOnce ==
    ASSUME TypeOK, OnceInv, NEW s \in Senders, SendLoop(s) \/ Refuse(s), got' = got,
           Value(s) \in Values,
           \/ /\ Value(s) \notin Sent /\ Sent' = Sent \cup {Value(s)}
              /\ pc' = [pc EXCEPT ![s] = "idle"] => InFlight' = InFlight
              /\ pc' = [pc EXCEPT ![s] = "blocked"] => InFlight' = InFlight \cup {Value(s)}
           \/ /\ Value(s) \in InFlight /\ Sent' = Sent
              /\ pc' = [pc EXCEPT ![s] = "idle"] => InFlight' = InFlight \ {Value(s)}
              /\ pc' = [pc EXCEPT ![s] = "blocked"] => InFlight' = InFlight
    PROVE  OnceInv'
<1>1. Value(s) \notin ToSet(Contents) /\ Value(s) \notin ToSet(got) /\ Value(s) \notin refused
  BY DEF OnceInv, Places
<1>2. CASE Push(s)
  <2>1. Contents' = Append(Contents, Value(s))
    BY <1>2, PushStep DEF Push
  <2>2. Once(Contents') /\ ToSet(Contents)' = ToSet(Contents) \cup {Value(s)}
    BY <1>1, <2>1, QueueFacts, AppendOnce DEF OnceInv
  <2>3. refused' = refused /\ pc' = [pc EXCEPT ![s] = "idle"]
    BY <1>2 DEF Push
  <2>4. Places(ToSet(Contents)', ToSet(got), refused, InFlight', Sent')
    BY <1>1, <2>2, <2>3 DEF OnceInv, Places
  <2> QED
    BY <2>2, <2>3, <2>4 DEF OnceInv
<1>3. CASE Refuse(s)
  <2>1. Contents' = Contents /\ refused' = refused \cup {Value(s)} /\ pc' = [pc EXCEPT ![s] = "idle"]
    BY <1>3 DEF Refuse, queue_vars, Contents
  <2>2. Places(ToSet(Contents), ToSet(got), refused', InFlight', Sent')
    BY <1>1, <2>1 DEF OnceInv, Places
  <2> QED
    BY <2>1, <2>2 DEF OnceInv
<1>4. CASE WaitNotFull(s)
  <2>1. Contents' = Contents /\ refused' = refused /\ pc' = [pc EXCEPT ![s] = "blocked"]
    BY <1>4 DEF WaitNotFull, queue_vars, Contents
  <2>2. Places(ToSet(Contents), ToSet(got), refused, InFlight', Sent')
    BY <1>1, <2>1 DEF OnceInv, Places
  <2> QED
    BY <2>1, <2>2 DEF OnceInv
<1> QED
  BY <1>2, <1>3, <1>4 DEF SendLoop

\* A step of recv moves one value from the queue to the receiver, or none.
LEMMA RecvOnce ==
    ASSUME TypeOK, OnceInv, RecvLoop, UNCHANGED <<sent, refused>>
    PROVE  OnceInv'
<1>1. InFlight' = InFlight /\ Sent' = Sent
  <2>1. \A u \in Senders : pc'[u] = pc[u]
    BY ChannelAssumption DEF RecvLoop, Pop, RecvReturnsNone, WaitNotEmpty, TypeOK, Threads
  <2> QED
    BY <2>1 DEF InFlight, Sent
<1>2. CASE QueueLen > 0 /\ Pop
  <2>1. /\ Contents # <<>> /\ got' = Append(got, Head(Contents)) /\ Contents' = Tail(Contents)
        /\ Contents \in Seq(Values) /\ got \in Seq(Values)
    BY <1>2, PopStep, QueueFacts DEF Pop, TypeOK
  <2>2. /\ Once(Contents') /\ ToSet(Contents)' = ToSet(Contents) \ {Head(Contents)}
        /\ Head(Contents) \in ToSet(Contents) /\ Head(Contents) \in Values
    BY <2>1, TailOnce DEF OnceInv
  <2>3. Head(Contents) \notin ToSet(got)
    BY <2>2 DEF OnceInv, Places
  <2>4. Once(got') /\ ToSet(got)' = ToSet(got) \cup {Head(Contents)}
    BY <2>1, <2>2, <2>3, AppendOnce DEF OnceInv
  <2>5. Places(ToSet(Contents)', ToSet(got)', refused, InFlight, Sent)
    BY <2>2, <2>4 DEF OnceInv, Places
  <2> QED
    BY <1>1, <2>2, <2>4, <2>5 DEF OnceInv
<1>3. CASE RecvReturnsNone \/ WaitNotEmpty
  BY <1>1, <1>3 DEF RecvReturnsNone, WaitNotEmpty, queue_vars, Contents, OnceInv
<1> QED
  BY <1>2, <1>3 DEF RecvLoop

LEMMA InitOnce == Init => OnceInv
<1> SUFFICES ASSUME Init PROVE OnceInv
  OBVIOUS
<1>1. Contents = <<>> /\ got = <<>>
  BY InitFifo DEF Init, Fifo!Init
<1>2. Len(<<>>) = 0 /\ 1 .. 0 = {} /\ ToSet(<<>>) = {}
  <2>1. <<>> \in Seq(Values) /\ Len(<<>>) = 0 /\ 1 .. 0 = {}
    BY EmptySeq
  <2> QED
    BY <2>1, ToSetIs
<1>3. InFlight = {} /\ Sent = {}
  BY ChannelAssumption DEF Init, InFlight, Sent, Values, Threads
<1> QED
  BY <1>1, <1>2, <1>3 DEF OnceInv, Once, Places, Init

LEMMA NextOnce == IInv /\ OnceInv /\ [Next]_vars => OnceInv'
<1> SUFFICES ASSUME IInv, OnceInv, [Next]_vars PROVE OnceInv'
  OBVIOUS
<1>0. TypeOK
  BY DEF IInv
<1>1. ASSUME NEW s \in Senders, Send(s) PROVE OnceInv'
  <2>1. /\ pc[s] = "idle" /\ sent[s] < MaxSends /\ sent' = [sent EXCEPT ![s] = @ + 1]
        /\ SendLoop(s) \/ Refuse(s)
        /\ got' = got
    BY <1>1 DEF Send, Holds
  <2> QED
    BY <1>0, <2>1, NewValue, SendOnce
<1>2. ASSUME NEW s \in Senders, ResumeSend(s) PROVE OnceInv'
  <2>1. pc[s] = "blocked" /\ sent' = sent /\ SendLoop(s) /\ got' = got /\ sent[s] > 0
    BY <1>2 DEF ResumeSend, Woken, IInv, BlockedHolds, Threads
  <2> QED
    BY <1>0, <2>1, OldValue, SendOnce
<1>3. CASE Recv \/ ResumeRecv \/ TryRecv
  BY <1>0, <1>3, RecvOnce DEF Recv, ResumeRecv, TryRecv, RecvLoop
<1>4. CASE \/ \E s \in Senders : DropSender(s)
           \/ \E s, t \in Senders : Clone(s, t)
           \/ DropReceiver \/ SpuriousWake \/ UNCHANGED vars
  <2>1. Contents' = Contents /\ UNCHANGED <<pc, sent, got, refused>>
    BY <1>4 DEF DropSender, Clone, DropReceiver, SpuriousWake, vars, queue_vars, Contents
  <2> QED
    BY <2>1 DEF OnceInv, InFlight, Sent
<1> QED
  BY <1>1, <1>2, <1>3, <1>4 DEF Next

\* No value passed to send is lost or duplicated, for any number of senders, any
\* capacity and any wake-up: it is with its blocked sender, in the queue, with the
\* receiver or dropped with an error, and in one of these only.
THEOREM NothingLostOrTwice == Spec => []EachValueOnce
<1>1. TypeOK /\ OnceInv => EachValueOnce
  <2> SUFFICES ASSUME TypeOK, OnceInv PROVE EachValueOnce
    OBVIOUS
  <2>1. Contents \in Seq(Values) /\ got \in Seq(Values)
    BY QueueFacts DEF TypeOK
  <2>2. ToSet(Contents) \cap ToSet(got) = {}
    BY DEF OnceInv, Places
  <2>3. /\ ToSet(Contents \o got) = ToSet(Contents) \cup ToSet(got)
        /\ \A i, j \in DOMAIN (Contents \o got) :
               (Contents \o got)[i] = (Contents \o got)[j] => i = j
    BY <2>1, <2>2, ConcatOnce DEF OnceInv
  <2> QED
    BY <2>3 DEF OnceInv, Places, EachValueOnce, Sent
<1>2. IInv => TypeOK
  BY DEF IInv
<1> QED
  BY <1>1, <1>2, IInvHolds, InitOnce, NextOnce, PTL DEF Spec
=============================================================================
